----------------------------- MODULE EventQueue -----------------------------
(***************************************************************************)
(* The linked queue of tools/recordLib/eventQueue.cpp: heap nodes chained  *)
(* behind a dummy head, a photo block owned by every queued node, and the  *)
(* separately kept counter queueNum.  One action per queue function; the   *)
(* caller serialises them with g_queueMutex, so each is atomic.            *)
(***************************************************************************)
EXTENDS Naturals, Sequences, FiniteSets, LinkedList

CONSTANTS Nodes,        \* addresses Malloc(sizeof(QNode)) can return
          Elems,        \* operate_event_t values
          NoElem,       \* an element nobody queued
          NULL,
          MaxCount      \* bound of the model on queueNum

ASSUME QueueAssumption ==
    /\ IsFiniteSet(Nodes) /\ NULL \notin Nodes
    /\ NoElem \notin Elems
    /\ MaxCount \in Nat

VARIABLES front, rear,  \* Q->front (the dummy head) and Q->rear
          next, data,   \* the fields of each node
          live,         \* nodes allocated and not freed
          photos,       \* nodes whose data.pFileData block is allocated
          queueNum,     \* Q->queueNum
          elem,         \* *e, the element the caller hands to DeQueue
          cleared       \* history: ClearQueue has been called

vars == <<front, rear, next, data, live, photos, queueNum, elem, cleared>>

Init ==
    \* InitQueue, with memory: the dummy head has no photo block
    \E h \in Nodes :
        /\ front = h /\ rear = h
        /\ next = [n \in Nodes |-> NULL]
        /\ data = [n \in Nodes |-> NoElem]
        /\ live = {h}
        /\ photos = {}
        /\ queueNum = 0
        /\ elem = NoElem
        /\ cleared = FALSE

\* Append a node holding e; when Malloc fails nothing is queued and the caller is not told.
\* (The second Malloc, for the photo, is not tested: without memory the process dies there.)
EnQueue(e) ==
    /\ front # NULL
    /\ queueNum < MaxCount
    /\ \/ \E p \in Nodes \ live :
            /\ live' = live \cup {p}
            /\ data' = [data EXCEPT ![p] = e]
            /\ photos' = photos \cup {p}
            /\ next' = [next EXCEPT ![p] = NULL, ![rear] = p]
            /\ rear' = p
            /\ queueNum' = queueNum + 1
            /\ UNCHANGED <<front, elem, cleared>>
       \/ UNCHANGED vars

\* Mutation: the test "rear == p" is dropped.
RearKept(p) == rear

\* When the last node goes, rear falls back to the dummy head.
RearAfterUnlink(p) == IF rear = p THEN front ELSE rear

\* The photo is copied into the caller's buffer and its block freed.  A caller without a
\* buffer would leave the block to nobody; the only one, the saver, always has one.
PhotosAfterUnlink(p) == photos \ {p}

CountAfterUnlink == queueNum - 1

\* Mutation: the element is not copied out.
ElemKept(p) == elem

ElemOf(p) == data[p]

\* Unlink and free the first node.
DeQueue ==
    /\ front # NULL
    /\ front # rear
    /\ LET p == next[front]
       IN  /\ p # NULL
           /\ elem' = ElemOf(p)
           /\ photos' = PhotosAfterUnlink(p)
           /\ next' = [next EXCEPT ![front] = next[p]]
           /\ rear' = RearAfterUnlink(p)
           /\ live' = live \ {p}
           /\ queueNum' = CountAfterUnlink
    /\ UNCHANGED <<front, data, cleared>>

\* The node n links behind p, NULL from the end of the list on.
Walk(p, links) == Follow(p, links, NULL, Cardinality(Nodes))

\* The nodes linked behind p, in order.
Chain(p, links) ==
    [i \in 1..Cardinality({n \in 1..Cardinality(Nodes) : Walk(p, links)[n] # NULL}) |->
        Walk(p, links)[i]]

Behind == Chain(front, next)

\* Free every node behind the dummy head.  queueNum is not touched.
ClearQueue ==
    /\ front # NULL
    /\ LET freed == {Behind[i] : i \in DOMAIN Behind}
       IN  /\ live' = live \ freed
           /\ photos' = photos \ freed
    /\ next' = [next EXCEPT ![front] = NULL]
    /\ rear' = front
    /\ cleared' = TRUE
    /\ UNCHANGED <<front, data, queueNum, elem>>

\* Free every node, the dummy head included; front and rear end up NULL.
DestroyQueue ==
    /\ front # NULL
    /\ LET freed == {front} \cup {Behind[i] : i \in DOMAIN Behind}
       IN  /\ live' = live \ freed
           /\ photos' = photos \ freed
    /\ front' = NULL /\ rear' = NULL
    /\ UNCHANGED <<next, data, queueNum, elem, cleared>>

Next ==
    \/ \E e \in Elems : EnQueue(e)
    \/ DeQueue
    \/ ClearQueue
    \/ DestroyQueue

Spec == Init /\ [][Next]_vars
-----------------------------------------------------------------------------
\* QueueLength: steps from front until rear.
QueueLength ==
    CHOOSE n \in 0..Cardinality(Nodes) :
        Walk(front, next)[n] = rear /\ \A m \in 0..(n - 1) : Walk(front, next)[m] # rear

\* GetQueueElemNum: the counter, unless the list is empty.
GetQueueElemNum == IF next[front] # NULL THEN queueNum ELSE 0

Contents == [i \in DOMAIN Behind |-> data[Behind[i]]]

-----------------------------------------------------------------------------
(* The values of the variables; queueNum, decremented by DeQueue, never    *)
(* goes below zero.                                                        *)
TypeOK ==
    /\ {front, rear} \subseteq Nodes \cup {NULL}
    /\ next \in [Nodes -> Nodes \cup {NULL}]
    /\ data \in [Nodes -> Elems \cup {NoElem}]
    /\ photos \subseteq live /\ live \subseteq Nodes
    /\ queueNum \in Nat
    /\ elem \in Elems \cup {NoElem}
    /\ cleared \in BOOLEAN

(* The heap is exactly the list: every allocated node is the dummy head or *)
(* linked behind it, the queued nodes and no others own a photo block, and *)
(* rear is the last node.  EnQueue writes through rear, DeQueue and the    *)
(* two clean-up functions free nodes: a stale rear, a leak or a node freed *)
(* while linked breaks it.  As long as nobody calls ClearQueue, which      *)
(* leaves queueNum as it was (recordLib.cpp never calls it), the batch     *)
(* size that the saver thread reads is the number of queued elements.      *)
HeapIsList ==
    LET queued == {Behind[i] : i \in DOMAIN Behind}
    IN  /\ TypeOK
        /\ live = queued \cup ({front} \ {NULL})
        /\ photos = queued
        /\ rear = IF Behind = <<>> THEN front ELSE Behind[Len(Behind)]
        /\ front # NULL /\ ~cleared => GetQueueElemNum = QueueLength

(* The linked queue implements the FIFO queue: enqueue order is dequeue    *)
(* order, nothing is duplicated, and elements vanish only in ClearQueue    *)
(* and DestroyQueue or when Malloc fails.                                  *)
Fifo == INSTANCE FifoQueue WITH items <- Contents
FifoSpec == Fifo!Spec
=============================================================================
