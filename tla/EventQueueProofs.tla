-------------------------- MODULE EventQueueProofs --------------------------
(***************************************************************************)
(* The linked queue of eventQueue.cpp, for any number of heap nodes: the   *)
(* heap is exactly the list (HeapIsList), and the list implements the FIFO *)
(* queue its users rely on (FifoSpec).  A list is described by the         *)
(* sequence of its nodes, the dummy head first; what Walk, Chain and       *)
(* QueueLength compute from the links follows from the lemmas on lists.    *)
(***************************************************************************)
EXTENDS EventQueue, FiniteSetTheorems, SequenceTheorems, TLAPS

(* A leaf is Zenon's unless it names other provers.                        *)
USE Zenon

(***************************************************************************)
(* What following the links of a list leads to, for lists of any length.   *)
(* The proofs are by induction on the number of links followed.            *)
(***************************************************************************)
(* Induction over the naturals, with the induction hypothesis as a set.    *)
LEMMA Induction ==
    ASSUME NEW S, 0 \in S, \A n \in Nat : n \in S => n + 1 \in S
    PROVE  \A n \in Nat : n \in S
<1> SUFFICES ASSUME NEW k \in Nat, k \notin S PROVE FALSE
  OBVIOUS
<1> DEFINE T == {n \in Nat : n \notin S}
<1>1. PICK x \in T : \A y \in T : ~ (<<y, x>> \in OpToRel(<, Nat))
  <2>1. T \subseteq Nat /\ T # {}
    OBVIOUS
  <2> QED BY <2>1, WFMin, NatLessThanWellFounded
<1>2. x # 0 /\ x \in Nat
  OBVIOUS
<1>3. x - 1 \in Nat /\ x - 1 \notin S
  <2>1. x - 1 \in Nat /\ x = (x - 1) + 1
    BY <1>2, SMTT(30), Z3T(30)
  <2> QED BY <2>1
<1>4. <<x - 1, x>> \in Nat \X Nat /\ <<x - 1, x>>[1] < <<x - 1, x>>[2]
  BY <1>2, <1>3, SMTT(30), Z3T(30)
<1>5. <<x - 1, x>> \in OpToRel(<, Nat)
  BY <1>4 DEF OpToRel
<1> QED BY <1>1, <1>3, <1>5

(* One link further: what Follow does, as an equation.                     *)
Further(node, n, p, links, nil) ==
    IF n = 0 THEN p ELSE IF node[n - 1] = nil THEN nil ELSE links[node[n - 1]]

\* node is a walk of m links from p.
IsWalk(node, m, p, links, nil) == node = [n \in 0..m |-> Further(node, n, p, links, nil)]

(* The recursion of Follow has a solution on every initial segment.        *)
LEMMA FollowExists ==
    ASSUME NEW p, NEW links, NEW nil, NEW m \in Nat
    PROVE  \E node : IsWalk(node, m, p, links, nil)
<1> DEFINE S == {k \in Nat : \E node : IsWalk(node, k, p, links, nil)}
<1>1. 0 \in S
  <2> DEFINE one == [n \in 0..0 |-> p]
  <2>1. one = [n \in 0..0 |-> Further(one, n, p, links, nil)]
    BY SMTT(30), Z3T(30) DEF Further
  <2> HIDE DEF one
  <2> QED BY <2>1 DEF IsWalk
<1>2. ASSUME NEW k \in Nat, k \in S PROVE k + 1 \in S
  <2>1. PICK node : node = [n \in 0..k |-> Further(node, n, p, links, nil)]
    BY <1>2 DEF IsWalk
  <2> DEFINE more == [n \in 0..(k + 1) |-> IF n = k + 1 THEN Further(node, k + 1, p, links, nil) ELSE node[n]]
  <2>2. ASSUME NEW n \in 0..(k + 1) PROVE more[n] = Further(more, n, p, links, nil)
    <3>1. CASE n = 0
      BY <3>1, <2>1, SMTT(30), Z3T(30) DEF Further
    <3>2. CASE n # 0
      <4>1. n - 1 \in 0..k /\ more[n - 1] = node[n - 1]
        BY <3>2, SMTT(30), Z3T(30)
      <4>2. Further(more, n, p, links, nil) = Further(node, n, p, links, nil)
        BY <3>2, <4>1, SMTT(30), Z3T(30) DEF Further
      <4>3. more[n] = Further(node, n, p, links, nil)
        BY <2>1, SMTT(30), Z3T(30)
      <4> QED BY <4>2, <4>3
    <3> QED BY <3>1, <3>2
  <2>3. more = [n \in 0..(k + 1) |-> Further(more, n, p, links, nil)]
    BY <2>2
  <2> HIDE DEF more
  <2> QED BY <2>3, SMTT(30), Z3T(30) DEF IsWalk
<1> HIDE DEF S
<1>3. m \in S
  BY <1>1, <1>2, Induction
<1> QED BY <1>3 DEF S

(* Follow satisfies its defining equation.                                 *)
LEMMA FollowStep ==
    ASSUME NEW p, NEW links, NEW nil, NEW k \in Nat
    PROVE  \A n \in 0..k : Follow(p, links, nil, k)[n] =
                               Further(Follow(p, links, nil, k), n, p, links, nil)
<1> DEFINE W == Follow(p, links, nil, k)
<1>1. \E node : IsWalk(node, k, p, links, nil)
  BY FollowExists
<1>2. W = CHOOSE node : IsWalk(node, k, p, links, nil)
  BY DEF Follow, IsWalk, Further
<1> HIDE DEF W
<1>3. IsWalk(W, k, p, links, nil)
  BY <1>1, <1>2
<1>4. \A n \in 0..k : W[n] = Further(W, n, p, links, nil)
  BY <1>3 DEF IsWalk
<1> QED BY <1>4 DEF W

(* A list has no more nodes than the heap it lies in.                      *)
LEMMA ListFits ==
    ASSUME NEW nodes, IsFiniteSet(nodes), NEW nil, NEW p, NEW links,
           NEW s \in Seq(nodes), IsList(s, p, links, nil)
    PROVE  Len(s) \in 1..Cardinality(nodes) /\ Cardinality(nodes) \in Nat
<1>1. Len(s) \in Nat /\ Len(s) > 0 /\ s \in [1..Len(s) -> nodes]
  BY SMTT(30), Z3T(30) DEF IsList
<1>2. s \in Injection(1..Len(s), nodes)
  BY <1>1 DEF IsList, Injection, IsInjective
<1>3. Cardinality(1..Len(s)) = Len(s)
  BY <1>1, FS_Interval, SMTT(30), Z3T(30)
<1>4. Cardinality(1..Len(s)) <= Cardinality(nodes)
  BY <1>2, FS_Injection
<1>5. Cardinality(nodes) \in Nat
  BY FS_CardinalityType
<1> QED BY <1>1, <1>3, <1>4, <1>5, SMTT(30), Z3T(30)

(* Following n links leads to the node n places behind the first.          *)
LEMMA FollowOnList ==
    ASSUME NEW nodes, NEW nil, nil \notin nodes, NEW p, NEW links, NEW k \in Nat,
           NEW s \in Seq(nodes), IsList(s, p, links, nil)
    PROVE  \A n \in 0..k : Follow(p, links, nil, k)[n] = IF n < Len(s) THEN s[n + 1] ELSE nil
<1> DEFINE W == Follow(p, links, nil, k)
           Right(n) == n \in 0..k => W[n] = IF n < Len(s) THEN s[n + 1] ELSE nil
           S == {n \in Nat : Right(n)}
<1>1. Len(s) \in Nat /\ Len(s) > 0 /\ \A i \in 1..Len(s) : s[i] \in nodes
  BY SMTT(30), Z3T(30) DEF IsList
<1>2. \A n \in 0..k : W[n] = Further(W, n, p, links, nil)
  BY FollowStep
<1> HIDE DEF W
<1>3. Right(0)
  BY <1>1, <1>2, SMTT(30), Z3T(30) DEF Further, IsList
<1>4. ASSUME NEW n \in Nat, Right(n) PROVE Right(n + 1)
  <2> SUFFICES ASSUME n + 1 \in 0..k
               PROVE  W[n + 1] = IF n + 1 < Len(s) THEN s[n + 2] ELSE nil
    BY SMTT(30), Z3T(30)
  <2>1. n \in 0..k /\ W[n] = IF n < Len(s) THEN s[n + 1] ELSE nil
    BY <1>1, <1>4, SMTT(30), Z3T(30)
  <2>2. W[n + 1] = IF W[n] = nil THEN nil ELSE links[W[n]]
    BY <1>2, SMTT(30), Z3T(30) DEF Further
  <2>3. CASE n < Len(s)
    <3>1. n + 1 \in 1..Len(s) /\ s[n + 1] # nil
      BY <1>1, <2>3, SMTT(30), Z3T(30)
    <3>2. W[n + 1] = links[s[n + 1]]
      BY <2>1, <2>2, <2>3, <3>1
    <3>3. CASE n + 1 < Len(s)
      BY <1>1, <3>1, <3>2, <3>3, SMTT(30), Z3T(30) DEF IsList
    <3>4. CASE n + 1 = Len(s)
      BY <3>2, <3>4, SMTT(30), Z3T(30) DEF IsList
    <3> QED BY <1>1, <3>1, <3>3, <3>4, SMTT(30), Z3T(30)
  <2>4. CASE ~(n < Len(s))
    BY <1>1, <2>1, <2>2, <2>4, SMTT(30), Z3T(30)
  <2> QED BY <2>3, <2>4
<1>5. 0 \in S /\ \A n \in Nat : n \in S => n + 1 \in S
  BY <1>3, <1>4, SMTT(30), Z3T(30)
<1> HIDE DEF Right
<1>6. \A n \in Nat : n \in S
  BY <1>5, Induction
<1> QED BY <1>6, SMTT(30), Z3T(30) DEF Right, W

(* Nothing is linked behind a null pointer.                                *)
LEMMA FollowNil ==
    ASSUME NEW links, NEW nil, NEW k \in Nat
    PROVE  \A n \in 0..k : Follow(nil, links, nil, k)[n] = nil
<1> DEFINE W == Follow(nil, links, nil, k)
           S == {n \in Nat : n \in 0..k => W[n] = nil}
<1>1. \A n \in 0..k : W[n] = Further(W, n, nil, links, nil)
  BY FollowStep
<1> HIDE DEF W
<1>2. 0 \in S /\ \A n \in Nat : n \in S => n + 1 \in S
  BY <1>1, SMTT(30), Z3T(30) DEF Further
<1>3. \A n \in Nat : n \in S
  BY <1>2, Induction
<1> QED BY <1>3, SMTT(30), Z3T(30) DEF W
-----------------------------------------------------------------------------

Size == Cardinality(Nodes)

\* The heap is finite, so that the number of its nodes is a natural number.
LEMMA SizeIsNat == Size \in Nat
BY QueueAssumption, FS_CardinalityType DEF Size

\* s lists the nodes of the heap from the dummy head p on.
ListFrom(s, p, links) == s \in Seq(Nodes) /\ IsList(s, p, links, NULL)

(* A list has no more nodes than the heap.                                 *)
LEMMA HeapFits ==
    ASSUME NEW s, NEW p, NEW links, ListFrom(s, p, links)
    PROVE  Len(s) \in 1..Size
BY ListFits, QueueAssumption DEF ListFrom, Size

(* Following n links leads to the node n places behind the first.          *)
LEMMA WalkOnList ==
    ASSUME NEW s, NEW p, NEW links, ListFrom(s, p, links)
    PROVE  \A n \in 0..Size : Walk(p, links)[n] = IF n < Len(s) THEN s[n + 1] ELSE NULL
BY FollowOnList, SizeIsNat, QueueAssumption, SMTT(30), Z3T(30) DEF ListFrom, Walk, Size

(* The nodes behind the dummy head are the list without its first node.    *)
LEMMA ChainOfList ==
    ASSUME NEW s, NEW p, NEW links, ListFrom(s, p, links)
    PROVE  Chain(p, links) = [i \in 1..(Len(s) - 1) |-> s[i + 1]]
<1> DEFINE W == Walk(p, links)
           reached == {n \in 1..Cardinality(Nodes) : W[n] # NULL}
<1>1. Len(s) \in Nat /\ Len(s) \in 1..Size /\ Size \in Nat /\ \A i \in 1..Len(s) : s[i] \in Nodes
  <2>1. Len(s) \in 1..Size /\ Size \in Nat
    BY SizeIsNat, HeapFits
  <2>2. s \in Seq(Nodes)
    BY DEF ListFrom, IsList
  <2>3. Len(s) \in Nat /\ \A i \in 1..Len(s) : s[i] \in Nodes
    BY ONLY <2>2, SMTT(30), Z3T(30)
  <2> QED BY <2>1, <2>3
<1>2. \A n \in 0..Size : W[n] = IF n < Len(s) THEN s[n + 1] ELSE NULL
  BY WalkOnList
<1> HIDE DEF W
<1>3. reached = 1..(Len(s) - 1)
  BY <1>1, <1>2, QueueAssumption, SMTT(30), Z3T(30) DEF Size
<1>4. Cardinality(1..(Len(s) - 1)) = Len(s) - 1
  BY <1>1, FS_Interval, SMTT(30), Z3T(30)
<1>5. Chain(p, links) = [i \in 1..(Len(s) - 1) |-> W[i]]
  BY <1>3, <1>4 DEF Chain, W
<1>6. \A i \in 1..(Len(s) - 1) : W[i] = s[i + 1]
  BY <1>1, <1>2, SMTT(30), Z3T(30)
<1> QED BY <1>5, <1>6

(* Nothing is linked behind a null pointer.                                *)
LEMMA ChainOfNull ==
    ASSUME NEW links
    PROVE  Chain(NULL, links) = <<>>
<1> DEFINE W == Walk(NULL, links)
           reached == {n \in 1..Cardinality(Nodes) : W[n] # NULL}
<1>1. \A n \in 0..Size : W[n] = NULL
  BY FollowNil, SizeIsNat DEF Walk, Size
<1> HIDE DEF W
<1>2. reached = {}
  BY <1>1, SizeIsNat, SMTT(30), Z3T(30) DEF Size
<1>3. Chain(NULL, links) = [i \in 1..0 |-> W[i]]
  BY <1>2, FS_EmptySet DEF Chain, W
<1> QED BY <1>3, SMTT(30), Z3T(30)
-----------------------------------------------------------------------------
\* The heap holds the list s and nothing else; ClearQueue may have left the
\* counter too high.
HeapHolds(s) ==
    /\ ListFrom(s, front, next) /\ rear = s[Len(s)]
    /\ live = {s[i] : i \in 1..Len(s)} /\ photos = {s[i] : i \in 2..Len(s)}
    /\ Len(s) - 1 <= queueNum /\ (~cleared => queueNum = Len(s) - 1)

\* DestroyQueue was called.
Destroyed == front = NULL /\ rear = NULL /\ live = {} /\ photos = {}

QueueInv == TypeOK /\ (Destroyed \/ \E s : HeapHolds(s))

\* What the operations leave of the list: all but the oldest element, and the
\* dummy head alone.
Rest(s) == [i \in 1..(Len(s) - 1) |-> IF i = 1 THEN s[1] ELSE s[i + 1]]

(* Facts about a list used in all that follows.                            *)
LEMMA ListFacts ==
    ASSUME NEW s, HeapHolds(s)
    PROVE  /\ s \in Seq(Nodes) /\ Len(s) \in Nat /\ Len(s) > 0
           /\ \A i \in 1..Len(s) : s[i] \in Nodes /\ s[i] # NULL
           /\ front = s[1] /\ front # NULL
           /\ (front # rear <=> Len(s) > 1)
           /\ Len(s) > 1 => next[front] = s[2]
<1>1. s \in Seq(Nodes) /\ Len(s) \in Nat /\ Len(s) > 0 /\ front = s[1]
  BY SMTT(30), Z3T(30) DEF HeapHolds, ListFrom, IsList
<1>2. \A i \in 1..Len(s) : s[i] \in Nodes /\ s[i] # NULL
  BY <1>1, QueueAssumption, SMTT(30), Z3T(30)
<1>3. front # rear <=> Len(s) > 1
  BY <1>1, SMTT(30), Z3T(30) DEF HeapHolds, ListFrom, IsList
<1>4. Len(s) > 1 => next[front] = s[2]
  BY <1>1, SMTT(30), Z3T(30) DEF HeapHolds, ListFrom, IsList
<1> QED BY <1>1, <1>2, <1>3, <1>4, SMTT(30), Z3T(30)

(* EnQueue puts the new node behind the last.                              *)
LEMMA EnQueueList ==
    ASSUME TypeOK, NEW s, HeapHolds(s), NEW p \in Nodes \ live,
           next' = [next EXCEPT ![p] = NULL, ![rear] = p], front' = front, rear' = p,
           live' = live \cup {p}, photos' = photos \cup {p},
           queueNum' = queueNum + 1, cleared' = cleared
    PROVE  HeapHolds(Append(s, p))'
<1> DEFINE t == Append(s, p)
<1>1. s \in Seq(Nodes) /\ Len(s) \in Nat /\ Len(s) > 0 /\ \A i \in 1..Len(s) : s[i] \in Nodes
  BY ListFacts
<1>2. t \in Seq(Nodes) /\ Len(t) = Len(s) + 1 /\ t[Len(t)] = p /\ \A i \in 1..Len(s) : t[i] = s[i]
  BY <1>1, SMTT(30), Z3T(30)
<1> HIDE DEF t
<1>3. \A i \in 1..Len(s) : s[i] # p
  BY DEF HeapHolds
<1>4. rear = s[Len(s)] /\ rear \in Nodes /\ rear # p
  BY <1>1, <1>3, SMTT(30), Z3T(30) DEF HeapHolds
<1>5. next'[p] = NULL /\ next'[rear] = p /\ \A n \in Nodes : n # p /\ n # rear => next'[n] = next[n]
  BY <1>4 DEF TypeOK
<1>6. \A i, j \in 1..Len(t) : t[i] = t[j] => i = j
  <2>1. \A i, j \in 1..Len(s) : s[i] = s[j] => i = j
    BY DEF HeapHolds, ListFrom, IsList
  <2> SUFFICES ASSUME NEW i \in 1..Len(t), NEW j \in 1..Len(t), t[i] = t[j] PROVE i = j
    OBVIOUS
  <2>2. \A n \in 1..Len(t) : n = Len(t) \/ n \in 1..Len(s)
    BY <1>1, <1>2, SMTT(30), Z3T(30)
  <2>3. CASE i = Len(t)
    BY <1>2, <1>3, <2>2, <2>3
  <2>4. CASE i \in 1..Len(s)
    BY <1>2, <1>3, <2>1, <2>2, <2>4
  <2> QED BY <2>2, <2>3, <2>4
<1>7. \A i \in 1..(Len(t) - 1) : next'[t[i]] = t[i + 1]
  <2> SUFFICES ASSUME NEW i \in 1..(Len(t) - 1) PROVE next'[t[i]] = t[i + 1]
    OBVIOUS
  <2>0. i \in 1..Len(s) /\ t[i] = s[i]
    BY <1>1, <1>2, SMTT(30), Z3T(30)
  <2>1. CASE i = Len(s)
    BY <1>2, <1>4, <1>5, <2>0, <2>1
  <2>2. CASE i < Len(s)
    <3>1. s[i] # rear /\ s[i] # p /\ s[i] \in Nodes
      BY <1>1, <1>3, <1>4, <2>0, <2>2, SMTT(30), Z3T(30) DEF HeapHolds, ListFrom, IsList
    <3>2. next[s[i]] = s[i + 1] /\ t[i + 1] = s[i + 1]
      BY <1>1, <1>2, <2>0, <2>2, SMTT(30), Z3T(30) DEF HeapHolds, ListFrom, IsList
    <3> QED BY <1>5, <2>0, <3>1, <3>2
  <2> QED BY <1>1, <2>0, <2>1, <2>2, SMTT(30), Z3T(30)
<1>8. ListFrom(t, front, next')
  <2>1. t[1] = front
    BY <1>1, <1>2, SMTT(30), Z3T(30) DEF HeapHolds, ListFrom, IsList
  <2>2. t \in Seq(Nodes) /\ Len(t) > 0
    BY <1>1, <1>2, SMTT(30), Z3T(30)
  <2>3. next'[t[Len(t)]] = NULL
    BY <1>2, <1>5
  <2> QED BY <1>6, <1>7, <2>1, <2>2, <2>3 DEF ListFrom, IsList
<1>9. live' = {t[i] : i \in 1..Len(t)} /\ photos' = {t[i] : i \in 2..Len(t)}
  BY <1>1, <1>2, SMTT(30), Z3T(30) DEF HeapHolds
<1>10. Len(t) - 1 <= queueNum + 1 /\ (~cleared => queueNum + 1 = Len(t) - 1)
  BY <1>1, <1>2, SMTT(30), Z3T(30) DEF HeapHolds, TypeOK
<1> QED BY <1>2, <1>8, <1>9, <1>10 DEF HeapHolds, t

(* DeQueue takes out the first element; when it was the only one, rear     *)
(* falls back to the dummy head.                                           *)
LEMMA DeQueueList ==
    ASSUME TypeOK, NEW s, HeapHolds(s), DeQueue
    PROVE  Len(s) > 1 /\ HeapHolds(Rest(s))'
<1> DEFINE t == Rest(s)
           p == next[front]
<1>1. s \in Seq(Nodes) /\ Len(s) \in Nat /\ Len(s) > 1 /\ p = s[2] /\ front = s[1]
  BY ListFacts DEF DeQueue
<1>2. \A i \in 1..Len(s) : s[i] \in Nodes
  BY ListFacts
<1>3. t \in Seq(Nodes) /\ Len(t) = Len(s) - 1 /\ t[1] = s[1] /\ \A i \in 2..Len(t) : t[i] = s[i + 1]
  BY <1>1, <1>2, SMTT(30), Z3T(30) DEF Rest
<1> HIDE DEF t
<1>4. \A i, j \in 1..Len(s) : s[i] = s[j] => i = j
  BY DEF HeapHolds, ListFrom, IsList
<1>5. next' = [next EXCEPT ![front] = next[p]] /\ front' = front
  BY DEF DeQueue
<1>6. next'[s[1]] = next[s[2]] /\ \A i \in 2..Len(s) : next'[s[i]] = next[s[i]]
  BY <1>1, <1>2, <1>4, <1>5, SMTT(30), Z3T(30) DEF TypeOK
<1>7. \A i, j \in 1..Len(t) : t[i] = t[j] => i = j
  BY <1>1, <1>3, <1>4, SMTT(30), Z3T(30)
<1>8. \A i \in 1..(Len(t) - 1) : next'[t[i]] = t[i + 1]
  BY <1>1, <1>3, <1>6, SMTT(30), Z3T(30) DEF HeapHolds, ListFrom, IsList
<1>9. next'[t[Len(t)]] = NULL
  BY <1>1, <1>3, <1>6, SMTT(30), Z3T(30) DEF HeapHolds, ListFrom, IsList
<1>10. ListFrom(t, front, next')
  BY <1>1, <1>3, <1>7, <1>8, <1>9, SMTT(30), Z3T(30) DEF ListFrom, IsList
<1>11. rear' = t[Len(t)]
  <2>1. rear = s[Len(s)] /\ rear' = IF rear = p THEN front ELSE rear
    BY DEF DeQueue, RearAfterUnlink, HeapHolds
  <2>2. CASE Len(s) = 2
    BY <1>1, <1>3, <2>1, <2>2, SMTT(30), Z3T(30)
  <2>3. CASE Len(s) > 2
    BY <1>1, <1>3, <1>4, <2>1, <2>3, SMTT(30), Z3T(30)
  <2>4. Len(s) = 2 \/ Len(s) > 2
    <3>1. Len(s) \in Nat /\ Len(s) > 1
      BY <1>1
    <3> QED BY ONLY <3>1, SMTT(30), Z3T(30)
  <2> QED BY <2>2, <2>3, <2>4
<1>12. live' = {t[i] : i \in 1..Len(t)}
  <2>1. live' = {s[i] : i \in 1..Len(s)} \ {s[2]}
    BY <1>1 DEF DeQueue, HeapHolds
  <2>2. ASSUME NEW i \in 1..Len(s), s[i] # s[2] PROVE \E j \in 1..Len(t) : s[i] = t[j]
    <3>1. CASE i = 1
      BY <1>1, <1>3, <3>1, SMTT(30), Z3T(30)
    <3>2. CASE i > 2
      <4>1. i - 1 \in 2..Len(t) /\ t[i - 1] = s[i]
        BY <1>1, <1>3, <3>2, SMTT(30), Z3T(30)
      <4> QED BY <4>1, SMTT(30), Z3T(30)
    <3> QED BY <2>2, <3>1, <3>2, SMTT(30), Z3T(30)
  <2>3. ASSUME NEW j \in 1..Len(t) PROVE \E i \in 1..Len(s) : t[j] = s[i] /\ s[i] # s[2]
    <3>1. CASE j = 1
      BY <1>1, <1>3, <1>4, <3>1, SMTT(30), Z3T(30)
    <3>2. CASE j > 1
      BY <1>1, <1>3, <1>4, <3>2, SMTT(30), Z3T(30)
    <3> QED BY <3>1, <3>2, SMTT(30), Z3T(30)
  <2>4. live' \subseteq {t[i] : i \in 1..Len(t)}
    BY <2>1, <2>2, SMTT(30), Z3T(30)
  <2>5. {t[i] : i \in 1..Len(t)} \subseteq live'
    BY <2>1, <2>3, SMTT(30), Z3T(30)
  <2> QED BY <2>4, <2>5
<1>13. photos' = {t[i] : i \in 2..Len(t)}
  <2>1. photos' = {s[i] : i \in 2..Len(s)} \ {s[2]}
    BY <1>1 DEF DeQueue, PhotosAfterUnlink, HeapHolds
  <2>2. ASSUME NEW i \in 2..Len(s), s[i] # s[2] PROVE \E j \in 2..Len(t) : s[i] = t[j]
    <3>1. i > 2 /\ i - 1 \in 2..Len(t) /\ t[i - 1] = s[i]
      BY <1>1, <1>3, <2>2, SMTT(30), Z3T(30)
    <3> QED BY <3>1
  <2>3. ASSUME NEW j \in 2..Len(t) PROVE \E i \in 2..Len(s) : t[j] = s[i] /\ s[i] # s[2]
    BY <1>1, <1>3, <1>4, SMTT(30), Z3T(30)
  <2>4. photos' \subseteq {t[i] : i \in 2..Len(t)}
    BY <2>1, <2>2, SMTT(30), Z3T(30)
  <2>5. {t[i] : i \in 2..Len(t)} \subseteq photos'
    BY <2>1, <2>3, SMTT(30), Z3T(30)
  <2> QED BY <2>4, <2>5
<1>14. Len(t) - 1 <= queueNum' /\ (~cleared' => queueNum' = Len(t) - 1)
  BY <1>1, <1>3, SMTT(30), Z3T(30) DEF DeQueue, CountAfterUnlink, HeapHolds, TypeOK
<1> QED BY <1>1, <1>5, <1>10, <1>11, <1>12, <1>13, <1>14 DEF HeapHolds, t

(* ClearQueue leaves the dummy head alone, whatever was queued.            *)
LEMMA ClearQueueList ==
    ASSUME TypeOK, NEW s, HeapHolds(s), ClearQueue
    PROVE  \E h \in Nodes : HeapHolds(<<h>>)'
<1> DEFINE freed == {Behind[i] : i \in DOMAIN Behind}
<1>1. s \in Seq(Nodes) /\ Len(s) \in Nat /\ Len(s) > 0 /\ front = s[1] /\ front \in Nodes
  BY ListFacts, SMTT(30), Z3T(30)
<1>2. \A i \in 2..Len(s) : s[i] # front
  BY <1>1, SMTT(30), Z3T(30) DEF HeapHolds, ListFrom, IsList
<1>3. freed = {s[i] : i \in 2..Len(s)}
  <2>1. Behind = [i \in 1..(Len(s) - 1) |-> s[i + 1]]
    BY ChainOfList, SMTT(30), Z3T(30) DEF HeapHolds, Behind
  <2>2. ASSUME NEW i \in 2..Len(s) PROVE \E j \in 1..(Len(s) - 1) : s[i] = s[j + 1]
    <3>1. i - 1 \in 1..(Len(s) - 1) /\ s[i] = s[(i - 1) + 1]
      BY <1>1, SMTT(30), Z3T(30)
    <3> QED BY <3>1
  <2>3. freed = {s[i + 1] : i \in 1..(Len(s) - 1)}
    BY <2>1
  <2>4. ASSUME NEW j \in 1..(Len(s) - 1) PROVE \E i \in 2..Len(s) : s[j + 1] = s[i]
    BY <1>1, SMTT(30), Z3T(30)
  <2>5. freed \subseteq {s[i] : i \in 2..Len(s)}
    BY <2>3, <2>4
  <2>6. {s[i] : i \in 2..Len(s)} \subseteq freed
    BY <2>2, <2>3
  <2> QED BY <2>5, <2>6
<1> HIDE DEF freed
<1>4. live' = live \ freed /\ photos' = photos \ freed
  BY DEF ClearQueue, freed
<1>5. live' = {front} /\ photos' = {}
  <2>1. live = {s[i] : i \in 1..Len(s)} /\ photos = {s[i] : i \in 2..Len(s)}
    BY DEF HeapHolds
  <2>2. photos' = {}
    BY <1>3, <1>4, <2>1
  <2>3. front \in live'
    BY <1>1, <1>2, <1>3, <1>4, <2>1, SMTT(30), Z3T(30)
  <2>4. ASSUME NEW x \in live' PROVE x = front
    <3>1. PICK i \in 1..Len(s) : x = s[i]
      BY <1>4, <2>1
    <3>2. ~(i \in 2..Len(s))
      BY <1>3, <1>4, <3>1
    <3>3. i = 1
      BY <1>1, <3>2, SMTT(30), Z3T(30)
    <3> QED BY <1>1, <3>1, <3>3
  <2> QED BY <2>2, <2>3, <2>4
<1>6. front' = front /\ rear' = front /\ next'[front] = NULL /\ queueNum' = queueNum /\ cleared'
  BY <1>1 DEF ClearQueue, TypeOK
<1>7. PICK h \in Nodes : h = front
  BY <1>1
<1> DEFINE t == <<h>>
<1>8. t \in Seq(Nodes) /\ Len(t) = 1 /\ t[1] = front
  BY <1>7, SMTT(30), Z3T(30)
<1> HIDE DEF t
<1>9. ListFrom(t, front, next')
  BY <1>6, <1>8, SMTT(30), Z3T(30) DEF ListFrom, IsList
<1>10. live' = {t[i] : i \in 1..Len(t)} /\ photos' = {t[i] : i \in 2..Len(t)}
  BY <1>5, <1>8, SMTT(30), Z3T(30)
<1>11. HeapHolds(t)'
  BY <1>6, <1>8, <1>9, <1>10, SMTT(30), Z3T(30) DEF HeapHolds, TypeOK, t
<1> QED BY <1>11 DEF t

(* DestroyQueue leaves nothing.                                            *)
LEMMA DestroyQueueList ==
    ASSUME NEW s, HeapHolds(s), DestroyQueue
    PROVE  Destroyed'
<1>1. s \in Seq(Nodes) /\ Len(s) \in Nat /\ Len(s) > 0 /\ front = s[1]
  BY ListFacts
<1>2. Behind = [i \in 1..(Len(s) - 1) |-> s[i + 1]]
  BY ChainOfList, SMTT(30), Z3T(30) DEF HeapHolds, Behind
<1> DEFINE freed == {front} \cup {Behind[i] : i \in DOMAIN Behind}
<1>3. \A i \in 1..Len(s) : s[i] \in freed
  <2> SUFFICES ASSUME NEW i \in 1..Len(s) PROVE s[i] \in freed
    OBVIOUS
  <2>1. CASE i = 1
    BY <1>1, <2>1
  <2>2. CASE i > 1
    <3>1. i - 1 \in DOMAIN Behind /\ Behind[i - 1] = s[i]
      BY <1>1, <1>2, <2>2, SMTT(30), Z3T(30)
    <3> QED BY <3>1
  <2> QED BY <2>1, <2>2, SMTT(30), Z3T(30)
<1> HIDE DEF freed
<1>4. live' = live \ freed /\ photos' = photos \ freed /\ front' = NULL /\ rear' = NULL
  BY DEF DestroyQueue, freed
<1>5. live' = {}
  BY <1>3, <1>4 DEF HeapHolds
<1>6. photos' = {}
  BY <1>1, <1>3, <1>4, SMTT(30), Z3T(30) DEF HeapHolds
<1> QED BY <1>4, <1>5, <1>6 DEF Destroyed
-----------------------------------------------------------------------------
(* A new queue is the dummy head alone.                                    *)
LEMMA InitList == Init => TypeOK /\ \E h \in Nodes : HeapHolds(<<h>>) /\ front = h /\ rear = h
<1> SUFFICES ASSUME Init PROVE TypeOK /\ \E h \in Nodes : HeapHolds(<<h>>) /\ front = h /\ rear = h
  OBVIOUS
<1>1. PICK h \in Nodes :
        /\ front = h /\ rear = h /\ next = [n \in Nodes |-> NULL] /\ data = [n \in Nodes |-> NoElem]
        /\ live = {h} /\ photos = {} /\ queueNum = 0 /\ elem = NoElem /\ cleared = FALSE
  BY DEF Init
<1> DEFINE t == <<h>>
<1>2. t \in Seq(Nodes) /\ Len(t) = 1 /\ t[1] = h
  BY SMTT(30), Z3T(30)
<1> HIDE DEF t
<1>3. ListFrom(t, front, next)
  BY <1>1, <1>2, SMTT(30), Z3T(30) DEF ListFrom, IsList
<1>4. live = {t[i] : i \in 1..Len(t)} /\ photos = {t[i] : i \in 2..Len(t)}
  BY <1>1, <1>2, SMTT(30), Z3T(30)
<1>5. HeapHolds(t)
  BY <1>1, <1>2, <1>3, <1>4, SMTT(30), Z3T(30) DEF HeapHolds
<1>6. TypeOK
  BY <1>1 DEF TypeOK
<1> QED BY <1>1, <1>5, <1>6 DEF t

\* A step that appends element e behind the list s.
Appended(s, e) == \E p \in Nodes :
    /\ HeapHolds(Append(s, p))' /\ data' = [data EXCEPT ![p] = e] /\ elem' = elem
    /\ \A i \in 1..Len(s) : s[i] # p

(* What a step makes of the list, and of the element of the caller.        *)
LEMMA StepOnList ==
    ASSUME TypeOK, NEW s, HeapHolds(s), Next
    PROVE  \/ \E e \in Elems : Appended(s, e)
           \/ UNCHANGED vars
           \/ Len(s) > 1 /\ HeapHolds(Rest(s))' /\ data' = data /\ elem' = data[s[2]]
           \/ (\E h \in Nodes : HeapHolds(<<h>>)') /\ elem' = elem
           \/ Destroyed' /\ elem' = elem
<1>1. ASSUME NEW e \in Elems, EnQueue(e) PROVE Appended(s, e) \/ UNCHANGED vars
  <2> SUFFICES ASSUME NEW p \in Nodes \ live, live' = live \cup {p}, data' = [data EXCEPT ![p] = e],
                      photos' = photos \cup {p}, next' = [next EXCEPT ![p] = NULL, ![rear] = p],
                      rear' = p, queueNum' = queueNum + 1, UNCHANGED <<front, elem, cleared>>
               PROVE  Appended(s, e)
    BY <1>1 DEF EnQueue
  <2>1. HeapHolds(Append(s, p))'
    BY EnQueueList
  <2>2. \A i \in 1..Len(s) : s[i] # p
    BY DEF HeapHolds
  <2> QED BY <2>1, <2>2 DEF Appended
<1>2. CASE DeQueue
  <2>1. Len(s) > 1 /\ HeapHolds(Rest(s))'
    BY <1>2, DeQueueList
  <2>2. next[front] = s[2]
    BY <2>1, ListFacts
  <2> QED BY <1>2, <2>1, <2>2 DEF DeQueue, ElemOf
<1>3. CASE ClearQueue
  BY <1>3, ClearQueueList DEF ClearQueue
<1>4. CASE DestroyQueue
  BY <1>4, DestroyQueueList DEF DestroyQueue
<1> QED BY <1>1, <1>2, <1>3, <1>4 DEF Next

(* Every step keeps the types.                                             *)
LEMMA TypeStep ==
    ASSUME QueueInv, Next
    PROVE  TypeOK'
<1>0. TypeOK /\ front # NULL /\ (\E s : HeapHolds(s)) 
  BY DEF QueueInv, Destroyed, Next, EnQueue, DeQueue, ClearQueue, DestroyQueue
<1>1. PICK s : HeapHolds(s)
  BY <1>0
<1>2. ASSUME NEW e \in Elems, EnQueue(e) PROVE TypeOK'
  <2>1. rear \in Nodes
    BY <1>1, ListFacts, SMTT(30), Z3T(30) DEF HeapHolds
  <2> QED BY <1>0, <1>2, <2>1, SMTT(30), Z3T(30) DEF EnQueue, TypeOK, vars
<1>3. CASE DeQueue
  <2>1. Len(s) > 1 /\ Len(s) \in Nat /\ queueNum >= 1 /\ next[front] \in Nodes /\ front \in Nodes
    <3>1. Len(s) > 1 /\ Len(s) \in Nat /\ next[front] = s[2] /\ front = s[1]
      BY <1>1, <1>3, ListFacts DEF DeQueue
    <3>2. s[1] \in Nodes /\ s[2] \in Nodes
      BY <1>1, <3>1, ListFacts, SMTT(30), Z3T(30)
    <3>3. queueNum \in Nat /\ Len(s) - 1 <= queueNum
      BY <1>0, <1>1 DEF HeapHolds, TypeOK
    <3> QED BY <3>1, <3>2, <3>3, SMTT(30), Z3T(30)
  <2>2. queueNum' \in Nat
    BY <1>0, <1>3, <2>1, SMTT(30), Z3T(30) DEF DeQueue, CountAfterUnlink, TypeOK
  <2>3. elem' \in Elems \cup {NoElem} /\ rear' \in Nodes \cup {NULL}
    BY <1>0, <1>3, <2>1 DEF DeQueue, ElemOf, RearAfterUnlink, TypeOK
  <2>4. photos' \subseteq live' /\ live' \subseteq Nodes
    BY <1>0, <1>3 DEF DeQueue, PhotosAfterUnlink, TypeOK
  <2>5. next' \in [Nodes -> Nodes \cup {NULL}]
    BY <1>0, <1>3, <2>1 DEF DeQueue, TypeOK
  <2> QED BY <1>0, <1>3, <2>2, <2>3, <2>4, <2>5 DEF DeQueue, TypeOK
<1>4. CASE ClearQueue
  BY <1>0, <1>4 DEF ClearQueue, TypeOK
<1>5. CASE DestroyQueue
  BY <1>0, <1>5 DEF DestroyQueue, TypeOK
<1> QED BY <1>2, <1>3, <1>4, <1>5 DEF Next

(* The heap is a list, or the queue is destroyed, in every state.          *)
LEMMA QueueInvariant == Spec => []QueueInv
<1>1. Init => QueueInv
  BY InitList DEF QueueInv
<1>2. QueueInv /\ [Next]_vars => QueueInv'
  <2> SUFFICES ASSUME QueueInv, [Next]_vars PROVE QueueInv'
    OBVIOUS
  <2>1. CASE UNCHANGED vars
    BY <2>1 DEF vars, QueueInv, TypeOK, Destroyed, HeapHolds
  <2>2. CASE Next
    <3>1. TypeOK'
      BY <2>2, TypeStep
    <3>2. PICK s : HeapHolds(s)
      BY <2>2 DEF QueueInv, Destroyed, Next, EnQueue, DeQueue, ClearQueue, DestroyQueue
    <3>3. Destroyed' \/ \E t : HeapHolds(t)'
      <4>1. UNCHANGED vars => HeapHolds(s)'
        BY <3>2, SMTT(30), Z3T(30) DEF vars, HeapHolds
      <4> QED BY <2>2, <3>2, <4>1, StepOnList DEF QueueInv, Appended
    <3> QED BY <3>1, <3>3 DEF QueueInv
  <2> QED BY <2>1, <2>2
<1> QED BY <1>1, <1>2, PTL DEF Spec

(* QueueLength, which counts the links from front to rear, is the number   *)
(* of queued elements.                                                     *)
LEMMA LengthOfList ==
    ASSUME NEW s, HeapHolds(s)
    PROVE  QueueLength = Len(s) - 1
<1> DEFINE W == Walk(front, next)
           Reached(n) == W[n] = rear /\ \A m \in 0..(n - 1) : W[m] # rear
<1>1. Len(s) \in Nat /\ Len(s) \in 1..Size /\ Size \in Nat /\ rear = s[Len(s)]
  BY SizeIsNat, HeapFits, SMTT(30), Z3T(30) DEF HeapHolds, ListFrom, IsList
<1>2. \A n \in 0..Size : W[n] = IF n < Len(s) THEN s[n + 1] ELSE NULL
  BY WalkOnList DEF HeapHolds
<1>3. \A i, j \in 1..Len(s) : s[i] = s[j] => i = j
  BY DEF HeapHolds, ListFrom, IsList
<1>4. \A i \in 1..Len(s) : s[i] # NULL
  BY ListFacts
<1> HIDE DEF W
<1>5. \A n \in 0..Size : W[n] = rear <=> n = Len(s) - 1
  BY <1>1, <1>2, <1>3, <1>4, SMTT(30), Z3T(30)
<1>6. Len(s) - 1 \in 0..Size /\ Reached(Len(s) - 1)
  BY <1>1, <1>5, SMTT(30), Z3T(30)
<1>7. \A n \in 0..Size : Reached(n) => n = Len(s) - 1
  BY <1>5
<1>8. QueueLength = CHOOSE n \in 0..Size : Reached(n)
  BY DEF QueueLength, Size, W
<1> HIDE DEF Reached
<1> QED BY <1>6, <1>7, <1>8

(* A positive number is one or larger than one.                            *)
LEMMA OneOrMore == \A n \in Nat : n > 0 => n = 1 \/ n > 1
BY SMTT(30), Z3T(30)

(* The heap is exactly the list, nothing is leaked and nothing dangles,    *)
(* and until ClearQueue is called the counter is the length of the list:   *)
(* HeapIsList holds for every number of nodes and elements.                *)
THEOREM HeapCorrect == Spec => []HeapIsList
<1>1. QueueInv => HeapIsList
  <2> SUFFICES ASSUME QueueInv PROVE HeapIsList
    OBVIOUS
  <2>0. TypeOK
    BY DEF QueueInv
  <2>1. CASE Destroyed
    <3>1. Behind = <<>> /\ DOMAIN Behind = {}
      BY <2>1, ChainOfNull, SMTT(30), Z3T(30) DEF Behind, Destroyed
    <3> QED BY <2>0, <2>1, <3>1 DEF HeapIsList, Destroyed
  <2>2. ASSUME NEW s, HeapHolds(s) PROVE HeapIsList
    <3> DEFINE queued == {Behind[i] : i \in DOMAIN Behind}
    <3>1. s \in Seq(Nodes) /\ Len(s) \in Nat /\ Len(s) > 0 /\ front = s[1] /\ front # NULL
      BY <2>2, ListFacts
    <3>2. Behind = [i \in 1..(Len(s) - 1) |-> s[i + 1]]
      BY <2>2, ChainOfList, SMTT(30), Z3T(30) DEF HeapHolds, Behind
    <3>3. queued = {s[i] : i \in 2..Len(s)}
      <4>1. ASSUME NEW i \in 2..Len(s) PROVE s[i] \in queued
        <5>1. i - 1 \in DOMAIN Behind /\ Behind[i - 1] = s[i]
          BY <3>1, <3>2, SMTT(30), Z3T(30)
        <5> QED BY <5>1
      <4>2. ASSUME NEW j \in DOMAIN Behind PROVE \E i \in 2..Len(s) : Behind[j] = s[i]
        BY <3>1, <3>2, SMTT(30), Z3T(30)
      <4> HIDE DEF queued
      <4>3. {s[i] : i \in 2..Len(s)} \subseteq queued
        BY <4>1
      <4>4. queued \subseteq {s[i] : i \in 2..Len(s)}
        BY <4>2 DEF queued
      <4> QED BY <4>3, <4>4
    <3>4. live = queued \cup {front}
      <4>1. {s[i] : i \in 1..Len(s)} = {s[i] : i \in 2..Len(s)} \cup {s[1]}
        BY <3>1, SMTT(30), Z3T(30)
      <4> HIDE DEF queued
      <4> QED BY <2>2, <3>1, <3>3, <4>1 DEF HeapHolds
    <3>5. photos = queued
      BY <2>2, <3>3 DEF HeapHolds
    <3>6. rear = IF Behind = <<>> THEN front ELSE Behind[Len(Behind)]
      <4>1. CASE Len(s) = 1
        BY <2>2, <3>1, <3>2, <4>1, SMTT(30), Z3T(30) DEF HeapHolds
      <4>2. CASE Len(s) > 1
        <5>1. Behind \in Seq(Nodes) /\ Len(Behind) = Len(s) - 1
          BY <3>1, <3>2, SMTT(30), Z3T(30)
        <5>2. Behind # <<>> /\ Behind[Len(Behind)] = s[Len(s)]
          BY <3>1, <3>2, <4>2, <5>1, SMTT(30), Z3T(30)
        <5> QED BY <2>2, <5>2 DEF HeapHolds
      <4>3. Len(s) = 1 \/ Len(s) > 1
        BY <3>1, OneOrMore
      <4> QED BY <4>1, <4>2, <4>3
    <3>7. ~cleared => GetQueueElemNum = QueueLength
      <4>1. QueueLength = Len(s) - 1 /\ (~cleared => queueNum = Len(s) - 1)
        BY <2>2, LengthOfList DEF HeapHolds
      <4>2. next[front] # NULL <=> Len(s) > 1
        BY <2>2, <3>1, ListFacts, SMTT(30), Z3T(30) DEF HeapHolds, ListFrom, IsList
      <4> QED BY <3>1, <4>1, <4>2, SMTT(30), Z3T(30) DEF GetQueueElemNum
    <3> HIDE DEF queued
    <3>8. live = queued \cup ({front} \ {NULL})
      BY <3>1, <3>4
    <3> QED BY <2>0, <3>5, <3>6, <3>7, <3>8 DEF HeapIsList, queued
  <2> QED BY <2>1, <2>2 DEF QueueInv
<1> QED BY <1>1, QueueInvariant, PTL
-----------------------------------------------------------------------------
\* The elements of the list s, the oldest first.
Listed(s, elements) == [i \in 1..(Len(s) - 1) |-> elements[s[i + 1]]]

(* The contents of the queue are the elements of the list.                 *)
LEMMA ContentsOfList ==
    ASSUME NEW s, NEW p, NEW links, NEW elements, ListFrom(s, p, links)
    PROVE  [i \in DOMAIN Chain(p, links) |-> elements[Chain(p, links)[i]]] = Listed(s, elements)
<1>1. Chain(p, links) = [i \in 1..(Len(s) - 1) |-> s[i + 1]]
  BY ChainOfList, SMTT(30), Z3T(30)
<1>2. DOMAIN Chain(p, links) = 1..(Len(s) - 1)
  BY <1>1
<1>3. \A i \in 1..(Len(s) - 1) : Chain(p, links)[i] = s[i + 1]
  BY <1>1
<1> QED BY <1>2, <1>3 DEF Listed

(* The same of a state and of its successor.                               *)
LEMMA ContentsAreListed ==
    ASSUME NEW s
    PROVE  /\ HeapHolds(s) => Contents = Listed(s, data)
           /\ HeapHolds(s)' => Contents' = Listed(s, data')
<1>1. HeapHolds(s) => Contents = Listed(s, data)
  BY ContentsOfList, SMTT(30), Z3T(30) DEF HeapHolds, Contents, Behind
<1>2. HeapHolds(s)' => Contents' = Listed(s, data')
  BY ContentsOfList, SMTT(30), Z3T(30) DEF HeapHolds, Contents, Behind
<1> QED BY <1>1, <1>2

(* The linked queue implements the FIFO queue, for every number of nodes:  *)
(* EnQueue appends to the contents or does nothing, DeQueue hands out the  *)
(* oldest element, ClearQueue and DestroyQueue empty the queue.            *)
THEOREM ImplementsFifo == Spec => FifoSpec
<1>1. Init => Fifo!Init
  <2> SUFFICES ASSUME Init PROVE Contents = <<>> /\ elem = NoElem
    BY DEF Fifo!Init
  <2>1. PICK h \in Nodes : HeapHolds(<<h>>)
    BY InitList
  <2>2. Contents = Listed(<<h>>, data)
    BY <2>1, ContentsAreListed
  <2>3. Listed(<<h>>, data) = <<>>
    BY SMTT(30), Z3T(30) DEF Listed
  <2> QED BY <2>2, <2>3 DEF Init
<1>2. QueueInv /\ [Next]_vars => [Fifo!Next]_Fifo!vars
  <2> SUFFICES ASSUME QueueInv, Next PROVE Fifo!Next \/ UNCHANGED <<Contents, elem>>
    BY DEF vars, Fifo!vars, Contents, Behind
  <2>0. TypeOK
    BY DEF QueueInv
  <2>1. PICK s : HeapHolds(s)
    BY DEF QueueInv, Destroyed, Next, EnQueue, DeQueue, ClearQueue, DestroyQueue
  <2>2. /\ Len(s) \in Nat /\ Len(s) > 0
        /\ \A i \in 1..Len(s) : s[i] \in Nodes
        /\ Contents = Listed(s, data)
    BY <2>1, ListFacts, ContentsAreListed
  <2>3. ASSUME NEW e \in Elems, Appended(s, e) PROVE Fifo!Put(e)
    <3>1. PICK p \in Nodes : /\ HeapHolds(Append(s, p))' /\ data' = [data EXCEPT ![p] = e] /\ elem' = elem
                             /\ \A i \in 1..Len(s) : s[i] # p
      BY <2>3 DEF Appended
    <3> DEFINE t == Append(s, p)
    <3>2. Len(t) = Len(s) + 1 /\ t[Len(t)] = p /\ \A i \in 1..Len(s) : t[i] = s[i]
      BY <2>1, ListFacts, SMTT(30), Z3T(30)
    <3>3. Contents' = Listed(t, data')
      BY <3>1, ContentsAreListed
    <3> HIDE DEF t
    <3>4. data'[p] = e /\ \A i \in 1..Len(s) : data'[s[i]] = data[s[i]]
      BY <2>0, <2>2, <3>1 DEF TypeOK
    <3>5. Listed(s, data) \in Seq(Elems \cup {NoElem}) /\ Len(Listed(s, data)) = Len(s) - 1
      <4>1. \A i \in 1..(Len(s) - 1) : data[s[i + 1]] \in Elems \cup {NoElem}
        BY <2>0, <2>2, SMTT(30), Z3T(30) DEF TypeOK
      <4> QED BY <2>2, <4>1, SMTT(30), Z3T(30) DEF Listed
    <3>6. Append(Listed(s, data), e) = Listed(t, data')
      <4> DEFINE a == Append(Listed(s, data), e)
                 b == Listed(t, data')
      <4>1. a \in Seq(Elems \cup {NoElem}) /\ DOMAIN a = 1..Len(s) /\ a[Len(s)] = e
        BY <2>2, <3>5, SMTT(30), Z3T(30)
      <4>2. \A i \in 1..(Len(s) - 1) : a[i] = data[s[i + 1]]
        BY <2>2, <3>5, SMTT(30), Z3T(30) DEF Listed
      <4>3. b = [i \in 1..Len(s) |-> data'[t[i + 1]]]
        BY <2>2, <3>2, SMTT(30), Z3T(30) DEF Listed
      <4>4. b[Len(s)] = e /\ \A i \in 1..(Len(s) - 1) : b[i] = data[s[i + 1]]
        BY <2>2, <3>2, <3>4, <4>3, SMTT(30), Z3T(30)
      <4>5. \A i \in 1..Len(s) : a[i] = b[i]
        BY <2>2, <4>1, <4>2, <4>4, SMTT(30), Z3T(30)
      <4>6. b \in Seq(Elems \cup {NoElem}) /\ Len(b) = Len(s)
        <5>1. \A i \in 1..Len(s) : a[i] \in Elems \cup {NoElem}
          BY <2>2, <4>1, SMTT(30), Z3T(30)
        <5>2. \A i \in 1..Len(s) : data'[t[i + 1]] \in Elems \cup {NoElem}
          BY <4>3, <4>5, <5>1
        <5> HIDE DEF a, b
        <5> QED BY <2>2, <4>3, <5>2, SMTT(30), Z3T(30)
      <4>7. Len(a) = Len(s)
        BY <2>2, <3>5, SMTT(30), Z3T(30)
      <4> HIDE DEF a, b
      <4>8. a = b
        BY <4>1, <4>5, <4>6, <4>7, SeqEqual
      <4> QED BY <4>8 DEF a, b
    <3> QED BY <2>2, <3>1, <3>3, <3>6 DEF Fifo!Put
  <2>4. ASSUME Len(s) > 1, HeapHolds(Rest(s))', data' = data, elem' = data[s[2]]
        PROVE  Fifo!Take
    <3> DEFINE t == Rest(s)
    <3>1. Len(t) = Len(s) - 1 /\ \A i \in 2..Len(t) : t[i] = s[i + 1]
      BY <2>2, <2>4, SMTT(30), Z3T(30) DEF Rest
    <3>2. Contents' = Listed(t, data)
      BY <2>4, ContentsAreListed
    <3> HIDE DEF t
    <3>3. Listed(s, data) \in Seq(Elems \cup {NoElem}) /\ Len(Listed(s, data)) = Len(s) - 1
      <4>1. \A i \in 1..(Len(s) - 1) : data[s[i + 1]] \in Elems \cup {NoElem}
        BY <2>0, <2>2, SMTT(30), Z3T(30) DEF TypeOK
      <4> QED BY <2>2, <4>1, SMTT(30), Z3T(30) DEF Listed
    <3>4. Head(Listed(s, data)) = data[s[2]] /\ Listed(s, data) # <<>>
      BY <2>2, <2>4, <3>3, SMTT(30), Z3T(30) DEF Listed
    <3>5. Tail(Listed(s, data)) = Listed(t, data)
      <4> DEFINE a == Tail(Listed(s, data))
                 b == Listed(t, data)
      <4>1. a \in Seq(Elems \cup {NoElem}) /\ DOMAIN a = 1..(Len(s) - 2)
        BY <2>2, <2>4, <3>3, SMTT(30), Z3T(30)
      <4>2. \A i \in 1..(Len(s) - 2) : a[i] = data[s[i + 2]]
        BY <2>2, <2>4, <3>3, SMTT(30), Z3T(30) DEF Listed
      <4>3. b = [i \in 1..(Len(s) - 2) |-> data[t[i + 1]]]
        BY <2>2, <3>1, SMTT(30), Z3T(30) DEF Listed
      <4>4. \A i \in 1..(Len(s) - 2) : b[i] = data[s[i + 2]]
        BY <2>2, <3>1, <4>3, SMTT(30), Z3T(30)
      <4>5. b \in Seq(Elems \cup {NoElem}) /\ Len(b) = Len(s) - 2
        <5>1. \A i \in 1..(Len(s) - 2) : data[t[i + 1]] \in Elems \cup {NoElem}
          BY <2>0, <2>2, <3>1, SMTT(30), Z3T(30) DEF TypeOK
        <5> HIDE DEF b
        <5> QED BY <2>2, <2>4, <4>3, <5>1, SMTT(30), Z3T(30)
      <4>6. Len(a) = Len(s) - 2
        BY <2>2, <2>4, <3>3, SMTT(30), Z3T(30)
      <4> HIDE DEF a, b
      <4>7. a = b
        BY <4>1, <4>2, <4>4, <4>5, <4>6, SeqEqual
      <4> QED BY <4>7 DEF a, b
    <3> QED BY <2>2, <2>4, <3>2, <3>4, <3>5 DEF Fifo!Take
  <2>5. ASSUME NEW h \in Nodes, HeapHolds(<<h>>)', elem' = elem PROVE Fifo!Empty
    <3>1. Contents' = Listed(<<h>>, data')
      BY <2>5, ContentsAreListed
    <3>2. Listed(<<h>>, data') = <<>>
      BY SMTT(30), Z3T(30) DEF Listed
    <3> QED BY <2>5, <3>1, <3>2 DEF Fifo!Empty
  <2>6. ASSUME Destroyed', elem' = elem PROVE Fifo!Empty
    <3>1. Chain(front', next') = <<>> /\ DOMAIN Chain(front', next') = {}
      BY <2>6, ChainOfNull, SMTT(30), Z3T(30) DEF Destroyed
    <3>2. Contents' = <<>>
      BY <3>1, SMTT(30), Z3T(30) DEF Contents, Behind
    <3> QED BY <2>6, <3>2 DEF Fifo!Empty
  <2>7. CASE UNCHANGED vars
    BY <2>7 DEF vars, Contents, Behind
  <2> QED BY <2>0, <2>1, <2>3, <2>4, <2>5, <2>6, <2>7, StepOnList DEF Fifo!Next
<1> QED BY <1>1, <1>2, QueueInvariant, PTL DEF Spec, FifoSpec, Fifo!Spec
=============================================================================
