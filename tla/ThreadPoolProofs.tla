-------------------------- MODULE ThreadPoolProofs --------------------------
(***************************************************************************)
(* For any number of workers and tasks: m_Mutex belongs to the one worker  *)
(* inside ThreadRoutine's critical section, and when Destroy has freed the *)
(* queue and destroyed the mutex no worker can touch either again.         *)
(***************************************************************************)
EXTENDS ThreadPool, FiniteSetTheorems, SequenceTheorems, TLAPS

(* A leaf is Zenon's unless it names other provers.                        *)
USE Zenon

(***************************************************************************)
(* What following the links of a list leads to, for lists of any length.   *)
(* The proofs are by induction on the number of links followed.            *)
(***************************************************************************)
(* Induction over the naturals, with the induction hypothesis as a set.    *)
LEMMA Induction ==
    ASSUME NEW S, 0 \in S, \A n \in Nat : n \in S => n + 1 \in S
    PROVE  \A n \in Nat : n \in S
<1> SUFFICES ASSUME NEW k \in Nat, k \notin S PROVE FALSE
  OBVIOUS
<1> DEFINE T == {n \in Nat : n \notin S}
<1>1. PICK x \in T : \A y \in T : ~ (<<y, x>> \in OpToRel(<, Nat))
  <2>1. T \subseteq Nat /\ T # {}
    OBVIOUS
  <2> QED BY <2>1, WFMin, NatLessThanWellFounded
<1>2. x # 0 /\ x \in Nat
  OBVIOUS
<1>3. x - 1 \in Nat /\ x - 1 \notin S
  <2>1. x - 1 \in Nat /\ x = (x - 1) + 1
    BY <1>2, SMTT(30), Z3T(30)
  <2> QED BY <2>1
<1>4. <<x - 1, x>> \in Nat \X Nat /\ <<x - 1, x>>[1] < <<x - 1, x>>[2]
  BY <1>2, <1>3, SMTT(30), Z3T(30)
<1>5. <<x - 1, x>> \in OpToRel(<, Nat)
  BY <1>4 DEF OpToRel
<1> QED BY <1>1, <1>3, <1>5

(* One link further: what Follow does, as an equation.                     *)
Further(node, n, p, links, nil) ==
    IF n = 0 THEN p ELSE IF node[n - 1] = nil THEN nil ELSE links[node[n - 1]]

\* node is a walk of m links from p.
IsWalk(node, m, p, links, nil) == node = [n \in 0..m |-> Further(node, n, p, links, nil)]

(* The recursion of Follow has a solution on every initial segment.        *)
LEMMA FollowExists ==
    ASSUME NEW p, NEW links, NEW nil, NEW m \in Nat
    PROVE  \E node : IsWalk(node, m, p, links, nil)
<1> DEFINE S == {k \in Nat : \E node : IsWalk(node, k, p, links, nil)}
<1>1. 0 \in S
  <2> DEFINE one == [n \in 0..0 |-> p]
  <2>1. one = [n \in 0..0 |-> Further(one, n, p, links, nil)]
    BY SMTT(30), Z3T(30) DEF Further
  <2> HIDE DEF one
  <2> QED BY <2>1 DEF IsWalk
<1>2. ASSUME NEW k \in Nat, k \in S PROVE k + 1 \in S
  <2>1. PICK node : node = [n \in 0..k |-> Further(node, n, p, links, nil)]
    BY <1>2 DEF IsWalk
  <2> DEFINE more == [n \in 0..(k + 1) |-> IF n = k + 1 THEN Further(node, k + 1, p, links, nil) ELSE node[n]]
  <2>2. ASSUME NEW n \in 0..(k + 1) PROVE more[n] = Further(more, n, p, links, nil)
    <3>1. CASE n = 0
      BY <3>1, <2>1, SMTT(30), Z3T(30) DEF Further
    <3>2. CASE n # 0
      <4>1. n - 1 \in 0..k /\ more[n - 1] = node[n - 1]
        BY <3>2, SMTT(30), Z3T(30)
      <4>2. Further(more, n, p, links, nil) = Further(node, n, p, links, nil)
        BY <3>2, <4>1, SMTT(30), Z3T(30) DEF Further
      <4>3. more[n] = Further(node, n, p, links, nil)
        BY <2>1, SMTT(30), Z3T(30)
      <4> QED BY <4>2, <4>3
    <3> QED BY <3>1, <3>2
  <2>3. more = [n \in 0..(k + 1) |-> Further(more, n, p, links, nil)]
    BY <2>2
  <2> HIDE DEF more
  <2> QED BY <2>3, SMTT(30), Z3T(30) DEF IsWalk
<1> HIDE DEF S
<1>3. m \in S
  BY <1>1, <1>2, Induction
<1> QED BY <1>3 DEF S

(* Follow satisfies its defining equation.                                 *)
LEMMA FollowStep ==
    ASSUME NEW p, NEW links, NEW nil, NEW k \in Nat
    PROVE  \A n \in 0..k : Follow(p, links, nil, k)[n] =
                               Further(Follow(p, links, nil, k), n, p, links, nil)
<1> DEFINE W == Follow(p, links, nil, k)
<1>1. \E node : IsWalk(node, k, p, links, nil)
  BY FollowExists
<1>2. W = CHOOSE node : IsWalk(node, k, p, links, nil)
  BY DEF Follow, IsWalk, Further
<1> HIDE DEF W
<1>3. IsWalk(W, k, p, links, nil)
  BY <1>1, <1>2
<1>4. \A n \in 0..k : W[n] = Further(W, n, p, links, nil)
  BY <1>3 DEF IsWalk
<1> QED BY <1>4 DEF W

(* A list has no more nodes than the heap it lies in.                      *)
LEMMA ListFits ==
    ASSUME NEW nodes, IsFiniteSet(nodes), NEW nil, NEW p, NEW links,
           NEW s \in Seq(nodes), IsList(s, p, links, nil)
    PROVE  Len(s) \in 1..Cardinality(nodes) /\ Cardinality(nodes) \in Nat
<1>1. Len(s) \in Nat /\ Len(s) > 0 /\ s \in [1..Len(s) -> nodes]
  BY SMTT(30), Z3T(30) DEF IsList
<1>2. s \in Injection(1..Len(s), nodes)
  BY <1>1 DEF IsList, Injection, IsInjective
<1>3. Cardinality(1..Len(s)) = Len(s)
  BY <1>1, FS_Interval, SMTT(30), Z3T(30)
<1>4. Cardinality(1..Len(s)) <= Cardinality(nodes)
  BY <1>2, FS_Injection
<1>5. Cardinality(nodes) \in Nat
  BY FS_CardinalityType
<1> QED BY <1>1, <1>3, <1>4, <1>5, SMTT(30), Z3T(30)

(* Following n links leads to the node n places behind the first.          *)
LEMMA FollowOnList ==
    ASSUME NEW nodes, NEW nil, nil \notin nodes, NEW p, NEW links, NEW k \in Nat,
           NEW s \in Seq(nodes), IsList(s, p, links, nil)
    PROVE  \A n \in 0..k : Follow(p, links, nil, k)[n] = IF n < Len(s) THEN s[n + 1] ELSE nil
<1> DEFINE W == Follow(p, links, nil, k)
           Right(n) == n \in 0..k => W[n] = IF n < Len(s) THEN s[n + 1] ELSE nil
           S == {n \in Nat : Right(n)}
<1>1. Len(s) \in Nat /\ Len(s) > 0 /\ \A i \in 1..Len(s) : s[i] \in nodes
  BY SMTT(30), Z3T(30) DEF IsList
<1>2. \A n \in 0..k : W[n] = Further(W, n, p, links, nil)
  BY FollowStep
<1> HIDE DEF W
<1>3. Right(0)
  BY <1>1, <1>2, SMTT(30), Z3T(30) DEF Further, IsList
<1>4. ASSUME NEW n \in Nat, Right(n) PROVE Right(n + 1)
  <2> SUFFICES ASSUME n + 1 \in 0..k
               PROVE  W[n + 1] = IF n + 1 < Len(s) THEN s[n + 2] ELSE nil
    BY SMTT(30), Z3T(30)
  <2>1. n \in 0..k /\ W[n] = IF n < Len(s) THEN s[n + 1] ELSE nil
    BY <1>1, <1>4, SMTT(30), Z3T(30)
  <2>2. W[n + 1] = IF W[n] = nil THEN nil ELSE links[W[n]]
    BY <1>2, SMTT(30), Z3T(30) DEF Further
  <2>3. CASE n < Len(s)
    <3>1. n + 1 \in 1..Len(s) /\ s[n + 1] # nil
      BY <1>1, <2>3, SMTT(30), Z3T(30)
    <3>2. W[n + 1] = links[s[n + 1]]
      BY <2>1, <2>2, <2>3, <3>1
    <3>3. CASE n + 1 < Len(s)
      BY <1>1, <3>1, <3>2, <3>3, SMTT(30), Z3T(30) DEF IsList
    <3>4. CASE n + 1 = Len(s)
      BY <3>2, <3>4, SMTT(30), Z3T(30) DEF IsList
    <3> QED BY <1>1, <3>1, <3>3, <3>4, SMTT(30), Z3T(30)
  <2>4. CASE ~(n < Len(s))
    BY <1>1, <2>1, <2>2, <2>4, SMTT(30), Z3T(30)
  <2> QED BY <2>3, <2>4
<1>5. 0 \in S /\ \A n \in Nat : n \in S => n + 1 \in S
  BY <1>3, <1>4, SMTT(30), Z3T(30)
<1> HIDE DEF Right
<1>6. \A n \in Nat : n \in S
  BY <1>5, Induction
<1> QED BY <1>6, SMTT(30), Z3T(30) DEF Right, W

(* Nothing is linked behind a null pointer.                                *)
LEMMA FollowNil ==
    ASSUME NEW links, NEW nil, NEW k \in Nat
    PROVE  \A n \in 0..k : Follow(nil, links, nil, k)[n] = nil
<1> DEFINE W == Follow(nil, links, nil, k)
           S == {n \in Nat : n \in 0..k => W[n] = nil}
<1>1. \A n \in 0..k : W[n] = Further(W, n, nil, links, nil)
  BY FollowStep
<1> HIDE DEF W
<1>2. 0 \in S /\ \A n \in Nat : n \in S => n + 1 \in S
  BY <1>1, SMTT(30), Z3T(30) DEF Further
<1>3. \A n \in Nat : n \in S
  BY <1>2, Induction
<1> QED BY <1>3, SMTT(30), Z3T(30) DEF W
-----------------------------------------------------------------------------

\* The part of the state the argument needs.
PoolInv ==
    /\ mutex \in Workers \union {NIL}
    /\ pc \in [Workers -> WorkerPc]
    /\ DOMAIN held = Workers
    /\ \A w \in Workers : mutex = w <=> pc[w] \in Inside
    /\ \A w \in Workers : pc[w] # "run" => held[w] = NIL
    /\ owner = "new" => \A w \in Workers : pc[w] = "none"
    /\ owner = "closed" => \A w \in Workers : pc[w] \in {"none", "gone"}

\* Before Create there is no worker, no holder and nothing held.
LEMMA PoolInit == Init => PoolInv
  BY PoolAssumption, SMTT(30), Z3T(30) DEF Init, PoolInv, WorkerPc, Inside

\* A step of the owner: Create starts workers only where none is left, and
\* DestroyFree waits for the joins.
LEMMA OwnerStep ==
  ASSUME PoolInv, Create \/ CreateFails \/ DestroyFlag \/ DestroyBroadcast \/ DestroyFree
  PROVE  PoolInv'
<1>1. CASE Create
  <2>1. PICK run \in SUBSET Workers :
          pc' = [w \in Workers |-> IF w \in run THEN "lock" ELSE "none"]
    BY <1>1 DEF Create
  <2>2. \A w \in Workers : pc[w] \in {"none", "gone"}
    BY <1>1 DEF Create, PoolInv
  <2>3. mutex = NIL
    BY <2>2, PoolAssumption DEF PoolInv, Inside
  <2> QED
    BY <1>1, <2>1, <2>2, <2>3, PoolAssumption DEF Create, PoolInv, WorkerPc, Inside
<1>2. CASE DestroyFlag
  BY <1>2 DEF DestroyFlag, PoolInv, WorkerPc, Inside
<1>3. CASE DestroyBroadcast
  BY <1>3 DEF DestroyBroadcast, WakeAll, PoolInv, WorkerPc, Inside
<1>4. CASE DestroyFree
  BY <1>4 DEF DestroyFree, Joined, PoolInv, WorkerPc, Inside
<1>5. CASE CreateFails
  BY <1>5 DEF CreateFails, PoolInv, WorkerPc, Inside
<1> QED
  BY <1>1, <1>2, <1>3, <1>4, <1>5

\* A step of a caller of Add: at most one waiter goes back to the mutex.
LEMMA CallerStep ==
  ASSUME PoolInv, NEW t \in Tasks, AddFail(t) \/ AddLink(t) \/ AddSignal(t)
  PROVE  PoolInv'
<1>1. CASE AddFail(t)
  BY <1>1 DEF AddFail, PoolInv, WorkerPc, Inside
<1>2. CASE AddLink(t)
  BY <1>2 DEF AddLink, PoolInv, WorkerPc, Inside
<1>3. CASE AddSignal(t)
  <2>1. CASE pc' = pc
    BY <1>3, <2>1 DEF AddSignal, PoolInv, WorkerPc, Inside
  <2>2. CASE \E w \in Workers : pc[w] = "waiting" /\ pc' = [pc EXCEPT ![w] = "lock"]
    BY <1>3, <2>2, ZenonT(60) DEF AddSignal, PoolInv, WorkerPc, Inside
  <2> QED
    BY <1>3, <2>1, <2>2 DEF AddSignal, WakeOne
<1> QED
  BY <1>1, <1>2, <1>3

\* A step of a worker: it enters only when the mutex is free, and every way
\* out of the critical section gives it back.
LEMMA WorkerStep ==
  ASSUME PoolInv, NEW w \in Workers, Routine(w) \/ Spurious(w)
  PROVE  PoolInv'
<1> USE PoolAssumption DEF PoolInv, WorkerPc, Inside
<1>1. CASE Lock(w)
  BY <1>1 DEF Lock
<1>2. CASE Test(w)
  BY <1>2 DEF Test
<1>3. CASE Sleep(w)
  BY <1>3 DEF Sleep
<1>4. CASE Spurious(w)
  BY <1>4 DEF Spurious
<1>5. CASE Quit(w)
  BY <1>5 DEF Quit
<1>6. CASE Take(w)
  BY <1>6 DEF Take
<1>7. CASE Finish(w)
  BY <1>7 DEF Finish
<1> QED
  BY <1>1, <1>2, <1>3, <1>4, <1>5, <1>6, <1>7 DEF Routine

\* The invariant of every behaviour.
LEMMA PoolInvariant == Spec => []PoolInv
<1>1. PoolInv /\ [Next]_vars => PoolInv'
  <2> SUFFICES ASSUME PoolInv, [Next]_vars PROVE PoolInv'
    OBVIOUS
  <2>1. CASE UNCHANGED vars
    BY <2>1 DEF vars, PoolInv, WorkerPc, Inside
  <2>2. CASE Next
    BY <2>2, OwnerStep, CallerStep, WorkerStep DEF Next
  <2> QED
    BY <2>1, <2>2
<1> QED
  BY PoolInit, <1>1, PTL DEF Spec

\* When Destroy has destroyed the mutex and freed the nodes, every worker has
\* left ThreadRoutine, none holds the mutex and none holds a node.
THEOREM DestroyedIsQuiet == Spec => []NoWorkerAfterDestroy
<1>1. PoolInv => NoWorkerAfterDestroy
  BY PoolAssumption DEF PoolInv, NoWorkerAfterDestroy, WorkerPc, Inside
<1> QED
  BY PoolInvariant, <1>1, PTL

\* Two workers are never inside the critical section at once.
MutualExclusion ==
    \A v, w \in Workers : pc[v] \in Inside /\ pc[w] \in Inside => v = w

THEOREM OneWorkerInside == Spec => []MutualExclusion
<1>1. PoolInv => MutualExclusion
  BY DEF PoolInv, MutualExclusion
<1> QED
  BY PoolInvariant, <1>1, PTL
-----------------------------------------------------------------------------
\* Where an Add may be.
AddPc == {"idle", "refused", "signal", "done"}

PoolTypes ==
    /\ next \in [Tasks -> Tasks \union {NIL}]
    /\ add \in [Tasks -> AddPc]
    /\ held \in [Workers -> Tasks \union {NIL}]
    /\ started \in Seq(Tasks)
    /\ freed \in [Tasks -> Nat]

\* The queue holds the nodes of s, first to last.  A node that was never linked
\* has the null next field that NewWork gave it.
QueueHolds(s) ==
    /\ s \in Seq(Tasks) /\ size = Len(s)
    /\ Len(s) = 0 => front = NIL /\ rear = NIL
    /\ Len(s) > 0 => IsList(s, front, next, NIL) /\ rear = s[Len(s)]
    /\ \A i \in 1..Len(s) : s[i] \in Accepted
    /\ \A t \in Tasks \ Accepted : next[t] = NIL

\* The nodes outside the queue s: those running and those freed, freed once.
NodesOutside(s) ==
    /\ Running \subseteq Accepted
    /\ \A t \in Tasks :
         freed[t] = IF t \in Accepted \ ({s[i] : i \in 1..Len(s)} \union Running) THEN 1 ELSE 0
    /\ \A w \in Workers : pc[w] = "run" => held[w] \in Tasks /\ \A i \in 1..Len(s) : s[i] # held[w]
    /\ \A v, w \in Workers : pc[v] = "run" /\ pc[w] = "run" /\ held[v] = held[w] => v = w
    /\ \A i \in 1..Len(started) : started[i] \in Accepted

\* A worker about to take a node has seen one, and nobody took it since.
TakerSawWork == \A w \in Workers : pc[w] = "check" /\ ~shutdown => size > 0

Ledger(s) == PoolTypes /\ QueueHolds(s) /\ NodesOutside(s) /\ TakerSawWork

LedgerInv == PoolInv /\ \E s : Ledger(s)

\* In an unused pool the queue is empty.
LEMMA LedgerInit == Init => Ledger(<<>>)
<1> SUFFICES ASSUME Init PROVE Ledger(<<>>)
  OBVIOUS
<1>1. Accepted = {} /\ Running = {}
  BY DEF Init, Accepted, Running
<1>2. PoolTypes
  BY SMTT(30), Z3T(30) DEF Init, PoolTypes, AddPc
<1>3. QueueHolds(<<>>)
  BY <1>1, SMTT(30), Z3T(30) DEF Init, QueueHolds
<1>4. NodesOutside(<<>>)
  BY <1>1, SMTT(30), Z3T(30) DEF Init, NodesOutside
<1>5. TakerSawWork
  BY DEF Init, TakerSawWork
<1> QED BY <1>2, <1>3, <1>4, <1>5 DEF Ledger

\* A step that changes neither the queue nor what workers run.
LEMMA LedgerKept ==
  ASSUME NEW s, Ledger(s), UNCHANGED <<queueVars, held, started, freed>>,
         PoolTypes', Accepted' = Accepted, Running' = Running, TakerSawWork',
         \A w \in Workers : pc'[w] = "run" <=> pc[w] = "run"
  PROVE  Ledger(s)'
<1>1. QueueHolds(s)'
  BY DEF Ledger, QueueHolds, queueVars
<1>2. NodesOutside(s)'
  BY DEF Ledger, NodesOutside
<1> QED BY <1>1, <1>2 DEF Ledger

\* What the list of a non-empty queue says.
LEMMA QueueFacts ==
  ASSUME NEW s, QueueHolds(s)
  PROVE  /\ s \in Seq(Tasks) /\ Len(s) \in Nat /\ size = Len(s)
         /\ \A i \in 1..Len(s) : s[i] \in Tasks /\ s[i] # NIL
         /\ \A i, j \in 1..Len(s) : s[i] = s[j] => i = j
         /\ Len(s) > 0 => front = s[1] /\ rear = s[Len(s)] /\ front \in Tasks /\ rear \in Tasks
         /\ (rear = NIL <=> Len(s) = 0)
<1>1. s \in Seq(Tasks) /\ Len(s) \in Nat /\ size = Len(s)
  BY SMTT(30), Z3T(30) DEF QueueHolds
<1>2. \A i \in 1..Len(s) : s[i] \in Tasks /\ s[i] # NIL
  BY <1>1, PoolAssumption, SMTT(30), Z3T(30)
<1>3. CASE Len(s) = 0
  BY <1>1, <1>2, <1>3, PoolAssumption, SMTT(30), Z3T(30) DEF QueueHolds
<1>4. CASE Len(s) > 0
  BY <1>1, <1>2, <1>4, PoolAssumption, SMTT(30), Z3T(30) DEF QueueHolds, IsList
<1> QED BY <1>1, <1>3, <1>4, SMTT(30), Z3T(30)

\* Steps of the owner that leave the queue alone.
LEMMA LedgerOwner ==
  ASSUME PoolInv, NEW s, Ledger(s), Create \/ CreateFails \/ DestroyFlag \/ DestroyBroadcast
  PROVE  Ledger(s)' /\ Running' = Running
<1>0. PoolTypes /\ TakerSawWork
  BY DEF Ledger
<1>1. CASE Create
  <2>1. \A w \in Workers : pc[w] # "run" /\ pc'[w] # "run" /\ pc'[w] # "check"
    BY <1>1 DEF Create, PoolInv
  <2>2. Running' = Running /\ Accepted' = Accepted
    BY <1>1, <2>1 DEF Create, Running, Accepted
  <2>3. PoolTypes'
    BY <1>0, <1>1 DEF Create, PoolTypes, queueVars
  <2>4. TakerSawWork'
    BY <2>1 DEF TakerSawWork
  <2>5. UNCHANGED <<queueVars, held, started, freed>>
    BY <1>1 DEF Create
  <2> QED BY <2>1, <2>2, <2>3, <2>4, <2>5, LedgerKept
<1>4. CASE CreateFails
  <2>1. \A w \in Workers : pc[w] # "check"
    BY <1>4 DEF CreateFails, PoolInv
  <2>2. Running' = Running /\ Accepted' = Accepted
    BY <1>4 DEF CreateFails, Running, Accepted
  <2>3. PoolTypes'
    BY <1>0, <1>4 DEF CreateFails, PoolTypes, queueVars
  <2>4. UNCHANGED <<queueVars, held, started, freed, pc>>
    BY <1>4 DEF CreateFails
  <2>5. TakerSawWork'
    BY <2>1, <2>4 DEF TakerSawWork
  <2> QED BY <2>2, <2>3, <2>4, <2>5, LedgerKept
<1>2. CASE DestroyFlag
  <2>1. Running' = Running /\ Accepted' = Accepted
    BY <1>2 DEF DestroyFlag, Running, Accepted
  <2>2. PoolTypes'
    BY <1>0, <1>2 DEF DestroyFlag, PoolTypes, queueVars
  <2>3. TakerSawWork'
    BY <1>2 DEF DestroyFlag, TakerSawWork
  <2>4. UNCHANGED <<queueVars, held, started, freed, pc>>
    BY <1>2 DEF DestroyFlag
  <2> QED BY <2>1, <2>2, <2>3, <2>4, LedgerKept
<1>3. CASE DestroyBroadcast
  <2>1. \A w \in Workers : (pc'[w] = "run" <=> pc[w] = "run") /\ (pc'[w] = "check" <=> pc[w] = "check")
    BY <1>3 DEF DestroyBroadcast, WakeAll
  <2>2. Running' = Running /\ Accepted' = Accepted
    BY <1>3, <2>1 DEF DestroyBroadcast, Running, Accepted
  <2>3. PoolTypes'
    BY <1>0, <1>3 DEF DestroyBroadcast, PoolTypes, queueVars
  <2>4. TakerSawWork'
    BY <1>0, <1>3, <2>1 DEF DestroyBroadcast, TakerSawWork, queueVars
  <2>5. UNCHANGED <<queueVars, held, started, freed>>
    BY <1>3 DEF DestroyBroadcast
  <2> QED BY <2>1, <2>2, <2>3, <2>4, <2>5, LedgerKept
<1> QED BY <1>1, <1>2, <1>3, <1>4

\* A call of Add that fails, and the signal at the end of one that does not.
LEMMA LedgerCaller ==
  ASSUME PoolInv, NEW s, Ledger(s), NEW t \in Tasks, AddFail(t) \/ AddSignal(t)
  PROVE  Ledger(s)' /\ Running' = Running
<1>0. PoolTypes /\ TakerSawWork
  BY DEF Ledger
<1>1. CASE AddFail(t)
  <2>1. Accepted' = Accepted
    BY <1>0, <1>1 DEF AddFail, Accepted, PoolTypes
  <2>2. Running' = Running
    BY <1>1 DEF AddFail, Running
  <2>3. PoolTypes'
    BY <1>0, <1>1 DEF AddFail, PoolTypes, queueVars, AddPc
  <2>4. TakerSawWork'
    BY <1>0, <1>1 DEF AddFail, TakerSawWork, queueVars
  <2>5. UNCHANGED <<queueVars, held, started, freed, pc>>
    BY <1>1 DEF AddFail
  <2> QED BY <2>1, <2>2, <2>3, <2>4, <2>5, LedgerKept
<1>2. CASE AddSignal(t)
  <2>1. Accepted' = Accepted
    BY <1>0, <1>2 DEF AddSignal, Accepted, PoolTypes
  <2>2. \A w \in Workers : (pc'[w] = "run" <=> pc[w] = "run") /\ (pc'[w] = "check" <=> pc[w] = "check")
    BY <1>2 DEF AddSignal, WakeOne, PoolInv
  <2>3. Running' = Running
    BY <1>2, <2>2 DEF AddSignal, Running
  <2>4. PoolTypes'
    BY <1>0, <1>2 DEF AddSignal, PoolTypes, queueVars, AddPc
  <2>5. TakerSawWork'
    BY <1>0, <1>2, <2>2 DEF AddSignal, TakerSawWork, queueVars
  <2>6. UNCHANGED <<queueVars, held, started, freed>>
    BY <1>2 DEF AddSignal
  <2> QED BY <2>1, <2>2, <2>3, <2>4, <2>5, <2>6, LedgerKept
<1> QED BY <1>1, <1>2

\* A worker that takes or frees nothing.  The loop test is what makes a worker
\* a taker: it has seen work, or the flag.
LEMMA LedgerWorker ==
  ASSUME PoolInv, NEW s, Ledger(s), NEW w \in Workers,
         Lock(w) \/ Test(w) \/ Sleep(w) \/ Quit(w) \/ Spurious(w)
  PROVE  Ledger(s)' /\ Running' = Running
<1>0. PoolTypes /\ TakerSawWork /\ size \in Nat
  BY SMTT(30), Z3T(30) DEF Ledger, QueueHolds
<1>1. UNCHANGED <<queueVars, held, started, freed, add, shutdown>>
  BY DEF Lock, Test, Sleep, Quit, Spurious
<1>2. \A v \in Workers : pc'[v] = "run" <=> pc[v] = "run"
  BY DEF Lock, Test, Sleep, Quit, Spurious, PoolInv
<1>3. \A v \in Workers : pc'[v] = "check" => pc[v] = "check" \/ size # 0 \/ shutdown
  BY DEF Lock, Test, Sleep, Quit, Spurious, PoolInv
<1>4. TakerSawWork'
  BY <1>0, <1>1, <1>3, SMTT(30), Z3T(30) DEF TakerSawWork, queueVars
<1>5. PoolTypes' /\ Accepted' = Accepted
  BY <1>0, <1>1 DEF PoolTypes, Accepted, queueVars
<1>6. Running' = Running
  BY <1>1, <1>2 DEF Running
<1> QED BY <1>1, <1>2, <1>4, <1>5, <1>6, LedgerKept

\* Add links the new node behind the last one.
LEMMA LedgerAdd ==
  ASSUME PoolInv, NEW s, Ledger(s), NEW t \in Tasks, AddLink(t)
  PROVE  Ledger(Append(s, t))' /\ Running' = Running /\ t \notin Accepted
<1> DEFINE u == Append(s, t)
<1>0. PoolTypes /\ QueueHolds(s) /\ NodesOutside(s) /\ TakerSawWork
  BY DEF Ledger
<1>1. /\ add[t] = "idle" /\ mutex = NIL /\ add' = [add EXCEPT ![t] = "signal"] /\ size' = size + 1 /\ rear' = t
      /\ UNCHANGED <<shutdown, pc, held, started, freed>>
  BY DEF AddLink, Enqueue
<1>2. t \notin Accepted /\ Accepted' = Accepted \union {t}
  BY <1>0, <1>1 DEF Accepted, PoolTypes, AddPc
<1>3. Running' = Running
  BY <1>1 DEF Running
<1>4. /\ s \in Seq(Tasks) /\ Len(s) \in Nat /\ size = Len(s)
      /\ \A i \in 1..Len(s) : s[i] \in Tasks /\ s[i] # t /\ s[i] \in Accepted
      /\ \A i, j \in 1..Len(s) : s[i] = s[j] => i = j
  BY <1>0, <1>2, QueueFacts DEF QueueHolds
<1>5. u \in Seq(Tasks) /\ Len(u) = Len(s) + 1 /\ u[Len(u)] = t /\ \A i \in 1..Len(s) : u[i] = s[i]
  BY <1>4, SMTT(30), Z3T(30)
<1> HIDE DEF u
<1>6. \A n \in 1..Len(u) : n = Len(u) \/ n \in 1..Len(s)
  BY <1>4, <1>5, SMTT(30), Z3T(30)
<1>7. IsList(u, front', next', NIL) /\ next' \in [Tasks -> Tasks \union {NIL}]
      /\ \A n \in Tasks \ (Accepted \union {t}) : next'[n] = NIL
  <2>1. \A i, j \in 1..Len(u) : u[i] = u[j] => i = j
    BY <1>4, <1>5, <1>6
  <2>2. next[t] = NIL
    BY <1>0, <1>2 DEF QueueHolds
  <2>3. CASE Len(s) = 0
    <3>1. front' = t /\ next' = next
      BY <1>0, <2>3, QueueFacts DEF AddLink, Enqueue
    <3> QED BY <1>0, <1>5, <2>1, <2>2, <2>3, <3>1, SMTT(30), Z3T(30) DEF IsList, PoolTypes, QueueHolds
  <2>4. CASE Len(s) > 0
    <3>1. rear = s[Len(s)] /\ rear \in Tasks /\ rear # NIL /\ front = s[1] /\ rear # t /\ rear \in Accepted
      BY <1>0, <1>4, <2>4, QueueFacts, SMTT(30), Z3T(30)
    <3>2. front' = front /\ next' = [next EXCEPT ![rear] = t]
      BY <3>1 DEF AddLink, Enqueue
    <3>3. next' \in [Tasks -> Tasks \union {NIL}] /\ next'[rear] = t /\ \A n \in Tasks : n # rear => next'[n] = next[n]
      BY <1>0, <3>1, <3>2 DEF PoolTypes
    <3>4. \A i \in 1..(Len(s) - 1) : next'[s[i]] = s[i + 1]
      <4> SUFFICES ASSUME NEW i \in 1..(Len(s) - 1) PROVE next'[s[i]] = s[i + 1]
        OBVIOUS
      <4>1. next[s[i]] = s[i + 1]
        BY <1>0, <2>4 DEF QueueHolds, IsList
      <4>2. s[i] # rear /\ s[i] \in Tasks
        BY <1>4, <3>1, SMTT(30), Z3T(30)
      <4> QED BY <3>3, <4>1, <4>2
    <3>5. \A i \in 1..(Len(u) - 1) : next'[u[i]] = u[i + 1]
      <4> SUFFICES ASSUME NEW i \in 1..(Len(u) - 1) PROVE next'[u[i]] = u[i + 1]
        OBVIOUS
      <4>1. CASE i = Len(s)
        BY <1>4, <1>5, <3>1, <3>3, <4>1, SMTT(30), Z3T(30)
      <4>2. CASE i \in 1..(Len(s) - 1)
        <5>1. u[i] = s[i] /\ u[i + 1] = s[i + 1]
          BY <1>4, <1>5, <4>2, SMTT(30), Z3T(30)
        <5> QED BY <3>4, <4>2, <5>1
      <4> QED BY <1>4, <1>5, <4>1, <4>2, SMTT(30), Z3T(30)
    <3>6. next'[u[Len(u)]] = NIL
      BY <1>5, <2>2, <3>1, <3>3
    <3>7. \A n \in Tasks \ (Accepted \union {t}) : next'[n] = NIL
      BY <1>0, <3>1, <3>3 DEF QueueHolds
    <3>8. Len(u) > 0 /\ u[1] = front'
      BY <1>4, <1>5, <2>4, <3>1, <3>2, SMTT(30), Z3T(30)
    <3> QED BY <2>1, <3>3, <3>5, <3>6, <3>7, <3>8 DEF IsList
  <2> QED BY <1>4, <2>3, <2>4, SMTT(30), Z3T(30)
<1>8. QueueHolds(u)'
  <2>1. size' = Len(u) /\ Len(u) > 0 /\ rear' = u[Len(u)]
    BY <1>1, <1>4, <1>5, SMTT(30), Z3T(30)
  <2>2. \A i \in 1..Len(u) : u[i] \in Accepted'
    BY <1>2, <1>4, <1>5, <1>6
  <2>3. \A n \in Tasks \ Accepted' : next'[n] = NIL
    BY <1>2, <1>7
  <2> QED BY <1>5, <1>7, <2>1, <2>2, <2>3, SMTT(30), Z3T(30) DEF QueueHolds
<1>9. NodesOutside(u)'
  <2>1. {u[i] : i \in 1..Len(u)} = {s[i] : i \in 1..Len(s)} \union {t}
    <3>1. ASSUME NEW i \in 1..Len(u) PROVE u[i] \in {s[j] : j \in 1..Len(s)} \union {t}
      BY <1>5, <1>6
    <3>2. ASSUME NEW j \in 1..Len(s) PROVE \E i \in 1..Len(u) : s[j] = u[i]
      BY <1>4, <1>5, SMTT(30), Z3T(30)
    <3>3. \E i \in 1..Len(u) : t = u[i]
      BY <1>4, <1>5, SMTT(30), Z3T(30)
    <3>4. {u[i] : i \in 1..Len(u)} \subseteq {s[i] : i \in 1..Len(s)} \union {t}
      BY <3>1
    <3>5. {s[i] : i \in 1..Len(s)} \union {t} \subseteq {u[i] : i \in 1..Len(u)}
      BY <3>2, <3>3, SMTT(30), Z3T(30)
    <3> QED BY <3>4, <3>5
  <2>2. Running' \subseteq Accepted'
    BY <1>0, <1>2, <1>3 DEF NodesOutside
  <2>6. ASSUME NEW n \in Tasks
        PROVE  freed'[n] = IF n \in Accepted' \ ({u[i] : i \in 1..Len(u)} \union Running') THEN 1 ELSE 0
    <3>1. n \in Accepted' \ ({u[i] : i \in 1..Len(u)} \union Running')
            <=> n \in Accepted \ ({s[i] : i \in 1..Len(s)} \union Running)
      BY <1>2, <1>3, <2>1
    <3>2. freed[n] = IF n \in Accepted \ ({s[i] : i \in 1..Len(s)} \union Running) THEN 1 ELSE 0
      BY <1>0 DEF NodesOutside
    <3> QED BY <1>1, <3>1, <3>2
  <2>3. \A v \in Workers : pc[v] = "run" => held[v] \in Accepted
    BY <1>0 DEF NodesOutside, Running
  <2>4. ASSUME NEW v \in Workers, pc[v] = "run" PROVE held[v] \in Tasks /\ \A i \in 1..Len(u) : u[i] # held[v]
    BY <1>0, <1>2, <1>5, <1>6, <2>3, <2>4 DEF NodesOutside
  <2>5. \A i \in 1..Len(started) : started[i] \in Accepted'
    BY <1>0, <1>2 DEF NodesOutside
  <2> QED BY <1>0, <1>1, <2>2, <2>4, <2>5, <2>6 DEF NodesOutside
<1>10. TakerSawWork'
  BY <1>0, <1>1, <1>4, SMTT(30), Z3T(30) DEF TakerSawWork
<1>11. PoolTypes'
  BY <1>0, <1>1, <1>7 DEF PoolTypes, AddPc
<1> QED BY <1>2, <1>3, <1>8, <1>9, <1>10, <1>11 DEF Ledger, u

\* A worker takes the first node: it is there, and no other worker has it.
LEMMA LedgerTake ==
  ASSUME PoolInv, NEW s, Ledger(s), NEW w \in Workers, Take(w)
  PROVE  /\ Len(s) > 0 /\ front = s[1] /\ Ledger(Tail(s))'
         /\ Running' = Running \union {s[1]}
<1> DEFINE u == Tail(s)
<1>0. PoolTypes /\ QueueHolds(s) /\ NodesOutside(s) /\ TakerSawWork
  BY DEF Ledger
<1>1. /\ pc[w] = "check" /\ ~shutdown /\ size' = size - 1 /\ rear' = RearAfterTake
      /\ held' = [held EXCEPT ![w] = front] /\ pc' = [pc EXCEPT ![w] = "run"]
      /\ front' = next[front] /\ started' = Append(started, front)
      /\ UNCHANGED <<shutdown, next, add, freed>>
  BY DEF Take
<1>2. /\ s \in Seq(Tasks) /\ Len(s) \in Nat /\ size = Len(s) /\ Len(s) > 0
      /\ \A i \in 1..Len(s) : s[i] \in Tasks /\ s[i] # NIL /\ s[i] \in Accepted
      /\ \A i, j \in 1..Len(s) : s[i] = s[j] => i = j
      /\ front = s[1] /\ rear = s[Len(s)] /\ front \in Tasks
  BY <1>0, <1>1, QueueFacts DEF TakerSawWork, QueueHolds
<1>3. u \in Seq(Tasks) /\ Len(u) = Len(s) - 1 /\ \A i \in 1..Len(u) : u[i] = s[i + 1]
  BY <1>2, SMTT(30), Z3T(30)
<1>4. Accepted' = Accepted
  BY <1>1 DEF Accepted
<1>5. /\ pc'[w] = "run" /\ held'[w] = s[1] /\ pc[w] # "run"
      /\ \A v \in Workers : v # w => pc'[v] = pc[v] /\ held'[v] = held[v]
  BY <1>0, <1>1, <1>2 DEF PoolInv, PoolTypes
<1> HIDE DEF u
<1>6. Running' = Running \union {s[1]}
  <2>1. ASSUME NEW v \in Workers, pc'[v] = "run" PROVE held'[v] \in Running \union {s[1]}
    BY <1>5, <2>1 DEF Running
  <2>2. ASSUME NEW v \in Workers, pc[v] = "run" PROVE pc'[v] = "run" /\ held'[v] = held[v]
    BY <1>5, <2>2
  <2>3. Running' \subseteq Running \union {s[1]}
    BY <2>1 DEF Running
  <2>4. Running \subseteq Running'
    BY <2>2 DEF Running
  <2>5. s[1] \in Running'
    BY <1>5 DEF Running
  <2> QED BY <2>3, <2>4, <2>5
<1>7. next[s[Len(s)]] = NIL /\ \A i \in 1..(Len(s) - 1) : next[s[i]] = s[i + 1]
  BY <1>0, <1>2 DEF QueueHolds, IsList
<1>8. QueueHolds(u)'
  <2>1. size' = Len(u)
    BY <1>1, <1>2, <1>3
  <2>2. \A i \in 1..Len(u) : u[i] \in Accepted'
    BY <1>2, <1>3, <1>4, SMTT(30), Z3T(30)
  <2>3. \A n \in Tasks \ Accepted' : next'[n] = NIL
    BY <1>0, <1>1, <1>4 DEF QueueHolds
  <2>4. CASE Len(s) = 1
    <3>1. Len(u) = 0 /\ ~(Len(u) > 0) /\ front' = NIL /\ rear' = NIL
      BY <1>1, <1>2, <1>3, <1>7, <2>4, SMTT(30), Z3T(30) DEF RearAfterTake
    <3> QED BY <1>3, <2>1, <2>2, <2>3, <3>1 DEF QueueHolds
  <2>5. CASE Len(s) > 1
    <3>1. Len(u) > 0 /\ front' = u[1] /\ rear' = u[Len(u)]
      <4>1. front' = s[2] /\ u[1] = s[2]
        BY <1>1, <1>2, <1>3, <1>7, <2>5, SMTT(30), Z3T(30)
      <4>2. u[Len(u)] = s[Len(s)] /\ rear' = rear
        BY <1>1, <1>2, <1>3, <2>5, SMTT(30), Z3T(30) DEF RearAfterTake
      <4> QED BY <1>2, <1>3, <2>5, <4>1, <4>2, SMTT(30), Z3T(30)
    <3>2. \A i \in 1..(Len(u) - 1) : next'[u[i]] = u[i + 1]
      <4> SUFFICES ASSUME NEW i \in 1..(Len(u) - 1) PROVE next'[u[i]] = u[i + 1]
        OBVIOUS
      <4>1. i \in 1..Len(u) /\ i + 1 \in 1..Len(u) /\ i + 1 \in 1..(Len(s) - 1)
        BY <1>2, <1>3, SMTT(30), Z3T(30)
      <4>2. u[i] = s[i + 1] /\ u[i + 1] = s[(i + 1) + 1]
        BY <1>3, <4>1
      <4> QED BY <1>1, <1>7, <4>1, <4>2
    <3>3. next'[u[Len(u)]] = NIL
      BY <1>1, <1>2, <1>3, <1>7, <2>5, SMTT(30), Z3T(30)
    <3>4. \A i, j \in 1..Len(u) : u[i] = u[j] => i = j
      <4> SUFFICES ASSUME NEW i \in 1..Len(u), NEW j \in 1..Len(u), u[i] = u[j] PROVE i = j
        OBVIOUS
      <4>1. i + 1 \in 1..Len(s) /\ j + 1 \in 1..Len(s) /\ s[i + 1] = s[j + 1]
        BY <1>2, <1>3, SMTT(30), Z3T(30)
      <4>2. i + 1 = j + 1
        BY <1>2, <4>1
      <4> QED BY <4>2, SMTT(30), Z3T(30)
    <3>5. IsList(u, front', next', NIL)
      BY <3>1, <3>2, <3>3, <3>4 DEF IsList
    <3> QED BY <1>3, <2>1, <2>2, <2>3, <3>1, <3>5, SMTT(30), Z3T(30) DEF QueueHolds
  <2>6. Len(s) = 1 \/ Len(s) > 1
    BY <1>2, SMTT(30), Z3T(30)
  <2> QED BY <2>4, <2>5, <2>6
<1>9. NodesOutside(u)'
  <2>1. {s[i] : i \in 1..Len(s)} = {u[i] : i \in 1..Len(u)} \union {s[1]}
    <3>1. ASSUME NEW i \in 1..Len(s) PROVE s[i] \in {u[j] : j \in 1..Len(u)} \union {s[1]}
      <4>1. CASE i = 1
        BY <4>1
      <4>2. CASE i > 1
        <5>1. i - 1 \in 1..Len(u) /\ u[i - 1] = s[i]
          BY <1>2, <1>3, <4>2, SMTT(30), Z3T(30)
        <5> QED BY <5>1
      <4> QED BY <4>1, <4>2, SMTT(30), Z3T(30)
    <3>2. ASSUME NEW j \in 1..Len(u) PROVE \E i \in 1..Len(s) : u[j] = s[i]
      BY <1>2, <1>3, SMTT(30), Z3T(30)
    <3>3. {s[i] : i \in 1..Len(s)} \subseteq {u[i] : i \in 1..Len(u)} \union {s[1]}
      BY <3>1
    <3>4. {u[i] : i \in 1..Len(u)} \union {s[1]} \subseteq {s[i] : i \in 1..Len(s)}
      BY <1>2, <3>2, SMTT(30), Z3T(30)
    <3> QED BY <3>3, <3>4
  <2>2. Running' \subseteq Accepted'
    <3>1. s[1] \in Accepted
      BY <1>0, <1>2, SMTT(30), Z3T(30) DEF QueueHolds
    <3> QED BY <1>0, <1>4, <1>6, <3>1 DEF NodesOutside
  <2>7. ASSUME NEW n \in Tasks
        PROVE  freed'[n] = IF n \in Accepted' \ ({u[i] : i \in 1..Len(u)} \union Running') THEN 1 ELSE 0
    <3>1. n \in Accepted' \ ({u[i] : i \in 1..Len(u)} \union Running')
            <=> n \in Accepted \ ({s[i] : i \in 1..Len(s)} \union Running)
      BY <1>4, <1>6, <2>1
    <3>2. freed[n] = IF n \in Accepted \ ({s[i] : i \in 1..Len(s)} \union Running) THEN 1 ELSE 0
      BY <1>0 DEF NodesOutside
    <3> QED BY <1>1, <3>1, <3>2
  <2>3. \A i \in 1..Len(u) : u[i] # s[1] /\ \E j \in 1..Len(s) : u[i] = s[j]
    BY <1>2, <1>3, SMTT(30), Z3T(30)
  <2>4. ASSUME NEW v \in Workers, pc'[v] = "run"
        PROVE  held'[v] \in Tasks /\ \A i \in 1..Len(u) : u[i] # held'[v]
    BY <1>0, <1>2, <1>5, <2>3, <2>4, SMTT(30), Z3T(30) DEF NodesOutside
  <2>5. ASSUME NEW v \in Workers, NEW x \in Workers, pc'[v] = "run", pc'[x] = "run", held'[v] = held'[x]
        PROVE  v = x
    <3>1. \A y \in Workers : pc[y] = "run" => held[y] # s[1]
      BY <1>0, <1>2, SMTT(30), Z3T(30) DEF NodesOutside
    <3> QED BY <1>0, <1>5, <2>5, <3>1, SMTT(30), Z3T(30) DEF NodesOutside
  <2>6. \A i \in 1..Len(started') : started'[i] \in Accepted'
    <3>1. started \in Seq(Tasks) /\ Len(started) \in Nat
      BY <1>0, SMTT(30), Z3T(30) DEF PoolTypes
    <3>2. Len(started') = Len(started) + 1 /\ started'[Len(started) + 1] = s[1]
          /\ \A i \in 1..Len(started) : started'[i] = started[i]
      BY <1>1, <1>2, <3>1, SMTT(30), Z3T(30)
    <3>3. s[1] \in Accepted /\ \A i \in 1..Len(started) : started[i] \in Accepted
      BY <1>0, <1>2, SMTT(30), Z3T(30) DEF NodesOutside
    <3> QED BY <1>4, <3>1, <3>2, <3>3, SMTT(30), Z3T(30)
  <2> QED BY <2>2, <2>4, <2>5, <2>6, <2>7 DEF NodesOutside
<1>10. TakerSawWork'
  <2>1. \A v \in Workers : v # w => pc[v] # "check"
    BY <1>1 DEF PoolInv, Inside
  <2> QED BY <1>5, <2>1 DEF TakerSawWork
<1>11. PoolTypes'
  BY <1>0, <1>1, <1>2, SMTT(30), Z3T(30) DEF PoolTypes
<1> QED BY <1>2, <1>6, <1>8, <1>9, <1>10, <1>11 DEF Ledger, u

\* A worker frees the node it ran, which no other worker runs.
LEMMA LedgerFinish ==
  ASSUME PoolInv, NEW s, Ledger(s), NEW w \in Workers, Finish(w)
  PROVE  /\ Ledger(s)' /\ held[w] \in Running /\ held[w] \in Tasks
         /\ Running' = Running \ {held[w]}
<1>0. PoolTypes /\ QueueHolds(s) /\ NodesOutside(s) /\ TakerSawWork
  BY DEF Ledger
<1>1. /\ pc[w] = "run" /\ freed' = [freed EXCEPT ![held[w]] = @ + 1] /\ held' = [held EXCEPT ![w] = NIL]
      /\ pc' = [pc EXCEPT ![w] = "lock"] /\ UNCHANGED <<queueVars, add, started, shutdown>>
  BY DEF Finish
<1>2. held[w] \in Running /\ held[w] \in Tasks
  BY <1>0, <1>1 DEF Running, NodesOutside
<1>3. pc'[w] = "lock" /\ \A v \in Workers : v # w => pc'[v] = pc[v] /\ held'[v] = held[v]
  BY <1>0, <1>1 DEF PoolInv, PoolTypes
<1>4. Running' = Running \ {held[w]}
  <2>1. ASSUME NEW v \in Workers, pc'[v] = "run" PROVE held'[v] \in Running \ {held[w]}
    BY <1>0, <1>1, <1>3, <2>1, SMTT(30), Z3T(30) DEF Running, NodesOutside
  <2>2. ASSUME NEW v \in Workers, pc[v] = "run", held[v] # held[w] PROVE pc'[v] = "run" /\ held'[v] = held[v]
    BY <1>3, <2>2
  <2>3. Running' \subseteq Running \ {held[w]}
    BY <2>1 DEF Running
  <2>4. Running \ {held[w]} \subseteq Running'
    BY <2>2 DEF Running
  <2> QED BY <2>3, <2>4
<1>5. Accepted' = Accepted
  BY <1>1 DEF Accepted
<1>6. QueueHolds(s)'
  BY <1>0, <1>1, <1>5 DEF QueueHolds, queueVars
<1>7. NodesOutside(s)'
  <2>1. Running' \subseteq Accepted'
    BY <1>0, <1>4, <1>5 DEF NodesOutside
  <2>3. ASSUME NEW n \in Tasks
        PROVE  freed'[n] = IF n \in Accepted' \ ({s[i] : i \in 1..Len(s)} \union Running') THEN 1 ELSE 0
    <3>1. freed[n] = IF n \in Accepted \ ({s[i] : i \in 1..Len(s)} \union Running) THEN 1 ELSE 0
      BY <1>0 DEF NodesOutside
    <3>2. CASE n = held[w]
      <4>1. freed[n] = 0
        BY <1>2, <3>1, <3>2
      <4>2. n \in Accepted' \ ({s[i] : i \in 1..Len(s)} \union Running')
        BY <1>0, <1>1, <1>2, <1>4, <1>5, <3>2 DEF NodesOutside
      <4>3. freed'[n] = freed[n] + 1
        BY <1>0, <1>1, <1>2, <3>2 DEF PoolTypes
      <4>4. freed'[n] = 1
        BY <4>1, <4>3, SMTT(30), Z3T(30)
      <4> QED BY <4>2, <4>4
    <3>3. CASE n # held[w]
      <4>1. freed'[n] = freed[n]
        BY <1>0, <1>1, <3>3 DEF PoolTypes
      <4>2. n \in Running' <=> n \in Running
        BY <1>4, <3>3
      <4> QED BY <1>5, <3>1, <4>1, <4>2
    <3> QED BY <3>2, <3>3
  <2>2. \A v \in Workers : pc'[v] = "run" => v # w /\ pc[v] = "run" /\ held'[v] = held[v]
    BY <1>3
  <2>4. \A v \in Workers : pc'[v] = "run" => held'[v] \in Tasks /\ \A i \in 1..Len(s) : s[i] # held'[v]
    BY <1>0, <2>2 DEF NodesOutside
  <2>5. \A v, x \in Workers : pc'[v] = "run" /\ pc'[x] = "run" /\ held'[v] = held'[x] => v = x
    BY <1>0, <2>2 DEF NodesOutside
  <2>6. \A i \in 1..Len(started') : started'[i] \in Accepted'
    BY <1>0, <1>1, <1>5 DEF NodesOutside
  <2> QED BY <2>1, <2>3, <2>4, <2>5, <2>6 DEF NodesOutside
<1>8. TakerSawWork'
  BY <1>0, <1>1, <1>3 DEF TakerSawWork, queueVars
<1>9. PoolTypes'
  <2>1. freed[held[w]] + 1 \in Nat
    BY <1>0, <1>2, SMTT(30), Z3T(30) DEF PoolTypes
  <2>2. freed' \in [Tasks -> Nat]
    BY <1>0, <1>1, <2>1 DEF PoolTypes
  <2> QED BY <1>0, <1>1, <1>2, <2>2 DEF PoolTypes, queueVars
<1> QED BY <1>2, <1>4, <1>6, <1>7, <1>8, <1>9 DEF Ledger

\* Following the links from m_WorkQueueFront meets the nodes of the list, in
\* order, and then nothing.
LEMMA ReachedOn ==
  ASSUME NEW s \in Seq(Tasks), NEW p, NEW links,
         Len(s) = 0 => p = NIL, Len(s) > 0 => IsList(s, p, links, NIL)
  PROVE  /\ Cardinality(Tasks) \in Nat /\ Len(s) <= Cardinality(Tasks)
         /\ \A n \in 0..Cardinality(Tasks) :
              Follow(p, links, NIL, Cardinality(Tasks))[n] = IF n < Len(s) THEN s[n + 1] ELSE NIL
<1>1. Cardinality(Tasks) \in Nat /\ Len(s) \in Nat
  BY PoolAssumption, FS_CardinalityType, SMTT(30), Z3T(30)
<1>2. CASE Len(s) = 0
  <2>1. \A n \in 0..Cardinality(Tasks) : Follow(p, links, NIL, Cardinality(Tasks))[n] = NIL
    BY <1>1, <1>2, FollowNil, SMTT(30), Z3T(30)
  <2> QED BY <1>1, <1>2, <2>1, SMTT(30), Z3T(30)
<1>3. CASE Len(s) > 0
  <2>1. \A n \in 0..Cardinality(Tasks) :
          Follow(p, links, NIL, Cardinality(Tasks))[n] = IF n < Len(s) THEN s[n + 1] ELSE NIL
    BY <1>1, <1>3, PoolAssumption, FollowOnList, SMTT(30), Z3T(30)
  <2>2. Len(s) \in 1..Cardinality(Tasks)
    BY <1>3, PoolAssumption, ListFits
  <2> QED BY <1>1, <2>1, <2>2, SMTT(30), Z3T(30)
<1> QED BY <1>1, <1>2, <1>3, SMTT(30), Z3T(30)

\* The nodes linked behind m_WorkQueueFront are those of the list.
LEMMA LinkedIs ==
  ASSUME NEW s, QueueHolds(s)
  PROVE  Linked = {s[i] : i \in 1..Len(s)}
<1>1. s \in Seq(Tasks) /\ Len(s) \in Nat /\ \A i \in 1..Len(s) : s[i] # NIL
  BY QueueFacts
<1>2. Cardinality(Tasks) \in Nat /\ Len(s) <= Cardinality(Tasks)
  BY ReachedOn DEF QueueHolds
<1>3. \A n \in 0..Cardinality(Tasks) : Reached[n] = IF n < Len(s) THEN s[n + 1] ELSE NIL
  BY ReachedOn, ZenonT(60) DEF QueueHolds, Reached
<1>4. ASSUME NEW n \in 0..Cardinality(Tasks), Reached[n] # NIL PROVE \E i \in 1..Len(s) : Reached[n] = s[i]
  BY <1>1, <1>3, <1>4, SMTT(30), Z3T(30)
<1>5. ASSUME NEW i \in 1..Len(s) PROVE s[i] \in Linked
  <2>1. i - 1 \in 0..Cardinality(Tasks) /\ Reached[i - 1] = s[i]
    BY <1>1, <1>2, <1>3, SMTT(30), Z3T(30)
  <2> QED BY <1>1, <2>1 DEF Linked
<1>6. Linked \subseteq {s[i] : i \in 1..Len(s)}
  BY <1>4 DEF Linked
<1>7. {s[i] : i \in 1..Len(s)} \subseteq Linked
  BY <1>5
<1> QED BY <1>6, <1>7

\* The abstract queue is the list, in a state and in its successor.
LEMMA QueuedIs ==
  ASSUME NEW s
  PROVE  (QueueHolds(s) => Queued = s) /\ (QueueHolds(s)' => Queued' = s)
<1>1. ASSUME NEW p, NEW links, s \in Seq(Tasks),
             Len(s) = 0 => p = NIL, Len(s) > 0 => IsList(s, p, links, NIL)
      PROVE  [i \in 1..Len(s) |-> Follow(p, links, NIL, Cardinality(Tasks))[i - 1]] = s
  <2> DEFINE W == Follow(p, links, NIL, Cardinality(Tasks))
             q == [i \in 1..Len(s) |-> W[i - 1]]
  <2>1. Len(s) \in Nat /\ Cardinality(Tasks) \in Nat /\ Len(s) <= Cardinality(Tasks)
    BY <1>1, ReachedOn, SMTT(30), Z3T(30)
  <2>2. \A n \in 0..Cardinality(Tasks) : W[n] = IF n < Len(s) THEN s[n + 1] ELSE NIL
    BY <1>1, ReachedOn, SMTT(30), Z3T(30)
  <2> HIDE DEF W
  <2>3. \A i \in 1..Len(s) : W[i - 1] = s[i]
    BY <2>1, <2>2, SMTT(30), Z3T(30)
  <2>4. \A i \in 1..Len(s) : s[i] \in Tasks
    BY <1>1, SMTT(30), Z3T(30)
  <2>5. q \in Seq(Tasks) /\ Len(q) = Len(s)
    BY <2>1, <2>3, <2>4, SMTT(30), Z3T(30)
  <2>6. \A i \in 1..Len(s) : q[i] = s[i]
    BY <2>3
  <2> HIDE DEF q
  <2>7. q = s
    BY <1>1, <2>5, <2>6, SeqEqual
  <2> QED BY <2>7 DEF q, W
<1>2. QueueHolds(s) => Queued = s
  BY <1>1, SMTT(30), Z3T(30) DEF QueueHolds, Queued, Reached
<1>3. QueueHolds(s)' => Queued' = s
  BY <1>1, SMTT(30), Z3T(30) DEF QueueHolds, Queued, Reached
<1> QED BY <1>2, <1>3

\* Destroy frees what is queued.
LEMMA LedgerFree ==
  ASSUME PoolInv, NEW s, Ledger(s), DestroyFree
  PROVE  Ledger(<<>>)' /\ Running = {} /\ Running' = {}
<1>0. PoolTypes /\ QueueHolds(s) /\ NodesOutside(s) /\ TakerSawWork
  BY DEF Ledger
<1>1. /\ freed' = [t \in Tasks |-> IF t \in Linked THEN freed[t] + 1 ELSE freed[t]] /\ front' = NIL /\ rear' = NIL /\ size' = 0
      /\ UNCHANGED <<next, pc, held, add, started>>
      /\ \A w \in Workers : pc[w] \in {"none", "gone"}
  BY DEF DestroyFree, FreedAtDestroy, Joined
<1>2. Linked = {s[i] : i \in 1..Len(s)}
  BY <1>0, LinkedIs
<1>3. Running = {} /\ Running' = {} /\ Accepted' = Accepted
  BY <1>1 DEF Running, Accepted
<1>4. QueueHolds(<<>>)'
  BY <1>0, <1>1, <1>3, SMTT(30), Z3T(30) DEF QueueHolds
<1>5. NodesOutside(<<>>)'
  <2>1. {<<>>[i] : i \in 1..Len(<<>>)} = {}
    BY SMTT(30), Z3T(30)
  <2>2. ASSUME NEW n \in Tasks
        PROVE  freed'[n] = IF n \in Accepted' \ ({<<>>[i] : i \in 1..Len(<<>>)} \union Running') THEN 1 ELSE 0
    <3>1. freed[n] = IF n \in Accepted \ Linked THEN 1 ELSE 0
      BY <1>0, <1>2, <1>3 DEF NodesOutside
    <3>2. Linked \subseteq Accepted
      BY <1>0, <1>2 DEF QueueHolds
    <3>3. freed'[n] = IF n \in Linked THEN freed[n] + 1 ELSE freed[n]
      BY <1>1
    <3>4. freed'[n] = IF n \in Accepted THEN 1 ELSE 0
      <4>1. CASE n \in Linked
        <5>1. freed[n] = 0 /\ freed'[n] = freed[n] + 1 /\ n \in Accepted
          BY <3>1, <3>2, <3>3, <4>1
        <5> QED BY <5>1, SMTT(30), Z3T(30)
      <4>2. CASE n \notin Linked
        BY <3>1, <3>3, <4>2
      <4> QED BY <4>1, <4>2
    <3> QED BY <1>3, <2>1, <3>4
  <2>3. \A w \in Workers : pc'[w] # "run"
    BY <1>1
  <2>4. Running' \subseteq Accepted'
    BY <1>3
  <2>5. \A i \in 1..Len(started') : started'[i] \in Accepted'
    BY <1>0, <1>1, <1>3 DEF NodesOutside
  <2> QED BY <2>2, <2>3, <2>4, <2>5 DEF NodesOutside
<1>6. TakerSawWork'
  BY <1>1 DEF TakerSawWork
<1>7. PoolTypes'
  <2>1. freed' \in [Tasks -> Nat]
    BY <1>0, <1>1, SMTT(30), Z3T(30) DEF PoolTypes
  <2> QED BY <1>0, <1>1, <2>1 DEF PoolTypes
<1> QED BY <1>3, <1>4, <1>5, <1>6, <1>7 DEF Ledger

\* The nodes are accounted for in every state.
LEMMA LedgerInvariant == Spec => []LedgerInv
<1>1. Init => LedgerInv
  BY PoolInit, LedgerInit DEF LedgerInv
<1>2. LedgerInv /\ [Next]_vars => LedgerInv'
  <2> SUFFICES ASSUME LedgerInv, [Next]_vars PROVE LedgerInv'
    OBVIOUS
  <2>1. PoolInv'
    <3>1. CASE UNCHANGED vars
      BY <3>1 DEF LedgerInv, vars, PoolInv, WorkerPc, Inside
    <3>2. CASE Next
      BY <3>2, OwnerStep, CallerStep, WorkerStep DEF LedgerInv, Next
    <3> QED BY <3>1, <3>2
  <2>2. PICK s : Ledger(s)
    BY DEF LedgerInv
  <2>3. \E u : Ledger(u)'
    <3>0. PoolInv
      BY DEF LedgerInv
    <3>1. CASE UNCHANGED vars
      <4>1. Ledger(s)'
        BY <2>2, <3>1,
           SMTT(30), Z3T(30) DEF vars, Ledger, PoolTypes, QueueHolds, NodesOutside, TakerSawWork, Accepted, Running
      <4> QED BY <4>1
    <3>2. CASE Create \/ CreateFails \/ DestroyFlag \/ DestroyBroadcast
      BY <2>2, <3>0, <3>2, LedgerOwner
    <3>3. CASE DestroyFree
      BY <2>2, <3>0, <3>3, LedgerFree
    <3>4. ASSUME NEW t \in Tasks, AddFail(t) \/ AddSignal(t) PROVE \E u : Ledger(u)'
      BY <2>2, <3>0, <3>4, LedgerCaller
    <3>5. ASSUME NEW t \in Tasks, AddLink(t) PROVE \E u : Ledger(u)'
      BY <2>2, <3>0, <3>5, LedgerAdd
    <3>6. ASSUME NEW w \in Workers, Take(w) PROVE \E u : Ledger(u)'
      BY <2>2, <3>0, <3>6, LedgerTake
    <3>7. ASSUME NEW w \in Workers, Finish(w) PROVE \E u : Ledger(u)'
      BY <2>2, <3>0, <3>7, LedgerFinish
    <3>8. ASSUME NEW w \in Workers, Lock(w) \/ Test(w) \/ Sleep(w) \/ Quit(w) \/ Spurious(w)
          PROVE  \E u : Ledger(u)'
      BY <2>2, <3>0, <3>8, LedgerWorker, ZenonT(60)
    <3> QED BY <3>1, <3>2, <3>3, <3>4, <3>5, <3>6, <3>7, <3>8, ZenonT(60) DEF Next, Routine
  <2> QED BY <2>1, <2>3 DEF LedgerInv
<1> QED BY <1>1, <1>2, PTL DEF Spec

\* Every node that Add accepted is queued, with exactly one worker, or freed
\* exactly once, and never two of these: NodesAccounted holds for any number of
\* workers and tasks.
THEOREM NoNodeLost == Spec => []NodesAccounted
<1>1. LedgerInv => NodesAccounted
  <2> SUFFICES ASSUME NEW s, Ledger(s) PROVE NodesAccounted
    BY DEF LedgerInv
  <2>1. Linked = {s[i] : i \in 1..Len(s)}
    BY LinkedIs DEF Ledger
  <2>2. Linked \subseteq Accepted
    BY <2>1 DEF Ledger, QueueHolds
  <2>3. Linked \intersect Running = {}
    <3>1. ASSUME NEW w \in Workers, pc[w] = "run", NEW i \in 1..Len(s) PROVE s[i] # held[w]
      BY <3>1 DEF Ledger, NodesOutside
    <3>2. \A x \in Running : x \notin {s[i] : i \in 1..Len(s)}
      BY <3>1 DEF Running
    <3> QED BY <2>1, <3>2
  <2>4. \A t \in Tasks : freed[t] = IF t \in Accepted \ (Linked \union Running) THEN 1 ELSE 0
    BY <2>1 DEF Ledger, NodesOutside
  <2> QED BY <2>2, <2>3, <2>4 DEF Ledger, NodesOutside, NodesAccounted
<1> QED BY LedgerInvariant, <1>1, PTL

\* The pool of linked nodes, threads and a mutex implements the pool its
\* callers are promised: tasks begin one by one in the order of their Adds,
\* none twice, and Destroy drops only what no worker has begun.
THEOREM ImplementsPool == Spec => PoolSpec
<1>1. Init => Pool!Init
  <2> SUFFICES ASSUME Init PROVE Queued = <<>> /\ Running = {} /\ started = <<>> /\ owner # "closed"
    BY DEF Pool!Init
  <2>1. Queued = <<>>
    BY LedgerInit, QueuedIs DEF Ledger
  <2> QED BY <2>1 DEF Init, Running
<1>2. LedgerInv /\ [Next]_vars => [Pool!Next]_Pool!vars
  <2> DEFINE open == owner # "closed"
  <2> SUFFICES ASSUME LedgerInv, Next
               PROVE  Pool!Next \/ UNCHANGED <<Queued, Running, started, open>>
    BY DEF vars, Pool!vars, Queued, Reached, Running
  <2>0. PoolInv
    BY DEF LedgerInv
  <2>1. PICK s : Ledger(s)
    BY DEF LedgerInv
  <2>2. Queued = s /\ s \in Seq(Tasks) /\ \A u : Ledger(u)' => Queued' = u
    BY <2>1, QueuedIs DEF Ledger, QueueHolds
  <2>3. CASE Create
    <3>1. Queued' = Queued /\ Running' = Running /\ started' = started
      BY <2>0, <2>1, <2>2, <2>3, LedgerOwner, ZenonT(60) DEF Create
    <3>2. owner' = "open" /\ owner \in {"new", "closed"}
      BY <2>3 DEF Create
    <3> QED BY <3>1, <3>2 DEF Pool!Next, Pool!Reopen
  <2>11. CASE CreateFails
    <3>1. Queued' = Queued /\ Running' = Running
      BY <2>0, <2>1, <2>2, <2>11, LedgerOwner
    <3>2. started' = started /\ owner' = owner
      BY <2>11 DEF CreateFails
    <3> QED BY <3>1, <3>2
  <2>4. CASE DestroyFlag \/ DestroyBroadcast
    <3>1. Queued' = Queued /\ Running' = Running
      BY <2>0, <2>1, <2>2, <2>4, LedgerOwner
    <3>2. started' = started /\ owner' # "closed" /\ owner # "closed"
      BY <2>4 DEF DestroyFlag, DestroyBroadcast
    <3> QED BY <3>1, <3>2
  <2>5. CASE DestroyFree
    <3>1. Queued' = <<>> /\ Running = {} /\ Running' = {}
      BY <2>0, <2>1, <2>2, <2>5, LedgerFree
    <3>2. started' = started /\ owner = "joining" /\ owner' = "closed"
      BY <2>5 DEF DestroyFree
    <3> QED BY <3>1, <3>2 DEF Pool!Next, Pool!Close
  <2>6. ASSUME NEW t \in Tasks, AddFail(t) \/ AddSignal(t)
        PROVE  UNCHANGED <<Queued, Running, started, open>>
    <3>1. Queued' = Queued /\ Running' = Running
      BY <2>0, <2>1, <2>2, <2>6, LedgerCaller
    <3>2. started' = started /\ owner' = owner
      BY <2>6 DEF AddFail, AddSignal
    <3> QED BY <3>1, <3>2
  <2>7. ASSUME NEW t \in Tasks, AddLink(t) PROVE Pool!Accept(t)
    <3>1. Queued' = Append(s, t) /\ Running' = Running /\ t \notin Accepted
      BY <2>0, <2>1, <2>2, <2>7, LedgerAdd
    <3>2. started' = started /\ owner' = owner /\ owner # "closed"
      BY <2>7 DEF AddLink
    <3>3. \A i \in DOMAIN s : s[i] \in Accepted
      <4>1. s \in Seq(Tasks) /\ \A i \in 1..Len(s) : s[i] \in Accepted
        BY <2>1 DEF Ledger, QueueHolds
      <4>2. DOMAIN s = 1..Len(s)
        BY <4>1, SMT
      <4> QED BY ONLY <4>1, <4>2, Zenon
    <3>4. \A i \in DOMAIN started : started[i] \in Accepted
      BY <2>1, SMTT(30), Z3T(30) DEF Ledger, NodesOutside, PoolTypes
    <3>5. ~Pool!Known(t)
      BY <2>2, <3>1, <3>3, <3>4 DEF Pool!Known
    <3> QED BY <2>2, <3>1, <3>2, <3>5 DEF Pool!Accept
  <2>8. ASSUME NEW w \in Workers, Take(w) PROVE Pool!Begin
    <3>1. Len(s) > 0 /\ front = s[1] /\ Queued' = Tail(s) /\ Running' = Running \union {s[1]}
      BY <2>0, <2>1, <2>2, <2>8, LedgerTake
    <3>2. started' = Append(started, front) /\ owner' = owner
      BY <2>8 DEF Take
    <3>3. owner # "closed"
      BY <2>0, <2>8 DEF PoolInv, Take
    <3>4. s # <<>> /\ Head(s) = s[1]
      BY <2>2, <3>1, SMTT(30), Z3T(30)
    <3> QED BY <2>2, <3>1, <3>2, <3>3, <3>4 DEF Pool!Begin
  <2>9. ASSUME NEW w \in Workers, Finish(w) PROVE Pool!Next
    <3>1. Queued' = Queued /\ held[w] \in Running /\ held[w] \in Tasks /\ Running' = Running \ {held[w]}
      BY <2>0, <2>1, <2>2, <2>9, LedgerFinish
    <3>2. started' = started /\ owner' = owner
      BY <2>9 DEF Finish
    <3> QED BY <3>1, <3>2 DEF Pool!Next, Pool!End
  <2>10. ASSUME NEW w \in Workers, Lock(w) \/ Test(w) \/ Sleep(w) \/ Quit(w) \/ Spurious(w)
         PROVE  UNCHANGED <<Queued, Running, started, open>>
    <3>1. Queued' = Queued /\ Running' = Running
      BY <2>0, <2>1, <2>2, <2>10, LedgerWorker
    <3>2. started' = started /\ owner' = owner
      BY <2>10 DEF Lock, Test, Sleep, Quit, Spurious
    <3> QED BY <3>1, <3>2
  <2> QED BY <2>3, <2>4, <2>5, <2>6, <2>7, <2>8, <2>9, <2>10, <2>11 DEF Next, Routine, Pool!Next
<1> QED BY <1>1, <1>2, LedgerInvariant, PTL DEF Spec, PoolSpec, Pool!Spec
=============================================================================
