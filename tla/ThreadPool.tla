----------------------------- MODULE ThreadPool -----------------------------
(***************************************************************************)
(* CThreadPool of tools/thread_pool_test/thread.cpp: a linked queue of     *)
(* work nodes behind m_Mutex and m_Cond, workers that run ThreadRoutine,   *)
(* callers of Add, and the owner, who calls Create and Destroy.            *)
(*                                                                         *)
(* One step of a worker is what it does between two points where another   *)
(* thread can be seen: m_Mutex serialises the queue, but m_Shutdown is     *)
(* written and broadcast without it, so each read of the flag is a step of *)
(* its own.  The loop test of ThreadRoutine is written "m_Shutdown =       *)
(* false" (line 417); the model reads the comparison it stands for.        *)
(*                                                                         *)
(* The pool has no guard against calls of Add that come after Destroy has  *)
(* joined the workers: the mutex is gone.  The callers modelled here start *)
(* no Add after that point, and may start one at any time before it.       *)
(***************************************************************************)
EXTENDS Naturals, Sequences, FiniteSets, LinkedList

CONSTANTS
    Workers,     \* the slots of m_ThreadId
    Tasks,       \* one work node (and one caller of Add) per task
    NIL,         \* the null pointer, and the owner of a free mutex
    MaxStartFail,\* bound: threads pthread_create may fail to start
    MaxCreate    \* bound: pools created

ASSUME PoolAssumption ==
    IsFiniteSet(Tasks) /\ NIL \notin Workers /\ NIL \notin Tasks

VARIABLES
    shutdown,    \* m_Shutdown
    front,       \* m_WorkQueueFront
    rear,        \* m_WorkQueueRear
    size,        \* m_WorkQueueSize
    next,        \* the next field of each node
    mutex,       \* the worker that holds m_Mutex, or NIL
    pc,          \* worker -> where it is in ThreadRoutine
    held,        \* worker -> the node it took, or NIL
    add,         \* task -> where its Add is
    owner,       \* where the owner is: "new", "open", "flagged", "joining", "closed"
    started,     \* history: tasks in the order workers took them
    freed,       \* history: task -> how often its node was handed to free
    creates,     \* calls of Create that made a pool
    missed       \* history: Destroy broadcast while a worker stood between
                 \* its test and its wait

queueVars == <<front, rear, size, next>>
vars == <<shutdown, front, rear, size, next, mutex, pc, held, add, owner,
          started, freed, creates, missed>>

WorkerPc == {"none", "lock", "test", "sleep", "waiting", "check", "run", "gone"}

\* Locations at which a worker holds m_Mutex.
Inside == {"test", "sleep", "check"}

Init ==
    /\ shutdown = FALSE /\ front = NIL /\ rear = NIL /\ size = 0
    /\ next = [t \in Tasks |-> NIL]
    /\ mutex = NIL
    /\ pc = [w \in Workers |-> "none"]
    /\ held = [w \in Workers |-> NIL]
    /\ add = [t \in Tasks |-> "idle"]
    /\ owner = "new"
    /\ started = <<>> /\ freed = [t \in Tasks |-> 0] /\ creates = 0 /\ missed = FALSE

(***************************************************************************)
(* The owner.  Create ignores the result of PthreadCreateSched: a slot may *)
(* stay without a thread.  A destroyed pool may be created again.          *)
(***************************************************************************)
Create ==
    /\ owner \in {"new", "closed"} /\ creates < MaxCreate
    /\ creates' = creates + 1
    /\ \E run \in SUBSET Workers :
         /\ Cardinality(Workers \ run) <= MaxStartFail
         /\ pc' = [w \in Workers |-> IF w \in run THEN "lock" ELSE "none"]
    /\ shutdown' = FALSE
    /\ owner' = "open" /\ missed' = FALSE
    /\ UNCHANGED <<queueVars, mutex, held, add, started, freed>>

\* malloc gives no memory for m_ThreadId: Create has lowered the flag and
\* returns -1.  There is no pool, and a Destroy would return at once.
CreateFails ==
    /\ owner \in {"new", "closed"}
    /\ shutdown' = FALSE
    /\ UNCHANGED <<queueVars, mutex, pc, held, add, owner, started, freed, creates, missed>>

\* Destroy up to its broadcast: the flag is set without m_Mutex.
DestroyFlag ==
    /\ owner = "open" /\ ~shutdown
    /\ shutdown' = TRUE
    /\ owner' = "flagged"
    /\ UNCHANGED <<queueVars, mutex, pc, held, add, started, freed, creates, missed>>

\* Mutation: the wake-up is forgotten.
WakeNone == pc' = pc

\* pthread_cond_signal: one waiter, whichever, returns to take the mutex.
WakeOne ==
    IF \E w \in Workers : pc[w] = "waiting"
    THEN \E w \in Workers : pc[w] = "waiting" /\ pc' = [pc EXCEPT ![w] = "lock"]
    ELSE pc' = pc

\* pthread_cond_broadcast.
WakeAll ==
    pc' = [w \in Workers |-> IF pc[w] = "waiting" THEN "lock" ELSE pc[w]]

DestroyBroadcast ==
    /\ owner = "flagged"
    /\ owner' = "joining"
    /\ WakeAll
    /\ missed' = \E w \in Workers : pc[w] = "sleep"
    /\ UNCHANGED <<shutdown, queueVars, mutex, held, add, started, freed, creates>>

\* pthread_join returns for every slot.  In a slot whose thread was not started
\* m_ThreadId holds what malloc left there, and the join is undefined: it may
\* return, as here, or never (Fairness promises nothing then).
Joined == \A w \in Workers : pc[w] \in {"none", "gone"}

\* The nodes reached from m_WorkQueueFront, in order.
Reached == Follow(front, next, NIL, Cardinality(Tasks))
Linked == {Reached[n] : n \in 0..Cardinality(Tasks)} \ {NIL}

\* Mutation: the queued nodes are dropped, not freed.
FreedNone == freed

FreedAtDestroy == [t \in Tasks |-> IF t \in Linked THEN freed[t] + 1 ELSE freed[t]]

\* The rest of Destroy: what is still queued is freed, not run.
DestroyFree ==
    /\ owner = "joining" /\ Joined
    /\ freed' = FreedAtDestroy
    /\ front' = NIL /\ rear' = NIL /\ size' = 0
    /\ owner' = "closed"
    /\ UNCHANGED <<shutdown, next, mutex, pc, held, add, started, creates, missed>>

(***************************************************************************)
(* Add.  The node is linked under the mutex; the signal comes after the    *)
(* unlock.                                                                 *)
(***************************************************************************)
\* NewWork cannot allocate: Add returns -1.
AddFail(t) ==
    /\ add[t] = "idle" /\ owner \in {"open", "flagged", "joining"}
    /\ add' = [add EXCEPT ![t] = "refused"]
    /\ UNCHANGED <<shutdown, queueVars, mutex, pc, held, owner, started, freed, creates, missed>>

\* Mutation: the node is linked in front of the others.
EnqueueFirst(t) ==
    /\ front' = t /\ next' = [next EXCEPT ![t] = front]
    /\ rear' = IF rear = NIL THEN t ELSE rear

Enqueue(t) ==
    /\ rear' = t
    /\ IF rear = NIL
       THEN front' = t /\ next' = next
       ELSE next' = [next EXCEPT ![rear] = t] /\ front' = front

AddLink(t) ==
    /\ add[t] = "idle" /\ owner \in {"open", "flagged", "joining"}
    /\ mutex = NIL
    /\ Enqueue(t)
    /\ size' = size + 1
    /\ add' = [add EXCEPT ![t] = "signal"]
    /\ UNCHANGED <<shutdown, mutex, pc, held, owner, started, freed, creates, missed>>

AddSignal(t) ==
    /\ add[t] = "signal"
    /\ WakeOne
    /\ add' = [add EXCEPT ![t] = "done"]
    /\ UNCHANGED <<shutdown, queueVars, mutex, held, owner, started, freed, creates, missed>>

(***************************************************************************)
(* ThreadRoutine.                                                          *)
(***************************************************************************)
\* pthread_mutex_lock, and the relock that ends pthread_cond_wait.
Lock(w) ==
    /\ pc[w] = "lock" /\ mutex = NIL
    /\ mutex' = w
    /\ pc' = [pc EXCEPT ![w] = "test"]
    /\ UNCHANGED <<shutdown, queueVars, held, add, owner, started, freed, creates, missed>>

\* The loop test.
Test(w) ==
    /\ pc[w] = "test"
    /\ pc' = [pc EXCEPT ![w] = IF size = 0 /\ ~shutdown THEN "sleep" ELSE "check"]
    /\ UNCHANGED <<shutdown, queueVars, mutex, held, add, owner, started, freed, creates, missed>>

\* pthread_cond_wait releases the mutex and starts to wait in one step.
Sleep(w) ==
    /\ pc[w] = "sleep"
    /\ mutex' = NIL
    /\ pc' = [pc EXCEPT ![w] = "waiting"]
    /\ UNCHANGED <<shutdown, queueVars, held, add, owner, started, freed, creates, missed>>

\* POSIX lets pthread_cond_wait return without a signal.
Spurious(w) ==
    /\ pc[w] = "waiting"
    /\ pc' = [pc EXCEPT ![w] = "lock"]
    /\ UNCHANGED <<shutdown, queueVars, mutex, held, add, owner, started, freed, creates, missed>>

\* The second read of m_Shutdown finds it raised: the queue is left as it is.
Quit(w) ==
    /\ pc[w] = "check" /\ shutdown
    /\ mutex' = NIL
    /\ pc' = [pc EXCEPT ![w] = "gone"]
    /\ UNCHANGED <<shutdown, queueVars, held, add, owner, started, freed, creates, missed>>

RearAfterTake == IF size = 1 THEN NIL ELSE rear

Take(w) ==
    /\ pc[w] = "check" /\ ~shutdown
    /\ size' = size - 1
    /\ held' = [held EXCEPT ![w] = front]
    /\ front' = next[front]
    /\ rear' = RearAfterTake
    /\ started' = Append(started, front)
    /\ mutex' = NIL
    /\ pc' = [pc EXCEPT ![w] = "run"]
    /\ UNCHANGED <<shutdown, next, add, owner, freed, creates, missed>>

\* The task runs outside the mutex, then its node is freed.
Finish(w) ==
    /\ pc[w] = "run"
    /\ freed' = [freed EXCEPT ![held[w]] = @ + 1]
    /\ held' = [held EXCEPT ![w] = NIL]
    /\ pc' = [pc EXCEPT ![w] = "lock"]
    /\ UNCHANGED <<shutdown, queueVars, mutex, add, owner, started, creates, missed>>

Routine(w) ==
    \/ Lock(w) \/ Test(w) \/ Sleep(w) \/ Quit(w) \/ Take(w) \/ Finish(w)

Next ==
    \/ Create \/ CreateFails \/ DestroyFlag \/ DestroyBroadcast \/ DestroyFree
    \/ \E t \in Tasks : AddFail(t) \/ AddLink(t) \/ AddSignal(t)
    \/ \E w \in Workers : Routine(w) \/ Spurious(w)

Spec == Init /\ [][Next]_vars

(***************************************************************************)
(* A started thread keeps running (strong fairness on Lock: pthread gives  *)
(* every thread that keeps asking its turn), tasks return, Add finishes    *)
(* once begun and Destroy goes on once begun, if it has only threads to    *)
(* join that were started.                                                 *)
(***************************************************************************)
AllStarted == \A w \in Workers : pc[w] # "none"

Fairness ==
    /\ \A w \in Workers : SF_vars(Lock(w)) /\ WF_vars(Routine(w))
    /\ \A t \in Tasks : WF_vars(AddSignal(t))
    /\ WF_vars(DestroyBroadcast) /\ WF_vars(AllStarted /\ DestroyFree)

FairSpec == Spec /\ Fairness

-----------------------------------------------------------------------------
\* Once Destroy has freed the queue and destroyed m_Mutex, no worker is left
\* that could lock the mutex or hold a node: the joins come first.
NoWorkerAfterDestroy ==
    owner = "closed" =>
        /\ mutex = NIL
        /\ \A w \in Workers : pc[w] \in {"none", "gone"} /\ held[w] = NIL

\* The nodes whose tasks workers are running.
Running == {held[w] : w \in {v \in Workers : pc[v] = "run"}}

\* The tasks whose node Add has linked.
Accepted == {t \in Tasks : add[t] \in {"signal", "done"}}

\* Every node that Add accepted is in exactly one place: in the queue, with
\* exactly one worker, or freed, and then freed once.  No node leaks, none is
\* freed twice, and none is freed while it is queued or its task runs, by the
\* workers and Destroy together.
NodesAccounted ==
    /\ Linked \union Running \subseteq Accepted
    /\ Linked \intersect Running = {}
    /\ \A v, w \in Workers : pc[v] = "run" /\ pc[w] = "run" /\ held[v] = held[w] => v = w
    /\ \A t \in Tasks : freed[t] = IF t \in Accepted \ (Linked \union Running) THEN 1 ELSE 0

\* A queued task is started, as long as the pool has a thread and Destroy is
\* not called: signalling after the unlock loses no wake-up.
QueuedIsStarted ==
    \A t \in Tasks :
        (t \in Linked /\ \E w \in Workers : pc[w] # "none")
            ~> ((\E i \in 1..Len(started) : started[i] = t) \/ shutdown)

\* Destroy of a pool whose threads all started returns, unless it broadcast
\* while a worker stood between its test and its wait: that worker sleeps
\* through the broadcast, and the join never returns.
DestroyReturns == (owner = "joining" /\ AllStarted /\ ~missed) ~> owner = "closed"

\* The abstract pool this one implements: see WorkPool.
Queued == [i \in 1..size |-> Reached[i - 1]]
Pool == INSTANCE WorkPool WITH
            pending <- Queued,
            running <- Running,
            begun <- started,
            open <- owner # "closed"
PoolSpec == Pool!Spec
=============================================================================
