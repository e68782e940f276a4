------------------------------ MODULE WorkPool ------------------------------
(***************************************************************************)
(* What a thread pool promises its callers, without threads, mutex or      *)
(* nodes: tasks are begun one by one in the order they were accepted, each *)
(* at most once, and closing the pool drops what was not begun, after the  *)
(* running tasks have ended.                                               *)
(***************************************************************************)
EXTENDS Naturals, Sequences

CONSTANT Tasks

VARIABLES
    pending,   \* accepted, not begun
    running,   \* begun, not ended
    begun,     \* every task begun so far, in order
    open       \* the pool accepts tasks

vars == <<pending, running, begun, open>>

Known(t) ==
    \/ \E i \in DOMAIN pending : pending[i] = t
    \/ \E i \in DOMAIN begun : begun[i] = t

Init == pending = <<>> /\ running = {} /\ begun = <<>> /\ open = TRUE

Accept(t) ==
    /\ open /\ ~Known(t)
    /\ pending' = Append(pending, t)
    /\ UNCHANGED <<running, begun, open>>

Begin ==
    /\ open /\ pending # <<>>
    /\ running' = running \union {Head(pending)}
    /\ begun' = Append(begun, Head(pending))
    /\ pending' = Tail(pending)
    /\ UNCHANGED open

End(t) ==
    /\ t \in running
    /\ running' = running \ {t}
    /\ UNCHANGED <<pending, begun, open>>

Close ==
    /\ open /\ running = {}
    /\ pending' = <<>> /\ open' = FALSE
    /\ UNCHANGED <<running, begun>>

Reopen ==
    /\ ~open /\ open' = TRUE
    /\ UNCHANGED <<pending, running, begun>>

Next == (\E t \in Tasks : Accept(t) \/ End(t)) \/ Begin \/ Close \/ Reopen

Spec == Init /\ [][Next]_vars
=============================================================================
