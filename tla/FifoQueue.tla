----------------------------- MODULE FifoQueue -----------------------------
(***************************************************************************)
(* What the users of tools/recordLib/eventQueue.cpp rely on: a FIFO queue  *)
(* that may silently drop an element when memory runs out, and a dequeue   *)
(* that leaves the caller's element alone when the queue is empty.         *)
(***************************************************************************)
EXTENDS Sequences

CONSTANTS Elems,   \* what can be queued
          NoElem   \* the caller's element before anything was dequeued

VARIABLES items,   \* the queued elements, oldest first
          elem     \* the element the caller of DeQueue passes by reference

vars == <<items, elem>>

Init == items = <<>> /\ elem = NoElem

Put(e) == items' = Append(items, e) /\ UNCHANGED elem

Take ==
    /\ items # <<>>
    /\ elem' = Head(items)
    /\ items' = Tail(items)

Empty == items' = <<>> /\ UNCHANGED elem

Next == (\E e \in Elems : Put(e)) \/ Take \/ Empty

Spec == Init /\ [][Next]_vars
=============================================================================
