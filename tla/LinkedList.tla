----------------------------- MODULE LinkedList -----------------------------
(***************************************************************************)
(* Singly linked lists, as eventQueue.cpp and thread.cpp keep them: a      *)
(* pointer to the first node, a next field in every node, and nil behind   *)
(* the last one.                                                           *)
(***************************************************************************)
EXTENDS Naturals, Sequences

\* The node that n links lead to from p, for n up to k: nil from the end of
\* the list on.
Follow(p, links, nil, k) ==
    LET node[n \in 0..k] ==
            IF n = 0 THEN p ELSE IF node[n - 1] = nil THEN nil ELSE links[node[n - 1]]
    IN  node

\* s lists the nodes linked from p on, of which there is at least one.
IsList(s, p, links, nil) ==
    /\ Len(s) > 0 /\ s[1] = p
    /\ \A i \in 1..(Len(s) - 1) : links[s[i]] = s[i + 1]
    /\ links[s[Len(s)]] = nil
    /\ \A i, j \in 1..Len(s) : s[i] = s[j] => i = j
=============================================================================
