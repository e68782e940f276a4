----------------------------- MODULE MCNmeaRing -----------------------------
(* NmeaRing with a small ring and every short mix of sentences and bytes.  *)
EXTENDS NmeaRing, FiniteSets

\* A sequence of sentences ("P") and other bytes ("J") as a layout.
Sentences(items, n) == Cardinality({m \in 1..(n - 1) : items[m] = "P"})

At(items, n) == n + (PacketLen - 1) * Sentences(items, n)

Layout(items) ==
    LET n == Len(items)
        P == {m \in 1..n : items[m] = "P"}
    IN  [len    |-> n + (PacketLen - 1) * Cardinality(P),
         starts |-> [p \in 1..Cardinality(P) |->
                        At(items, CHOOSE m \in P : Sentences(items, m) = p - 1)]]

MCLayouts == {Layout(items) : items \in UNION {[1..n -> {"P", "J"}] : n \in 1..6}}
=============================================================================
