------------------------------ MODULE Positions ------------------------------
(* Parts of a sequence by where they stand: SelectSeq in a form that can be  *)
(* reasoned about.                                                           *)
EXTENDS Naturals, Sequences, FiniteSets

\* The positions at, the smallest first.
InOrder(at) ==
    [k \in 1 .. Cardinality(at) |->
        CHOOSE i \in at : Cardinality({j \in at : j <= i}) = k]

\* What s has at these positions, in order.
Picked(s, at) ==
    LET order == InOrder(at)
    IN  [k \in 1 .. Cardinality(at) |-> s[order[k]]]
=============================================================================
