----------------------------- MODULE MCCausality -----------------------------
(* Causality on two nodes, with a reader on the second.                    *)
EXTENDS Causality, TLC

CONSTANTS a, b, w, m1, m2, m3

MCHome == w :> b

Swaps == Permutations(Msgs)
=============================================================================
