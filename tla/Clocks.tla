------------------------------- MODULE Clocks -------------------------------
(***************************************************************************)
(* The logical clocks of src/salaviva/domain/clocks.py.  A Lamport clock   *)
(* is its counter.  A vector is a function over the nodes: a component     *)
(* that the dictionary does not have counts as zero, in merge and in       *)
(* compare, so the two say the same.                                       *)
(***************************************************************************)
EXTENDS Integers

CONSTANT Nodes

Vectors == [Nodes -> Nat]

NoVector == [k \in Nodes |-> 0]

Larger(a, b) == IF a > b THEN a ELSE b

LamportTick(clock) == clock + 1

\* Mutant: the stamp received is not looked at.
LamportUpdateBlind(clock, received) == clock + 1

LamportUpdate(clock, received) == Larger(clock, received) + 1

VectorTick(v, n) == [v EXCEPT ![n] = @ + 1]

\* Mutant: a node this one has not heard of yet is not taken in.
VectorMergeKnown(v, n, other) ==
  [k \in Nodes |-> IF k = n THEN v[n] + 1
                   ELSE IF v[k] = 0 THEN 0 ELSE Larger(v[k], other[k])]

\* merge at node n: its own component first, then the larger of each.
VectorMerge(v, n, other) ==
  [k \in Nodes |-> Larger(VectorTick(v, n)[k], other[k])]

\* Mutant: only the components that both have are compared.
AtMostShared(a, b) == \A k \in Nodes : a[k] > 0 /\ b[k] > 0 => a[k] <= b[k]

AtMost(a, b) == \A k \in Nodes : a[k] <= b[k]

Compare(a, b) ==
  IF a = b THEN "equal"
  ELSE IF AtMost(a, b) THEN "before"
  ELSE IF AtMost(b, a) THEN "after"
  ELSE "concurrent"
=============================================================================
