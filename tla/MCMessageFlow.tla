--------------------------- MODULE MCMessageFlow ---------------------------
(* Small clusters for MessageFlow: two nodes, a connection on each, and a   *)
(* second one on the first node for a retry beside a send still running.    *)
EXTENDS MessageFlow, TLC

CONSTANTS n1, n2, c1, c2, c3, m1, m2

MCNodeOf == (c1 :> n1) @@ (c2 :> n2) @@ (c3 :> n1)

MCNodeOf2 == (c1 :> n1) @@ (c2 :> n2)

\* Nodes may trade places when their connections do.
Swaps ==
  {p \in Permutations(Nodes \cup Conns) :
     \A c \in Conns : p[c] \in Conns /\ NodeOf[p[c]] = p[NodeOf[c]]}
=============================================================================
