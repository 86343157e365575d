----------------------------- MODULE MCSessions -----------------------------
(* Small nodes for Sessions.                                               *)
EXTENDS Sessions

CONSTANTS s1, s2, r1
=============================================================================
