-------------------------------- MODULE Room --------------------------------
(***************************************************************************)
(* What a room of the cluster promises to its users: a message that is     *)
(* published has one number of its own, nobody else's; one client message  *)
(* is published at most once while its idempotency key lives; and what is  *)
(* stored was published.                                                   *)
(***************************************************************************)
CONSTANTS Msgs, Numbers

VARIABLES
  published,   \* envelopes [msg, seq, re] on the room's topic
  stored,      \* envelopes in the durable history
  lapsed       \* messages whose idempotency key expired

vars == <<published, stored, lapsed>>

Init == published = {} /\ stored = {} /\ lapsed = {}

Publish(m, s, re) ==
  /\ \A e \in published : e.seq # s
  /\ m \in lapsed \/ \A e \in published : e.msg # m
  /\ published' = published \cup {[msg |-> m, seq |-> s, re |-> re]}
  /\ UNCHANGED <<stored, lapsed>>

Store(e) ==
  /\ stored' = stored \cup {e}
  /\ UNCHANGED <<published, lapsed>>

Lapse(m) ==
  /\ lapsed' = lapsed \cup {m}
  /\ UNCHANGED <<published, stored>>

Next ==
  \/ \E m \in Msgs, s \in Numbers, re \in Numbers \cup {0} : Publish(m, s, re)
  \/ \E e \in published : Store(e)
  \/ \E m \in Msgs : Lapse(m)

Spec == Init /\ [][Next]_vars
=============================================================================
