------------------------------ MODULE Throttle ------------------------------
(***************************************************************************)
(* What a rate limit promises one session: a message passes exactly when   *)
(* no window of time that ends now gets more than the burst and what its   *)
(* length earns.  Amounts are in units: a message costs Cost of them, a    *)
(* tick of the clock earns Rate.                                           *)
(***************************************************************************)
EXTENDS Integers

CONSTANTS Rate, Cost, Capacity, MaxTime

VARIABLES
  now,        \* the clock
  since,      \* messages of the session that passed from a time on
  refused     \* messages refused so far

vars == <<now, since, refused>>

Times == 0..MaxTime

Nothing == [s \in Times |-> 0]

\* The log with one more message, now.
Logged == [s \in Times |-> IF s <= now THEN since[s] + 1 ELSE since[s]]

Within(log) == \A s \in 0..now : Cost * log[s] <= Capacity + Rate * (now - s)

Init == now = 0 /\ since = Nothing /\ refused = 0

Tick ==
  /\ now < MaxTime
  /\ now' = now + 1
  /\ UNCHANGED <<since, refused>>

Open ==
  /\ since' = Nothing
  /\ UNCHANGED <<now, refused>>

Pass ==
  /\ Within(Logged)
  /\ since' = Logged
  /\ UNCHANGED <<now, refused>>

Refuse ==
  /\ ~Within(Logged)
  /\ refused' = refused + 1
  /\ UNCHANGED <<now, since>>

Next == Tick \/ Open \/ Pass \/ Refuse

Spec == Init /\ [][Next]_vars
=============================================================================
