------------------------------ MODULE Causality ------------------------------
(***************************************************************************)
(* The logical clocks of the nodes and the stamps they put on messages:    *)
(* ChatService.send between its two ticks and PUBLISH, _on_bus_message,    *)
(* and the badge the CLI client draws from the vectors it rendered.  The   *)
(* clocks live in the memory of a node, which restarts under its name.     *)
(*                                                                         *)
(* Beside the clocks the module records what really came before what: at a *)
(* node, the messages it stamped or received in this life and all that     *)
(* came before those; with a message, what its node and its author had.    *)
(* Delivery is at most once, to any node, at any time after PUBLISH.       *)
(***************************************************************************)
EXTENDS Clocks, FiniteSets

CONSTANTS
  Msgs,
  Readers,       \* users whose screen is followed; others send too
  Home,          \* the node each reader is connected to
  History,       \* VECTOR_HISTORY_SIZE
  MaxRestarts

ASSUME CausalityAssumption ==
  /\ Home \in [Readers -> Nodes]
  /\ History \in Nat \ {0}
  /\ MaxRestarts \in Nat
  /\ Nodes # {}

VARIABLES
  lamport, vec,     \* the clocks of each node
  counter,          \* the room's sequencer
  at, env,          \* each message: how far its send came, and its envelope
  stored,           \* messages in the history
  saw,              \* messages the client of each reader rendered
  past,             \* history: what came before the present of each node
  heard,            \* history: messages each node broadcast
  restarts

vars == <<lamport, vec, counter, at, env, stored, saw, past, heard, restarts>>

clocks == <<lamport, vec, past>>

Stages == {"new", "stamped", "numbered", "published", "dead"}

Envelopes ==
  [ node : Nodes, lamport : Nat, vector : Vectors, seq : Nat,
    past : SUBSET Msgs, seen : SUBSET Msgs ]

TypeOK ==
  /\ lamport \in [Nodes -> Nat] /\ vec \in [Nodes -> Vectors]
  /\ counter \in Nat
  /\ at \in [Msgs -> Stages]
  /\ env \in [Msgs -> Envelopes]
  /\ stored \in SUBSET Msgs
  /\ saw \in [Readers -> SUBSET Msgs]
  /\ past \in [Nodes -> SUBSET Msgs] /\ heard \in [Nodes -> SUBSET Msgs]
  /\ restarts \in 0..MaxRestarts

\* What stands for the envelope of a message nobody has sent yet.
NoEnvelope ==
  [ node |-> CHOOSE n \in Nodes : TRUE, lamport |-> 0, vector |-> NoVector,
    seq |-> 0, past |-> {}, seen |-> {} ]

Init ==
  /\ lamport = [n \in Nodes |-> 0]
  /\ vec = [n \in Nodes |-> NoVector]
  /\ counter = 0
  /\ at = [m \in Msgs |-> "new"]
  /\ env = [m \in Msgs |-> NoEnvelope]
  /\ stored = {}
  /\ saw = [u \in Readers |-> {}]
  /\ past = [n \in Nodes |-> {}]
  /\ heard = [n \in Nodes |-> {}]
  /\ restarts = 0

-----------------------------------------------------------------------------
\* What the author of a message sent at n had on the screen, if a reader.
Seen(n) == {{}} \cup {saw[u] : u \in {r \in Readers : Home[r] = n}}

\* Both clocks tick, then send waits for the INCR; a node has sessions of many
\* users, so other sends and deliveries come between.
Stamp(n, m) ==
  /\ at[m] = "new"
  /\ lamport' = [lamport EXCEPT ![n] = LamportTick(@)]
  /\ vec' = [vec EXCEPT ![n] = VectorTick(@, n)]
  /\ \E seen \in Seen(n) :
       env' = [env EXCEPT ![m] =
                 [ node |-> n, lamport |-> LamportTick(lamport[n]),
                   vector |-> VectorTick(vec[n], n), seq |-> 0,
                   past |-> past[n], seen |-> seen ]]
  /\ past' = [past EXCEPT ![n] = @ \cup {m}]
  /\ at' = [at EXCEPT ![m] = "stamped"]
  /\ UNCHANGED <<counter, stored, saw, heard, restarts>>

Number(m) ==
  /\ at[m] = "stamped"
  /\ counter' = counter + 1
  /\ env' = [env EXCEPT ![m].seq = counter + 1]
  /\ at' = [at EXCEPT ![m] = "numbered"]
  /\ UNCHANGED <<clocks, stored, saw, heard, restarts>>

Publish(m) ==
  /\ at[m] = "numbered"
  /\ at' = [at EXCEPT ![m] = "published"]
  /\ UNCHANGED <<clocks, counter, env, stored, saw, heard, restarts>>

Save(m) ==
  /\ at[m] = "published" /\ m \notin stored
  /\ stored' = stored \cup {m}
  /\ UNCHANGED <<clocks, counter, at, env, saw, heard, restarts>>

\* A call to Redis fails and ends the send; the ticks stay.
Fail(m) ==
  /\ at[m] \in {"stamped", "numbered"}
  /\ at' = [at EXCEPT ![m] = "dead"]
  /\ UNCHANGED <<clocks, counter, env, stored, saw, heard, restarts>>

\* _on_bus_message, at the author's node as at any other.
Deliver(n, m) ==
  /\ at[m] = "published" /\ m \notin heard[n]
  /\ lamport' = [lamport EXCEPT ![n] = LamportUpdate(@, env[m].lamport)]
  /\ vec' = [vec EXCEPT ![n] = VectorMerge(@, n, env[m].vector)]
  /\ past' = [past EXCEPT ![n] = @ \cup {m} \cup env[m].past]
  /\ heard' = [heard EXCEPT ![n] = @ \cup {m}]
  /\ UNCHANGED <<counter, at, env, stored, saw, restarts>>

\* A client renders in the order of the numbers what its node broadcast or
\* what it read of the history, which passes by the clocks of the node.
Render(u, m) ==
  /\ at[m] = "published" /\ m \in heard[Home[u]] \cup stored
  /\ \A p \in saw[u] : env[p].seq < env[m].seq
  /\ saw' = [saw EXCEPT ![u] = @ \cup {m}]
  /\ UNCHANGED <<clocks, counter, at, env, stored, heard, restarts>>

\* The process of a node ends and starts again, with new clocks.
Restart(n) ==
  /\ restarts < MaxRestarts
  /\ restarts' = restarts + 1
  /\ lamport' = [lamport EXCEPT ![n] = 0]
  /\ vec' = [vec EXCEPT ![n] = NoVector]
  /\ past' = [past EXCEPT ![n] = {}]
  /\ at' = [m \in Msgs |->
              IF at[m] \in {"stamped", "numbered"} /\ env[m].node = n THEN "dead" ELSE at[m]]
  /\ UNCHANGED <<counter, env, stored, saw, heard>>

Next ==
  \/ \E m \in Msgs : Number(m) \/ Publish(m) \/ Save(m) \/ Fail(m)
  \/ \E n \in Nodes, m \in Msgs : Stamp(n, m) \/ Deliver(n, m)
  \/ \E u \in Readers, m \in Msgs : Render(u, m)
  \/ \E n \in Nodes : Restart(n)

Spec == Init /\ [][Next]_vars

-----------------------------------------------------------------------------
(* The badge of the CLI client.                                            *)

\* The vectors a client still had when it rendered m.
Recent(u, m) ==
  LET before == {p \in saw[u] : env[p].seq < env[m].seq}
  IN  {p \in before : Cardinality({q \in before : env[q].seq > env[p].seq}) < History}

Vector(m) == env[m].vector

\* Mutant: whatever is not an earlier cause is taken for concurrent.
ConcurrentWithLoose(u, m) ==
  {p \in Recent(u, m) : Compare(Vector(p), Vector(m)) # "before"}

\* The candidates of _detect_concurrency, of which the badge names the newest.
ConcurrentWith(u, m) ==
  {p \in Recent(u, m) : Compare(Vector(p), Vector(m)) = "concurrent"}

-----------------------------------------------------------------------------
(* Safety.                                                                 *)

Stamped == {m \in Msgs : at[m] # "new"}

Before(a, b) == a \in env[b].past

\* Lamport's condition (docs/SDD.md 7.2.2) on the stamps, through awaits,
\* lost messages and nodes that start again from zero: a cause has the lower
\* stamp.
ClockCondition ==
  \A a, b \in Stamped : Before(a, b) => env[a].lamport < env[b].lamport

\* A cause compares as before, across restarts too.
CauseComparesBefore ==
  \A a, b \in Stamped : Before(a, b) => Compare(Vector(a), Vector(b)) = "before"

\* While no node has lost its clocks, only a cause compares as before and no
\* two messages compare as equal (docs/SDD.md 7.3.2: the vectors characterise
\* causality).
OnlyCauseComparesBefore ==
  restarts = 0 =>
    \A a, b \in Stamped : a # b =>
      /\ Compare(Vector(a), Vector(b)) # "equal"
      /\ Compare(Vector(a), Vector(b)) = "before" => Before(a, b)

\* The badge of a rendered message names a message that neither caused it nor
\* was caused by it, and without restarts it misses none of the recent ones.
BadgeIsTrue ==
  \A u \in Readers : \A m \in saw[u] : \A p \in Recent(u, m) :
    LET apart == ~Before(p, m) /\ ~Before(m, p)
    IN  /\ p \in ConcurrentWith(u, m) => apart
        /\ restarts = 0 /\ apart => p \in ConcurrentWith(u, m)

-----------------------------------------------------------------------------
(* What the documentation says and the code does not do.                   *)

\* docs/SDD.md 7.1: "a -> b" means that who wrote b had already seen a on the
\* screen; 7.2.2: then L(a) < L(b).
SeenIsLower ==
  \A b \in Stamped : \A a \in env[b].seen : env[a].lamport < env[b].lamport
=============================================================================
