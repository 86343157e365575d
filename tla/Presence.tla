------------------------------- MODULE Presence -------------------------------
(***************************************************************************)
(* Who is online in a room, and which nodes are alive: the sorted sets of  *)
(* RedisPresenceStore and RedisNodeRegistry, scored by the time of the     *)
(* last heartbeat, the heartbeat task of each session and the sweeper and  *)
(* heartbeat tasks of each node.                                           *)
(*                                                                         *)
(* Time passes in ticks.  Scores are kept as ages and sleeps as the time   *)
(* since they began, so that only differences count.  A task that has      *)
(* slept its interval is done within Delay ticks, and so is a join.  Redis *)
(* executes a command late ticks after its caller read the wall clock for  *)
(* the score or the cutoff; the wall clocks of two nodes differ by up to   *)
(* Skew.                                                                   *)
(***************************************************************************)
EXTENDS Integers

CONSTANTS
  Nodes,
  Sessions,              \* session ids
  HeartbeatInterval,     \* heartbeat_interval
  PresenceTTL,           \* presence_ttl
  SweeperInterval,       \* sweeper_interval
  NodeInterval,          \* node_heartbeat_interval
  Delay,
  Skew,
  MaxCrashes,            \* nodes that die in one run
  MaxAge,                \* time stops when a score is that old (a bound)
  Absent                 \* no entry in the sorted set

ASSUME PresenceAssumption ==
  /\ HeartbeatInterval \in Nat /\ PresenceTTL \in Nat
  /\ SweeperInterval \in Nat /\ NodeInterval \in Nat
  /\ Delay \in Nat /\ Skew \in Nat /\ MaxCrashes \in Nat /\ MaxAge \in Nat
  /\ Absent \notin Nat

VARIABLES
  offset,      \* how far each node's wall clock is ahead
  up,          \* whether each node's process runs
  sweeper,     \* ticks its sweeper task has slept
  swept,       \* it runs and has swept since it started
  nodeBeat,    \* ticks its heartbeat task has slept
  announced,   \* it runs and has sent a heartbeat since it started
  nodeAge,     \* chat:nodes: age of each node's score
  place,       \* each session: "closed", "open", "joined", or "dead" with its node
  at,          \* the node it is on
  beat,        \* ticks its heartbeat task has slept
  renewing,    \* a ZADD of its heartbeat is on its way to Redis
  age,         \* chat:presence of the room: age of each session's score
  crashes

node == <<offset, up, sweeper, swept, nodeBeat, announced, nodeAge>>
session == <<place, at, beat, renewing, age>>
vars == <<node, session, crashes>>

Scores == Nat \cup {Absent}

TypeOK ==
  /\ offset \in [Nodes -> 0..Skew]
  /\ up \in [Nodes -> BOOLEAN]
  /\ sweeper \in [Nodes -> Nat]
  /\ swept \in [Nodes -> BOOLEAN]
  /\ nodeBeat \in [Nodes -> Nat]
  /\ announced \in [Nodes -> BOOLEAN]
  /\ nodeAge \in [Nodes -> Scores]
  /\ place \in [Sessions -> {"closed", "open", "joined", "dead"}]
  /\ at \in [Sessions -> Nodes]
  /\ beat \in [Sessions -> Nat]
  /\ renewing \in [Sessions -> BOOLEAN]
  /\ age \in [Sessions -> Scores]
  /\ crashes \in 0..MaxCrashes

Init ==
  /\ offset \in [Nodes -> 0..Skew]
  /\ up = [n \in Nodes |-> TRUE]
  /\ sweeper = [n \in Nodes |-> 0]
  /\ swept = [n \in Nodes |-> FALSE]
  /\ nodeBeat = [n \in Nodes |-> 0]
  /\ announced = [n \in Nodes |-> FALSE]
  /\ nodeAge = [n \in Nodes |-> Absent]
  /\ place = [s \in Sessions |-> "closed"]
  /\ at \in [Sessions -> Nodes]
  /\ beat = [s \in Sessions |-> 0]
  /\ renewing = [s \in Sessions |-> FALSE]
  /\ age = [s \in Sessions |-> Absent]
  /\ crashes = 0

-----------------------------------------------------------------------------
(* Time.                                                                   *)

Connected(s) == place[s] \in {"open", "joined"}

Older(a) == IF a = Absent THEN Absent ELSE a + 1

Tick ==
  /\ \A n \in Nodes : up[n] => /\ sweeper[n] < SweeperInterval + Delay
                               /\ nodeBeat[n] < NodeInterval + Delay
  /\ \A s \in Sessions : Connected(s) => beat[s] < HeartbeatInterval + Delay
  /\ \A s \in Sessions : age[s] # Absent => age[s] < MaxAge
  /\ \A n \in Nodes : nodeAge[n] # Absent => nodeAge[n] < MaxAge
  /\ sweeper' = [n \in Nodes |-> IF up[n] THEN sweeper[n] + 1 ELSE sweeper[n]]
  /\ nodeBeat' = [n \in Nodes |-> IF up[n] THEN nodeBeat[n] + 1 ELSE nodeBeat[n]]
  /\ nodeAge' = [n \in Nodes |-> Older(nodeAge[n])]
  /\ beat' = [s \in Sessions |-> IF Connected(s) THEN beat[s] + 1 ELSE beat[s]]
  /\ age' = [s \in Sessions |-> Older(age[s])]
  /\ UNCHANGED <<offset, up, swept, announced, place, at, renewing, crashes>>

-----------------------------------------------------------------------------
(* Sessions.                                                               *)

\* A new session, with an id nobody has used.
Open(s, n) ==
  /\ place[s] = "closed" \/ place[s] = "dead"
  /\ age[s] = Absent /\ ~renewing[s]
  /\ up[n]
  /\ place' = [place EXCEPT ![s] = "open"]
  /\ at' = [at EXCEPT ![s] = n]
  /\ beat' = [beat EXCEPT ![s] = 0]
  /\ UNCHANGED <<node, renewing, age, crashes>>

\* ZADD with the time of the node; again for a session already in the room.
Join(s) ==
  /\ Connected(s)
  /\ place' = [place EXCEPT ![s] = "joined"]
  /\ \E late \in 0..Delay : age' = [age EXCEPT ![s] = late]
  /\ UNCHANGED <<node, at, beat, renewing, crashes>>

Leave(s) ==
  /\ place[s] = "joined"
  /\ place' = [place EXCEPT ![s] = "open"]
  /\ age' = [age EXCEPT ![s] = Absent]
  /\ UNCHANGED <<node, at, beat, renewing, crashes>>

\* The end of a session, disconnect included; a ZADD that the cancelled
\* heartbeat has already sent stays on its way.
Close(s) ==
  /\ Connected(s)
  /\ place' = [place EXCEPT ![s] = "closed"]
  /\ age' = [age EXCEPT ![s] = Absent]
  /\ beat' = [beat EXCEPT ![s] = 0]
  /\ UNCHANGED <<node, at, renewing, crashes>>

\* _heartbeat_loop wakes up; it renews the presence of a session in the room.
Beat(s) ==
  /\ Connected(s)
  /\ beat[s] >= HeartbeatInterval
  /\ ~renewing[s]
  /\ renewing' = [renewing EXCEPT ![s] = place[s] = "joined"]
  /\ beat' = [beat EXCEPT ![s] = IF place[s] = "joined" THEN @ ELSE 0]
  /\ UNCHANGED <<node, place, at, age, crashes>>

\* How long ago the ZADD on its way can have been given its score.
Late(s) == IF Connected(s) THEN 0..(beat[s] - HeartbeatInterval) ELSE {0}

\* Mutant: ZADD without XX.
RenewOrAdd(s) ==
  /\ renewing[s]
  /\ renewing' = [renewing EXCEPT ![s] = FALSE]
  /\ beat' = [beat EXCEPT ![s] = 0]
  /\ \E late \in Late(s) : age' = [age EXCEPT ![s] = late]
  /\ UNCHANGED <<node, place, at, crashes>>

\* Mutant: only the detail of the member is renewed.
RenewDetail(s) ==
  /\ renewing[s]
  /\ renewing' = [renewing EXCEPT ![s] = FALSE]
  /\ beat' = [beat EXCEPT ![s] = 0]
  /\ UNCHANGED <<node, place, at, age, crashes>>

\* Redis executes it: XX renews a member and adds none.
Renew(s) ==
  /\ renewing[s]
  /\ renewing' = [renewing EXCEPT ![s] = FALSE]
  /\ beat' = [beat EXCEPT ![s] = 0]
  /\ \E late \in Late(s) :
       age' = [age EXCEPT ![s] = IF @ = Absent THEN Absent ELSE late]
  /\ UNCHANGED <<node, place, at, crashes>>

-----------------------------------------------------------------------------
(* Nodes.                                                                  *)

\* The age of a score that node m wrote, by the clock of node n.
AgeSeen(a, m, n) == a + offset[n] - offset[m]

\* What is left of it by a cutoff that n computed late ticks ago.
Swept(a, m, n, late) ==
  IF a # Absent /\ AgeSeen(a, m, n) >= PresenceTTL + late THEN Absent ELSE a

\* Mutant: the sweeper removes only what its own node wrote.
SweepOwn(n) ==
  /\ up[n]
  /\ sweeper[n] >= SweeperInterval
  /\ sweeper' = [sweeper EXCEPT ![n] = 0]
  /\ swept' = [swept EXCEPT ![n] = TRUE]
  /\ \E late \in 0..(sweeper[n] - SweeperInterval) :
       /\ age' = [s \in Sessions |->
                    IF at[s] = n THEN Swept(age[s], n, n, late) ELSE age[s]]
       /\ nodeAge' = [m \in Nodes |-> Swept(nodeAge[m], m, n, late)]
  /\ UNCHANGED <<offset, up, nodeBeat, announced, place, at, beat, renewing, crashes>>

\* One round of _sweeper_loop.
Sweep(n) ==
  /\ up[n]
  /\ sweeper[n] >= SweeperInterval
  /\ sweeper' = [sweeper EXCEPT ![n] = 0]
  /\ swept' = [swept EXCEPT ![n] = TRUE]
  /\ \E late \in 0..(sweeper[n] - SweeperInterval) :
       /\ age' = [s \in Sessions |-> Swept(age[s], at[s], n, late)]
       /\ nodeAge' = [m \in Nodes |-> Swept(nodeAge[m], m, n, late)]
  /\ UNCHANGED <<offset, up, nodeBeat, announced, place, at, beat, renewing, crashes>>

\* Mutant: ZADD with NX adds an entry and never renews it.
NodeHeartbeatNX(n) ==
  /\ up[n]
  /\ nodeBeat[n] >= NodeInterval
  /\ nodeBeat' = [nodeBeat EXCEPT ![n] = 0]
  /\ announced' = [announced EXCEPT ![n] = TRUE]
  /\ nodeAge' = [nodeAge EXCEPT ![n] = IF @ = Absent THEN 0 ELSE @]
  /\ UNCHANGED <<offset, up, sweeper, swept, session, crashes>>

\* One round of _node_heartbeat_loop.
NodeHeartbeat(n) ==
  /\ up[n]
  /\ nodeBeat[n] >= NodeInterval
  /\ nodeBeat' = [nodeBeat EXCEPT ![n] = 0]
  /\ announced' = [announced EXCEPT ![n] = TRUE]
  /\ \E late \in 0..(nodeBeat[n] - NodeInterval) :
       nodeAge' = [nodeAge EXCEPT ![n] = late]
  /\ UNCHANGED <<offset, up, sweeper, swept, session, crashes>>

\* The process dies and tells nobody; a ZADD it has sent is executed before
\* that or never.
Crash(n) ==
  /\ up[n]
  /\ crashes < MaxCrashes
  /\ crashes' = crashes + 1
  /\ up' = [up EXCEPT ![n] = FALSE]
  /\ swept' = [swept EXCEPT ![n] = FALSE]
  /\ announced' = [announced EXCEPT ![n] = FALSE]
  /\ place' = [s \in Sessions |-> IF at[s] = n /\ Connected(s) THEN "dead" ELSE place[s]]
  /\ renewing' = [s \in Sessions |-> renewing[s] /\ at[s] # n]
  /\ UNCHANGED <<offset, sweeper, nodeBeat, nodeAge, at, beat, age>>

\* Both background tasks begin with a sleep.
Start(n) ==
  /\ ~up[n]
  /\ up' = [up EXCEPT ![n] = TRUE]
  /\ sweeper' = [sweeper EXCEPT ![n] = 0]
  /\ nodeBeat' = [nodeBeat EXCEPT ![n] = 0]
  /\ UNCHANGED <<offset, swept, announced, nodeAge, session, crashes>>

-----------------------------------------------------------------------------
Next ==
  \/ Tick
  \/ \E s \in Sessions : \/ \E n \in Nodes : Open(s, n)
                         \/ Join(s) \/ Leave(s) \/ Close(s) \/ Beat(s) \/ Renew(s)
  \/ \E n \in Nodes : Sweep(n) \/ NodeHeartbeat(n) \/ Crash(n) \/ Start(n)

Spec == Init /\ [][Next]_vars

-----------------------------------------------------------------------------
(* Safety.                                                                 *)

\* A session that stays in the room loses its entry only to a heartbeat that
\* has not come for all the time to live, but for a late command and clocks
\* that differ, whichever node sweeps.
SweptOnlyWhenSilent ==
  [][\A s \in Sessions :
       /\ place[s] = "joined" /\ place'[s] = "joined"
       /\ age[s] # Absent /\ age'[s] = Absent
       => beat[s] + Delay + Skew >= PresenceTTL]_vars

\* The entry of a session whose node died goes away: once some running node
\* sweeps, no score is older than the time to live and one round of it.
GhostsBounded ==
  \A n \in Nodes, s \in Sessions :
    swept[n] /\ age[s] # Absent =>
      age[s] < PresenceTTL + SweeperInterval + 2 * Delay + Skew

\* A node renews itself before any other takes it for dead.
NodesInTime == NodeInterval + 2 * Delay + Skew < PresenceTTL

\* NodeRegistry.alive, asked on m.
Listed(n, m) == nodeAge[n] # Absent /\ AgeSeen(nodeAge[n], n, m) <= PresenceTTL

\* Every running node lists every node that runs and has announced itself
\* (when NodesInTime).
RunningIsListed == \A n, m \in Nodes : announced[n] => Listed(n, m)

\* A session that left or closed does not come back as a ghost through a
\* heartbeat that was on its way: XX adds nobody.
LeftIsAbsent == \A s \in Sessions : place[s] \in {"open", "closed"} => age[s] = Absent

(***************************************************************************)
(* The inductive invariant behind them: a score is no older than the sleep *)
(* of the task that renews it and the lateness of its command, and no      *)
(* sleep exceeds its interval and the delay; by the clock of a node that   *)
(* sweeps, no score is older than the time to live, the lateness of the    *)
(* sweep and the time since.  That a node keeps its entry needs            *)
(* NodesInTime.                                                            *)
(***************************************************************************)
SleepInv ==
  /\ \A n \in Nodes : up[n] => /\ sweeper[n] <= SweeperInterval + Delay
                               /\ nodeBeat[n] <= NodeInterval + Delay
  /\ \A s \in Sessions : Connected(s) => beat[s] <= HeartbeatInterval + Delay
  /\ \A s \in Sessions : place[s] = "joined" /\ age[s] # Absent => age[s] <= beat[s] + Delay

SweepInv ==
  \A n \in Nodes : swept[n] =>
    /\ up[n]
    /\ \A s \in Sessions : age[s] # Absent =>
         AgeSeen(age[s], at[s], n) < PresenceTTL + Delay + sweeper[n]

IInv == TypeOK /\ SleepInv /\ SweepInv /\ LeftIsAbsent

NodesInv ==
  \A n \in Nodes : announced[n] =>
    up[n] /\ nodeAge[n] # Absent /\ nodeAge[n] <= nodeBeat[n] + Delay

-----------------------------------------------------------------------------
(* What the comments of the code say and the code does not do.             *)

\* connection.py: sending heartbeat(conn) from the server makes sure that who
\* is connected without writing is not swept as a ghost.
LiveIsVisible == \A s \in Sessions : place[s] = "joined" => age[s] # Absent
=============================================================================
