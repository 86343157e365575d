---------------------------- MODULE PresenceProofs ----------------------------
(***************************************************************************)
(* Proofs about Presence, for any number of nodes and sessions and for all *)
(* intervals; only that a running node stays listed needs them to fit.     *)
(***************************************************************************)
EXTENDS Presence, TLAPS

\* Every step keeps the types.
LEMMA NextTypeOK ==
  ASSUME TypeOK, [Next]_vars
  PROVE  TypeOK'
<1> USE PresenceAssumption DEF TypeOK, Scores, vars, node, session
<1>1. CASE Tick
  BY <1>1 DEF Tick, Older, Connected
<1>2. ASSUME NEW s \in Sessions, NEW n \in Nodes, Open(s, n) PROVE TypeOK'
  BY <1>2 DEF Open
<1>3. ASSUME NEW s \in Sessions, Join(s) PROVE TypeOK'
  BY <1>3 DEF Join
<1>4. ASSUME NEW s \in Sessions, Leave(s) PROVE TypeOK'
  BY <1>4 DEF Leave
<1>5. ASSUME NEW s \in Sessions, Close(s) PROVE TypeOK'
  BY <1>5 DEF Close
<1>6. ASSUME NEW s \in Sessions, Beat(s) PROVE TypeOK'
  BY <1>6 DEF Beat
<1>7. ASSUME NEW s \in Sessions, Renew(s) PROVE TypeOK'
  BY <1>7 DEF Renew, Late
<1>8. ASSUME NEW n \in Nodes, Sweep(n) PROVE TypeOK'
  BY <1>8 DEF Sweep, Swept
<1>9. ASSUME NEW n \in Nodes, NodeHeartbeat(n) PROVE TypeOK'
  BY <1>9 DEF NodeHeartbeat
<1>10. ASSUME NEW n \in Nodes, Crash(n) PROVE TypeOK'
  BY <1>10 DEF Crash, Connected
<1>11. ASSUME NEW n \in Nodes, Start(n) PROVE TypeOK'
  BY <1>11 DEF Start
<1>12. CASE UNCHANGED vars
  BY <1>12
<1> QED
  BY <1>1, <1>2, <1>3, <1>4, <1>5, <1>6, <1>7, <1>8, <1>9, <1>10, <1>11, <1>12 DEF Next

\* Left and closed sessions stay out of the list.
LEMMA NextLeftIsAbsent ==
  ASSUME TypeOK, LeftIsAbsent, [Next]_vars
  PROVE  LeftIsAbsent'
<1> USE PresenceAssumption DEF TypeOK, Scores, LeftIsAbsent, vars, node, session
<1>1. CASE Tick
  BY <1>1 DEF Tick, Older
<1>2. ASSUME NEW s \in Sessions, NEW n \in Nodes, Open(s, n) PROVE LeftIsAbsent'
  BY <1>2 DEF Open
<1>3. ASSUME NEW s \in Sessions, Join(s) \/ Leave(s) \/ Close(s) PROVE LeftIsAbsent'
  BY <1>3 DEF Join, Leave, Close
<1>4. ASSUME NEW s \in Sessions, Beat(s) \/ Renew(s) PROVE LeftIsAbsent'
  BY <1>4 DEF Beat, Renew, Late
<1>5. ASSUME NEW n \in Nodes, Sweep(n) PROVE LeftIsAbsent'
  BY <1>5 DEF Sweep, Swept
<1>6. ASSUME NEW n \in Nodes, NodeHeartbeat(n) \/ Start(n) PROVE LeftIsAbsent'
  BY <1>6 DEF NodeHeartbeat, Start
<1>7. ASSUME NEW n \in Nodes, Crash(n) PROVE LeftIsAbsent'
  BY <1>7 DEF Crash
<1>8. CASE UNCHANGED vars
  BY <1>8
<1> QED BY <1>1, <1>2, <1>3, <1>4, <1>5, <1>6, <1>7, <1>8 DEF Next

\* Sleeps and scores keep their bounds.
LEMMA NextSleepInv ==
  ASSUME TypeOK, SleepInv, LeftIsAbsent, [Next]_vars
  PROVE  SleepInv'
<1> USE PresenceAssumption DEF TypeOK, Scores, SleepInv, Connected, vars, node, session
<1>1. CASE Tick
  BY <1>1 DEF Tick, Older
<1>2. ASSUME NEW s \in Sessions, NEW n \in Nodes, Open(s, n) PROVE SleepInv'
  BY <1>2 DEF Open
<1>3. ASSUME NEW s \in Sessions, Join(s) PROVE SleepInv'
  BY <1>3 DEF Join
<1>4. ASSUME NEW s \in Sessions, Leave(s) \/ Close(s) PROVE SleepInv'
  BY <1>4 DEF Leave, Close
<1>5. ASSUME NEW s \in Sessions, Beat(s) PROVE SleepInv'
  BY <1>5 DEF Beat
<1>6. ASSUME NEW s \in Sessions, Renew(s) PROVE SleepInv'
  BY <1>6 DEF Renew, Late
<1>7. ASSUME NEW n \in Nodes, Sweep(n) PROVE SleepInv'
  BY <1>7 DEF Sweep, Swept
<1>8. ASSUME NEW n \in Nodes, NodeHeartbeat(n) PROVE SleepInv'
  BY <1>8 DEF NodeHeartbeat
<1>9. ASSUME NEW n \in Nodes, Crash(n) PROVE SleepInv'
  BY <1>9 DEF Crash
<1>10. ASSUME NEW n \in Nodes, Start(n) PROVE SleepInv'
  BY <1>10 DEF Start
<1>11. CASE UNCHANGED vars
  BY <1>11
<1> QED
  BY <1>1, <1>2, <1>3, <1>4, <1>5, <1>6, <1>7, <1>8, <1>9, <1>10, <1>11 DEF Next

\* No score gets older than the time to live and the sleep of a sweeper.
LEMMA NextSweepInv ==
  ASSUME TypeOK, SleepInv, SweepInv, Skew < PresenceTTL, [Next]_vars
  PROVE  SweepInv'
<1> USE PresenceAssumption DEF TypeOK, Scores, SweepInv, AgeSeen, vars, node, session
<1>0. \A m \in Nodes : offset[m] \in 0..Skew
  OBVIOUS
<1>1. CASE Tick
  BY <1>1 DEF Tick, Older
<1>2. ASSUME NEW s \in Sessions, NEW n \in Nodes, Open(s, n) PROVE SweepInv'
  BY <1>2 DEF Open
<1>3. ASSUME NEW s \in Sessions, Join(s) PROVE SweepInv'
  BY <1>0, <1>3 DEF Join
<1>4. ASSUME NEW s \in Sessions, Leave(s) \/ Close(s) \/ Beat(s) PROVE SweepInv'
  BY <1>4 DEF Leave, Close, Beat
<1>5. ASSUME NEW s \in Sessions, Renew(s) PROVE SweepInv'
  <2>1. \A late \in Late(s) : late \in 0..Delay
    BY <1>5 DEF Late, SleepInv
  <2> QED BY <1>0, <1>5, <2>1 DEF Renew
<1>6. ASSUME NEW n \in Nodes, Sweep(n) PROVE SweepInv'
  <2>1. SUFFICES ASSUME NEW m \in Nodes, NEW s \in Sessions,
                        swept'[m], age'[s] # Absent
                 PROVE  age'[s] + offset[m] - offset[at[s]] < PresenceTTL + Delay + sweeper'[m]
    BY <1>6 DEF Sweep
  <2> PICK late \in 0..(sweeper[n] - SweeperInterval) :
        age' = [q \in Sessions |-> Swept(age[q], at[q], n, late)]
    BY <1>6 DEF Sweep
  <2> late \in 0..Delay
    BY <1>6 DEF Sweep, SleepInv
  <2>2. age'[s] = age[s] /\ AgeSeen(age[s], at[s], n) < PresenceTTL + Delay
    BY <1>0, <2>1 DEF Swept
  <2>3. CASE m = n
    BY <1>6, <2>2, <2>3 DEF Sweep
  <2>4. CASE m # n
    BY <1>6, <2>1, <2>2, <2>4 DEF Sweep
  <2> QED BY <2>3, <2>4
<1>7. ASSUME NEW n \in Nodes, NodeHeartbeat(n) PROVE SweepInv'
  BY <1>7 DEF NodeHeartbeat
<1>8. ASSUME NEW n \in Nodes, Crash(n) PROVE SweepInv'
  BY <1>8 DEF Crash
<1>9. ASSUME NEW n \in Nodes, Start(n) PROVE SweepInv'
  BY <1>9 DEF Start
<1>10. CASE UNCHANGED vars
  BY <1>10
<1> QED BY <1>1, <1>2, <1>3, <1>4, <1>5, <1>6, <1>7, <1>8, <1>9, <1>10 DEF Next

\* A node that renews itself in time keeps its entry.
LEMMA NextNodesInv ==
  ASSUME TypeOK, SleepInv, NodesInv, NodesInTime, [Next]_vars
  PROVE  NodesInv'
<1> USE PresenceAssumption DEF TypeOK, Scores, NodesInv, vars, node, session
<1>1. CASE Tick
  BY <1>1 DEF Tick, Older
<1>2. ASSUME NEW s \in Sessions,
             \/ \E n \in Nodes : Open(s, n)
             \/ Join(s) \/ Leave(s) \/ Close(s) \/ Beat(s) \/ Renew(s)
      PROVE  NodesInv'
  BY <1>2 DEF Open, Join, Leave, Close, Beat, Renew
<1>3. ASSUME NEW n \in Nodes, Sweep(n) PROVE NodesInv'
  <2>1. ASSUME NEW m \in Nodes, announced[m], NEW late \in Nat
        PROVE  Swept(nodeAge[m], m, n, late) = nodeAge[m]
    <3>1. nodeAge[m] # Absent /\ nodeAge[m] <= NodeInterval + 2 * Delay
      BY <2>1 DEF SleepInv
    <3>2. offset[m] \in 0..Skew /\ offset[n] \in 0..Skew
      OBVIOUS
    <3> QED BY <3>1, <3>2 DEF NodesInTime, Swept, AgeSeen
  <2> QED BY <1>3, <2>1 DEF Sweep
<1>4. ASSUME NEW n \in Nodes, NodeHeartbeat(n) PROVE NodesInv'
  BY <1>4 DEF NodeHeartbeat, SleepInv
<1>5. ASSUME NEW n \in Nodes, Crash(n) \/ Start(n) PROVE NodesInv'
  BY <1>5 DEF Crash, Start
<1>6. CASE UNCHANGED vars
  BY <1>6
<1> QED BY <1>1, <1>2, <1>3, <1>4, <1>5, <1>6 DEF Next

\* Types, sleeps and absences hold in every reachable state, for all intervals.
LEMMA Sleeps == Spec => [](TypeOK /\ SleepInv /\ LeftIsAbsent)
<1>1. Init => TypeOK /\ SleepInv /\ LeftIsAbsent
  BY PresenceAssumption
  DEF Init, TypeOK, Scores, SleepInv, LeftIsAbsent, Connected
<1>2. TypeOK /\ SleepInv /\ LeftIsAbsent /\ [Next]_vars
        => (TypeOK /\ SleepInv /\ LeftIsAbsent)'
  BY NextTypeOK, NextSleepInv, NextLeftIsAbsent
<1> QED BY <1>1, <1>2, PTL DEF Spec

\* The inductive invariant holds in every reachable state, unless clocks differ
\* by more than a whole time to live.
THEOREM Inductive ==
  ASSUME Skew < PresenceTTL
  PROVE  Spec => []IInv
<1>1. Init => SweepInv
  BY DEF Init, SweepInv
<1>2. TypeOK /\ SleepInv /\ SweepInv /\ [Next]_vars => SweepInv'
  BY NextSweepInv
<1> QED BY <1>1, <1>2, Sleeps, PTL DEF Spec, IInv

\* Types, for all intervals.
THEOREM TypeCorrect == Spec => []TypeOK
BY Sleeps, PTL

\* A session in the room is swept only when its heartbeat has not come for
\* all the time to live, but for late commands and clocks that differ; for all
\* intervals.
THEOREM SweptSilent == Spec => SweptOnlyWhenSilent
<1>1. ASSUME TypeOK, SleepInv, [Next]_vars, NEW s \in Sessions,
             place[s] = "joined", place'[s] = "joined", age[s] # Absent, age'[s] = Absent
      PROVE  beat[s] + Delay + Skew >= PresenceTTL
  <2> USE PresenceAssumption DEF TypeOK, Scores
  <2>1. ASSUME NEW n \in Nodes, Sweep(n) PROVE beat[s] + Delay + Skew >= PresenceTTL
    <3> PICK late \in 0..(sweeper[n] - SweeperInterval) :
          age' = [q \in Sessions |-> Swept(age[q], at[q], n, late)]
      BY <2>1 DEF Sweep
    <3>1. late \in Nat /\ AgeSeen(age[s], at[s], n) >= PresenceTTL + late
      BY <1>1, <2>1 DEF Sweep, Swept
    <3>2. age[s] <= beat[s] + Delay
      BY <1>1 DEF SleepInv
    <3>3. age[s] \in Nat /\ beat[s] \in Nat /\ offset[n] \in 0..Skew /\ offset[at[s]] \in 0..Skew
      BY <1>1
    <3> QED BY <3>1, <3>2, <3>3 DEF AgeSeen
  <2>2. CASE Tick
    BY <1>1, <2>2 DEF Tick, Older
  <2>3. ASSUME NEW q \in Sessions, NEW n \in Nodes, Open(q, n) PROVE FALSE
    BY <1>1, <2>3 DEF Open
  <2>4. ASSUME NEW q \in Sessions, Join(q) \/ Leave(q) \/ Close(q) PROVE FALSE
    BY <1>1, <2>4 DEF Join, Leave, Close, Connected
  <2>5. ASSUME NEW q \in Sessions, Beat(q) \/ Renew(q) PROVE FALSE
    BY <1>1, <2>5 DEF Beat, Renew, Late
  <2>6. ASSUME NEW n \in Nodes, NodeHeartbeat(n) \/ Start(n) \/ Crash(n) PROVE FALSE
    BY <1>1, <2>6 DEF NodeHeartbeat, Start, Crash, session
  <2>7. CASE UNCHANGED vars
    BY <1>1, <2>7 DEF vars, session
  <2> QED BY <1>1, <2>1, <2>2, <2>3, <2>4, <2>5, <2>6, <2>7 DEF Next
<1>2. TypeOK /\ SleepInv /\ [Next]_vars =>
        [\A s \in Sessions :
           /\ place[s] = "joined" /\ place'[s] = "joined"
           /\ age[s] # Absent /\ age'[s] = Absent
           => beat[s] + Delay + Skew >= PresenceTTL]_vars
  BY <1>1
<1> QED BY <1>2, Sleeps, PTL DEF Spec, SweptOnlyWhenSilent

\* No entry of a dead session outlives the time to live and a sweep, whatever
\* the heartbeats are.
THEOREM Ghosts ==
  ASSUME Skew < PresenceTTL
  PROVE  Spec => []GhostsBounded
<1>1. ASSUME IInv PROVE GhostsBounded
  <2> SUFFICES ASSUME NEW n \in Nodes, NEW s \in Sessions, swept[n], age[s] # Absent
               PROVE  age[s] < PresenceTTL + SweeperInterval + 2 * Delay + Skew
    BY DEF GhostsBounded
  <2>1. /\ age[s] \in Nat /\ sweeper[n] \in Nat
        /\ offset[n] \in 0..Skew /\ offset[at[s]] \in 0..Skew
    BY <1>1 DEF IInv, TypeOK, Scores
  <2>2. age[s] + offset[n] - offset[at[s]] < PresenceTTL + Delay + sweeper[n]
    BY <1>1 DEF IInv, SweepInv, AgeSeen
  <2>3. sweeper[n] <= SweeperInterval + Delay
    BY <1>1 DEF IInv, SweepInv, SleepInv
  <2> QED BY <2>1, <2>2, <2>3, PresenceAssumption
<1> QED BY <1>1, Inductive, PTL

\* A node that runs and has announced itself is listed on every node, when its
\* own heartbeat, delays and clock differences fit in the time to live.
THEOREM Listing ==
  ASSUME NodesInTime
  PROVE  Spec => []RunningIsListed
<1>1. Init => NodesInv
  BY DEF Init, NodesInv
<1>2. TypeOK /\ SleepInv /\ NodesInv /\ [Next]_vars => NodesInv'
  BY NextNodesInv
<1>3. ASSUME TypeOK, SleepInv, NodesInv PROVE RunningIsListed
  <2> SUFFICES ASSUME NEW n \in Nodes, NEW m \in Nodes, announced[n]
               PROVE  Listed(n, m)
    BY DEF RunningIsListed
  <2>1. /\ nodeAge[n] \in Nat /\ nodeBeat[n] \in Nat
        /\ offset[n] \in 0..Skew /\ offset[m] \in 0..Skew
    BY <1>3 DEF TypeOK, Scores, NodesInv
  <2>2. nodeAge[n] # Absent /\ nodeAge[n] <= NodeInterval + 2 * Delay
    <3>1. /\ nodeAge[n] # Absent /\ nodeAge[n] <= nodeBeat[n] + Delay
          /\ nodeBeat[n] <= NodeInterval + Delay
      BY <1>3 DEF NodesInv, SleepInv
    <3> QED BY <2>1, <3>1, PresenceAssumption
  <2> QED BY <2>1, <2>2, PresenceAssumption DEF Listed, AgeSeen, NodesInTime
<1> QED BY <1>1, <1>2, <1>3, Sleeps, PTL DEF Spec

\* Nobody comes back through a late heartbeat, for all intervals.
THEOREM NoReturn == Spec => []LeftIsAbsent
BY Sleeps, PTL
=============================================================================
