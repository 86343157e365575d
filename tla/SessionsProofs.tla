---------------------------- MODULE SessionsProofs ----------------------------
(***************************************************************************)
(* Sessions keeps its subscriptions owned and its presence sets in step    *)
(* with the room index, for any number of sessions and rooms and any       *)
(* number of commands on their way to Redis.                               *)
(***************************************************************************)
EXTENDS Sessions, FiniteSetTheorems, SequenceTheorems, TLAPS

(***************************************************************************)
(* The bus: what its operations do to _subscribed, and its types.          *)
(***************************************************************************)
LEMMA TransmitType ==
  ASSUME TypeOK, NEW cmd \in {"subscribe", "unsubscribe"}, NEW rs \in SUBSET Rooms,
         Transmit(cmd, rs)
  PROVE  wire' \in Seq(Commands)
<1>1. [cmd |-> cmd, rooms |-> rs] \in Commands
  BY DEF Commands
<1>2. wire \in Seq(Commands)
  BY DEF TypeOK
<1> QED BY <1>1, <1>2, AppendProperties DEF Transmit

LEMMA SubscribeAdds ==
  ASSUME TypeOK, NEW r \in Rooms, Subscribe(r)
  PROVE  /\ subscribed' = subscribed \cup {r}
         /\ subscribed' \in SUBSET Rooms /\ wire' \in Seq(Commands)
         /\ topics' = topics /\ connected' = connected
<1>1. CASE r \in subscribed
  BY <1>1 DEF Subscribe, bus, TypeOK
<1>2. CASE r \notin subscribed
  <2>1. Transmit("subscribe", {r}) /\ subscribed' = subscribed \cup {r}
    BY <1>2 DEF Subscribe
  <2>2. wire' \in Seq(Commands)
    BY <2>1, TransmitType
  <2> QED BY <1>2, <2>1, <2>2 DEF Subscribe, TypeOK
<1> QED BY <1>1, <1>2

LEMMA UnsubscribeRemoves ==
  ASSUME TypeOK, NEW r \in Rooms, Unsubscribe(r)
  PROVE  /\ subscribed' = subscribed \ {r}
         /\ subscribed' \in SUBSET Rooms /\ wire' \in Seq(Commands)
         /\ topics' = topics /\ connected' = connected
<1>1. CASE r \notin subscribed
  BY <1>1 DEF Unsubscribe, bus, TypeOK
<1>2. CASE r \in subscribed
  <2>1. Transmit("unsubscribe", {r}) /\ subscribed' = subscribed \ {r}
    BY <1>2 DEF Unsubscribe
  <2>2. wire' \in Seq(Commands)
    BY <2>1, TransmitType
  <2> QED BY <1>2, <2>1, <2>2 DEF Unsubscribe, TypeOK
<1> QED BY <1>1, <1>2

(***************************************************************************)
(* Types.                                                                  *)
(***************************************************************************)
LEMMA BeatTypeOK ==
  ASSUME TypeOK, NEW s \in Clients, Beat(s) \/ FailBeat(s)
  PROVE  TypeOK'
<1> USE SessionsAssumption DEF TypeOK
<1>1. CASE Wake(s)
  <2>1. Cardinality(rooms[s]) \in Nat
    BY FS_Subset, FS_CardinalityType
  <2> PICK r \in rooms[s] : heart' = [heart EXCEPT ![s] =
         [at |-> "renewing", visited |-> {r}, size |-> Cardinality(rooms[s])]]
    BY <1>1 DEF Wake
  <2>2. heart' \in [Clients -> Hearts]
    BY <2>1 DEF Hearts
  <2> QED BY <1>1, <2>2 DEF Wake, task, bus
<1>2. CASE NextBeat(s)
  <2>1. Asleep \in Hearts
    BY DEF Asleep, Hearts
  <2>2. heart' \in [Clients -> Hearts]
    BY <1>2, <2>1 DEF NextBeat, Hearts
  <2> QED BY <1>2, <2>2 DEF NextBeat, task, bus
<1>3. CASE FailBeat(s)
  <2>1. [heart[s] EXCEPT !.at = "failed"] \in Hearts
    BY DEF Hearts
  <2>2. heart' = [heart EXCEPT ![s] = [heart[s] EXCEPT !.at = "failed"]]
    BY <1>3 DEF FailBeat
  <2>3. heart' \in [Clients -> Hearts]
    BY <2>1, <2>2
  <2> QED BY <1>3, <2>3 DEF FailBeat, task, bus
<1> QED BY <1>1, <1>2, <1>3 DEF Beat

LEMMA CommandTypeOK ==
  ASSUME TypeOK, NEW s \in Clients, NEW r \in Rooms,
         \/ Join(s, r) \/ JoinPresence(s)
         \/ Leave(s, r) \/ LeavePresence(s) \/ FinishLeave(s)
  PROVE  TypeOK'
<1> USE SessionsAssumption DEF TypeOK, Places, Goto, At
<1>1. CASE Join(s, r)
  <2>1. subscribed' \in SUBSET Rooms /\ wire' \in Seq(Commands)
        /\ topics' = topics /\ connected' = connected
    BY <1>1, SubscribeAdds DEF Join, bus
  <2> QED BY <1>1, <2>1 DEF Join
<1>2. CASE JoinPresence(s)
  BY <1>2 DEF JoinPresence, bus
<1>3. CASE Leave(s, r)
  BY <1>3 DEF Leave, bus
<1>4. CASE LeavePresence(s)
  BY <1>4 DEF LeavePresence, bus
<1>5. CASE FinishLeave(s)
  <2>1. subscribed' \in SUBSET Rooms /\ wire' \in Seq(Commands)
        /\ topics' = topics /\ connected' = connected
    BY <1>5, UnsubscribeRemoves DEF FinishLeave, bus
  <2> QED BY <1>5, <2>1 DEF FinishLeave
<1> QED BY <1>1, <1>2, <1>3, <1>4, <1>5

LEMMA EndTypeOK ==
  ASSUME TypeOK, NEW s \in Clients,
         \/ Open(s) \/ Joined(s) \/ HangUp(s) \/ Fail(s) \/ EndSession(s) \/ Closed(s)
  PROVE  TypeOK'
<1> USE SessionsAssumption DEF TypeOK, Places, Goto, At
<1>0. Asleep \in Hearts
  BY DEF Asleep, Hearts
<1>1. CASE Open(s)
  BY <1>0, <1>1 DEF Open, bus
<1>2. CASE HangUp(s)
  BY <1>2 DEF HangUp, bus
<1>3. CASE Fail(s)
  <2>1. failures' \in 0..MaxFailures
    BY <1>3 DEF Fail
  <2>2. pc' \in [Clients -> Places]
    BY <1>3 DEF Fail
  <2> QED BY <1>3, <2>1, <2>2 DEF Fail, bus
<1>4. CASE EndSession(s)
  <2>1. pc' \in [Clients -> Places] /\ leaving' \in [Clients -> SUBSET Rooms]
    BY <1>4 DEF EndSession
  <2>2. /\ emptied' \in [Clients -> SUBSET Rooms]
        /\ members' \in [Rooms -> SUBSET Clients]
        /\ heart' \in [Clients -> Hearts]
    BY <1>0, <1>4 DEF EndSession
  <2>3. \A q \in Clients : pc'[q] \in {"joining", "reading", "leaving", "left"} =>
          pc'[q] = pc[q]
    BY <1>4 DEF EndSession
  <2> QED BY <1>4, <2>1, <2>2, <2>3 DEF EndSession, bus
<1>5. CASE Closed(s)
  BY <1>5 DEF Closed, bus
<1>6. CASE Joined(s)
  BY <1>6 DEF Joined, bus
<1> QED BY <1>1, <1>2, <1>3, <1>4, <1>5, <1>6

LEMMA CloseTypeOK ==
  ASSUME TypeOK, NEW s \in Clients, NEW r \in Rooms,
         ClosePresence(s, r) \/ CloseTopic(s, r) \/ FailClosing(s, r)
  PROVE  TypeOK'
<1> USE SessionsAssumption DEF TypeOK, Places, Goto, At
<1>1. CASE ClosePresence(s, r)
  BY <1>1 DEF ClosePresence, bus
<1>2. CASE CloseTopic(s, r)
  <2>1. subscribed' \in SUBSET Rooms /\ wire' \in Seq(Commands)
        /\ topics' = topics /\ connected' = connected
    BY <1>2, UnsubscribeRemoves DEF CloseTopic
  <2> QED BY <1>2, <2>1 DEF CloseTopic
<1>3. CASE FailClosing(s, r)
  BY <1>3 DEF FailClosing, bus
<1> QED BY <1>1, <1>2, <1>3

LEMMA BusTypeOK ==
  ASSUME TypeOK, RedisExecutes \/ BreakLink \/ Reconnect
  PROVE  TypeOK'
<1> USE SessionsAssumption DEF TypeOK, task
<1>1. CASE RedisExecutes
  <2>1. wire' \in Seq(Commands) /\ Head(wire) \in Commands
    BY <1>1, HeadTailProperties DEF RedisExecutes
  <2>2. topics' \in SUBSET Rooms
    BY <1>1, <2>1 DEF RedisExecutes, Execute, Commands
  <2> QED BY <1>1, <2>1, <2>2 DEF RedisExecutes
<1>2. CASE BreakLink
  <2>1. wire' \in Seq(Commands) /\ topics' \in SUBSET Rooms /\ connected' \in BOOLEAN
    BY <1>2, EmptySeq DEF BreakLink
  <2>2. breaks' \in 0..MaxBreaks
    BY <1>2 DEF BreakLink
  <2> QED BY <1>2, <2>1, <2>2 DEF BreakLink
<1>3. CASE Reconnect
  BY <1>3 DEF Reconnect, Commands
<1> QED BY <1>1, <1>2, <1>3

\* Every step keeps the types.
LEMMA NextTypeOK ==
  ASSUME TypeOK, [Next]_vars
  PROVE  TypeOK'
<1>1. CASE UNCHANGED vars
  BY <1>1 DEF vars, task, bus, TypeOK
<1>2. CASE Next
  <2>1. ASSUME NEW s \in Clients, NEW r \in Rooms,
               Join(s, r) \/ Leave(s, r) \/ FailClosing(s, r)
               \/ ClosePresence(s, r) \/ CloseTopic(s, r)
        PROVE  TypeOK'
    BY <2>1, CommandTypeOK, CloseTypeOK
  <2>2. ASSUME NEW s \in Clients, Beat(s) \/ FailBeat(s)
        PROVE  TypeOK'
    BY <2>2, BeatTypeOK
  <2>3. ASSUME NEW s \in Clients, JoinPresence(s) \/ LeavePresence(s) \/ FinishLeave(s)
        PROVE  TypeOK'
    <3>1. room[s] \in Rooms
      BY <2>3 DEF TypeOK, JoinPresence, LeavePresence, FinishLeave, At
    <3> QED BY <2>3, <3>1, CommandTypeOK
  <2> QED BY <1>2, <2>1, <2>2, <2>3, EndTypeOK, BusTypeOK DEF Next, Continue
<1> QED BY <1>1, <1>2

(***************************************************************************)
(* The steps that the invariants do not see: those of the heartbeat, of    *)
(* Redis and of the Pub/Sub connection.                                    *)
(***************************************************************************)
Unseen ==
  /\ UNCHANGED <<task, members, presence, subscribed>>
  /\ failures' = 0 => failures = 0

LEMMA UnseenSteps ==
  ASSUME TypeOK,
         \/ \E s \in Clients : Beat(s) \/ FailBeat(s)
         \/ RedisExecutes \/ BreakLink \/ Reconnect \/ UNCHANGED vars
  PROVE  Unseen
BY DEF TypeOK, Unseen, Beat, Wake, NextBeat, FailBeat, RedisExecutes, BreakLink, Reconnect,
       vars, task, bus

(***************************************************************************)
(* IndexInv: nobody but the session itself changes its entries.            *)
(***************************************************************************)
LEMMA CommandIndexInv ==
  ASSUME TypeOK, IndexInv, NEW s \in Clients, NEW r \in Rooms,
         Join(s, r) \/ Leave(s, r)
  PROVE  IndexInv'
<1> USE DEF TypeOK, IndexInv, Goto, At
<1>1. CASE Join(s, r)
  BY <1>1 DEF Join
<1>2. CASE Leave(s, r)
  BY <1>2 DEF Leave
<1> QED BY <1>1, <1>2

LEMMA StepIndexInv ==
  ASSUME TypeOK, IndexInv, NEW s \in Clients,
         \/ Open(s) \/ HangUp(s) \/ Fail(s) \/ EndSession(s) \/ Closed(s)
         \/ JoinPresence(s) \/ Joined(s) \/ LeavePresence(s) \/ FinishLeave(s)
         \/ \E r \in Rooms : ClosePresence(s, r) \/ CloseTopic(s, r) \/ FailClosing(s, r)
  PROVE  IndexInv'
<1> USE DEF TypeOK, IndexInv, Goto, At
<1>1. CASE Open(s)
  BY <1>1 DEF Open
<1>2. CASE HangUp(s) \/ Fail(s)
  BY <1>2 DEF HangUp, Fail
<1>3. CASE EndSession(s)
  BY <1>3 DEF EndSession
<1>4. CASE Closed(s)
  BY <1>4 DEF Closed
<1>5. CASE JoinPresence(s) \/ Joined(s)
  BY <1>5 DEF JoinPresence, Joined
<1>6. CASE LeavePresence(s) \/ FinishLeave(s)
  BY <1>6 DEF LeavePresence, FinishLeave
<1>7. CASE \E r \in Rooms : ClosePresence(s, r) \/ CloseTopic(s, r) \/ FailClosing(s, r)
  BY <1>7 DEF ClosePresence, CloseTopic, FailClosing
<1> QED BY <1>1, <1>2, <1>3, <1>4, <1>5, <1>6, <1>7

LEMMA NextIndexInv ==
  ASSUME TypeOK, IndexInv, [Next]_vars
  PROVE  IndexInv'
<1>1. Unseen => IndexInv'
  BY DEF Unseen, IndexInv, At, task
<1> QED BY <1>1, UnseenSteps, CommandIndexInv, StepIndexInv DEF Next, Continue

(***************************************************************************)
(* EmptiedInv: a session remembers emptied rooms only while it leaves.     *)
(***************************************************************************)
LEMMA NextEmptiedInv ==
  ASSUME TypeOK, EmptiedInv, [Next]_vars
  PROVE  EmptiedInv'
<1> USE DEF TypeOK, EmptiedInv, Goto, At
<1>1. Unseen => EmptiedInv'
  BY DEF Unseen, task
<1>2. ASSUME NEW s \in Clients, NEW r \in Rooms, Join(s, r) \/ Leave(s, r)
      PROVE  EmptiedInv'
  BY <1>2 DEF Join, Leave
<1>3. ASSUME NEW s \in Clients, Open(s) \/ HangUp(s) \/ Fail(s)
      PROVE  EmptiedInv'
  BY <1>3 DEF Open, HangUp, Fail
<1>4. ASSUME NEW s \in Clients, EndSession(s) \/ Closed(s)
      PROVE  EmptiedInv'
  BY <1>4 DEF EndSession, Closed
<1>5. ASSUME NEW s \in Clients,
             JoinPresence(s) \/ Joined(s) \/ LeavePresence(s) \/ FinishLeave(s)
      PROVE  EmptiedInv'
  BY <1>5 DEF JoinPresence, Joined, LeavePresence, FinishLeave
<1>6. ASSUME NEW s \in Clients, NEW r \in Rooms,
             ClosePresence(s, r) \/ CloseTopic(s, r) \/ FailClosing(s, r)
      PROVE  EmptiedInv'
  BY <1>6 DEF ClosePresence, CloseTopic, FailClosing
<1> QED
  BY <1>1, <1>2, <1>3, <1>4, <1>5, <1>6, UnseenSteps DEF Next, Continue

(***************************************************************************)
(* SubscriptionOwned.                                                      *)
(***************************************************************************)
LEMMA NextSubscriptionOwned ==
  ASSUME TypeOK, IndexInv, EmptiedInv, SubscriptionOwned, [Next]_vars
  PROVE  SubscriptionOwned'
<1> USE DEF TypeOK, SubscriptionOwned, WillUnsubscribe, Goto, At
<1>1. Unseen => SubscriptionOwned'
  BY DEF Unseen, task
<1>2. ASSUME NEW s \in Clients, NEW r \in Rooms, Join(s, r)
      PROVE  SubscriptionOwned'
  <2>1. subscribed' \subseteq subscribed \cup {r}
    BY <1>2, SubscribeAdds DEF Join, bus
  <2>2. \A q \in Rooms : members[q] \subseteq members'[q]
    BY <1>2 DEF Join
  <2>3. s \in members'[r] /\ emptied' = emptied /\ failures' = failures
    BY <1>2 DEF Join
  <2> QED BY <2>1, <2>2, <2>3
<1>3. ASSUME NEW s \in Clients, NEW r \in Rooms, Leave(s, r)
      PROVE  SubscriptionOwned'
  <2>1. emptied[s] = {}
    BY <1>3 DEF Leave, EmptiedInv
  <2>2. \A q \in Clients : emptied[q] \subseteq emptied'[q]
    BY <1>3, <2>1 DEF Leave
  <2>3. subscribed' = subscribed /\ failures' = failures
    BY <1>3 DEF Leave, bus
  <2>4. \A q \in Rooms \ {r} : members'[q] = members[q]
    BY <1>3 DEF Leave
  <2>5. members[r] # {} => members'[r] # {} \/ r \in emptied'[s]
    BY <1>3 DEF Leave
  <2> QED BY <2>2, <2>3, <2>4, <2>5
<1>4. ASSUME NEW s \in Clients, FinishLeave(s)
      PROVE  SubscriptionOwned'
  <2>1. room[s] \in Rooms /\ emptied[s] \subseteq {room[s]}
    BY <1>4 DEF FinishLeave, EmptiedInv
  <2>2. /\ subscribed' \subseteq subscribed
        /\ room[s] \in emptied[s] => room[s] \notin subscribed'
    BY <1>4, <2>1, UnsubscribeRemoves DEF FinishLeave, bus
  <2>3. members' = members /\ failures' = failures
    BY <1>4 DEF FinishLeave
  <2>4. \A q \in Clients \ {s} : emptied'[q] = emptied[q]
    BY <1>4 DEF FinishLeave
  <2> QED BY <2>1, <2>2, <2>3, <2>4
<1>5. ASSUME NEW s \in Clients, EndSession(s)
      PROVE  SubscriptionOwned'
  <2>1. emptied[s] = {}
    BY <1>5 DEF EndSession, EmptiedInv
  <2>2. \A q \in Clients : emptied[q] \subseteq emptied'[q]
    BY <1>5, <2>1 DEF EndSession
  <2>3. subscribed' = subscribed /\ failures' = failures
    BY <1>5 DEF EndSession, bus
  <2>4. \A r \in Rooms : members[r] # {} => members'[r] # {} \/ r \in emptied'[s]
    BY <1>5 DEF EndSession, IndexInv
  <2> QED BY <2>2, <2>3, <2>4
<1>6. ASSUME NEW s \in Clients, NEW r \in Rooms, CloseTopic(s, r)
      PROVE  SubscriptionOwned'
  <2>1. subscribed' = subscribed \ {r}
    BY <1>6, UnsubscribeRemoves DEF CloseTopic
  <2>2. \A q \in Clients : emptied[q] \ {r} \subseteq emptied'[q]
    BY <1>6 DEF CloseTopic
  <2>3. members' = members /\ failures' = failures
    BY <1>6 DEF CloseTopic
  <2> QED BY <2>1, <2>2, <2>3
<1>7. ASSUME NEW s \in Clients, NEW r \in Rooms, FailClosing(s, r)
      PROVE  SubscriptionOwned'
  BY <1>7, SessionsAssumption DEF FailClosing
<1>8. ASSUME NEW s \in Clients,
             \/ Open(s) \/ HangUp(s) \/ Closed(s)
             \/ JoinPresence(s) \/ Joined(s) \/ LeavePresence(s)
             \/ \E r \in Rooms : ClosePresence(s, r)
      PROVE  SubscriptionOwned'
  BY <1>8 DEF Open, HangUp, Closed, JoinPresence, Joined, LeavePresence, ClosePresence, bus
<1>9. ASSUME NEW s \in Clients, Fail(s)
      PROVE  SubscriptionOwned'
  BY <1>9, SessionsAssumption DEF Fail
<1> QED
  BY <1>1, <1>2, <1>3, <1>4, <1>5, <1>6, <1>7, <1>8, <1>9, UnseenSteps DEF Next, Continue

(***************************************************************************)
(* PresenceFollows: outside a command, a session is in the presence set of *)
(* a room exactly if it is in the index; a command updates first the index *)
(* and then the set.                                                       *)
(***************************************************************************)
LEMMA NextPresenceFollows ==
  ASSUME TypeOK, IndexInv, PresenceFollows, [Next]_vars
  PROVE  PresenceFollows'
<1> USE DEF TypeOK, PresenceFollows, Goto, At
<1>1. Unseen => PresenceFollows'
  BY DEF Unseen, task
<1>2. ASSUME NEW s \in Clients, NEW r \in Rooms, Join(s, r)
      PROVE  PresenceFollows'
  BY <1>2 DEF Join
<1>3. ASSUME NEW s \in Clients, JoinPresence(s)
      PROVE  PresenceFollows'
  BY <1>3 DEF JoinPresence, IndexInv
<1>4. ASSUME NEW s \in Clients, NEW r \in Rooms, Leave(s, r)
      PROVE  PresenceFollows'
  BY <1>4 DEF Leave
<1>5. ASSUME NEW s \in Clients, LeavePresence(s)
      PROVE  PresenceFollows'
  BY <1>5 DEF LeavePresence, IndexInv
<1>6. ASSUME NEW s \in Clients, EndSession(s)
      PROVE  PresenceFollows'
  BY <1>6 DEF EndSession, IndexInv
<1>7. ASSUME NEW s \in Clients, NEW r \in Rooms, ClosePresence(s, r)
      PROVE  PresenceFollows'
  BY <1>7 DEF ClosePresence, IndexInv
<1>8. ASSUME NEW s \in Clients, Fail(s) \/ \E r \in Rooms : FailClosing(s, r)
      PROVE  PresenceFollows'
  BY <1>8, SessionsAssumption DEF Fail, FailClosing
<1>9. ASSUME NEW s \in Clients,
             \/ Open(s) \/ HangUp(s) \/ Joined(s) \/ FinishLeave(s) \/ Closed(s)
             \/ \E r \in Rooms : CloseTopic(s, r)
      PROVE  PresenceFollows'
  BY <1>9 DEF Open, HangUp, Joined, FinishLeave, Closed, CloseTopic
<1> QED
  BY <1>1, <1>2, <1>3, <1>4, <1>5, <1>6, <1>7, <1>8, <1>9, UnseenSteps DEF Next, Continue

(***************************************************************************)
(* TopicsFollow: a command appended to the wire decides for the rooms it   *)
(* names and leaves the others alone; Redis executes the first one without *)
(* changing what will be delivered in the end.                             *)
(***************************************************************************)
LEMMA AppendDecides ==
  ASSUME NEW ts, NEW w \in Seq(Commands), NEW c \in Commands, NEW r
  PROVE  WillDeliver(ts, Append(w, c), r) <=>
           IF r \in c.rooms THEN c.cmd = "subscribe" ELSE WillDeliver(ts, w, r)
<1> DEFINE n == Len(w)
           a == Append(w, c)
<1>1. n \in Nat /\ Len(a) = n + 1 /\ a[n + 1] = c /\ \A i \in 1..n : a[i] = w[i]
  BY LenProperties, AppendProperties
<1>2. n = Len(w)
  OBVIOUS
<1> HIDE DEF n, a
<1>3. \A i \in 1..n : Named(a, r, i) <=> Named(w, r, i)
  BY <1>1 DEF Named
<1>4. Named(a, r, n + 1) <=> r \in c.rooms
  BY <1>1 DEF Named
<1>5. CASE r \in c.rooms
  <2>1. \A i \in 1..n : n + 1 \in i + 1..n + 1
    BY <1>1
  <2>2. \A j \in n + 1 + 1..n + 1 : FALSE
    BY <1>1
  <2>3. n + 1 \in 1..n + 1 /\ \A i \in 1..n + 1 : i \in 1..n \/ i = n + 1
    BY <1>1
  <2>4. WillDeliver(ts, a, r) <=> c.cmd = "subscribe"
    BY <1>1, <1>4, <1>5, <2>1, <2>2, <2>3 DEF WillDeliver
  <2> QED BY <1>5, <2>4 DEF a
<1>6. CASE r \notin c.rooms
  <2>1. \A i \in 1..n + 1 : i \in 1..n \/ i = n + 1
    BY <1>1
  <2>2. \A i \in 1..n : /\ \A j \in i + 1..n : j \in 1..n
                        /\ \A j \in i + 1..n + 1 : j \in i + 1..n \/ j = n + 1
                        /\ i \in 1..n + 1 /\ \A j \in i + 1..n : j \in i + 1..n + 1
    BY <1>1
  <2>3. WillDeliver(ts, a, r) <=> WillDeliver(ts, w, r)
    BY <1>1, <1>2, <1>3, <1>4, <1>6, <2>1, <2>2 DEF WillDeliver
  <2> QED BY <1>6, <2>3 DEF a
<1> QED BY <1>5, <1>6

LEMMA ExecuteKeeps ==
  ASSUME NEW ts, NEW w \in Seq(Commands), w # <<>>, NEW r
  PROVE  WillDeliver(Execute(ts, Head(w)), Tail(w), r) <=> WillDeliver(ts, w, r)
<1> DEFINE n == Len(w)
           c == Head(w)
           t == Tail(w)
           after == Execute(ts, Head(w))
<1>1. n \in Nat /\ n >= 1 /\ c = w[1] /\ c \in Commands
  BY LenProperties, EmptySeq, HeadTailProperties
<1>2. Len(t) = n - 1 /\ \A i \in 1..n - 1 : t[i] = w[i + 1]
  BY HeadTailProperties
<1>3. r \in after <=> IF r \in c.rooms THEN c.cmd = "subscribe" ELSE r \in ts
  BY DEF Execute
<1>4. n = Len(w)
  OBVIOUS
<1> HIDE DEF n, c, t, after
<1>5. \A i \in 1..n - 1 : Named(t, r, i) <=> Named(w, r, i + 1)
  BY <1>2 DEF Named
<1>6. Named(w, r, 1) <=> r \in c.rooms
  BY <1>1 DEF Named
<1>7. \A i \in 1..n : i = 1 \/ (i - 1 \in 1..n - 1 /\ i = (i - 1) + 1)
  BY <1>1
<1>8. 1 \in 1..n /\ \A i \in 1..n - 1 : i + 1 \in 1..n
  BY <1>1
<1> DEFINE Silent == \A j \in 1..n - 1 : ~Named(w, r, j + 1)
           Sub(i) == w[i].cmd = "subscribe" /\ Named(w, r, i)
           Last(i) == Sub(i) /\ \A j \in i + 1..n : ~Named(w, r, j)
<1>9. WillDeliver(ts, w, r) <=>
        \/ \E i \in 1..n - 1 : Last(i + 1)
        \/ Silent /\ IF Named(w, r, 1) THEN c.cmd = "subscribe" ELSE r \in ts
  <2>1. WillDeliver(ts, w, r) <=>
          (\E i \in 1..n : Last(i)) \/ (r \in ts /\ \A j \in 1..n : ~Named(w, r, j))
    BY <1>4 DEF WillDeliver
  <2>2. (\E i \in 1..n : Last(i)) <=> Last(1) \/ \E i \in 1..n - 1 : Last(i + 1)
    <3> HIDE DEF Last
    <3> QED BY <1>7, <1>8
  <2>3. (\A j \in 1..n : ~Named(w, r, j)) <=> ~Named(w, r, 1) /\ Silent
    BY <1>7, <1>8
  <2>4. Last(1) <=> c.cmd = "subscribe" /\ Named(w, r, 1) /\ Silent
    <3>1. \A j \in 1 + 1..n : j - 1 \in 1..n - 1 /\ j = (j - 1) + 1
      BY <1>1
    <3>2. \A j \in 1..n - 1 : j + 1 \in 1 + 1..n
      BY <1>1
    <3> QED BY <1>1, <3>1, <3>2
  <2> HIDE DEF Last, Silent
  <2> QED BY <2>1, <2>2, <2>3, <2>4
<1>10. WillDeliver(after, t, r) <=>
         (\E i \in 1..n - 1 : Last(i + 1)) \/ (r \in after /\ Silent)
  <2>1. \A i \in 1..n - 1 :
          (\A j \in i + 1..n - 1 : ~Named(t, r, j))
            <=> (\A j \in i + 1 + 1..n : ~Named(w, r, j))
    <3> TAKE i \in 1..n - 1
    <3>1. \A j \in i + 1 + 1..n : j - 1 \in i + 1..n - 1 /\ j = (j - 1) + 1
                                   /\ j - 1 \in 1..n - 1
      BY <1>1
    <3>2. \A j \in i + 1..n - 1 : j + 1 \in i + 1 + 1..n /\ j \in 1..n - 1
      BY <1>1
    <3> QED BY <1>5, <3>1, <3>2
  <2>2. (\A j \in 1..n - 1 : ~Named(t, r, j)) <=> Silent
    BY <1>5
  <2>3. \A i \in 1..n - 1 :
          (Named(t, r, i) /\ t[i].cmd = "subscribe" /\ \A j \in i + 1..n - 1 : ~Named(t, r, j))
            <=> Last(i + 1)
    BY <1>2, <1>5, <2>1
  <2> HIDE DEF Last, Silent
  <2> QED BY <1>2, <2>2, <2>3 DEF WillDeliver
<1> HIDE DEF Last, Silent
<1>11. WillDeliver(after, t, r) <=> WillDeliver(ts, w, r)
  BY <1>3, <1>6, <1>9, <1>10
<1> QED BY <1>11 DEF after, t

LEMMA BusFollows ==
  ASSUME TypeOK, TopicsFollow, CutInv, NEW r \in Rooms, Subscribe(r) \/ Unsubscribe(r)
  PROVE  TopicsFollow' /\ CutInv'
<1> DEFINE sub == [cmd |-> "subscribe", rooms |-> {r}]
           unsub == [cmd |-> "unsubscribe", rooms |-> {r}]
<1>1. CASE UNCHANGED bus
  BY <1>1 DEF bus, TopicsFollow, CutInv
<1>2. CASE ~connected
  BY <1>2 DEF Subscribe, Unsubscribe, Transmit, bus, TopicsFollow, CutInv
<1>3. CASE connected /\ Subscribe(r) /\ r \notin subscribed
  <2>1. wire' = Append(wire, sub) /\ sub \in Commands
    BY <1>3 DEF Subscribe, Transmit, Commands
  <2>2. topics' = topics /\ connected' = connected /\ subscribed' = subscribed \cup {r}
    BY <1>3 DEF Subscribe
  <2>3. \A q \in Rooms : WillDeliver(topics, wire', q) <=> q = r \/ WillDeliver(topics, wire, q)
    BY <2>1, AppendDecides DEF TypeOK
  <2> QED BY <1>3, <2>2, <2>3 DEF TopicsFollow, CutInv
<1>4. CASE connected /\ Unsubscribe(r) /\ r \in subscribed
  <2>1. wire' = Append(wire, unsub) /\ unsub \in Commands
    BY <1>4 DEF Unsubscribe, Transmit, Commands
  <2>2. topics' = topics /\ connected' = connected /\ subscribed' = subscribed \ {r}
    BY <1>4 DEF Unsubscribe
  <2>3. \A q \in Rooms : WillDeliver(topics, wire', q) <=> q # r /\ WillDeliver(topics, wire, q)
    BY <2>1, AppendDecides DEF TypeOK
  <2> QED BY <1>4, <2>2, <2>3 DEF TopicsFollow, CutInv
<1> QED BY <1>1, <1>2, <1>3, <1>4 DEF Subscribe, Unsubscribe

LEMMA NextTopicsFollow ==
  ASSUME TypeOK, TopicsFollow, CutInv, [Next]_vars
  PROVE  TopicsFollow' /\ CutInv'
<1>1. CASE RedisExecutes
  BY <1>1, ExecuteKeeps DEF TypeOK, RedisExecutes, TopicsFollow, CutInv
<1>2. CASE BreakLink
  BY <1>2 DEF BreakLink, TopicsFollow, CutInv
<1>3. CASE Reconnect
  <2>1. topics' = {} /\ connected' /\ subscribed' = subscribed
        /\ wire' = <<[cmd |-> "subscribe", rooms |-> subscribed]>>
    BY <1>3 DEF Reconnect, CutInv
  <2>2. \A r \in Rooms : WillDeliver({}, wire', r) <=> r \in subscribed
    BY <2>1 DEF WillDeliver, Named
  <2> QED BY <2>1, <2>2 DEF TopicsFollow, CutInv
<1>4. CASE UNCHANGED bus
  BY <1>4 DEF bus, TopicsFollow, CutInv
<1>5. ASSUME NEW s \in Clients, NEW r \in Rooms, Join(s, r) \/ CloseTopic(s, r)
      PROVE  TopicsFollow' /\ CutInv'
  BY <1>4, <1>5, BusFollows DEF Join, CloseTopic
<1>6. ASSUME NEW s \in Clients, FinishLeave(s)
      PROVE  TopicsFollow' /\ CutInv'
  <2>1. room[s] \in Rooms
    BY <1>6 DEF TypeOK, FinishLeave, At
  <2> QED BY <1>4, <1>6, <2>1, BusFollows DEF FinishLeave
<1>7. ASSUME NEW s \in Clients,
             \/ Open(s) \/ HangUp(s) \/ Joined(s) \/ JoinPresence(s) \/ LeavePresence(s)
             \/ EndSession(s) \/ Closed(s) \/ Beat(s) \/ Fail(s) \/ FailBeat(s)
             \/ \E r \in Rooms : Leave(s, r) \/ ClosePresence(s, r) \/ FailClosing(s, r)
      PROVE  UNCHANGED bus
  BY <1>7 DEF Open, HangUp, Joined, JoinPresence, LeavePresence, EndSession, Closed, Beat,
              Wake, NextBeat, Fail, FailBeat, Leave, ClosePresence, FailClosing
<1> QED
  BY <1>1, <1>2, <1>3, <1>4, <1>5, <1>6, <1>7 DEF Next, Continue, vars

(***************************************************************************)
(* The theorems.                                                           *)
(***************************************************************************)
\* The inductive invariant holds in every reachable state.
THEOREM Inductive == Spec => []IInv
<1>1. Init => IInv
  <2> SUFFICES ASSUME Init PROVE IInv
    OBVIOUS
  <2>1. Asleep \in Hearts
    BY DEF Asleep, Hearts
  <2>2. TypeOK
    BY <2>1, SessionsAssumption, EmptySeq DEF Init, TypeOK, Places
  <2>3. IndexInv /\ EmptiedInv
    BY DEF Init, IndexInv, EmptiedInv, At
  <2>4. SubscriptionOwned /\ PresenceFollows
    BY DEF Init, SubscriptionOwned, PresenceFollows
  <2>5. TopicsFollow /\ CutInv
    BY DEF Init, TopicsFollow, CutInv, WillDeliver, Named
  <2> QED BY <2>2, <2>3, <2>4, <2>5 DEF IInv
<1>2. IInv /\ [Next]_vars => IInv'
  BY NextTypeOK, NextIndexInv, NextEmptiedInv, NextSubscriptionOwned, NextPresenceFollows,
     NextTopicsFollow
  DEF IInv
<1> QED BY <1>1, <1>2, PTL DEF Spec

\* The types of the sessions of a node, for any number of sessions and rooms.
THEOREM TypeCorrect == Spec => []TypeOK
<1>1. IInv => TypeOK
  BY DEF IInv
<1> QED BY <1>1, Inductive, PTL

\* Without failed calls, no subscription of the node is left without a local
\* member and without a task that is going to cancel it.
THEOREM Owned == Spec => []SubscriptionOwned
<1>1. IInv => SubscriptionOwned
  BY DEF IInv
<1> QED BY <1>1, Inductive, PTL

\* Without failed calls, presence in Redis is the node's index, but for the
\* sessions between the two updates.
THEOREM Follows == Spec => []PresenceFollows
<1>1. IInv => PresenceFollows
  BY DEF IInv
<1> QED BY <1>1, Inductive, PTL

\* What Redis delivers, once it has executed what is on the wire, is what the
\* bus believes to be subscribed, across any number of broken links.
THEOREM Restored == Spec => []TopicsFollow
<1>1. IInv => TopicsFollow
  BY DEF IInv
<1> QED BY <1>1, Inductive, PTL
=============================================================================
