------------------------------ MODULE Sessions ------------------------------
(***************************************************************************)
(* The sessions of one node: serve_websocket and its heartbeat task        *)
(* (ws/connection.py), join, leave and disconnect of ChatService, the room *)
(* index of ConnectionManager and the topics of RedisMessageBus, as the    *)
(* interleaving of their awaits.                                           *)
(*                                                                         *)
(* A session handles one command at a time; different sessions interleave  *)
(* at every await.  SUBSCRIBE and UNSUBSCRIBE travel to Redis on one       *)
(* connection, in order, and nobody waits for their confirmation.          *)
(***************************************************************************)
EXTENDS Integers, Sequences, FiniteSets

CONSTANTS
  Clients,       \* sessions of this node
  Rooms,
  None,          \* no room
  MaxWire,       \* commands on their way to Redis when a join starts (bounds
                 \* its delay)
  MaxFailures,   \* calls to Redis that raise in one run
  MaxBreaks      \* breaks of the Pub/Sub connection in one run

ASSUME SessionsAssumption ==
  IsFiniteSet(Rooms) /\ MaxFailures \in Nat /\ MaxBreaks \in Nat

VARIABLES
  pc,            \* where each session's task stands
  room,          \* the room of the command it is handling
  rooms,         \* conn.rooms
  emptied,       \* rooms its command left without a local member
  leaving,       \* rooms disconnect has still to take it out of
  heart,         \* its heartbeat task
  members,       \* _by_room of ConnectionManager
  presence,      \* the presence set of each room in Redis
  subscribed,    \* _subscribed of RedisMessageBus
  connected,     \* whether the bus has a Pub/Sub connection
  wire,          \* commands sent on it and not yet executed
  topics,        \* rooms Redis delivers to this node
  failures, breaks

task == <<pc, room, rooms, emptied, leaving>>
bus == <<subscribed, connected, wire, topics>>
vars == <<task, heart, members, presence, bus, failures, breaks>>

\* "abandoned": the task ended without running disconnect.
Places == {"closed", "idle", "joining", "reading", "leaving", "left",
           "ending", "closing", "abandoned"}

\* visited and size are the state of the iteration over conn.rooms.
Hearts == [at : {"asleep", "renewing", "failed"}, visited : SUBSET Rooms, size : Nat]

Asleep == [at |-> "asleep", visited |-> {}, size |-> 0]

Commands == [cmd : {"subscribe", "unsubscribe"}, rooms : SUBSET Rooms]

TypeOK ==
  /\ pc \in [Clients -> Places]
  /\ room \in [Clients -> Rooms \cup {None}]
  /\ \A s \in Clients :
       pc[s] \in {"joining", "reading", "leaving", "left"} => room[s] \in Rooms
  /\ rooms \in [Clients -> SUBSET Rooms]
  /\ emptied \in [Clients -> SUBSET Rooms]
  /\ leaving \in [Clients -> SUBSET Rooms]
  /\ heart \in [Clients -> Hearts]
  /\ members \in [Rooms -> SUBSET Clients]
  /\ presence \in [Rooms -> SUBSET Clients]
  /\ subscribed \in SUBSET Rooms
  /\ connected \in BOOLEAN
  /\ wire \in Seq(Commands)
  /\ topics \in SUBSET Rooms
  /\ failures \in 0..MaxFailures
  /\ breaks \in 0..MaxBreaks

Init ==
  /\ pc = [s \in Clients |-> "closed"]
  /\ room = [s \in Clients |-> None]
  /\ rooms = [s \in Clients |-> {}]
  /\ emptied = [s \in Clients |-> {}]
  /\ leaving = [s \in Clients |-> {}]
  /\ heart = [s \in Clients |-> Asleep]
  /\ members = [r \in Rooms |-> {}]
  /\ presence = [r \in Rooms |-> {}]
  /\ subscribed = {}
  /\ connected = TRUE
  /\ wire = <<>>
  /\ topics = {}
  /\ failures = 0
  /\ breaks = 0

-----------------------------------------------------------------------------
(* RedisMessageBus.                                                        *)

\* A command goes out on the connection; without one it is lost.
Transmit(cmd, rs) ==
  wire' = IF connected THEN Append(wire, [cmd |-> cmd, rooms |-> rs]) ELSE wire

Subscribe(r) ==
  IF r \in subscribed
    THEN UNCHANGED bus
    ELSE /\ subscribed' = subscribed \cup {r}
         /\ Transmit("subscribe", {r})
         /\ UNCHANGED <<connected, topics>>

Unsubscribe(r) ==
  IF r \notin subscribed
    THEN UNCHANGED bus
    ELSE /\ subscribed' = subscribed \ {r}
         /\ Transmit("unsubscribe", {r})
         /\ UNCHANGED <<connected, topics>>

\* What Redis makes of one command.
Execute(ts, c) ==
  IF c.cmd = "subscribe" THEN ts \cup c.rooms ELSE ts \ c.rooms

RedisExecutes ==
  /\ wire # <<>>
  /\ topics' = Execute(topics, Head(wire))
  /\ wire' = Tail(wire)
  /\ UNCHANGED <<task, heart, members, presence, subscribed, connected, failures, breaks>>

BreakLink ==
  /\ connected
  /\ breaks < MaxBreaks
  /\ breaks' = breaks + 1
  /\ connected' = FALSE
  /\ topics' = {}
  /\ wire' = <<>>
  /\ UNCHANGED <<task, heart, members, presence, subscribed, failures>>

\* Mutant: a new connection restores nothing.
ReconnectBare ==
  /\ ~connected
  /\ connected' = TRUE
  /\ wire' = <<>>
  /\ UNCHANGED <<task, heart, members, presence, subscribed, topics, failures, breaks>>

\* _connect: one SUBSCRIBE restores every room of _subscribed.
Reconnect ==
  /\ ~connected
  /\ connected' = TRUE
  /\ wire' = <<[cmd |-> "subscribe", rooms |-> subscribed]>>
  /\ UNCHANGED <<task, heart, members, presence, subscribed, topics, failures, breaks>>

-----------------------------------------------------------------------------
(* The commands of a session.                                              *)

At(s, place) == pc[s] = place

Goto(s, place) == pc' = [pc EXCEPT ![s] = place]

Open(s) ==
  /\ At(s, "closed")
  /\ Goto(s, "idle")
  /\ rooms' = [rooms EXCEPT ![s] = {}]
  /\ heart' = [heart EXCEPT ![s] = Asleep]
  /\ UNCHANGED <<room, emptied, leaving, members, presence, bus, failures, breaks>>

\* join up to its first await; only the first local member subscribes.
Join(s, r) ==
  /\ At(s, "idle")
  /\ Len(wire) < MaxWire
  /\ Goto(s, "joining")
  /\ room' = [room EXCEPT ![s] = r]
  /\ rooms' = [rooms EXCEPT ![s] = @ \cup {r}]
  /\ members' = [members EXCEPT ![r] = @ \cup {s}]
  /\ IF members[r] = {} THEN Subscribe(r) ELSE UNCHANGED bus
  /\ UNCHANGED <<emptied, leaving, heart, presence, failures, breaks>>

JoinPresence(s) ==
  /\ At(s, "joining")
  /\ Goto(s, "reading")
  /\ presence' = [presence EXCEPT ![room[s]] = @ \cup {s}]
  /\ UNCHANGED <<room, rooms, emptied, leaving, heart, members, bus, failures, breaks>>

\* The room's counter is read here, then backlog and members; joined goes out.
Joined(s) ==
  /\ At(s, "reading")
  /\ Goto(s, "idle")
  /\ UNCHANGED <<room, rooms, emptied, leaving, heart, members, presence, bus, failures, breaks>>

\* leave up to its first await.
Leave(s, r) ==
  /\ At(s, "idle")
  /\ Goto(s, "leaving")
  /\ room' = [room EXCEPT ![s] = r]
  /\ rooms' = [rooms EXCEPT ![s] = @ \ {r}]
  /\ members' = [members EXCEPT ![r] = @ \ {s}]
  /\ emptied' = [emptied EXCEPT ![s] = IF members[r] = {s} THEN {r} ELSE {}]
  /\ UNCHANGED <<leaving, heart, presence, bus, failures, breaks>>

\* Mutant: presence is updated for the last local member only.
LeavePresenceLast(s) ==
  /\ At(s, "leaving")
  /\ Goto(s, "left")
  /\ presence' = IF emptied[s] = {} THEN presence
                                    ELSE [presence EXCEPT ![room[s]] = @ \ {s}]
  /\ UNCHANGED <<room, rooms, emptied, leaving, heart, members, bus, failures, breaks>>

LeavePresence(s) ==
  /\ At(s, "leaving")
  /\ Goto(s, "left")
  /\ presence' = [presence EXCEPT ![room[s]] = @ \ {s}]
  /\ UNCHANGED <<room, rooms, emptied, leaving, heart, members, bus, failures, breaks>>

\* Mutant: the subscription of an emptied room is left in place.
FinishLeaveKeep(s) ==
  /\ At(s, "left")
  /\ Goto(s, "idle")
  /\ emptied' = [emptied EXCEPT ![s] = {}]
  /\ UNCHANGED <<room, rooms, leaving, heart, members, presence, bus, failures, breaks>>

\* Back from presence.leave: cancel the subscription of an emptied room.
FinishLeave(s) ==
  /\ At(s, "left")
  /\ Goto(s, "idle")
  /\ IF emptied[s] # {} THEN Unsubscribe(room[s]) ELSE UNCHANGED bus
  /\ emptied' = [emptied EXCEPT ![s] = {}]
  /\ UNCHANGED <<room, rooms, leaving, heart, members, presence, failures, breaks>>

-----------------------------------------------------------------------------
(* The end of a session.                                                   *)

\* The client is gone: the receive loop ends.
HangUp(s) ==
  /\ At(s, "idle")
  /\ Goto(s, "ending")
  /\ UNCHANGED <<room, rooms, emptied, leaving, heart, members, presence, bus, failures, breaks>>

\* A call raises in the middle of a command.  The receive loop answers some
\* exceptions and goes on; any other ends it.
Fail(s) ==
  /\ pc[s] \in {"joining", "reading", "leaving", "left"}
  /\ failures < MaxFailures
  /\ failures' = failures + 1
  /\ \/ Goto(s, "idle")
     \/ Goto(s, "ending")
  /\ emptied' = [emptied EXCEPT ![s] = {}]
  /\ UNCHANGED <<room, rooms, leaving, heart, members, presence, bus, breaks>>

\* Mutant: disconnect ignores the rooms that remove says it emptied.
EndSessionKeep(s) ==
  /\ At(s, "ending")
  /\ \/ /\ heart[s].at = "failed"
        /\ Goto(s, "abandoned")
        /\ UNCHANGED <<leaving, members>>
     \/ /\ heart[s].at # "failed"
        /\ Goto(s, "closing")
        /\ leaving' = [leaving EXCEPT ![s] = rooms[s]]
        /\ members' = [r \in Rooms |-> members[r] \ {s}]
  /\ heart' = [heart EXCEPT ![s] = Asleep]
  /\ UNCHANGED <<room, rooms, emptied, presence, bus, failures, breaks>>

\* Mutant: the heartbeat is awaited without being cancelled.
EndSessionWait(s) ==
  /\ At(s, "ending")
  /\ heart[s].at = "failed"
  /\ Goto(s, "abandoned")
  /\ heart' = [heart EXCEPT ![s] = Asleep]
  /\ UNCHANGED <<room, rooms, emptied, leaving, members, presence, bus, failures, breaks>>

\* The finally clause awaits the cancelled heartbeat, which raises again what
\* ended it; only then comes disconnect, which begins in the manager.
EndSession(s) ==
  /\ At(s, "ending")
  /\ \/ /\ heart[s].at = "failed"
        /\ Goto(s, "abandoned")
        /\ UNCHANGED <<emptied, leaving, members>>
     \/ /\ heart[s].at # "failed"
        /\ Goto(s, "closing")
        /\ leaving' = [leaving EXCEPT ![s] = rooms[s]]
        /\ emptied' = [emptied EXCEPT ![s] = {r \in rooms[s] : members[r] = {s}}]
        /\ members' = [r \in Rooms |-> members[r] \ {s}]
  /\ heart' = [heart EXCEPT ![s] = Asleep]
  /\ UNCHANGED <<room, rooms, presence, bus, failures, breaks>>

ClosePresence(s, r) ==
  /\ At(s, "closing")
  /\ r \in leaving[s]
  /\ leaving' = [leaving EXCEPT ![s] = @ \ {r}]
  /\ presence' = [presence EXCEPT ![r] = @ \ {s}]
  /\ UNCHANGED <<pc, room, rooms, emptied, heart, members, bus, failures, breaks>>

CloseTopic(s, r) ==
  /\ At(s, "closing")
  /\ leaving[s] = {}
  /\ r \in emptied[s]
  /\ emptied' = [emptied EXCEPT ![s] = @ \ {r}]
  /\ Unsubscribe(r)
  /\ UNCHANGED <<pc, room, rooms, leaving, heart, members, presence, failures, breaks>>

Closed(s) ==
  /\ At(s, "closing")
  /\ leaving[s] = {} /\ emptied[s] = {}
  /\ Goto(s, "closed")
  /\ rooms' = [rooms EXCEPT ![s] = {}]
  /\ UNCHANGED <<room, emptied, leaving, heart, members, presence, bus, failures, breaks>>

\* presence.leave raises, or what follows it for the same room does: the rest
\* of disconnect is skipped.
FailClosing(s, r) ==
  /\ At(s, "closing")
  /\ r \in leaving[s]
  /\ failures < MaxFailures
  /\ failures' = failures + 1
  /\ Goto(s, "abandoned")
  /\ leaving' = [leaving EXCEPT ![s] = {}]
  /\ emptied' = [emptied EXCEPT ![s] = {}]
  /\ presence' \in {presence, [presence EXCEPT ![r] = @ \ {s}]}
  /\ UNCHANGED <<room, rooms, heart, members, bus, breaks>>

-----------------------------------------------------------------------------
(* The heartbeat task: it iterates over conn.rooms, awaiting Redis in the  *)
(* body; Python raises at the next element when the set's size changed.    *)

Alive(s) == pc[s] \notin {"closed", "closing", "abandoned"}

Wake(s) ==
  /\ Alive(s)
  /\ heart[s].at = "asleep"
  /\ rooms[s] # {}
  /\ \E r \in rooms[s] : heart' = [heart EXCEPT ![s] =
       [at |-> "renewing", visited |-> {r}, size |-> Cardinality(rooms[s])]]
  /\ UNCHANGED <<task, members, presence, bus, failures, breaks>>

NextBeat(s) ==
  /\ Alive(s)
  /\ heart[s].at = "renewing"
  /\ \/ /\ Cardinality(rooms[s]) # heart[s].size
        /\ heart' = [heart EXCEPT ![s].at = "failed"]
     \/ /\ Cardinality(rooms[s]) = heart[s].size
        /\ \E r \in rooms[s] \ heart[s].visited :
             heart' = [heart EXCEPT ![s].visited = @ \cup {r}]
     \/ /\ Cardinality(rooms[s]) = heart[s].size
        /\ rooms[s] \subseteq heart[s].visited
        /\ heart' = [heart EXCEPT ![s] = Asleep]
  /\ UNCHANGED <<task, members, presence, bus, failures, breaks>>

\* presence.heartbeat raises and ends the task.
FailBeat(s) ==
  /\ Alive(s)
  /\ heart[s].at = "renewing"
  /\ failures < MaxFailures
  /\ failures' = failures + 1
  /\ heart' = [heart EXCEPT ![s].at = "failed"]
  /\ UNCHANGED <<task, members, presence, bus, breaks>>

-----------------------------------------------------------------------------
Continue(s) ==
  \/ JoinPresence(s) \/ Joined(s)
  \/ LeavePresence(s) \/ FinishLeave(s)
  \/ EndSession(s) \/ Closed(s)
  \/ \E r \in Rooms : ClosePresence(s, r) \/ CloseTopic(s, r)

Beat(s) == Wake(s) \/ NextBeat(s)

Next ==
  \/ \E s \in Clients : \/ Open(s) \/ HangUp(s) \/ Continue(s) \/ Beat(s)
                        \/ Fail(s) \/ FailBeat(s)
                        \/ \E r \in Rooms : Join(s, r) \/ Leave(s, r) \/ FailClosing(s, r)
  \/ RedisExecutes \/ BreakLink \/ Reconnect

Spec == Init /\ [][Next]_vars

\* The event loop resumes every task whose await is over, Redis executes what
\* it receives, and the bus reconnects for ever.
Fairness ==
  /\ \A s \in Clients : WF_vars(Continue(s))
  /\ WF_vars(RedisExecutes)
  /\ WF_vars(Reconnect)

FairSpec == Spec /\ Fairness

-----------------------------------------------------------------------------
(* Safety.                                                                 *)

\* Some task of this node is going to cancel the subscription of r.
WillUnsubscribe(r) == \E s \in Clients : r \in emptied[s]

\* A topic is kept only for a local member or until the task that emptied the
\* room cancels it, however joins and leaves of other sessions interleave.
SubscriptionOwned ==
  failures = 0 => \A r \in subscribed : members[r] # {} \/ WillUnsubscribe(r)

\* Whether Redis, which delivers the rooms ts, delivers r once it has executed
\* the commands of w: the last one that names the room decides.
Named(w, r, i) == r \in w[i].rooms

WillDeliver(ts, w, r) ==
  \/ \E i \in 1..Len(w) :
       /\ Named(w, r, i) /\ w[i].cmd = "subscribe"
       /\ \A j \in i + 1..Len(w) : ~Named(w, r, j)
  \/ r \in ts /\ \A j \in 1..Len(w) : ~Named(w, r, j)

\* What Redis delivers, once it has executed what is on the wire, is what the
\* bus believes to be subscribed, also across breaks.
TopicsFollow ==
  connected => \A r \in Rooms : r \in subscribed <=> WillDeliver(topics, wire, r)

\* The presence set of a room is the node's index of it, but for the sessions
\* that are between the two updates.
PresenceFollows ==
  failures = 0 => \A r \in Rooms :
    /\ \A s \in members[r] \ presence[r] : At(s, "joining") /\ room[s] = r
    /\ \A s \in presence[r] \ members[r] :
         \/ At(s, "leaving") /\ room[s] = r
         \/ At(s, "closing") /\ r \in leaving[s]

(***************************************************************************)
(* The inductive invariant behind the two properties of the index: what    *)
(* the index, conn.rooms and the rooms a command has emptied know of each  *)
(* other.                                                                  *)
(***************************************************************************)
IndexInv ==
  \A s \in Clients :
    /\ \A r \in Rooms : s \in members[r] => r \in rooms[s] /\ pc[s] \notin {"closed", "closing"}
    /\ At(s, "joining") => s \in members[room[s]]
    /\ At(s, "leaving") => s \notin members[room[s]]

EmptiedInv ==
  \A s \in Clients :
    /\ pc[s] \in {"leaving", "left"} => emptied[s] \subseteq {room[s]}
    /\ emptied[s] # {} => pc[s] \in {"leaving", "left", "closing"}

\* Without a connection nothing is on the wire and nothing is delivered.
CutInv == ~connected => wire = <<>> /\ topics = {}

IInv ==
  /\ TypeOK /\ IndexInv /\ EmptiedInv /\ CutInv
  /\ SubscriptionOwned /\ PresenceFollows /\ TopicsFollow

-----------------------------------------------------------------------------
(* Liveness, under FairSpec.                                               *)

\* A command or a cleanup that began comes to its end.
CommandEnds ==
  \A s \in Clients : (~At(s, "idle")) ~> (pc[s] \in {"idle", "closed", "abandoned"})

\* Redis stops delivering a room in which the node has nobody left.
EmptyRoomReleased ==
  \A r \in Rooms :
    (members[r] = {} /\ r \in topics)
      ~> (members[r] # {} \/ r \notin topics \/ failures > 0)

-----------------------------------------------------------------------------
(* What the comments of the code say and the code does not do.             *)

\* chat_service.py, join: "from here on the node is subscribed to the topic",
\* here as the bus's own bookkeeping, for as long as the member stays.
MemberSubscribed ==
  \A s \in Clients : pc[s] \in {"reading", "idle"} => rooms[s] \subseteq subscribed

\* chat_service.py, disconnect: it "cleans all the state of an ended session".
EndedIsClean ==
  failures = 0 => \A s \in Clients : At(s, "abandoned") => \A r \in Rooms : s \notin members[r]
=============================================================================
