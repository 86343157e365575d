-------------------------------- MODULE Feed --------------------------------
(***************************************************************************)
(* What feeds a client in one room: the room, the session that serves the  *)
(* client (join, _backlog_contiguo, resync, leave of ChatService), the     *)
(* node's link to the room's topic, and the connection.  Client and        *)
(* WebClient put their client at its end.                                  *)
(*                                                                         *)
(* The room is what MessageFlow promises: numbers are taken one by one,    *)
(* published at most once in any order, and saved afterwards.  A session   *)
(* handles one command at a time; the node's reader sends live messages on *)
(* the same connection between any two steps of it.                        *)
(***************************************************************************)
EXTENDS HoldBackQueue, Sequences, Functions

CONSTANTS
  Limit,           \* backlog_limit
  MaxReads,        \* reads of the backlog in one join
  MaxDrops,        \* connections lost in one run
  MaxCommands,     \* commands the user types in one run
  MaxFaults,       \* links broken, failed sends, saves and queries in one run
  AnswersInTime    \* the waits of the code outlast what they wait for

ASSUME FeedAssumption ==
  /\ Limit \in Nat \ {0} /\ MaxReads \in Nat \ {0}
  /\ MaxDrops \in Nat /\ MaxCommands \in Nat /\ MaxFaults \in Nat
  /\ AnswersInTime \in BOOLEAN

VARIABLES
  counter, inflight, saving, stored,    \* the room
  unread,                               \* whether the last query of its history failed
  member, live, inbox, op,              \* the session and its node
  commands, frames, online,             \* the connection, both ways
  drops, typed, faults

room == <<counter, inflight, saving, stored, unread>>
session == <<member, live, inbox, op>>
wire == <<commands, frames>>
bounds == <<drops, typed, faults>>
feed == <<room, session, wire, online, bounds>>

Operations ==
  [ at : {"idle", "joining", "reading", "ready", "sending"},
    last : 0..MaxSeq, current : 0..MaxSeq, reads : 0..MaxReads,
    backlog : SUBSET Seqs ]

NoOperation == [at |-> "idle", last |-> 0, current |-> 0, reads |-> 0, backlog |-> {}]

Cmds ==
  [cmd : {"join", "resync"}, seq : 0..MaxSeq] \cup [cmd : {"leave"}]

\* What a resync sends again is a message like any other to the client; it has
\* a name of its own to tell when the answer is complete.
Frames ==
  [frame : {"message", "resent"}, seq : Seqs]
    \cup [frame : {"joined"}, last : 0..MaxSeq, backlog : SUBSET Seqs]

FeedTypeOK ==
  /\ counter \in 0..MaxSeq
  /\ inflight \subseteq Seqs /\ saving \subseteq Seqs /\ stored \subseteq Seqs
  /\ unread \in BOOLEAN /\ member \in BOOLEAN /\ live \in BOOLEAN
  /\ inbox \in Seq(Seqs)
  /\ op \in Operations
  /\ commands \in Seq(Cmds)
  /\ frames \in Seq(Frames)
  /\ online \in BOOLEAN
  /\ drops \in 0..MaxDrops /\ typed \in 0..MaxCommands /\ faults \in 0..MaxFaults

FeedInit ==
  /\ counter = 0 /\ inflight = {} /\ saving = {} /\ stored = {} /\ unread = FALSE
  /\ member = FALSE /\ live = FALSE /\ inbox = <<>> /\ op = NoOperation
  /\ commands = <<>> /\ frames = <<>> /\ online = FALSE
  /\ drops = 0 /\ typed = 0 /\ faults = 0

Fault == faults < MaxFaults /\ faults' = faults + 1

-----------------------------------------------------------------------------
(* The room.                                                               *)

Take ==
  /\ counter < MaxSeq
  /\ counter' = counter + 1
  /\ inflight' = inflight \cup {counter + 1}
  /\ UNCHANGED <<saving, stored, unread, session, wire, online, bounds>>

\* PUBLISH reaches the node when Redis delivers the topic to it; the save of
\* the envelope starts behind it.
Publish(s) ==
  /\ s \in inflight
  /\ inflight' = inflight \ {s}
  /\ saving' = saving \cup {s}
  /\ inbox' = IF live THEN Append(inbox, s) ELSE inbox
  /\ UNCHANGED <<counter, stored, unread, member, live, op, wire, online, bounds>>

Save(s) ==
  /\ s \in saving
  /\ saving' = saving \ {s}
  /\ stored' = stored \cup {s}
  /\ UNCHANGED <<counter, inflight, unread, session, wire, online, bounds>>

\* The send dies before PUBLISH: its number is burned.
Burn(s) ==
  /\ s \in inflight
  /\ Fault
  /\ inflight' = inflight \ {s}
  /\ UNCHANGED <<counter, saving, stored, unread, session, wire, online, drops, typed>>

LoseSave(s) ==
  /\ s \in saving
  /\ Fault
  /\ saving' = saving \ {s}
  /\ UNCHANGED <<counter, inflight, stored, unread, session, wire, online, drops, typed>>

-----------------------------------------------------------------------------
(* The session and its node.                                               *)

\* Redis executes a SUBSCRIBE that the node sent when the room got its first
\* local member, or when its link came back.
Listen ==
  /\ member /\ ~live
  /\ live' = TRUE
  /\ UNCHANGED <<room, member, inbox, op, wire, online, bounds>>

BreakLink ==
  /\ live
  /\ Fault
  /\ live' = FALSE
  /\ inbox' = <<>>
  /\ UNCHANGED <<room, member, op, wire, online, drops, typed>>

\* _on_bus_message: broadcast to the members of this moment.
Forward ==
  /\ inbox # <<>>
  /\ inbox' = Tail(inbox)
  /\ frames' = IF member THEN Append(frames, [frame |-> "message", seq |-> Head(inbox)])
                         ELSE frames
  /\ UNCHANGED <<room, member, live, op, commands, online, bounds>>

Pending(cmd) == op.at = "idle" /\ commands # <<>> /\ Head(commands).cmd = cmd

\* join up to the read of the counter: the session is a member from here on.
ServeJoin ==
  /\ Pending("join")
  /\ member' = TRUE
  /\ op' = [NoOperation EXCEPT !.at = "joining", !.last = Head(commands).seq]
  /\ commands' = Tail(commands)
  /\ UNCHANGED <<room, live, inbox, frames, online, bounds>>

ReadCurrent ==
  /\ op.at = "joining"
  /\ op' = [op EXCEPT !.at = "reading", !.current = counter]
  /\ UNCHANGED <<room, member, live, inbox, wire, online, bounds>>

\* Query: the lowest numbers above after, Limit of them at most.
Backlog(after) ==
  LET above == {s \in stored : s > after}
  IN  {s \in above : Cardinality({t \in above : t < s}) < Limit}

\* What backlog returns: a query that failed looks like an empty history.
Query(after, read) ==
  /\ UNCHANGED <<counter, inflight, saving, stored, drops, typed>>
  /\ \/ read = Backlog(after) /\ unread' = FALSE /\ UNCHANGED faults
     \/ read = {} /\ unread' = TRUE /\ Fault

Complete(last, current, backlog) ==
  \A s \in Seqs : last < s /\ s <= current /\ s <= last + Limit => s \in backlog

\* Mutant: one read and no more.
ReadBacklogOnce ==
  /\ op.at = "reading"
  /\ \E read \in {{}, Backlog(op.last)} :
       /\ Query(op.last, read)
       /\ op' = [op EXCEPT !.at = "ready", !.backlog = read]
  /\ UNCHANGED <<member, live, inbox, wire, online>>

\* _backlog_contiguo: read again while a number up to the counter is missing;
\* when the waits between the reads suffice, the last one finds saved what was
\* taken before the counter was read.
ReadBacklog ==
  /\ op.at = "reading"
  /\ op.reads + 1 = MaxReads /\ AnswersInTime => (inflight \cup saving) \cap 1..op.current = {}
  /\ \E read \in {{}, Backlog(op.last)} :
       LET done == Complete(op.last, op.current, read) \/ op.reads + 1 = MaxReads
       IN  /\ Query(op.last, read)
           /\ op' = [op EXCEPT !.at = IF done THEN "ready" ELSE "reading",
                               !.reads = @ + 1, !.backlog = read]
  /\ UNCHANGED <<member, live, inbox, wire, online>>

SendJoined ==
  /\ op.at = "ready"
  /\ frames' = Append(frames, [frame |-> "joined", last |-> op.current,
                               backlog |-> op.backlog])
  /\ op' = NoOperation
  /\ UNCHANGED <<room, member, live, inbox, commands, online, bounds>>

ServeResync ==
  /\ Pending("resync")
  /\ \E read \in {{}, Backlog(Head(commands).seq)} :
       /\ Query(Head(commands).seq, read)
       /\ op' = [NoOperation EXCEPT !.at = "sending", !.backlog = read]
  /\ commands' = Tail(commands)
  /\ UNCHANGED <<member, live, inbox, frames, online>>

\* The envelopes of a resync go out one by one, between live messages.
SendResync ==
  /\ op.at = "sending"
  /\ \/ /\ op.backlog # {}
        /\ frames' = Append(frames, [frame |-> "resent", seq |-> Lowest(op.backlog)])
        /\ op' = [op EXCEPT !.backlog = @ \ {Lowest(@)}]
     \/ /\ op.backlog = {}
        /\ op' = NoOperation
        /\ UNCHANGED frames
  /\ UNCHANGED <<room, member, live, inbox, commands, online, bounds>>

\* The topic stays subscribed when the room has another local member.
ServeLeave ==
  /\ Pending("leave")
  /\ member' = FALSE
  /\ live' \in {live, FALSE}
  /\ commands' = Tail(commands)
  /\ UNCHANGED <<room, inbox, op, frames, online, bounds>>

-----------------------------------------------------------------------------
(* The connection.                                                         *)

\* To some node, which may have the topic subscribed for others already.
Connect(first) ==
  /\ ~online
  /\ online' = TRUE
  /\ live' \in BOOLEAN
  /\ commands' = first
  /\ UNCHANGED <<room, member, inbox, op, frames, bounds>>

\* The connection or its node dies, with everything on its way.
Drop ==
  /\ online
  /\ drops < MaxDrops
  /\ drops' = drops + 1
  /\ online' = FALSE
  /\ member' = FALSE /\ live' = FALSE /\ inbox' = <<>> /\ op' = NoOperation
  /\ commands' = <<>> /\ frames' = <<>>
  /\ UNCHANGED <<room, typed, faults>>

\* The client sends a command, if it is online.
Command(c) ==
  /\ commands' = IF online THEN Append(commands, c) ELSE commands
  /\ UNCHANGED <<room, session, frames, online, drops, faults>>

Type(c) ==
  /\ typed < MaxCommands
  /\ typed' = typed + 1
  /\ Command(c)

Arrive ==
  /\ frames # <<>>
  /\ frames' = Tail(frames)
  /\ UNCHANGED <<room, session, commands, online, bounds>>

\* A client renders what its queue released.
CountShown(count, released) ==
  [n \in Seqs |-> IF n \in released THEN count[n] + 1 ELSE count[n]]

\* A resync of the client is not answered yet.
Awaited ==
  \/ \E c \in Range(commands) : c.cmd = "resync"
  \/ op.at = "sending"
  \/ \E f \in Range(frames) : f.frame = "resent"

-----------------------------------------------------------------------------
Serve == ServeJoin \/ ReadCurrent \/ ReadBacklog \/ SendJoined
           \/ ServeResync \/ SendResync \/ ServeLeave

\* What the nodes and Redis do, and what they do as long as they live.
FeedStep ==
  \/ Take
  \/ \E s \in Seqs : Publish(s) \/ Save(s) \/ Burn(s) \/ LoseSave(s)
  \/ Listen \/ BreakLink \/ Forward
  \/ Serve
  \/ Drop

FeedProgress ==
  \/ \E s \in Seqs : Publish(s) \/ Save(s)
  \/ Listen \/ Forward \/ Serve

\* What is under way or kept of the room.
Kept == inflight \cup saving \cup stored

\* When the waits between its reads suffice, a number missing in the backlog of a
\* join, up to the counter it read, never reaches the history: the window
\* between PUBLISH and the save is covered, and a query that failed is made up
\* for unless it is the last one.
BacklogCovers ==
  AnswersInTime /\ ~unread /\ op.at = "ready" =>
    \A s \in (op.last + 1..op.current) \ op.backlog :
      s > op.last + Limit \/ s \notin Kept

(***************************************************************************)
(* What this and the clients rest on: where an operation stands, that      *)
(* nothing survives the connection, and that nothing is kept or sent to a  *)
(* client that was not taken.                                              *)
(***************************************************************************)
OperationInv ==
  /\ op.at = "joining" => op.reads = 0
  /\ op.at = "reading" => op.reads < MaxReads
  /\ op.at \in {"reading", "ready"} => op.current <= counter

OfflineInv ==
  ~online => /\ commands = <<>> /\ frames = <<>> /\ inbox = <<>>
             /\ op = NoOperation /\ ~member /\ ~live

Brought(f) == IF f.frame = "joined" THEN f.backlog ELSE {f.seq}

TakenInv ==
  /\ Kept \subseteq 1..counter
  /\ Range(inbox) \subseteq 1..counter
  /\ op.backlog \subseteq 1..counter
  /\ \A f \in Range(frames) : Brought(f) \subseteq 1..counter

FeedInv == FeedTypeOK /\ OperationInv /\ OfflineInv /\ TakenInv /\ BacklogCovers
=============================================================================
