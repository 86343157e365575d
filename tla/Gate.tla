-------------------------------- MODULE Gate --------------------------------
(***************************************************************************)
(* Between a user's lines and the service: the connection loop and the     *)
(* sends of the terminal client (_connection_loop, _session,               *)
(* _send_message), and what the node puts before a send                    *)
(* (serve_websocket, _receive_loop, _dispatch, TokenBucket).  One client   *)
(* is in one room; what a send does behind the gate is in MessageFlow.     *)
(*                                                                         *)
(* Time is in ticks and the bucket in units, a message costing Cost of     *)
(* them and a tick earning Rate; the client's timeouts may end at any time.*)
(***************************************************************************)
EXTENDS Integers, Sequences

CONSTANTS
  Lines,          \* lines the user types
  Rate, Cost,     \* rate_limit_per_second, in units
  Capacity,       \* rate_limit_burst, in units
  MaxTime,        \* ticks in one run
  MaxAttempt,     \* the attempt from which the backoff grows no more
  MaxFaults       \* connections lost and outages of Redis in one run

ASSUME GateAssumption ==
  /\ Lines \in Nat
  /\ Rate \in Nat \ {0} /\ Cost \in Nat /\ Capacity \in Nat
  /\ MaxTime \in Nat /\ MaxAttempt \in Nat /\ MaxFaults \in Nat

VARIABLES
  now, up,                  \* the clock; whether Redis answers
  token,                    \* whether the client's token is still valid
  phase, attempt,           \* the client's connection and its backoff
  line,                     \* what became of each line
  commands, replies,        \* the connection, both ways
  room,                     \* the node's session: conn.rooms
  bucket, since, refused,   \* its TokenBucket, and what passed and did not
  faults

limiter == <<bucket, since, refused>>
wire == <<commands, replies>>
vars == <<now, up, token, phase, attempt, line, wire, room, limiter, faults>>

Times == 0..MaxTime

Msgs == 1..Lines

Nothing == [s \in Times |-> 0]

\* A line waits for the connection, is on its way (late: it went without
\* waiting for the joins), got an answer, or was lost with its connection; one
\* that was not sent is reported.
Ends == {"new", "waiting", "sent", "late", "unsent", "answered", "lost"}

Codes == {"ack", "not_in_room", "rate_limited", "message_too_long",
          "service_unavailable"}

Commands == [cmd : {"join"}] \cup [cmd : {"send"}, line : Msgs]

Replies ==
  [frame : {"welcome", "joined", "degraded"}] \cup [frame : Codes, line : Msgs]

TypeOK ==
  /\ now \in Times /\ up \in BOOLEAN /\ token \in BOOLEAN
  /\ phase \in {"offline", "welcome", "online", "stopped"}
  /\ attempt \in 0..MaxAttempt
  /\ line \in [Msgs -> Ends]
  /\ commands \in Seq(Commands) /\ replies \in Seq(Replies)
  /\ room \in BOOLEAN
  /\ bucket \in [tokens : 0..Capacity, updated : 0..now]
  /\ since \in [Times -> Nat] /\ refused \in Nat
  /\ faults \in 0..MaxFaults

Init ==
  /\ now = 0 /\ up = TRUE /\ token = TRUE
  /\ phase = "offline" /\ attempt = 0
  /\ line = [m \in Msgs |-> "new"]
  /\ commands = <<>> /\ replies = <<>>
  /\ room = FALSE
  /\ bucket = [tokens |-> Capacity, updated |-> 0]
  /\ since = Nothing /\ refused = 0
  /\ faults = 0

Fault == faults < MaxFaults /\ faults' = faults + 1

Lower(a, b) == IF a <= b THEN a ELSE b

-----------------------------------------------------------------------------
(* The world.                                                              *)

Tick ==
  /\ now < MaxTime
  /\ now' = now + 1
  /\ UNCHANGED <<up, token, phase, attempt, line, wire, room, limiter, faults>>

Outage ==
  /\ up
  /\ Fault
  /\ up' = FALSE
  /\ UNCHANGED <<now, token, phase, attempt, line, wire, room, limiter>>

Recover ==
  /\ ~up
  /\ up' = TRUE
  /\ UNCHANGED <<now, token, phase, attempt, line, wire, room, limiter, faults>>

Expire ==
  /\ token
  /\ token' = FALSE
  /\ UNCHANGED <<now, up, phase, attempt, line, wire, room, limiter, faults>>

-----------------------------------------------------------------------------
(* The connection.                                                         *)

Connected == phase \in {"welcome", "online"}

\* A new session, with a full bucket.
Session ==
  /\ commands' = <<>> /\ replies' = <<[frame |-> "welcome"]>>
  /\ room' = FALSE
  /\ bucket' = [tokens |-> Capacity, updated |-> now]
  /\ since' = Nothing
  /\ attempt' = 0
  /\ UNCHANGED <<now, up, token, line, refused, faults>>

\* Mutant: the online event still holds from the session before.
AcceptOnline ==
  /\ phase = "offline" /\ token
  /\ phase' = "online"
  /\ Session

\* Mutant: the loop gives up when its backoff is at the maximum.
AcceptEarly ==
  /\ phase = "offline" /\ token
  /\ attempt < MaxAttempt
  /\ phase' = "welcome"
  /\ Session

\* serve_websocket accepts a valid token.
Accept ==
  /\ phase = "offline" /\ token
  /\ phase' = "welcome"
  /\ Session

\* /readyz, by the ping of the bus; the repository's flag is left out.
Ready == up

\* A node closes before it accepts when the token has expired, and the load
\* balancer has no node while /readyz fails: an HTTP status either way, after
\* which the loop backs off and asks for no new token.
Reject ==
  /\ phase = "offline"
  /\ ~token \/ ~Ready
  /\ attempt' = Lower(attempt + 1, MaxAttempt)
  /\ UNCHANGED <<now, up, token, phase, line, wire, room, limiter, faults>>

\* _session: the welcome, then the joins, and the client is online.
Welcome ==
  /\ replies # <<>> /\ Head(replies).frame = "welcome"
  /\ replies' = Tail(replies)
  /\ commands' = Append(commands, [cmd |-> "join"])
  /\ phase' = "online"
  /\ UNCHANGED <<now, up, token, attempt, line, room, limiter, faults>>

\* The socket closes with what is on it, and the session with its rooms.
Close ==
  /\ commands' = <<>> /\ replies' = <<>>
  /\ line' = [m \in Msgs |-> IF line[m] \in {"sent", "late"} THEN "lost" ELSE line[m]]
  /\ room' = FALSE

Break ==
  /\ phase' = "offline"
  /\ attempt' = Lower(attempt + 1, MaxAttempt)
  /\ Close

Drop ==
  /\ Connected
  /\ Fault
  /\ Break
  /\ UNCHANGED <<now, up, token, limiter>>

\* /quit, once the input loop is done with the line before.
Quit ==
  /\ phase # "stopped"
  /\ \A m \in Msgs : line[m] # "waiting"
  /\ phase' = "stopped"
  /\ Close
  /\ UNCHANGED <<now, up, token, attempt, limiter, faults>>

-----------------------------------------------------------------------------
(* The lines.                                                              *)

Transmit(m, how) ==
  /\ line' = [line EXCEPT ![m] = how]
  /\ commands' = Append(commands, [cmd |-> "send", line |-> m])

\* _input_loop takes the next line when it is done with the one before.
Turn(m) ==
  /\ phase # "stopped"
  /\ line[m] = "new"
  /\ \A k \in Msgs : k < m => line[k] \notin {"new", "waiting"}

\* _send_message: at once when online, otherwise the input loop waits.
Type(m) ==
  /\ Turn(m)
  /\ IF phase = "online" THEN Transmit(m, "sent")
     ELSE line' = [line EXCEPT ![m] = "waiting"] /\ UNCHANGED commands
  /\ UNCHANGED <<now, up, token, phase, attempt, replies, room, limiter, faults>>

Resume(m) ==
  /\ line[m] = "waiting" /\ phase = "online"
  /\ Transmit(m, "sent")
  /\ UNCHANGED <<now, up, token, phase, attempt, replies, room, limiter, faults>>

\* SEND_WAIT_TIMEOUT_S is over: the line goes if there is a socket at all.
GiveUp(m) ==
  /\ line[m] = "waiting" /\ phase # "online"
  /\ IF Connected THEN Transmit(m, "late")
     ELSE line' = [line EXCEPT ![m] = "unsent"] /\ UNCHANGED commands
  /\ UNCHANGED <<now, up, token, phase, attempt, replies, room, limiter, faults>>

\* _handle_frame, for the other frames.
Receive ==
  /\ replies # <<>> /\ Head(replies).frame # "welcome"
  /\ replies' = Tail(replies)
  /\ line' = IF Head(replies).frame \in Codes
               THEN [line EXCEPT ![Head(replies).line] = "answered"] ELSE line
  /\ UNCHANGED <<now, up, token, phase, attempt, commands, room, limiter, faults>>

-----------------------------------------------------------------------------
(* The node.                                                               *)

Pending(cmd) == commands # <<>> /\ Head(commands).cmd = cmd

Answer(frame) ==
  /\ commands' = Tail(commands)
  /\ replies' = Append(replies, frame)
  /\ UNCHANGED <<phase, attempt, line>>

Reply(code) == [frame |-> code, line |-> Head(commands).line]

\* An error of Redis itself is none of those that _receive_loop answers: the
\* session ends.  A bus that was stopped raises one that it does answer.
ServeJoin ==
  /\ Pending("join")
  /\ \/ up /\ room' = TRUE /\ Answer([frame |-> "joined"])
     \/ ~up /\ room' = TRUE /\ Answer([frame |-> "degraded"])
     \/ ~up /\ Break
  /\ UNCHANGED <<now, up, token, limiter, faults>>

NotInRoom ==
  /\ Pending("send") /\ ~room
  /\ Answer(Reply("not_in_room"))
  /\ UNCHANGED <<now, up, token, room, limiter, faults>>

\* TokenBucket.allow: the refill since the last call, up to the capacity.
Refilled == Lower(Capacity, bucket.tokens + (now - bucket.updated) * Rate)

\* The log of the session with one more message, now.
Logged == [s \in Times |-> IF s <= now THEN since[s] + 1 ELSE since[s]]

\* Mutant: a refused call leaves the clock of the bucket behind.
RateLimitedTwice ==
  /\ Pending("send") /\ room
  /\ Refilled < Cost
  /\ bucket' = [bucket EXCEPT !.tokens = Refilled]
  /\ refused' = refused + 1
  /\ Answer(Reply("rate_limited"))
  /\ UNCHANGED <<now, up, token, room, since, faults>>

RateLimited ==
  /\ Pending("send") /\ room
  /\ Refilled < Cost
  /\ bucket' = [tokens |-> Refilled, updated |-> now]
  /\ refused' = refused + 1
  /\ Answer(Reply("rate_limited"))
  /\ UNCHANGED <<now, up, token, room, since, faults>>

\* The send passes the gate, whatever the service makes of it.
Admit ==
  /\ Pending("send") /\ room
  /\ Refilled >= Cost
  /\ bucket' = [tokens |-> Refilled - Cost, updated |-> now]
  /\ since' = Logged
  /\ \/ \E code \in {"ack", "message_too_long"} : up /\ Answer(Reply(code)) /\ UNCHANGED room
     \/ ~up /\ Answer(Reply("service_unavailable")) /\ UNCHANGED room
     \/ ~up /\ Break
  /\ UNCHANGED <<now, up, token, refused, faults>>

-----------------------------------------------------------------------------
Serve == ServeJoin \/ NotInRoom \/ RateLimited \/ Admit

Next ==
  \/ Tick \/ Outage \/ Recover \/ Expire
  \/ Accept \/ Reject \/ Welcome \/ Drop \/ Quit
  \/ \E m \in Msgs : Type(m) \/ Resume(m) \/ GiveUp(m)
  \/ Receive \/ Serve

Spec == Init /\ [][Next]_vars

\* Tasks and frames go on, the loop tries again, and Redis comes back.
Fairness ==
  /\ WF_vars(Accept) /\ WF_vars(Welcome) /\ WF_vars(Receive)
  /\ WF_vars(Serve) /\ WF_vars(Recover)

FairSpec == Spec /\ Fairness

-----------------------------------------------------------------------------
(* What is checked.                                                        *)

\* Online means connected and joined: the node answers not_in_room only to a
\* line that ran out of patience between the socket and the joins.
NotInRoomOnlyLate ==
  \A i \in 1..Len(replies) :
    replies[i].frame = "not_in_room" => line[replies[i].line] = "late"

\* The bucket lets a message of a session pass exactly when no window of time
\* that ends with it gets more than the capacity and what its length earns.
Limit == INSTANCE Throttle

PassesWhatFits == Limit!Spec

\* While its token is valid a client that lost its connection comes back,
\* whatever dropped it and as often as it did.
ComesBack ==
  phase = "offline" ~> phase \in {"online", "stopped"} \/ ~token
=============================================================================
