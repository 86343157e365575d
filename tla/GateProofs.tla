----------------------------- MODULE GateProofs -----------------------------
(***************************************************************************)
(* The token bucket of a session implements the rate limit of Throttle,    *)
(* for every rate, cost and capacity, and Gate is well typed.              *)
(*                                                                         *)
(* The bucket keeps one number, the limit speaks of every window.  What    *)
(* ties them: for every start s the units left are at most what the window *)
(* from s has left, and for some s they are exactly that.  The first makes *)
(* what passes fit, the second makes what is refused not fit.              *)
(*                                                                         *)
(* Of the lines, that one sent online is not refused for its room: what is *)
(* on the wire is followed from the client to the node and back.           *)
(***************************************************************************)
EXTENDS Gate, TLAPS

LEMMA Head1 ==
  ASSUME NEW S, NEW q \in Seq(S), q # <<>>
  PROVE  Head(q) \in S /\ Tail(q) \in Seq(S)
OBVIOUS

LEMMA RefilledType ==
  ASSUME TypeOK
  PROVE  Refilled \in 0..Capacity
<1>1. bucket.tokens \in 0..Capacity /\ bucket.updated \in 0..now /\ now \in Nat
  BY GateAssumption DEF TypeOK, Times
<1>2. (now - bucket.updated) * Rate \in Nat
  BY <1>1, GateAssumption
<1> DEFINE earned == bucket.tokens + (now - bucket.updated) * Rate
<1>3. earned \in Nat
  BY <1>1, <1>2, GateAssumption
<1> HIDE DEF earned
<1>4. Lower(Capacity, earned) \in 0..Capacity
  BY <1>3, GateAssumption DEF Lower
<1> QED BY <1>4 DEF Refilled, earned

LEMMA LoggedType ==
  ASSUME TypeOK
  PROVE  Logged \in [Times -> Nat]
BY DEF TypeOK, Logged

LEMMA TypeStep == TypeOK /\ [Next]_vars => TypeOK'
<1> SUFFICES ASSUME TypeOK, [Next]_vars PROVE TypeOK'
  OBVIOUS
<1> USE GateAssumption
<1>w. /\ \A q \in Seq(Commands) : q # <<>> => Tail(q) \in Seq(Commands)
      /\ \A q \in Seq(Replies) : q # <<>> => Head(q) \in Replies /\ Tail(q) \in Seq(Replies)
  BY Head1
<1>c. \A r \in Replies : r.frame \in Codes => r.line \in Msgs
  BY DEF Replies, Codes
<1>n. Nothing \in [Times -> Nat]
  BY DEF Nothing
<1>b. ASSUME now' = now, bucket' = bucket
      PROVE  bucket' \in [tokens : 0..Capacity, updated : 0..now']
  BY <1>b DEF TypeOK
<1>1. CASE Tick
  <2>1. bucket' \in [tokens : 0..Capacity, updated : 0..now']
    BY <1>1 DEF Tick, TypeOK, Times, limiter
  <2> QED BY <1>1, <2>1 DEF Tick, TypeOK, Times, limiter, wire
<1>2. CASE Outage
  <2>1. faults' \in 0..MaxFaults
    BY <1>2 DEF Outage, Fault, TypeOK
  <2>2. UNCHANGED <<now, token, phase, attempt, line, wire, room, limiter>>
    BY <1>2 DEF Outage
  <2> QED BY <1>2, <1>b, <2>1, <2>2 DEF Outage, TypeOK, limiter, wire
<1>3. CASE Recover
  BY <1>3, <1>b DEF Recover, TypeOK, limiter, wire
<1>4. CASE Expire
  BY <1>4, <1>b DEF Expire, TypeOK, limiter, wire
<1>5. CASE Accept
  <2>1. bucket' \in [tokens : 0..Capacity, updated : 0..now']
    BY <1>5 DEF Accept, Session, TypeOK, Times
  <2>2. replies' \in Seq(Replies) /\ commands' \in Seq(Commands)
    <3>1. [frame |-> "welcome"] \in Replies
      BY DEF Replies
    <3> QED BY <1>5, <3>1 DEF Accept, Session
  <2>3. /\ phase' = "welcome" /\ attempt' = 0 /\ room' = FALSE /\ since' = Nothing
        /\ UNCHANGED <<now, up, token, line, refused, faults>>
    BY <1>5 DEF Accept, Session
  <2>4. attempt' \in 0..MaxAttempt
    BY <2>3
  <2>5. since' \in [Times -> Nat] /\ room' \in BOOLEAN
    BY <1>n, <2>3, Zenon
  <2>6. /\ now' \in Times /\ up' \in BOOLEAN /\ token' \in BOOLEAN
        /\ line' \in [Msgs -> Ends] /\ refused' \in Nat /\ faults' \in 0..MaxFaults
    BY <2>3 DEF TypeOK
  <2>7. phase' \in {"offline", "welcome", "online", "stopped"}
    BY <2>3
  <2> QED BY <2>1, <2>2, <2>4, <2>5, <2>6, <2>7 DEF TypeOK
<1>l. ASSUME NEW a \in 0..MaxAttempt PROVE Lower(a + 1, MaxAttempt) \in 0..MaxAttempt
  BY DEF Lower
<1>6. CASE Reject
  BY <1>6, <1>b, <1>l DEF Reject, TypeOK, limiter, wire
<1>7. CASE Welcome
  <2>1. [cmd |-> "join"] \in Commands
    BY DEF Commands
  <2> QED BY <1>7, <1>b, <1>w, <2>1 DEF Welcome, TypeOK, limiter
<1>k. ASSUME Close
      PROVE  /\ commands' \in Seq(Commands) /\ replies' \in Seq(Replies)
             /\ line' \in [Msgs -> Ends] /\ room' \in BOOLEAN
  <2>1. \A m \in Msgs : line[m] \in Ends /\ "lost" \in Ends
    BY DEF TypeOK, Ends
  <2>2. line' \in [Msgs -> Ends]
    BY <1>k, <2>1 DEF Close
  <2>3. commands' = <<>> /\ replies' = <<>> /\ room' = FALSE
    BY <1>k DEF Close
  <2>4. <<>> \in Seq(Commands) /\ <<>> \in Seq(Replies)
    OBVIOUS
  <2> QED BY <2>2, <2>3, <2>4
<1>8. CASE Drop
  BY <1>8, <1>b, <1>k, <1>l DEF Drop, Break, Fault, TypeOK, limiter
<1>9. CASE Quit
  BY <1>9, <1>b, <1>k DEF Quit, TypeOK, limiter
<1>10. ASSUME NEW m \in Msgs, Type(m) \/ Resume(m) \/ GiveUp(m) PROVE TypeOK'
  <2>1. [cmd |-> "send", line |-> m] \in Commands
    BY DEF Commands
  <2>2. \A how \in Ends : [line EXCEPT ![m] = how] \in [Msgs -> Ends]
    BY DEF TypeOK
  <2>3. \/ \E how \in Ends : Transmit(m, how)
        \/ \E how \in Ends : line' = [line EXCEPT ![m] = how] /\ UNCHANGED commands
    BY <1>10 DEF Type, Resume, GiveUp, Ends
  <2>4. line' \in [Msgs -> Ends]
    BY <2>2, <2>3 DEF Transmit
  <2>5. commands' \in {commands, Append(commands, [cmd |-> "send", line |-> m])}
    BY <2>3 DEF Transmit
  <2>6. commands \in Seq(Commands)
    BY DEF TypeOK
  <2>7. Append(commands, [cmd |-> "send", line |-> m]) \in Seq(Commands)
    BY <2>1, <2>6
  <2>8. commands' \in Seq(Commands)
    BY <2>5, <2>6, <2>7
  <2> QED BY <1>10, <1>b, <2>4, <2>8 DEF Type, Resume, GiveUp, TypeOK, limiter
<1>11. CASE Receive
  <2>1. line' \in [Msgs -> Ends]
    BY <1>11, <1>w, <1>c DEF Receive, TypeOK, Ends
  <2> QED BY <1>11, <1>b, <1>w, <2>1 DEF Receive, TypeOK, limiter
<1>a. ASSUME NEW frame \in Replies, commands # <<>>, Answer(frame)
      PROVE  /\ commands' \in Seq(Commands) /\ replies' \in Seq(Replies)
             /\ line' \in [Msgs -> Ends] /\ phase' = phase /\ attempt' = attempt
  BY <1>a, <1>w DEF Answer, TypeOK
<1>r. ASSUME Pending("send"), NEW code \in Codes PROVE Reply(code) \in Replies
  <2>1. Head(commands) \in Commands
    BY <1>r, Head1 DEF Pending, TypeOK
  <2>2. Head(commands).line \in Msgs
    BY <2>1, <1>r DEF Pending, Commands
  <2> QED BY <2>2 DEF Reply, Replies
<1>12. CASE ServeJoin
  <2>1. [frame |-> "joined"] \in Replies /\ [frame |-> "degraded"] \in Replies
    BY DEF Replies
  <2>2. commands # <<>>
    BY <1>12 DEF ServeJoin, Pending
  <2>3. CASE Break
    BY <1>12, <1>b, <1>k, <1>l, <2>3 DEF ServeJoin, Break, TypeOK, limiter
  <2>4. CASE room' = TRUE /\ Answer([frame |-> "joined"])
    BY <1>12, <1>b, <1>a, <2>1, <2>2, <2>4 DEF ServeJoin, TypeOK, limiter
  <2>5. CASE room' = TRUE /\ Answer([frame |-> "degraded"])
    BY <1>12, <1>b, <1>a, <2>1, <2>2, <2>5 DEF ServeJoin, TypeOK, limiter
  <2> QED BY <1>12, <2>3, <2>4, <2>5 DEF ServeJoin
<1>13. CASE NotInRoom
  <2>1. Reply("not_in_room") \in Replies /\ commands # <<>>
    BY <1>13, <1>r DEF NotInRoom, Codes, Pending
  <2> QED BY <1>13, <1>b, <1>a, <2>1 DEF NotInRoom, TypeOK, limiter
<1>14. CASE RateLimited
  <2>1. Reply("rate_limited") \in Replies /\ commands # <<>>
    BY <1>14, <1>r DEF RateLimited, Codes, Pending
  <2>2. bucket' \in [tokens : 0..Capacity, updated : 0..now']
    BY <1>14, RefilledType DEF RateLimited, TypeOK, Times
  <2>3. refused' \in Nat
    BY <1>14 DEF RateLimited, TypeOK
  <2> QED BY <1>14, <1>a, <2>1, <2>2, <2>3 DEF RateLimited, TypeOK
<1>15. CASE Admit
  <2>1. commands # <<>>
    BY <1>15 DEF Admit, Pending
  <2>2. \A code \in Codes : Reply(code) \in Replies
    BY <1>15, <1>r DEF Admit
  <2>3. bucket' \in [tokens : 0..Capacity, updated : 0..now']
    BY <1>15, RefilledType DEF Admit, TypeOK, Times
  <2>4. since' \in [Times -> Nat]
    BY <1>15, LoggedType DEF Admit
  <2>5. CASE Break
    BY <1>15, <1>k, <1>l, <2>3, <2>4, <2>5 DEF Admit, Break, TypeOK
  <2>6. ASSUME NEW code \in Codes, Answer(Reply(code)), UNCHANGED room PROVE TypeOK'
    <3>1. Reply(code) \in Replies
      BY <2>2
    <3> QED BY <1>15, <1>a, <2>1, <2>3, <2>4, <2>6, <3>1 DEF Admit, TypeOK
  <2> QED BY <1>15, <2>5, <2>6 DEF Admit, Codes
<1>16. CASE UNCHANGED vars
  BY <1>16, <1>b DEF vars, TypeOK, limiter, wire
<1> QED BY <1>1, <1>2, <1>3, <1>4, <1>5, <1>6, <1>7, <1>8, <1>9, <1>10, <1>11, <1>12,
           <1>13, <1>14, <1>15, <1>16 DEF Next, Serve

LEMMA TypeInit == Init => TypeOK
BY GateAssumption DEF Init, TypeOK, Times, Nothing, Ends

\* Every state of the gate is well typed; in particular the units of a bucket
\* never exceed its capacity, however long the session was silent.
THEOREM TypeCorrect == Spec => []TypeOK
BY TypeInit, TypeStep, PTL DEF Spec

-----------------------------------------------------------------------------
(* The bucket and the windows.                                             *)

\* What a window from s to t has left over the messages it got.
Left(s, t) == Capacity + Rate * (t - s) - Cost * since[s]

Windows ==
  /\ \A s \in Times : s > bucket.updated => since[s] = 0
  /\ \A s \in 0..bucket.updated : bucket.tokens <= Left(s, bucket.updated)
  /\ \E s \in 0..bucket.updated : bucket.tokens = Left(s, bucket.updated)

LEMMA Spread ==
  ASSUME NEW a \in Int, NEW b \in Int
  PROVE  Rate * (a + b) = Rate * a + b * Rate
BY GateAssumption

LEMMA OneMore ==
  ASSUME NEW a \in Int
  PROVE  Cost * (a + 1) = Cost * a + Cost
BY GateAssumption

LEMMA Numbers ==
  ASSUME TypeOK
  PROVE  /\ now \in Nat /\ now \in Times
         /\ bucket.updated \in 0..now /\ bucket.tokens \in 0..Capacity
         /\ \A s \in Times : s \in Nat /\ since[s] \in Nat
         /\ \A s \in 0..now : s \in Times /\ Rate * (now - s) \in Nat
BY GateAssumption DEF TypeOK, Times

\* The refilled units are at most what any window that ends now has left, and
\* exactly what some window has.
LEMMA Refill ==
  ASSUME TypeOK, Windows
  PROVE  /\ \A s \in 0..now : Refilled <= Left(s, now)
         /\ \E s \in 0..now : Refilled = Left(s, now)
<1> DEFINE earned == (now - bucket.updated) * Rate
<1>1. /\ now \in 0..MaxTime /\ now \in Nat /\ bucket.updated \in 0..now
      /\ bucket.tokens \in 0..Capacity
      /\ \A s \in Times : since[s] \in Nat
  BY Numbers DEF Times
<1>2. earned \in Nat /\ (now = bucket.updated => earned = 0)
  BY <1>1, GateAssumption
<1>3. ASSUME NEW s \in 0..bucket.updated
      PROVE  /\ Left(s, now) = Left(s, bucket.updated) + earned
             /\ Left(s, bucket.updated) \in Int
  <2> DEFINE before == bucket.updated - s
             after == now - bucket.updated
  <2>1. before \in Int /\ after \in Int /\ now - s = before + after
    BY <1>1
  <2> HIDE DEF before, after
  <2>2. Rate * (before + after) = Rate * before + after * Rate
    BY <2>1, Spread
  <2> USE DEF before, after
  <2>3. Rate * (now - s) = Rate * (bucket.updated - s) + earned
    BY <2>1, <2>2
  <2>4. Rate * (bucket.updated - s) \in Int /\ Cost * since[s] \in Int
    BY <1>1, GateAssumption DEF Times
  <2> HIDE DEF before, after
  <2> QED BY <1>2, <2>3, <2>4, GateAssumption DEF Left
<1>4. ASSUME NEW s \in 0..now, s > bucket.updated
      PROVE  Left(s, now) = Capacity + Rate * (now - s) /\ Rate * (now - s) \in Nat
  <2>1. since[s] = 0
    BY <1>1, <1>4, GateAssumption DEF Windows, Times
  <2> QED BY <1>1, <2>1, GateAssumption DEF Left
<1> HIDE DEF earned
<1>5. Refilled = Lower(Capacity, bucket.tokens + earned)
  BY DEF Refilled, earned
<1>6. /\ Refilled <= Capacity /\ Refilled <= bucket.tokens + earned
      /\ Refilled = Capacity \/ Refilled = bucket.tokens + earned
  BY <1>1, <1>2, <1>5, GateAssumption DEF Lower
<1>7. ASSUME NEW s \in 0..now PROVE Refilled <= Left(s, now)
  <2>1. CASE s \in 0..bucket.updated
    <3>1. bucket.tokens <= Left(s, bucket.updated)
      BY <2>1 DEF Windows
    <3> QED BY <1>1, <1>2, <1>3, <1>6, <2>1, <3>1, RefilledType
  <2>2. CASE s > bucket.updated
    BY <1>4, <1>6, <2>2, RefilledType, GateAssumption
  <2> QED BY <1>1, <2>1, <2>2
<1>8. \E s \in 0..now : Refilled = Left(s, now)
  <2>1. PICK s \in 0..bucket.updated : bucket.tokens = Left(s, bucket.updated)
    BY DEF Windows
  <2>2. CASE Refilled = bucket.tokens + earned
    <3>1. Refilled = Left(s, now) /\ s \in 0..now
      BY <1>1, <1>3, <2>1, <2>2
    <3> QED BY <3>1
  <2>3. CASE Refilled = Capacity /\ now > bucket.updated
    <3>1. Left(now, now) = Capacity + Rate * (now - now) /\ now \in 0..now
      BY <1>1, <1>4, <2>3
    <3>2. Left(now, now) = Capacity
      BY <1>1, <3>1, GateAssumption
    <3> QED BY <2>3, <3>1, <3>2
  <2>4. CASE now = bucket.updated
    <3>1. bucket.tokens + earned = bucket.tokens
      BY <1>1, <1>2, <2>4
    <3>2. Refilled = bucket.tokens
      BY <1>1, <1>5, <3>1, GateAssumption DEF Lower
    <3> QED BY <2>1, <2>4, <3>2
  <2> QED BY <1>1, <1>6, <2>2, <2>3, <2>4
<1> QED BY <1>7, <1>8

\* With one message more a window that ends now has Cost less left.
LEMMA LoggedWithin ==
  ASSUME TypeOK
  PROVE  Limit!Within(Logged) <=> \A s \in 0..now : Cost <= Left(s, now)
<1>1. ASSUME NEW s \in 0..now
      PROVE  Cost * Logged[s] <= Capacity + Rate * (now - s) <=> Cost <= Left(s, now)
  <2>1. /\ s \in Times /\ s <= now /\ since[s] \in Nat
        /\ Rate * (now - s) \in Int /\ Cost * since[s] \in Int
    BY GateAssumption DEF TypeOK, Times
  <2>2. Logged[s] = since[s] + 1
    BY <2>1 DEF Logged
  <2>3. Cost * Logged[s] = Cost * since[s] + Cost
    BY <2>1, <2>2, OneMore
  <2> QED BY <2>1, <2>3, GateAssumption DEF Left
<1> QED BY <1>1 DEF Limit!Within

LEMMA WindowsInit == Init => Windows
<1> SUFFICES ASSUME Init PROVE Windows
  OBVIOUS
<1>1. /\ bucket.tokens = Capacity /\ bucket.updated = 0
      /\ \A s \in Times : since[s] = 0
      /\ 0 \in Times
  BY GateAssumption DEF Init, Nothing, Times
<1>2. Left(0, 0) = Capacity
  BY <1>1, GateAssumption DEF Left
<1> QED BY <1>1, <1>2, GateAssumption DEF Windows

LEMMA WindowsStep == TypeOK /\ TypeOK' /\ Windows /\ [Next]_vars => Windows'
<1> SUFFICES ASSUME TypeOK, TypeOK', Windows, [Next]_vars PROVE Windows'
  OBVIOUS
<1>1. CASE UNCHANGED <<bucket, since>>
  BY <1>1 DEF Windows, Left
<1>2. CASE Accept
  <2>1. /\ bucket'.tokens = Capacity /\ bucket'.updated = now /\ now' = now
        /\ \A s \in Times : since'[s] = 0
    BY <1>2 DEF Accept, Session, Nothing
  <2>2. ASSUME NEW s \in 0..now
        PROVE  Cost * since'[s] = 0 /\ Rate * (now - s) \in Nat
    BY <2>1, Numbers, GateAssumption
  <2>3. \A s \in 0..now : Capacity <= Capacity + Rate * (now - s) - Cost * since'[s]
    BY <2>2, GateAssumption
  <2>4. now \in 0..now /\ Capacity = Capacity + Rate * (now - now) - Cost * since'[now]
    <3>1. now \in 0..now /\ Rate * (now - now) = 0
      BY Numbers, GateAssumption
    <3>2. Cost * since'[now] = 0
      BY <2>2, <3>1
    <3> QED BY <3>1, <3>2, GateAssumption
  <2>5. \A s \in Times : s > now => since'[s] = 0
    BY <2>1
  <2> QED BY <2>1, <2>3, <2>4, <2>5 DEF Windows, Left
\* After a call the windows that end now decide.
<1>3. ASSUME /\ bucket'.updated = now
             /\ \A s \in 0..now : bucket'.tokens <= Left(s, now)'
             /\ \E s \in 0..now : bucket'.tokens = Left(s, now)'
             /\ \A s \in Times : s > now => since'[s] = 0
             /\ now' = now
      PROVE  Windows'
  BY <1>3 DEF Windows, Left
<1>4. ASSUME NEW s \in Times, s > now PROVE since[s] = 0
  <2>1. bucket.updated \in 0..now /\ now \in Nat /\ s \in Nat
    BY Numbers
  <2>2. s > bucket.updated
    BY <1>4, <2>1
  <2> QED BY <2>2 DEF Windows
<1>5. CASE RateLimited
  <2>1. UNCHANGED <<now, since>> /\ bucket'.updated = now /\ bucket'.tokens = Refilled
    BY <1>5 DEF RateLimited
  <2>2. \A s : Left(s, now)' = Left(s, now)
    BY <2>1 DEF Left
  <2> QED BY <1>3, <1>4, <2>1, <2>2, Refill
<1>6. CASE Admit
  <2>1. UNCHANGED now /\ since' = Logged /\ bucket'.updated = now
        /\ bucket'.tokens = Refilled - Cost
    BY <1>6 DEF Admit
  <2>2. ASSUME NEW s \in 0..now
        PROVE  Left(s, now)' = Left(s, now) - Cost /\ Left(s, now) \in Int
    <3>1. /\ s \in Times /\ s <= now /\ since[s] \in Nat
          /\ Rate * (now - s) \in Int /\ Cost * since[s] \in Int
      BY Numbers, GateAssumption
    <3>2. since'[s] = since[s] + 1
      BY <2>1, <3>1 DEF Logged
    <3>3. Cost * since'[s] = Cost * since[s] + Cost
      BY <3>1, <3>2, OneMore
    <3> QED BY <2>1, <3>1, <3>3, GateAssumption DEF Left
  <2>3. \A s \in Times : s > now => since'[s] = 0
    BY <1>4, <2>1, Numbers DEF Logged
  <2>4. Refilled \in Int
    BY RefilledType
  <2>5. \A s \in 0..now : bucket'.tokens <= Left(s, now)'
    BY <2>1, <2>2, <2>4, Refill, GateAssumption
  <2>6. \E s \in 0..now : bucket'.tokens = Left(s, now)'
    BY <2>1, <2>2, <2>4, Refill, GateAssumption
  <2> QED BY <1>3, <2>1, <2>3, <2>5, <2>6
<1>7. Accept \/ RateLimited \/ Admit \/ UNCHANGED <<bucket, since>>
  BY DEF Next, Serve, Tick, Outage, Recover, Expire, Reject, Welcome, Drop, Quit, Type,
         Resume, GiveUp, Receive, ServeJoin, NotInRoom, vars, limiter
<1> QED BY <1>1, <1>2, <1>5, <1>6, <1>7

-----------------------------------------------------------------------------
(* The wire.                                                               *)

Sends == {i \in 1..Len(commands) : commands[i].cmd = "send"}
Answers == {j \in 1..Len(replies) : replies[j].frame \in Codes}

InTransit == {"sent", "late"}

\* What is on the wire, either way, is a line that went out and has no answer.
Underway ==
  /\ \A i \in Sends : line[commands[i].line] \in InTransit
  /\ \A j \in Answers : line[replies[j].line] \in InTransit

\* A line is on the wire once: an answer changes what became of no other.
Apart ==
  /\ \A i, k \in Sends : commands[i].line = commands[k].line => i = k
  /\ \A j, k \in Answers : replies[j].line = replies[k].line => j = k
  /\ \A i \in Sends, j \in Answers : commands[i].line # replies[j].line

\* Until the node has the session in the room, a join is on its way, ahead of
\* every line that was sent online.
JoinAhead ==
  ~room =>
    /\ phase = "online" => \E k \in 1..Len(commands) : commands[k].cmd = "join"
    /\ \A i \in Sends : line[commands[i].line] = "sent" =>
         \E k \in 1..(i - 1) : commands[k].cmd = "join"

Wire == Underway /\ Apart /\ JoinAhead /\ NotInRoomOnlyLate

LEMMA WireInit == Init => Wire
BY DEF Init, Wire, Underway, Apart, JoinAhead, NotInRoomOnlyLate, Sends, Answers

\* A new or a lost connection carries nothing.
LEMMA WireCleared ==
  ASSUME commands' = <<>>, replies' = <<>> \/ replies' = <<[frame |-> "welcome"]>>,
         phase' # "online"
  PROVE  Wire'
<1>1. Sends' = {} /\ Answers' = {}
  BY DEF Sends, Answers, Codes
<1>2. \A j \in 1..Len(replies') : replies'[j].frame # "not_in_room"
  OBVIOUS
<1> QED BY <1>1, <1>2 DEF Wire, Underway, Apart, JoinAhead, NotInRoomOnlyLate

\* A line that was on neither end goes out; online, with the join ahead of it.
LEMMA WireTransmit ==
  ASSUME TypeOK, Wire, NEW m \in Msgs, NEW how \in InTransit, line[m] \notin InTransit,
         how = "sent" => phase = "online", Transmit(m, how),
         UNCHANGED <<phase, replies, room>>
  PROVE  Wire'
<1>1. /\ line \in [Msgs -> Ends] /\ commands \in Seq(Commands) /\ replies \in Seq(Replies)
      /\ line' = [line EXCEPT ![m] = how]
      /\ commands' = Append(commands, [cmd |-> "send", line |-> m])
  BY DEF TypeOK, Transmit
<1>2. /\ Len(commands') = Len(commands) + 1 /\ Len(commands) \in Nat
      /\ \A i \in 1..Len(commands) : commands'[i] = commands[i]
      /\ commands'[Len(commands) + 1] = [cmd |-> "send", line |-> m]
  BY <1>1
<1>3. Sends' = Sends \cup {Len(commands) + 1} /\ Answers' = Answers
  BY <1>2 DEF Sends, Answers
<1>4. /\ \A i \in Sends : commands[i].line \in Msgs \ {m} /\ i \in 1..Len(commands)
      /\ \A j \in Answers : replies[j].line \in Msgs \ {m} /\ j \in 1..Len(replies)
  <2>1. \A i \in Sends : commands[i] \in Commands /\ commands[i].line \in Msgs
    BY <1>1 DEF Sends, Commands
  <2>2. \A j \in Answers : replies[j] \in Replies /\ replies[j].line \in Msgs
    BY <1>1 DEF Answers, Replies, Codes
  <2> QED BY <2>1, <2>2 DEF Wire, Underway, Sends, Answers
<1>5. \A k \in Msgs \ {m} : line'[k] = line[k]
  BY <1>1
<1>6. line'[m] = how
  BY <1>1
<1>7. Underway'
  BY <1>2, <1>3, <1>4, <1>5, <1>6 DEF Wire, Underway
<1>8. Apart'
  BY <1>2, <1>3, <1>4 DEF Wire, Apart
<1>9. JoinAhead'
  <2> SUFFICES ASSUME ~room PROVE JoinAhead'
    BY DEF JoinAhead
  <2>1. phase = "online" => \E k \in 1..Len(commands) : commands'[k].cmd = "join"
    BY <1>2 DEF Wire, JoinAhead
  <2>2. ASSUME NEW i \in Sends, line[commands[i].line] = "sent"
        PROVE  \E k \in 1..(i - 1) : commands'[k].cmd = "join"
    BY <1>2, <2>2 DEF Wire, JoinAhead, Sends
  <2> QED BY <1>2, <1>3, <1>4, <1>5, <1>6, <2>1, <2>2 DEF JoinAhead
<1>10. NotInRoomOnlyLate'
  <2>1. \A j \in 1..Len(replies) : replies[j].frame = "not_in_room" => j \in Answers
    BY DEF Answers, Codes
  <2> QED BY <1>4, <1>5, <2>1 DEF Wire, NotInRoomOnlyLate
<1> QED BY <1>7, <1>8, <1>9, <1>10 DEF Wire

\* The node takes the first command and answers; a line moves from one end of
\* the wire to the other.
LEMMA WireAnswer ==
  ASSUME TypeOK, Wire, commands # <<>>, NEW frame \in Replies, Answer(frame),
         frame.frame \in Codes =>
           Head(commands).cmd = "send" /\ frame.line = Head(commands).line,
         frame.frame = "not_in_room" => line[frame.line] = "late",
         room' = TRUE \/ (UNCHANGED room /\ Head(commands).cmd = "send")
  PROVE  Wire'
<1>1. /\ commands \in Seq(Commands) /\ replies \in Seq(Replies)
      /\ commands' = Tail(commands) /\ replies' = Append(replies, frame)
      /\ UNCHANGED <<line, phase>>
  BY DEF TypeOK, Answer
<1>2. /\ Len(commands) \in Nat \ {0} /\ Len(commands') = Len(commands) - 1
      /\ \A i \in 1..(Len(commands) - 1) : commands'[i] = commands[i + 1]
      /\ Head(commands) = commands[1]
  BY <1>1
<1>3. /\ Len(replies) \in Nat /\ Len(replies') = Len(replies) + 1
      /\ \A j \in 1..Len(replies) : replies'[j] = replies[j]
      /\ replies'[Len(replies) + 1] = frame
  BY <1>1
<1>4. /\ Sends' = {i \in 1..(Len(commands) - 1) : i + 1 \in Sends}
      /\ Head(commands).cmd = "send" <=> 1 \in Sends
  BY <1>2 DEF Sends
<1>5. Answers' = Answers \cup {j \in {Len(replies) + 1} : frame.frame \in Codes}
  BY <1>3 DEF Answers
<1>6. Answers \subseteq 1..Len(replies) /\ Sends \subseteq 1..Len(commands)
  BY DEF Answers, Sends
<1>7. Underway'
  BY <1>1, <1>2, <1>3, <1>4, <1>5, <1>6 DEF Wire, Underway
<1>8. Apart'
  <2>1. \A i \in Sends' : i + 1 \in Sends /\ i + 1 # 1 /\ i \in Nat
                          /\ commands'[i].line = commands[i + 1].line
    BY <1>2, <1>4
  <2>2. \A j \in Answers' : \/ j \in Answers /\ replies'[j].line = replies[j].line
                            \/ /\ j = Len(replies) + 1 /\ 1 \in Sends
                               /\ replies'[j].line = commands[1].line
    BY <1>2, <1>3, <1>4, <1>5, <1>6
  <2> QED BY <2>1, <2>2 DEF Wire, Apart
<1>9. JoinAhead'
  <2> SUFFICES ASSUME ~room' PROVE JoinAhead'
    BY DEF JoinAhead
  <2>1. ~room /\ commands[1].cmd = "send"
    BY <1>2
  <2>2. ASSUME NEW n \in Nat, \E k \in 1..n : commands[k].cmd = "join", n <= Len(commands)
        PROVE  \E k \in 1..(n - 1) : commands'[k].cmd = "join"
    <3>1. PICK k \in 1..n : commands[k].cmd = "join"
      BY <2>2
    <3>2. k - 1 \in 1..(n - 1) /\ commands'[k - 1] = commands[k]
      BY <1>2, <2>1, <2>2, <3>1
    <3> QED BY <3>1, <3>2
  <2>3. phase = "online" => \E k \in 1..(Len(commands) - 1) : commands'[k].cmd = "join"
    BY <1>2, <2>1, <2>2 DEF Wire, JoinAhead
  <2>4. ASSUME NEW i \in Sends', line[commands'[i].line] = "sent"
        PROVE  \E k \in 1..(i - 1) : commands'[k].cmd = "join"
    <3>1. i \in Nat /\ i + 1 \in Sends /\ commands'[i] = commands[i + 1]
      BY <1>2, <1>4
    <3>2. \E k \in 1..i : commands[k].cmd = "join"
      BY <2>1, <2>4, <3>1 DEF Wire, JoinAhead
    <3> QED BY <1>2, <1>6, <2>2, <3>1, <3>2
  <2> QED BY <1>1, <1>2, <2>3, <2>4 DEF JoinAhead
<1>10. NotInRoomOnlyLate'
  BY <1>1, <1>3 DEF Wire, NotInRoomOnlyLate
<1> QED BY <1>7, <1>8, <1>9, <1>10 DEF Wire

LEMMA WireReceive == TypeOK /\ Wire /\ Receive => Wire'
<1> SUFFICES ASSUME TypeOK, Wire, Receive PROVE Wire'
  OBVIOUS
<1>1. /\ line \in [Msgs -> Ends] /\ replies \in Seq(Replies)
      /\ UNCHANGED <<commands, phase, room>>
  BY DEF Receive, TypeOK
<1>2. /\ Len(replies) \in Nat \ {0} /\ Len(replies') = Len(replies) - 1
      /\ \A j \in 1..(Len(replies) - 1) : replies'[j] = replies[j + 1]
      /\ Head(replies) = replies[1]
  BY <1>1 DEF Receive
<1>3. Sends' = Sends /\ Answers' = {j \in 1..(Len(replies) - 1) : j + 1 \in Answers}
  BY <1>1, <1>2 DEF Sends, Answers
<1>4. ASSUME NEW k \in Msgs, 1 \in Answers => k # replies[1].line
      PROVE  line'[k] = line[k]
  BY <1>1, <1>2, <1>4 DEF Receive, Answers
<1>5. /\ \A i \in Sends : commands[i].line \in Msgs
      /\ \A j \in Answers : replies[j].line \in Msgs
  <2>1. commands \in Seq(Commands)
    BY DEF TypeOK
  <2> QED BY <1>1, <2>1 DEF Sends, Answers, Commands, Replies, Codes
<1>6. \A i \in Sends : line'[commands[i].line] = line[commands[i].line]
  BY <1>4, <1>5 DEF Wire, Apart
<1>7. \A j \in Answers' : /\ j + 1 \in Answers /\ j \in Nat
                          /\ replies'[j] = replies[j + 1]
                          /\ line'[replies'[j].line] = line[replies[j + 1].line]
  <2>1. \A j \in Answers' : j + 1 \in Answers /\ j + 1 # 1 /\ replies'[j] = replies[j + 1]
    BY <1>2, <1>3
  <2> QED BY <1>3, <1>4, <1>5, <2>1 DEF Wire, Apart
<1>8. Underway'
  BY <1>1, <1>3, <1>6, <1>7 DEF Wire, Underway
<1>9. Apart'
  BY <1>1, <1>3, <1>7 DEF Wire, Apart
<1>10. JoinAhead'
  BY <1>1, <1>3, <1>6 DEF Wire, JoinAhead
<1>11. NotInRoomOnlyLate'
  <2>1. \A j \in 1..Len(replies') : replies'[j].frame = "not_in_room" => j \in Answers'
    BY DEF Answers, Codes
  <2>2. \A j \in Answers : j \in 1..Len(replies)
    BY DEF Answers
  <2> QED BY <1>7, <2>1, <2>2 DEF Wire, NotInRoomOnlyLate
<1> QED BY <1>8, <1>9, <1>10, <1>11 DEF Wire

\* The joins go out with the welcome.
LEMMA WireWelcome == TypeOK /\ Wire /\ Welcome => Wire'
<1> SUFFICES ASSUME TypeOK, Wire, Welcome PROVE Wire'
  OBVIOUS
<1>1. /\ commands \in Seq(Commands) /\ replies \in Seq(Replies)
      /\ commands' = Append(commands, [cmd |-> "join"]) /\ UNCHANGED <<line, room>>
  BY DEF Welcome, TypeOK
<1>2. /\ Len(commands) \in Nat /\ Len(commands') = Len(commands) + 1
      /\ \A i \in 1..Len(commands) : commands'[i] = commands[i]
      /\ commands'[Len(commands) + 1] = [cmd |-> "join"]
  BY <1>1
<1>3. /\ Len(replies) \in Nat \ {0} /\ Len(replies') = Len(replies) - 1
      /\ \A j \in 1..(Len(replies) - 1) : replies'[j] = replies[j + 1]
  BY <1>1 DEF Welcome
<1>4. Sends' = Sends /\ Sends \subseteq 1..Len(commands)
  BY <1>2 DEF Sends
<1>5. \A j \in Answers' : j + 1 \in Answers /\ replies'[j] = replies[j + 1] /\ j \in Nat
  BY <1>3 DEF Answers
<1>6. \A j \in 1..Len(replies') : replies'[j].frame = "not_in_room" => j \in Answers'
  BY DEF Answers, Codes
<1>7. Underway'
  BY <1>1, <1>2, <1>4, <1>5 DEF Wire, Underway
<1>8. Apart'
  BY <1>2, <1>4, <1>5 DEF Wire, Apart
<1>9. JoinAhead'
  <2>1. ASSUME NEW i \in Sends, ~room, line[commands[i].line] = "sent"
        PROVE  \E k \in 1..(i - 1) : commands'[k].cmd = "join"
    BY <1>2, <1>4, <2>1 DEF Wire, JoinAhead
  <2>2. Len(commands) + 1 \in 1..Len(commands') /\ commands'[Len(commands) + 1].cmd = "join"
    BY <1>2
  <2> QED BY <1>1, <1>2, <1>4, <2>1, <2>2 DEF JoinAhead
<1>10. NotInRoomOnlyLate'
  <2>1. \A j \in Answers : j \in 1..Len(replies)
    BY DEF Answers
  <2>2. ASSUME NEW j \in 1..Len(replies'), replies'[j].frame = "not_in_room"
        PROVE  line'[replies'[j].line] = "late"
    <3>1. j + 1 \in 1..Len(replies) /\ replies'[j] = replies[j + 1]
      BY <1>5, <1>6, <2>1, <2>2
    <3>2. line[replies[j + 1].line] = "late"
      BY <2>2, <3>1 DEF Wire, NotInRoomOnlyLate
    <3> QED BY <1>1, <3>1, <3>2
  <2> QED BY <2>2 DEF NotInRoomOnlyLate
<1> QED BY <1>7, <1>8, <1>9, <1>10 DEF Wire

\* What leaves the wire, the room and the lines on it alone.
LEMMA WireFrame ==
  ASSUME TypeOK, Wire, UNCHANGED <<phase, wire, room>>,
         \A m \in Msgs : line[m] \in InTransit => line'[m] = line[m]
  PROVE  Wire'
<1>1. Sends' = Sends /\ Answers' = Answers /\ UNCHANGED <<commands, replies, phase, room>>
  BY DEF Sends, Answers, wire
<1>2. /\ \A i \in Sends : line'[commands[i].line] = line[commands[i].line]
      /\ \A j \in Answers : line'[replies[j].line] = line[replies[j].line]
  <2>1. commands \in Seq(Commands) /\ replies \in Seq(Replies)
    BY DEF TypeOK
  <2>2. /\ \A i \in Sends : commands[i].line \in Msgs
        /\ \A j \in Answers : replies[j].line \in Msgs
    BY <2>1 DEF Sends, Answers, Commands, Replies, Codes
  <2> QED BY <2>2 DEF Wire, Underway
<1>3. \A j \in 1..Len(replies) : replies[j].frame = "not_in_room" => j \in Answers
  BY DEF Answers, Codes
<1>4. Underway' /\ Apart'
  BY <1>1, <1>2 DEF Wire, Underway, Apart
<1>5. JoinAhead'
  BY <1>1, <1>2 DEF Wire, JoinAhead
<1>6. NotInRoomOnlyLate'
  BY <1>1, <1>2, <1>3 DEF Wire, NotInRoomOnlyLate
<1> QED BY <1>4, <1>5, <1>6 DEF Wire

LEMMA WireStep == TypeOK /\ Wire /\ [Next]_vars => Wire'
<1> SUFFICES ASSUME TypeOK, Wire, [Next]_vars PROVE Wire'
  OBVIOUS
<1>1. CASE Accept \/ Drop \/ Quit \/ Break
  BY <1>1, WireCleared DEF Accept, Session, Drop, Quit, Break, Close
<1>2. CASE Tick \/ Outage \/ Recover \/ Expire \/ Reject \/ UNCHANGED vars
  BY <1>2, WireFrame DEF Tick, Outage, Recover, Expire, Reject, vars
<1>3. ASSUME NEW m \in Msgs, Type(m) \/ Resume(m) \/ GiveUp(m) PROVE Wire'
  <2>1. line[m] \notin InTransit /\ UNCHANGED <<phase, replies, room>>
    BY <1>3 DEF Turn, Type, Resume, GiveUp, InTransit
  <2>2. CASE \E how \in InTransit : Transmit(m, how) /\ (how = "sent" => phase = "online")
    BY <2>1, <2>2, WireTransmit
  <2>3. CASE \E how \in Ends : line' = [line EXCEPT ![m] = how] /\ UNCHANGED commands
    <3>1. \A k \in Msgs : line[k] \in InTransit => line'[k] = line[k]
      BY <2>1, <2>3 DEF TypeOK
    <3> QED BY <2>1, <2>3, <3>1, WireFrame DEF wire
  <2> QED BY <1>3, <2>2, <2>3 DEF Type, Resume, GiveUp, InTransit, Ends
<1>4. ASSUME Pending("send") PROVE /\ commands # <<>> /\ Head(commands).cmd = "send"
                                   /\ 1 \in Sends /\ Head(commands) = commands[1]
                                   /\ \A code \in Codes : Reply(code) \in Replies
  <2>1. commands \in Seq(Commands) /\ commands # <<>> /\ Head(commands).cmd = "send"
    BY <1>4 DEF Pending, TypeOK
  <2>2. Head(commands) = commands[1] /\ 1 \in 1..Len(commands) /\ commands[1] \in Commands
    BY <2>1
  <2>3. commands[1].line \in Msgs
    BY <2>1, <2>2 DEF Commands
  <2> QED BY <2>1, <2>2, <2>3 DEF Sends, Reply, Replies
<1>5. ASSUME NEW code \in Codes, Pending("send"), Answer(Reply(code)), UNCHANGED room,
             code = "not_in_room" => ~room
      PROVE  Wire'
  <2>1. /\ Reply(code).frame = code /\ Reply(code).line = Head(commands).line
        /\ Reply(code) \in Replies
    BY <1>4, <1>5 DEF Reply
  <2>2. code = "not_in_room" => line[Head(commands).line] = "late"
    BY <1>4, <1>5 DEF Wire, Underway, JoinAhead, InTransit
  <2> QED BY <1>4, <1>5, <2>1, <2>2, WireAnswer
<1>6. CASE ServeJoin
  <2>1. commands # <<>> /\ [frame |-> "joined"] \in Replies /\ [frame |-> "degraded"] \in Replies
    BY <1>6 DEF ServeJoin, Pending, Replies
  <2>2. CASE \E f \in {"joined", "degraded"} : room' = TRUE /\ Answer([frame |-> f])
    <3>1. PICK f \in {"joined", "degraded"} : room' = TRUE /\ Answer([frame |-> f])
      BY <2>2
    <3>2. [frame |-> f] \in Replies /\ f \notin Codes /\ f # "not_in_room"
      BY <2>1 DEF Codes
    <3> QED BY <2>1, <3>1, <3>2, WireAnswer
  <2> QED BY <1>1, <1>6, <2>2 DEF ServeJoin
<1>7. CASE NotInRoom
  BY <1>5, <1>7 DEF NotInRoom, Codes
<1>8. CASE RateLimited
  BY <1>5, <1>8 DEF RateLimited, Codes
<1>9. CASE Admit
  BY <1>1, <1>5, <1>9 DEF Admit, Codes
<1> QED BY <1>1, <1>2, <1>3, <1>6, <1>7, <1>8, <1>9, WireReceive, WireWelcome DEF Next, Serve

-----------------------------------------------------------------------------
(* The theorems.                                                           *)

IInv == TypeOK /\ Windows /\ Wire

LEMMA Inductive == Spec => []IInv
<1>1. Init => IInv
  BY TypeInit, WindowsInit, WireInit DEF IInv
<1>2. IInv /\ [Next]_vars => IInv'
  BY TypeStep, WindowsStep, WireStep DEF IInv
<1> QED BY <1>1, <1>2, PTL DEF Spec

LEMMA LimitInit == Init => Limit!Init
BY DEF Init, Limit!Init, Nothing, Times, Limit!Nothing, Limit!Times

LEMMA LimitStep == IInv /\ [Next]_vars => [Limit!Next]_(Limit!vars)
<1> SUFFICES ASSUME TypeOK, Windows, [Next]_vars PROVE [Limit!Next]_(Limit!vars)
  BY DEF IInv
<1>1. CASE UNCHANGED <<now, since, refused>>
  BY <1>1 DEF Limit!vars
<1>2. CASE Tick
  BY <1>2 DEF Tick, limiter, Limit!Next, Limit!Tick
<1>3. CASE Accept
  BY <1>3 DEF Accept, Session, Limit!Next, Limit!Open, Nothing, Times, Limit!Nothing,
              Limit!Times
<1>4. Logged = Limit!Logged
  BY DEF Logged, Times, Limit!Logged, Limit!Times
<1>5. \A s \in 0..now : Left(s, now) \in Int
  BY GateAssumption DEF TypeOK, Times, Left
<1>6. CASE RateLimited
  <2>1. ~Limit!Within(Logged)
    BY <1>5, <1>6, LoggedWithin, Refill, RefilledType, GateAssumption DEF RateLimited
  <2> QED BY <1>4, <1>6, <2>1 DEF RateLimited, Limit!Next, Limit!Refuse
<1>7. CASE Admit
  <2>1. Limit!Within(Logged)
    BY <1>5, <1>7, LoggedWithin, Refill, RefilledType, GateAssumption DEF Admit
  <2> QED BY <1>4, <1>7, <2>1 DEF Admit, Limit!Next, Limit!Pass
<1>8. \/ Tick \/ Accept \/ RateLimited \/ Admit
      \/ UNCHANGED <<now, since, refused>>
  BY DEF Next, Serve, Outage, Recover, Expire, Reject, Welcome, Drop, Quit, Type, Resume,
         GiveUp, Receive, ServeJoin, NotInRoom, vars, limiter
<1> QED BY <1>1, <1>2, <1>3, <1>6, <1>7, <1>8

\* The bucket of a session lets a message pass exactly when no window of time
\* that ends with it gets more than the burst and what its length earns: it
\* never allows more, and never refuses what the limit allows.
THEOREM BucketImplementsLimit == Spec => PassesWhatFits
<1>1. Spec => []IInv
  BY Inductive
<1> QED BY <1>1, LimitInit, LimitStep, PTL DEF Spec, PassesWhatFits, Limit!Spec

\* A line that was sent while the client was online finds its session in the
\* room, whatever drops and outages came before: only one that stopped waiting
\* between the socket and the joins is refused.
THEOREM OnlineIsInRoom == Spec => []NotInRoomOnlyLate
<1>1. IInv => NotInRoomOnlyLate
  BY DEF IInv, Wire
<1> QED BY <1>1, Inductive, PTL
=============================================================================
