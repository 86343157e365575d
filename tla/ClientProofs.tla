---------------------------- MODULE ClientProofs ----------------------------
(***************************************************************************)
(* The two clients at the end of the feed, for every room, every limit and *)
(* every number of faults.  The terminal: the backlog of a join covers     *)
(* what the counter it read promises, what the watchdog gives up its       *)
(* resync could not have brought, and what it renders are bursts above a   *)
(* mark that only a joined frame can move back.  The page: it shows bursts *)
(* above a mark that never moves back, steps over a number only when what  *)
(* comes does not fit into its buffer, and shows every number up to the    *)
(* mark, each once, while the buffer reaches from the mark to the counter. *)
(***************************************************************************)
EXTENDS Client, WebClient, HoldBackProofs, SequenceTheorems

(***************************************************************************)
(* The elements of a queue of commands or frames.                          *)
(***************************************************************************)
LEMMA RangeEmpty == Range(<<>>) = {}
BY DEF Range

LEMMA RangeAppend ==
  ASSUME NEW T, NEW q \in Seq(T), NEW e \in T
  PROVE  Range(Append(q, e)) = Range(q) \cup {e}
<1>1. /\ Append(q, e) \in Seq(T) /\ Len(Append(q, e)) = Len(q) + 1 /\ Len(q) \in Nat
      /\ \A i \in 1..Len(q) : Append(q, e)[i] = q[i]
      /\ Append(q, e)[Len(q) + 1] = e
  BY AppendProperties, LenProperties
<1>2. Range(Append(q, e)) = {Append(q, e)[i] : i \in 1..Len(q) + 1}
      /\ Range(q) = {q[i] : i \in 1..Len(q)}
  BY <1>1, RangeEquality
<1>3. \A i \in 1..Len(q) + 1 : i \in 1..Len(q) \/ i = Len(q) + 1
  BY <1>1
<1>4. Len(q) + 1 \in 1..Len(q) + 1 /\ \A i \in 1..Len(q) : i \in 1..Len(q) + 1
  BY <1>1
<1> QED BY <1>1, <1>2, <1>3, <1>4

LEMMA RangeHeadTail ==
  ASSUME NEW T, NEW q \in Seq(T), q # <<>>
  PROVE  Range(q) = {Head(q)} \cup Range(Tail(q))
<1>1. /\ Tail(q) \in Seq(T) /\ Len(Tail(q)) = Len(q) - 1 /\ Head(q) = q[1]
      /\ \A i \in 1..Len(q) - 1 : Tail(q)[i] = q[i + 1]
  BY HeadTailProperties
<1>2. Len(q) \in Nat /\ Len(q) >= 1
  BY LenProperties, EmptySeq
<1>3. Range(Tail(q)) = {Tail(q)[i] : i \in 1..Len(q) - 1}
      /\ Range(q) = {q[i] : i \in 1..Len(q)}
  BY <1>1, RangeEquality
<1>4. \A i \in 1..Len(q) : i = 1 \/ (i - 1 \in 1..Len(q) - 1 /\ i = (i - 1) + 1)
  BY <1>2
<1>5. 1 \in 1..Len(q) /\ \A i \in 1..Len(q) - 1 : i + 1 \in 1..Len(q)
  BY <1>2
<1>6. \A e \in Range(q) : e = Head(q) \/ e \in Range(Tail(q))
  BY <1>1, <1>3, <1>4
<1>7. Head(q) \in Range(q) /\ \A e \in Range(Tail(q)) : e \in Range(q)
  BY <1>1, <1>3, <1>5
<1> QED BY <1>6, <1>7

(***************************************************************************)
(* The query of the history: it answers from the history, and misses       *)
(* nothing within Limit of the number it is asked from.                    *)
(***************************************************************************)
LEMMA BacklogReaches ==
  ASSUME FeedTypeOK, NEW after \in 0..MaxSeq
  PROVE  /\ Backlog(after) \subseteq stored
         /\ \A s \in Backlog(after) : s > after
         /\ \A s \in stored : after < s /\ s <= after + Limit => s \in Backlog(after)
<1> DEFINE above == {s \in stored : s > after}
           below(s) == {t \in above : t < s}
<1>1. MaxSeq \in Nat /\ Limit \in Nat /\ Limit > 0 /\ stored \in SUBSET (1..MaxSeq)
  BY HoldBackAssumption, FeedAssumption DEF FeedTypeOK, Seqs
<1>2. Backlog(after) = {s \in above : Cardinality(below(s)) < Limit}
  BY DEF Backlog
<1>3. ASSUME NEW s \in stored, after < s, s <= after + Limit
      PROVE  Cardinality(below(s)) < Limit
  <2>1. s \in 1..MaxSeq /\ after \in Int
    BY <1>1
  <2>2. IsFiniteSet(after + 1..s - 1) /\ Cardinality(after + 1..s - 1) = s - 1 - after
    <3>1. Cardinality(after + 1..s - 1) =
            IF after + 1 > s - 1 THEN 0 ELSE s - 1 - (after + 1) + 1
      BY <2>1, FS_Interval
    <3>2. IsFiniteSet(after + 1..s - 1)
      BY <2>1, FS_Interval
    <3>3. CASE after + 1 > s - 1
      <4>1. s - 1 - after = 0
        BY <1>3, <2>1, <3>3
      <4> QED BY <3>1, <3>2, <3>3, <4>1
    <3>4. CASE ~(after + 1 > s - 1)
      <4>1. s - 1 - (after + 1) + 1 = s - 1 - after
        BY <2>1
      <4> QED BY <3>1, <3>2, <3>4, <4>1
    <3> QED BY <3>3, <3>4
  <2>3. below(s) \in SUBSET (after + 1..s - 1)
    <3>1. \A t \in stored : t \in Int
      BY <1>1
    <3>2. \A t \in below(s) : t \in Int /\ t > after /\ t < s
      BY <3>1
    <3>3. \A t \in below(s) : t \in after + 1..s - 1
      BY <2>1, <3>2
    <3> QED BY <3>3
  <2>4. IsFiniteSet(below(s)) /\ Cardinality(below(s)) <= s - 1 - after
    BY <2>2, <2>3, FS_Subset
  <2>5. Cardinality(below(s)) \in Nat
    BY <2>4, FS_CardinalityType
  <2> HIDE DEF below
  <2> QED BY <1>1, <1>3, <2>1, <2>4, <2>5
<1> QED BY <1>2, <1>3

(***************************************************************************)
(* Feed: types.                                                            *)
(***************************************************************************)
LEMMA Constants ==
  /\ MaxSeq \in Nat /\ MaxBuffer \in Nat /\ MaxBuffer > 0 /\ Seqs = 1..MaxSeq
  /\ Limit \in Nat /\ Limit > 0 /\ MaxReads \in Nat /\ MaxReads > 0
  /\ MaxDrops \in Nat /\ MaxCommands \in Nat /\ MaxFaults \in Nat
  /\ AnswersInTime \in BOOLEAN
BY HoldBackAssumption, FeedAssumption DEF Seqs

LEMMA FaultTypeOK ==
  ASSUME FeedTypeOK, Fault
  PROVE  faults' \in 0..MaxFaults
<1>1. faults \in 0..MaxFaults /\ MaxFaults \in Nat
  BY Constants DEF FeedTypeOK
<1> QED BY <1>1 DEF Fault

LEMMA RoomTypeOK ==
  ASSUME FeedTypeOK,
         Take \/ \E s \in Seqs : Publish(s) \/ Save(s) \/ Burn(s) \/ LoseSave(s)
  PROVE  FeedTypeOK'
<1> USE Constants DEF FeedTypeOK, session, wire, bounds
<1>1. CASE Take
  BY <1>1 DEF Take
<1>2. ASSUME NEW s \in Seqs, Publish(s)
      PROVE  FeedTypeOK'
  <2>1. inbox' \in Seq(Seqs)
    BY <1>2, AppendProperties DEF Publish
  <2> QED BY <1>2, <2>1 DEF Publish
<1>3. ASSUME NEW s \in Seqs, Save(s)
      PROVE  FeedTypeOK'
  BY <1>3 DEF Save
<1>4. ASSUME NEW s \in Seqs, Burn(s) \/ LoseSave(s)
      PROVE  FeedTypeOK'
  <2>1. faults' \in 0..MaxFaults
    BY <1>4, FaultTypeOK DEF Burn, LoseSave
  <2> QED BY <1>4, <2>1 DEF Burn, LoseSave
<1> QED BY <1>1, <1>2, <1>3, <1>4

LEMMA HeadCmd ==
  ASSUME FeedTypeOK, commands # <<>>
  PROVE  /\ Head(commands) \in Cmds /\ Tail(commands) \in Seq(Cmds)
         /\ Head(commands).cmd \in {"join", "resync"} => Head(commands).seq \in 0..MaxSeq
<1>1. Head(commands) \in Cmds /\ Tail(commands) \in Seq(Cmds)
  BY HeadTailProperties DEF FeedTypeOK
<1>2. Head(commands) \in [cmd : {"join", "resync"}, seq : 0..MaxSeq]
        \/ Head(commands) \in [cmd : {"leave"}]
  BY <1>1 DEF Cmds
<1>3. Head(commands) \in [cmd : {"leave"}] => Head(commands).cmd = "leave"
  OBVIOUS
<1>4. Head(commands) \in [cmd : {"join", "resync"}, seq : 0..MaxSeq] =>
        Head(commands).seq \in 0..MaxSeq
  OBVIOUS
<1> QED BY <1>1, <1>2, <1>3, <1>4

LEMMA QueryTypeOK ==
  ASSUME FeedTypeOK, NEW after \in 0..MaxSeq, NEW read, Query(after, read)
  PROVE  /\ UNCHANGED <<counter, inflight, saving, stored, drops, typed>>
         /\ unread' \in BOOLEAN /\ faults' \in 0..MaxFaults
         /\ read \in SUBSET Seqs /\ read \subseteq stored
<1>1. Backlog(after) \subseteq stored /\ stored \in SUBSET Seqs
  BY BacklogReaches DEF FeedTypeOK
<1>2. read \subseteq stored
  BY <1>1 DEF Query
<1>3. unread' \in BOOLEAN /\ faults' \in 0..MaxFaults
  BY FaultTypeOK DEF FeedTypeOK, Query
<1> QED BY <1>1, <1>2, <1>3 DEF Query

LEMMA NoOperationType == NoOperation \in Operations
BY Constants DEF NoOperation, Operations

LEMMA NextNumber ==
  \A M \in Nat : \A n \in 0..M : n < M => n + 1 \in 0..M
OBVIOUS

LEMMA JoinTypeOK ==
  ASSUME FeedTypeOK, OperationInv,
         ServeJoin \/ ReadCurrent \/ ReadBacklog \/ SendJoined
  PROVE  FeedTypeOK'
<1> USE Constants DEF FeedTypeOK, room, wire, bounds
<1>1. CASE ServeJoin
  <2>1. Head(commands).seq \in 0..MaxSeq /\ Tail(commands) \in Seq(Cmds)
    BY <1>1, HeadCmd DEF ServeJoin, Pending
  <2>2. op' = [NoOperation EXCEPT !.at = "joining", !.last = Head(commands).seq]
    BY <1>1 DEF ServeJoin
  <2>3. op' \in Operations
    BY <2>1, <2>2, NoOperationType DEF Operations
  <2> QED BY <1>1, <2>1, <2>3 DEF ServeJoin
<1>2. CASE ReadCurrent
  BY <1>2 DEF ReadCurrent, Operations
<1>3. CASE ReadBacklog
  <2> PICK read \in {{}, Backlog(op.last)} :
         /\ Query(op.last, read)
         /\ op' = [op EXCEPT !.at = IF Complete(op.last, op.current, read)
                                         \/ op.reads + 1 = MaxReads
                                      THEN "ready" ELSE "reading",
                             !.reads = @ + 1, !.backlog = read]
    BY <1>3 DEF ReadBacklog
  <2>1. op.last \in 0..MaxSeq
    BY DEF Operations
  <2>2. /\ UNCHANGED <<counter, inflight, saving, stored, drops, typed>>
        /\ unread' \in BOOLEAN /\ faults' \in 0..MaxFaults /\ read \in SUBSET Seqs
    BY <2>1, QueryTypeOK
  <2>3. op.at \in {"joining", "reading"} /\ op \in Operations
    BY <1>3 DEF ReadBacklog
  <2>4. op.reads + 1 \in 0..MaxReads
    <3>1. op.reads \in 0..MaxReads /\ op.reads < MaxReads
      BY <2>3 DEF OperationInv, Operations
    <3> QED BY <3>1, NextNumber
  <2>5. op' \in Operations
    BY <2>2, <2>4 DEF Operations
  <2> QED BY <1>3, <2>2, <2>5 DEF ReadBacklog
<1>4. CASE SendJoined
  <2> DEFINE f == [frame |-> "joined", last |-> op.current, backlog |-> op.backlog]
  <2>1. f \in Frames
    BY DEF Operations, Frames
  <2>2. frames' \in Seq(Frames)
    BY <1>4, <2>1, AppendProperties DEF SendJoined
  <2> QED BY <1>4, <2>2, NoOperationType DEF SendJoined
<1> QED BY <1>1, <1>2, <1>3, <1>4

LEMMA ResyncTypeOK ==
  ASSUME FeedTypeOK, ServeResync \/ SendResync \/ ServeLeave
  PROVE  FeedTypeOK'
<1> USE Constants DEF FeedTypeOK, room, wire, bounds
<1>1. CASE ServeResync
  <2>1. Head(commands).seq \in 0..MaxSeq /\ Tail(commands) \in Seq(Cmds)
    BY <1>1, HeadCmd DEF ServeResync, Pending
  <2> PICK read \in {{}, Backlog(Head(commands).seq)} :
         /\ Query(Head(commands).seq, read)
         /\ op' = [NoOperation EXCEPT !.at = "sending", !.backlog = read]
    BY <1>1 DEF ServeResync
  <2>2. /\ UNCHANGED <<counter, inflight, saving, stored, drops, typed>>
        /\ unread' \in BOOLEAN /\ faults' \in 0..MaxFaults /\ read \in SUBSET Seqs
    BY <2>1, QueryTypeOK
  <2>3. op' \in Operations
    BY <2>2, NoOperationType DEF Operations
  <2> QED BY <1>1, <2>1, <2>2, <2>3 DEF ServeResync
<1>2. CASE SendResync
  <2>1. op.backlog \in SUBSET (0..MaxSeq) /\ op.backlog \in SUBSET Seqs
    BY DEF Operations
  <2>2. op' \in Operations
    <3>1. op \in Operations /\ op.backlog \ {Lowest(op.backlog)} \in SUBSET Seqs
      BY <2>1
    <3>2. [op EXCEPT !.backlog = @ \ {Lowest(@)}] \in Operations
      BY <3>1 DEF Operations
    <3> QED BY <1>2, <3>2, NoOperationType DEF SendResync
  <2>3. frames' \in Seq(Frames)
    <3>1. CASE op.backlog = {}
      BY <1>2, <3>1 DEF SendResync
    <3>2. CASE op.backlog # {}
      <4>1. Lowest(op.backlog) \in Seqs
        BY <2>1, <3>2, LowestExists
      <4>2. [frame |-> "resent", seq |-> Lowest(op.backlog)] \in Frames
        BY <4>1 DEF Frames
      <4>3. Append(frames, [frame |-> "resent", seq |-> Lowest(op.backlog)]) \in Seq(Frames)
        BY <4>2, AppendProperties
      <4> QED BY <1>2, <3>2, <4>3 DEF SendResync
    <3> QED BY <3>1, <3>2
  <2> QED BY <1>2, <2>2, <2>3 DEF SendResync
<1>3. CASE ServeLeave
  <2>1. Tail(commands) \in Seq(Cmds)
    BY <1>3, HeadCmd DEF ServeLeave, Pending
  <2> QED BY <1>3, <2>1 DEF ServeLeave
<1> QED BY <1>1, <1>2, <1>3

LEMMA LinkTypeOK ==
  ASSUME FeedTypeOK, Listen \/ BreakLink \/ Forward \/ Drop
  PROVE  FeedTypeOK'
<1> USE Constants DEF FeedTypeOK, room, wire, bounds
<1>1. CASE Listen
  BY <1>1 DEF Listen
<1>2. CASE BreakLink
  <2>1. faults' \in 0..MaxFaults /\ inbox' \in Seq(Seqs)
    BY <1>2, FaultTypeOK, EmptySeq DEF BreakLink
  <2> QED BY <1>2, <2>1 DEF BreakLink
<1>3. CASE Forward
  <2>1. Head(inbox) \in Seqs /\ Tail(inbox) \in Seq(Seqs)
    BY <1>3, HeadTailProperties DEF Forward
  <2>2. [frame |-> "message", seq |-> Head(inbox)] \in Frames
    BY <2>1 DEF Frames
  <2>3. frames' \in Seq(Frames)
    BY <1>3, <2>2, AppendProperties DEF Forward
  <2> QED BY <1>3, <2>1, <2>3 DEF Forward
<1>4. CASE Drop
  <2>1. commands' \in Seq(Cmds) /\ frames' \in Seq(Frames) /\ inbox' \in Seq(Seqs)
    BY <1>4, EmptySeq DEF Drop
  <2>2. drops' \in 0..MaxDrops /\ op' \in Operations
    BY <1>4, NoOperationType DEF Drop
  <2> HIDE DEF FeedTypeOK
  <2>3. UNCHANGED <<room, typed, faults>> /\ online' = FALSE /\ member' = FALSE /\ live' = FALSE
    BY <1>4 DEF Drop
  <2> QED BY <2>1, <2>2, <2>3 DEF FeedTypeOK
<1> QED BY <1>1, <1>2, <1>3, <1>4

LEMMA FeedStepTypeOK ==
  ASSUME FeedTypeOK, OperationInv, FeedStep
  PROVE  FeedTypeOK'
BY RoomTypeOK, JoinTypeOK, ResyncTypeOK, LinkTypeOK DEF FeedStep, Serve

\* What a client does to its feed.
EndStep ==
  \/ \E first \in Seq(Cmds) : Connect(first)
  \/ \E c \in Cmds : Type(c) \/ (Command(c) /\ UNCHANGED typed)
  \/ Arrive

LEMMA EndTypeOK ==
  ASSUME FeedTypeOK, EndStep
  PROVE  FeedTypeOK'
<1> USE Constants DEF FeedTypeOK, room, session, wire, bounds
<1>1. ASSUME NEW first \in Seq(Cmds), Connect(first)
      PROVE  FeedTypeOK'
  BY <1>1 DEF Connect
<1>2. ASSUME NEW c \in Cmds, Type(c) \/ (Command(c) /\ UNCHANGED typed)
      PROVE  FeedTypeOK'
  <2>0. Append(commands, c) \in Seq(Cmds)
    BY AppendProperties
  <2>1. commands' \in Seq(Cmds)
    BY <1>2, <2>0 DEF Type, Command
  <2>2. typed' \in 0..MaxCommands
    BY <1>2 DEF Type
  <2> QED BY <1>2, <2>1, <2>2 DEF Type, Command
<1>3. CASE Arrive
  <2>1. frames' \in Seq(Frames)
    BY <1>3, HeadTailProperties DEF Arrive
  <2> QED BY <1>3, <2>1 DEF Arrive
<1> QED BY <1>1, <1>2, <1>3 DEF EndStep

(***************************************************************************)
(* Feed: which steps an operation of the session sees, and where it stands *)
(* after its own.                                                          *)
(***************************************************************************)
OpUnseen == op' = op /\ counter' >= counter

LEMMA OpUnseenSteps ==
  ASSUME FeedTypeOK,
         \/ Take \/ \E s \in Seqs : Publish(s) \/ Save(s) \/ Burn(s) \/ LoseSave(s)
         \/ Listen \/ BreakLink \/ Forward \/ ServeLeave \/ EndStep \/ UNCHANGED feed
  PROVE  OpUnseen
<1>1. counter \in Nat
  BY Constants DEF FeedTypeOK
<1>2. CASE Take \/ \E s \in Seqs : Publish(s) \/ Save(s) \/ Burn(s) \/ LoseSave(s)
  <2>1. op' = op /\ (counter' = counter \/ counter' = counter + 1)
    BY <1>2 DEF Take, Publish, Save, Burn, LoseSave, session
  <2> QED BY <1>1, <2>1 DEF OpUnseen
<1>3. CASE Listen \/ BreakLink \/ Forward \/ ServeLeave
  <2>1. op' = op /\ counter' = counter
    BY <1>3 DEF Listen, BreakLink, Forward, ServeLeave, room
  <2> QED BY <1>1, <2>1 DEF OpUnseen
<1>4. CASE EndStep \/ UNCHANGED feed
  <2>1. op' = op /\ counter' = counter
    BY <1>4 DEF EndStep, Connect, Type, Command, Arrive, feed, session, room
  <2> QED BY <1>1, <2>1 DEF OpUnseen
<1> QED BY <1>2, <1>3, <1>4

LEMMA ReadBacklogIs ==
  ASSUME FeedTypeOK, OperationInv, ReadBacklog
  PROVE  \E read \in {{}, Backlog(op.last)} :
           /\ Query(op.last, read)
           /\ op.at = "reading" /\ op.reads + 1 <= MaxReads
           /\ op'.at = IF Complete(op.last, op.current, read) \/ op.reads + 1 = MaxReads
                        THEN "ready" ELSE "reading"
           /\ op'.reads = op.reads + 1 /\ op'.backlog = read
           /\ op'.last = op.last /\ op'.current = op.current
<1> PICK read \in {{}, Backlog(op.last)} :
       /\ Query(op.last, read)
       /\ op' = [op EXCEPT !.at = IF Complete(op.last, op.current, read)
                                       \/ op.reads + 1 = MaxReads
                                    THEN "ready" ELSE "reading",
                           !.reads = @ + 1, !.backlog = read]
  BY DEF ReadBacklog
<1>1. op \in Operations /\ op.at = "reading" /\ op.reads \in Nat
  BY Constants DEF ReadBacklog, FeedTypeOK, Operations
<1>2. op.reads < MaxReads
  BY <1>1 DEF OperationInv
<1>3. op.reads + 1 <= MaxReads
  BY <1>1, <1>2, Constants
<1>4. /\ op'.at = IF Complete(op.last, op.current, read) \/ op.reads + 1 = MaxReads
                   THEN "ready" ELSE "reading"
      /\ op'.reads = op.reads + 1 /\ op'.backlog = read
      /\ op'.last = op.last /\ op'.current = op.current
  BY <1>1 DEF Operations
<1> QED BY <1>1, <1>3, <1>4

LEMMA EndsOperation ==
  ASSUME FeedTypeOK, SendJoined \/ ServeResync \/ SendResync \/ Drop
  PROVE  op'.at \in {"idle", "sending"}
<1>1. NoOperation.at = "idle"
  BY DEF NoOperation
<1>2. CASE SendJoined \/ Drop
  BY <1>1, <1>2 DEF SendJoined, Drop
<1>3. CASE ServeResync
  <2>1. \E read : op' = [NoOperation EXCEPT !.at = "sending", !.backlog = read]
    BY <1>3 DEF ServeResync
  <2> QED BY <2>1 DEF NoOperation
<1>4. CASE SendResync
  <2>1. op \in Operations /\ op.at = "sending"
    BY <1>4 DEF SendResync, FeedTypeOK
  <2>2. op' = [op EXCEPT !.backlog = @ \ {Lowest(@)}] => op'.at = op.at
    BY <2>1 DEF Operations
  <2> QED BY <1>1, <1>4, <2>1, <2>2 DEF SendResync
<1> QED BY <1>2, <1>3, <1>4

LEMMA FeedOperationInv ==
  ASSUME FeedTypeOK, OperationInv, FeedStep \/ EndStep \/ UNCHANGED feed
  PROVE  OperationInv'
<1>1. counter' \in Nat
  <2>1. FeedTypeOK'
    BY FeedStepTypeOK, EndTypeOK DEF FeedTypeOK, feed, room, session, wire, bounds
  <2> QED BY <2>1, Constants DEF FeedTypeOK
<1>2. CASE OpUnseen
  <2>1. counter \in Nat /\ op.current \in Nat /\ counter' >= counter
    BY <1>2, Constants DEF OpUnseen, FeedTypeOK, Operations
  <2>2. op' = op /\ \A n \in Nat : n <= counter => n <= counter'
    BY <1>1, <1>2, <2>1 DEF OpUnseen
  <2> QED BY <2>1, <2>2 DEF OperationInv
<1>3. CASE ServeJoin
  BY <1>3 DEF ServeJoin, NoOperation, OperationInv
<1>4. CASE ReadCurrent
  <2>1. op' = [op EXCEPT !.at = "reading", !.current = counter] /\ op.reads = 0 /\ counter' = counter
    BY <1>4 DEF ReadCurrent, OperationInv, room
  <2>2. op'.at = "reading" /\ op'.reads = 0 /\ op'.current = counter
    BY <2>1 DEF FeedTypeOK, Operations
  <2>3. counter \in Nat
    BY Constants DEF FeedTypeOK
  <2> QED BY <2>1, <2>2, <2>3, Constants DEF OperationInv
<1>5. CASE ReadBacklog
  <2>1. /\ op.at = "reading" /\ op.reads + 1 <= MaxReads
        /\ op'.at = "reading" => op.reads + 1 # MaxReads
        /\ op'.at \in {"reading", "ready"}
        /\ op'.reads = op.reads + 1 /\ op'.current = op.current /\ counter' = counter
    BY <1>5, ReadBacklogIs DEF Query
  <2>2. op.reads \in Nat
    BY DEF FeedTypeOK, Operations
  <2> QED BY <2>1, <2>2, Constants DEF OperationInv
<1>6. CASE SendJoined \/ ServeResync \/ SendResync \/ Drop
  BY <1>6, EndsOperation DEF OperationInv
<1> QED
  BY <1>2, <1>3, <1>4, <1>5, <1>6, OpUnseenSteps DEF FeedStep, Serve

LEMMA FeedOfflineInv ==
  ASSUME OfflineInv, FeedStep \/ EndStep \/ UNCHANGED feed
  PROVE  OfflineInv'
<1> USE DEF OfflineInv
<1>1. CASE Take \/ \E s \in Seqs : Publish(s) \/ Save(s) \/ Burn(s) \/ LoseSave(s)
  BY <1>1 DEF Take, Publish, Save, Burn, LoseSave, session, wire
<1>2. CASE Listen \/ BreakLink \/ Forward
  BY <1>2 DEF Listen, BreakLink, Forward, wire
<1>3. CASE ServeJoin \/ ServeResync \/ ServeLeave
  BY <1>3 DEF ServeJoin, ServeResync, ServeLeave, Pending
<1>4. CASE ReadCurrent \/ ReadBacklog \/ SendJoined \/ SendResync
  BY <1>4 DEF ReadCurrent, ReadBacklog, SendJoined, SendResync, NoOperation
<1>5. CASE Drop
  BY <1>5 DEF Drop
<1>6. CASE EndStep
  BY <1>6 DEF EndStep, Connect, Type, Command, Arrive, session
<1>7. CASE UNCHANGED feed
  BY <1>7 DEF feed, session, wire
<1> QED BY <1>1, <1>2, <1>3, <1>4, <1>5, <1>6, <1>7 DEF FeedStep, Serve

(***************************************************************************)
(* BacklogCovers: at the last read of a join nothing up to the counter it  *)
(* read is unsaved; a number taken later lies above that counter.          *)
(***************************************************************************)
LEMMA KeptSteps ==
  ASSUME FeedTypeOK, FeedStep \/ EndStep \/ UNCHANGED feed
  PROVE  \A s \in Kept' : s \in Kept \/ s > counter
<1> USE DEF Kept
<1>1. CASE Take
  <2>1. counter + 1 > counter
    BY Constants DEF FeedTypeOK
  <2> QED BY <1>1, <2>1 DEF Take
<1>2. CASE \E s \in Seqs : Publish(s) \/ Save(s) \/ Burn(s) \/ LoseSave(s)
  BY <1>2 DEF Publish, Save, Burn, LoseSave
<1>3. CASE ReadBacklog \/ ServeResync
  BY <1>3 DEF ReadBacklog, ServeResync, Query
<1>4. CASE Listen \/ BreakLink \/ Forward \/ ServeJoin \/ ReadCurrent \/ SendJoined
           \/ SendResync \/ ServeLeave \/ Drop
  BY <1>4 DEF Listen, BreakLink, Forward, ServeJoin, ReadCurrent, SendJoined, SendResync,
              ServeLeave, Drop, room
<1>5. CASE EndStep \/ UNCHANGED feed
  BY <1>5 DEF EndStep, Connect, Type, Command, Arrive, feed, room
<1> QED BY <1>1, <1>2, <1>3, <1>4, <1>5 DEF FeedStep, Serve

LEMMA UnsettledSteps ==
  ASSUME FeedTypeOK, FeedStep \/ EndStep \/ UNCHANGED feed
  PROVE  /\ counter \in Nat /\ counter' \in Nat /\ counter <= counter'
         /\ \A s \in inflight' \cup saving' : s \in inflight \cup saving \/ s > counter
<1>1. counter \in Nat /\ counter + 1 \in Nat
  BY Constants DEF FeedTypeOK
<1>2. CASE Take
  BY <1>1, <1>2 DEF Take
<1>3. CASE \E s \in Seqs : Publish(s) \/ Save(s) \/ Burn(s) \/ LoseSave(s)
  BY <1>1, <1>3 DEF Publish, Save, Burn, LoseSave
<1>4. CASE ReadBacklog \/ ServeResync
  BY <1>1, <1>4 DEF ReadBacklog, ServeResync, Query
<1>5. CASE Listen \/ BreakLink \/ Forward \/ ServeJoin \/ ReadCurrent \/ SendJoined
           \/ SendResync \/ ServeLeave \/ Drop
  <2>1. UNCHANGED room
    BY <1>5 DEF Listen, BreakLink, Forward, ServeJoin, ReadCurrent, SendJoined, SendResync,
                ServeLeave, Drop
  <2> QED BY <1>1, <2>1 DEF room
<1>6. CASE EndStep \/ UNCHANGED feed
  BY <1>1, <1>6 DEF EndStep, Connect, Type, Command, Arrive, feed, room
<1> QED BY <1>2, <1>3, <1>4, <1>5, <1>6 DEF FeedStep, Serve

LEMMA FeedBacklogCovers ==
  ASSUME FeedTypeOK, OperationInv, BacklogCovers, FeedStep \/ EndStep \/ UNCHANGED feed
  PROVE  BacklogCovers'
<1>1. CASE op' = op /\ unread' = unread
  <2>1. \A s \in op.last + 1..op.current : op.at = "ready" /\ s \in Kept' => s \in Kept
    <3> TAKE s \in op.last + 1..op.current
    <3> HAVE op.at = "ready" /\ s \in Kept'
    <3>1. op.last \in Nat /\ op.current \in Nat /\ counter \in Nat /\ op.current <= counter
      BY Constants DEF FeedTypeOK, Operations, OperationInv
    <3>2. ~(s > counter)
      BY <3>1
    <3> QED BY <3>2, KeptSteps
  <2> QED BY <1>1, <2>1 DEF BacklogCovers
<1>2. CASE ReadBacklog
  <2> SUFFICES ASSUME AnswersInTime, ~unread', op'.at = "ready",
                      NEW s \in (op'.last + 1..op'.current) \ op'.backlog,
                      s <= op'.last + Limit
               PROVE  s \notin Kept'
    <3>1. op'.last = op.last /\ op.last \in Int /\ Limit \in Int
      BY <1>2, ReadBacklogIs, Constants DEF FeedTypeOK, Operations
    <3>2. \A s \in Int : s > op'.last + Limit \/ s <= op'.last + Limit
      BY <3>1
    <3>3. \A s \in op'.last + 1..op'.current : s \in Int
      OBVIOUS
    <3> QED BY <3>2, <3>3 DEF BacklogCovers
  <2> PICK read \in {{}, Backlog(op.last)} :
         /\ Query(op.last, read)
         /\ op.at = "reading" /\ op.reads + 1 <= MaxReads
         /\ op'.at = IF Complete(op.last, op.current, read) \/ op.reads + 1 = MaxReads
                      THEN "ready" ELSE "reading"
         /\ op'.reads = op.reads + 1 /\ op'.backlog = read
         /\ op'.last = op.last /\ op'.current = op.current
    BY <1>2, ReadBacklogIs
  <2>1. read = Backlog(op.last) /\ UNCHANGED <<inflight, saving, stored>>
    BY DEF Query
  <2>2. op.last \in 0..MaxSeq /\ op.current \in 0..MaxSeq
    BY DEF FeedTypeOK, Operations
  <2>3. s \in Seqs /\ op.last < s /\ s <= op.current /\ s <= op.last + Limit /\ s \notin read
    BY <2>2, Constants
  <2>4. ~Complete(op.last, op.current, read)
    BY <2>3 DEF Complete
  <2>5. s \notin inflight \cup saving
    <3>1. (inflight \cup saving) \cap 1..op.current = {}
      BY <1>2, <2>4 DEF ReadBacklog
    <3>2. s \in 1..op.current
      BY <2>2, <2>3, Constants
    <3> QED BY <3>1, <3>2
  <2>6. s \notin stored
    BY <2>1, <2>2, <2>3, BacklogReaches
  <2> QED BY <2>1, <2>5, <2>6 DEF Kept
<1>3. CASE op'.at # "ready"
  BY <1>3 DEF BacklogCovers
<1>4. CASE ServeJoin \/ ReadCurrent \/ SendJoined \/ ServeResync \/ SendResync \/ Drop
  <2>1. op'.at # "ready"
    <3>1. ServeJoin => op'.at = "joining"
      BY DEF ServeJoin, NoOperation
    <3>2. ReadCurrent => op'.at = "reading"
      BY DEF ReadCurrent, FeedTypeOK, Operations
    <3> QED BY <1>4, <3>1, <3>2, EndsOperation
  <2> QED BY <1>3, <2>1
<1>5. CASE \/ Take \/ \E s \in Seqs : Publish(s) \/ Save(s) \/ Burn(s) \/ LoseSave(s)
           \/ Listen \/ BreakLink \/ Forward \/ ServeLeave \/ EndStep \/ UNCHANGED feed
  <2>1. op' = op /\ unread' = unread
    BY <1>5 DEF Take, Publish, Save, Burn, LoseSave, Listen, BreakLink, Forward,
       ServeLeave, EndStep, Connect, Type, Command, Arrive, feed, session, room
  <2> QED BY <1>1, <2>1
<1> QED BY <1>2, <1>4, <1>5 DEF FeedStep, Serve

\* What a step of the feed adds to the frames.
LEMMA AppendsFrames ==
  ASSUME FeedTypeOK, FeedStep, ~Drop
  PROVE  \/ frames' = frames
         \/ \E f \in Frames :
              /\ frames' = Append(frames, f)
              /\ \/ f.frame # "joined" /\ f.seq \in Range(inbox) \cup op.backlog
                 \/ SendJoined /\ f.frame = "joined" /\ f.last = op.current /\ f.backlog = op.backlog
<1>1. CASE Forward
  <2> DEFINE f == [frame |-> "message", seq |-> Head(inbox)]
  <2>1. Head(inbox) \in Seqs /\ Head(inbox) \in Range(inbox)
    BY <1>1, HeadTailProperties, RangeHeadTail DEF Forward, FeedTypeOK
  <2>2. f \in Frames /\ f.frame # "joined" /\ f.seq \in Range(inbox)
        /\ (frames' = frames \/ frames' = Append(frames, f))
    BY <1>1, <2>1 DEF Forward, Frames
  <2> HIDE DEF f
  <2> QED BY <2>2
<1>2. CASE SendResync /\ op.backlog # {}
  <2> DEFINE f == [frame |-> "resent", seq |-> Lowest(op.backlog)]
  <2>1. op.backlog \in SUBSET (0..MaxSeq) /\ op.backlog \in SUBSET Seqs /\ MaxSeq \in Nat
    BY Constants DEF FeedTypeOK, Operations
  <2>2. Lowest(op.backlog) \in op.backlog /\ Lowest(op.backlog) \in Seqs
    BY <1>2, <2>1, LowestExists
  <2>3. f \in Frames /\ f.frame # "joined" /\ f.seq \in op.backlog /\ frames' = Append(frames, f)
    BY <1>2, <2>2 DEF SendResync, Frames
  <2> HIDE DEF f
  <2> QED BY <2>3
<1>3. CASE SendJoined
  <2> DEFINE f == [frame |-> "joined", last |-> op.current, backlog |-> op.backlog]
  <2>1. f \in Frames
    BY DEF FeedTypeOK, Operations, Frames
  <2>2. /\ f.frame = "joined" /\ f.last = op.current /\ f.backlog = op.backlog
        /\ frames' = Append(frames, f)
    BY <1>3 DEF SendJoined
  <2> HIDE DEF f
  <2> QED BY <1>3, <2>1, <2>2
<1>4. CASE \/ Take \/ \E s \in Seqs : Publish(s) \/ Save(s) \/ Burn(s) \/ LoseSave(s)
           \/ Listen \/ BreakLink \/ (SendResync /\ op.backlog = {})
           \/ ServeJoin \/ ReadCurrent \/ ReadBacklog \/ ServeResync \/ ServeLeave
  BY <1>4 DEF Take, Publish, Save, Burn, LoseSave, Listen, BreakLink, SendResync, ServeJoin,
     ReadCurrent, ReadBacklog, ServeResync, ServeLeave, wire
<1> QED BY <1>1, <1>2, <1>3, <1>4 DEF FeedStep, Serve

LEMMA FramesSteps ==
  ASSUME FeedTypeOK, FeedStep
  PROVE  \/ Range(frames') \subseteq Range(frames)
         \/ \E f \in Frames :
              /\ Range(frames') = Range(frames) \cup {f}
              /\ \/ f.frame # "joined" /\ f.seq \in Range(inbox) \cup op.backlog
                 \/ SendJoined /\ f.frame = "joined" /\ f.last = op.current /\ f.backlog = op.backlog
<1>1. CASE Drop
  <2>1. frames' = <<>>
    BY <1>1 DEF Drop
  <2> QED BY <2>1, RangeEmpty
<1>2. CASE ~Drop
  <2>1. frames \in Seq(Frames)
    BY DEF FeedTypeOK
  <2>2. \A f \in Frames : Range(Append(frames, f)) = Range(frames) \cup {f}
    BY <2>1, RangeAppend
  <2> QED BY <1>2, <2>2, AppendsFrames
<1> QED BY <1>1, <1>2

(***************************************************************************)
(* Nothing is kept or under way that was not taken.                        *)
(***************************************************************************)
LEMMA FeedTaken ==
  ASSUME FeedTypeOK, FeedTypeOK', OperationInv, TakenInv, FeedStep \/ EndStep \/ UNCHANGED feed
  PROVE  TakenInv'
<1>1. counter \in Nat /\ counter' \in Nat /\ counter <= counter'
      /\ 1..counter \subseteq 1..counter'
  <2>1. counter \in Nat /\ counter' \in Nat /\ counter <= counter'
    BY UnsettledSteps
  <2> QED BY <2>1
<1>2. Kept' \subseteq 1..counter'
  <2>1. CASE Take
    <3>1. counter + 1 \in 1..counter' /\ Kept' = Kept \cup {counter + 1}
      BY <1>1, <2>1 DEF Take, Kept
    <3> QED BY <1>1, <3>1 DEF TakenInv
  <2>2. CASE ~Take
    <3>1. Kept' \subseteq Kept
      BY <2>2 DEF FeedStep, EndStep, Kept, Publish, Save, Burn, LoseSave, Listen, BreakLink,
         Forward, Serve, ServeJoin, ReadCurrent, ReadBacklog, SendJoined, ServeResync,
         SendResync, ServeLeave, Drop, Query, Connect, Type, Command, Arrive, feed, room
    <3> QED BY <1>1, <3>1 DEF TakenInv
  <2> QED BY <2>1, <2>2
<1>3. Range(inbox') \subseteq 1..counter'
  <2>1. CASE \E s \in Seqs : Publish(s)
    <3> PICK s \in Seqs : Publish(s)
      BY <2>1
    <3>1. Range(Append(inbox, s)) = Range(inbox) \cup {s}
      BY RangeAppend DEF FeedTypeOK
    <3>2. s \in Kept /\ inbox' \in {inbox, Append(inbox, s)}
      BY DEF Publish, Kept
    <3> QED BY <1>1, <3>1, <3>2 DEF TakenInv
  <2>2. CASE Forward
    <3>1. Range(inbox') \subseteq Range(inbox)
      BY <2>2, RangeHeadTail DEF Forward, FeedTypeOK
    <3> QED BY <1>1, <3>1 DEF TakenInv
  <2>3. CASE BreakLink \/ Drop
    <3>1. inbox' = <<>>
      BY <2>3 DEF BreakLink, Drop
    <3> QED BY <3>1, RangeEmpty
  <2>4. CASE ~(\E s \in Seqs : Publish(s)) /\ ~Forward /\ ~BreakLink /\ ~Drop
    <3>1. inbox' = inbox
      BY <2>4 DEF FeedStep, EndStep, Take, Save, Burn, LoseSave, Listen, Serve, ServeJoin,
         ReadCurrent, ReadBacklog, SendJoined, ServeResync, SendResync, ServeLeave,
         Connect, Type, Command, Arrive, feed, session
    <3> QED BY <1>1, <3>1 DEF TakenInv
  <2> QED BY <2>1, <2>2, <2>3, <2>4
<1>4. op'.backlog \subseteq 1..counter'
  <2>0. NoOperation.backlog = {} /\ op \in Operations
    BY DEF NoOperation, FeedTypeOK
  <2>1. CASE ReadBacklog
    <3> PICK read \in {{}, Backlog(op.last)} : Query(op.last, read) /\ op'.backlog = read
      BY <2>1, ReadBacklogIs
    <3>1. read \subseteq stored
      BY QueryTypeOK DEF FeedTypeOK, Operations
    <3> QED BY <1>1, <3>1 DEF TakenInv, Kept
  <2>2. CASE ServeResync
    <3> PICK read \in {{}, Backlog(Head(commands).seq)} :
           Query(Head(commands).seq, read)
           /\ op' = [NoOperation EXCEPT !.at = "sending", !.backlog = read]
      BY <2>2 DEF ServeResync
    <3>1. Head(commands).seq \in 0..MaxSeq
      BY <2>2, HeadCmd DEF ServeResync, Pending
    <3>2. read \subseteq stored /\ op'.backlog = read
      BY <3>1, QueryTypeOK DEF NoOperation
    <3> QED BY <1>1, <3>2 DEF TakenInv, Kept
  <2>3. CASE ServeJoin \/ SendJoined \/ Drop
    BY <2>0, <2>3 DEF ServeJoin, SendJoined, Drop, NoOperation
  <2>4. CASE ReadCurrent \/ SendResync
    <3>1. op'.backlog \subseteq op.backlog
      BY <2>0, <2>4 DEF ReadCurrent, SendResync, Operations
    <3> QED BY <1>1, <3>1 DEF TakenInv
  <2>5. CASE \/ Take \/ \E s \in Seqs : Publish(s) \/ Save(s) \/ Burn(s) \/ LoseSave(s)
             \/ Listen \/ BreakLink \/ Forward \/ ServeLeave \/ EndStep \/ UNCHANGED feed
    <3>1. op' = op
      BY <2>5, OpUnseenSteps DEF OpUnseen
    <3> QED BY <1>1, <3>1 DEF TakenInv
  <2> QED BY <2>1, <2>2, <2>3, <2>4, <2>5 DEF FeedStep, Serve
<1>5. \A f \in Range(frames') : Brought(f) \subseteq 1..counter'
  <2>1. CASE FeedStep
    <3>1. ASSUME NEW f \in Range(frames'), f \notin Range(frames)
          PROVE  Brought(f) \subseteq Range(inbox) \cup op.backlog
      <4>1. \/ f.frame # "joined" /\ f.seq \in Range(inbox) \cup op.backlog
            \/ f.frame = "joined" /\ f.backlog = op.backlog
        BY <2>1, <3>1, FramesSteps
      <4> QED BY <4>1 DEF Brought
    <3> QED BY <1>1, <3>1 DEF TakenInv
  <2>2. CASE EndStep \/ UNCHANGED feed
    <3>1. frames' = frames \/ (frames # <<>> /\ frames' = Tail(frames))
      BY <2>2 DEF EndStep, Connect, Type, Command, Arrive, feed, wire
    <3>2. Range(frames') \subseteq Range(frames)
      BY <3>1, RangeHeadTail DEF FeedTypeOK
    <3> QED BY <1>1, <3>2 DEF TakenInv
  <2> QED BY <2>1, <2>2
<1> QED BY <1>2, <1>3, <1>4, <1>5 DEF TakenInv

\* Every step of the feed or of its client keeps the feed's invariant.
LEMMA NextFeedInv ==
  ASSUME FeedInv, FeedStep \/ EndStep \/ UNCHANGED feed
  PROVE  FeedInv'
<1>1. FeedTypeOK'
  <2>1. UNCHANGED feed => FeedTypeOK'
    BY DEF FeedInv, FeedTypeOK, feed, room, session, wire, bounds
  <2> QED BY <2>1, FeedStepTypeOK, EndTypeOK DEF FeedInv
<1> QED BY <1>1, FeedOperationInv, FeedOfflineInv, FeedTaken, FeedBacklogCovers DEF FeedInv

LEMMA InitFeedInv ==
  ASSUME FeedInit
  PROVE  FeedInv
<1>1. FeedTypeOK
  <2>1. <<>> \in Seq(Seqs) /\ <<>> \in Seq(Cmds) /\ <<>> \in Seq(Frames)
    BY EmptySeq
  <2>2. 0 \in 0..MaxSeq /\ 0 \in 0..MaxDrops /\ 0 \in 0..MaxCommands /\ 0 \in 0..MaxFaults
    BY Constants
  <2> QED BY <2>1, <2>2, NoOperationType DEF FeedInit, FeedTypeOK
<1>2. OperationInv /\ OfflineInv /\ BacklogCovers
  BY DEF FeedInit, NoOperation, OperationInv, OfflineInv, BacklogCovers
<1>3. TakenInv
  BY RangeEmpty DEF FeedInit, NoOperation, TakenInv, Kept
<1> QED BY <1>1, <1>2, <1>3 DEF FeedInv

(***************************************************************************)
(* The client: what it makes of a message and of a backlog.                *)
(***************************************************************************)
Clients ==
  {c \in [view : Views, shown : [Seqs -> Nat], lost : SUBSET Seqs] : Tidy(c.view.queue)}

\* The queue r has what the queue q had, and the numbers of S.
Grown(q, r, S) ==
  /\ r.delivered >= q.delivered
  /\ \A s \in Seqs : s \in S \/ IsDuplicate(q, s) => IsDuplicate(r, s)

LEMMA CountShownType ==
  ASSUME NEW count \in [Seqs -> Nat], NEW released
  PROVE  CountShown(count, released) \in [Seqs -> Nat]
BY DEF CountShown

LEMMA SteppedOverType ==
  ASSUME NEW q \in Queues, NEW r, r.queue \in Queues
  PROVE  SteppedOver(q, r) \in SUBSET Seqs
<1>1. q.delivered \in 0..MaxSeq /\ r.queue.delivered \in 0..MaxSeq
  BY DEF Queues
<1>2. q.delivered + 1..r.queue.delivered \subseteq 1..MaxSeq
  BY <1>1, Constants
<1> QED BY <1>2, Constants DEF SteppedOver, Expected

LEMMA OfferGrows ==
  ASSUME NEW q, Tidy(q), NEW s \in Seqs
  PROVE  Tidy(Offer(q, s).queue) /\ Grown(q, Offer(q, s).queue, {s})
<1> DEFINE r == Offer(q, s)
<1>1. Sound(q, r) /\ Keeps(q, s, r)
  BY OfferSound, OfferKeeps
<1>2. Tidy(r.queue)
  BY <1>1 DEF Sound, Tidy
<1>3. q.delivered \in Int /\ r.queue.delivered \in Int /\ r.queue.delivered >= q.delivered
  BY <1>1, Constants DEF Sound, Tidy, Queues
<1>4. \A t \in Seqs : t = s \/ IsDuplicate(q, t) => IsDuplicate(r.queue, t)
  <2> TAKE t \in Seqs
  <2> HAVE t = s \/ IsDuplicate(q, t)
  <2>1. t \in q.buffer \cup {s} => IsDuplicate(r.queue, t)
    BY <1>1 DEF Keeps, IsDuplicate
  <2>2. t <= q.delivered => t <= r.queue.delivered
    BY <1>3, Constants
  <2> QED BY <2>1, <2>2 DEF IsDuplicate
<1> QED BY <1>2, <1>3, <1>4 DEF Grown

(***************************************************************************)
(* A burst: the mark moves from m up to n, and what is rendered once more  *)
(* lies between the two.                                                   *)
(***************************************************************************)
Rises(m, n, old, new) ==
  /\ m <= n
  /\ \A s \in Seqs : /\ new[s] \in {old[s], old[s] + 1}
                     /\ s <= m \/ s > n => new[s] = old[s]
  /\ m < n => new[n] = old[n] + 1

Passed(m, n, old, new) == {s \in m + 1..n : new[s] = old[s]}

LEMMA RisesNothing ==
  ASSUME NEW m \in 0..MaxSeq, NEW old
  PROVE  Rises(m, m, old, old) /\ Passed(m, m, old, old) = {}
<1>1. m <= m /\ ~(m < m) /\ m + 1..m = {}
  BY Constants
<1> QED BY <1>1 DEF Rises, Passed

\* Bursts one after the other are a burst.
LEMMA RisesJoin ==
  ASSUME NEW m \in 0..MaxSeq, NEW n \in 0..MaxSeq, NEW k \in 0..MaxSeq,
         NEW old, NEW mid, NEW new, Rises(m, n, old, mid), Rises(n, k, mid, new)
  PROVE  /\ Rises(m, k, old, new)
         /\ Passed(m, k, old, new) = Passed(m, n, old, mid) \cup Passed(n, k, mid, new)
<1>1. /\ MaxSeq \in Nat /\ Seqs = 1..MaxSeq
      /\ m <= n /\ n <= k
  BY Constants DEF Rises
<1>2. ASSUME NEW s \in Seqs, s <= n
      PROVE  /\ new[s] = mid[s] /\ ~(s > k)
             /\ mid[s] \in {old[s], old[s] + 1} /\ (s <= m => mid[s] = old[s])
  <2>1. ~(s > k)
    BY <1>1, <1>2
  <2> QED BY <1>2, <2>1 DEF Rises
<1>3. ASSUME NEW s \in Seqs, ~(s <= n)
      PROVE  /\ mid[s] = old[s] /\ ~(s <= m)
             /\ new[s] \in {mid[s], mid[s] + 1} /\ (s > k => new[s] = mid[s])
  <2>1. s > n /\ ~(s <= m)
    BY <1>1, <1>3
  <2> QED BY <2>1 DEF Rises
<1>4. \A s \in Seqs : /\ new[s] \in {old[s], old[s] + 1}
                      /\ s <= m \/ s > k => new[s] = old[s]
  BY <1>2, <1>3
<1>5. ASSUME m < k PROVE new[k] = old[k] + 1
  <2>1. k \in Seqs
    BY <1>1, <1>5
  <2>2. CASE n < k
    <3>1. mid[k] = old[k]
      BY <1>1, <1>3, <2>1, <2>2
    <3> QED BY <2>2, <3>1 DEF Rises
  <2>3. CASE n = k
    <3>1. new[k] = mid[k]
      BY <1>1, <1>2, <2>1, <2>3
    <3> QED BY <1>5, <2>3, <3>1 DEF Rises
  <2> QED BY <1>1, <2>2, <2>3
<1>6. Rises(m, k, old, new)
  <2>1. m <= k
    BY <1>1
  <2> QED BY <1>4, <1>5, <2>1 DEF Rises
<1>7. \A s \in m + 1..n : s \in Seqs /\ s <= n /\ s \in m + 1..k
  BY <1>1
<1>8. \A s \in n + 1..k : s \in Seqs /\ ~(s <= n) /\ s \in m + 1..k
  BY <1>1
<1>9. \A s \in m + 1..k : s \in m + 1..n \/ s \in n + 1..k
  BY <1>1
<1>10. \A s \in m + 1..n : new[s] = old[s] <=> mid[s] = old[s]
  BY <1>2, <1>7
<1>11. \A s \in n + 1..k : new[s] = old[s] <=> new[s] = mid[s]
  BY <1>3, <1>8
<1> QED BY <1>6, <1>7, <1>8, <1>9, <1>10, <1>11 DEF Passed

\* What a call of the queue releases is a burst.
LEMMA SoundRises ==
  ASSUME NEW q \in Queues, NEW r, Sound(q, r), NEW count \in [Seqs -> Nat]
  PROVE  /\ Rises(q.delivered, r.queue.delivered, count, CountShown(count, r.released))
         /\ Passed(q.delivered, r.queue.delivered, count, CountShown(count, r.released))
              = SteppedOver(q, r)
<1> DEFINE m == q.delivered
           n == r.queue.delivered
           new == CountShown(count, r.released)
<1>1. /\ m \in 0..MaxSeq /\ n \in 0..MaxSeq /\ m <= n /\ MaxSeq \in Nat /\ Seqs = 1..MaxSeq
      /\ r.released \subseteq m + 1..n /\ (m # n => n \in r.released)
  BY Constants DEF Sound, Queues, Expected
<1>2. SteppedOver(q, r) = (m + 1..n) \ r.released
  BY DEF SteppedOver, Expected
<1>3. \A s \in Seqs : new[s] = IF s \in r.released THEN count[s] + 1 ELSE count[s]
  BY DEF CountShown
<1>4. \A s \in Seqs : count[s] \in Nat
  OBVIOUS
<1> HIDE DEF m, n, new
<1>5. \A s \in Seqs : s <= m \/ s > n => s \notin r.released
  BY <1>1
<1>6. ASSUME m < n PROVE n \in Seqs /\ n \in r.released
  BY <1>1, <1>6
<1>7. \A s \in Seqs : new[s] = count[s] <=> s \notin r.released
  BY <1>3, <1>4
<1>8. Rises(m, n, count, new)
  BY <1>1, <1>3, <1>5, <1>6 DEF Rises
<1>9. \A s \in m + 1..n : s \in Seqs
  BY <1>1
<1>10. Passed(m, n, count, new) = (m + 1..n) \ r.released
  BY <1>7, <1>9 DEF Passed
<1> QED BY <1>2, <1>8, <1>10 DEF m, n, new

Rendered(old, new) == {s \in Seqs : new[s] # old[s]}

\* A burst as OrderedDelivery describes it, or nothing.
LEMMA RisesIs ==
  ASSUME NEW m \in 0..MaxSeq, NEW n \in 0..MaxSeq,
         NEW old \in [Seqs -> Nat], NEW new \in [Seqs -> Nat], Rises(m, n, old, new)
  PROVE  /\ n = m => new = old /\ Passed(m, n, old, new) = {}
         /\ n # m => /\ n > m /\ n \in Seqs /\ n \in Rendered(old, new)
                     /\ Rendered(old, new) \subseteq m + 1..n
                     /\ Passed(m, n, old, new) = (m + 1..n) \ Rendered(old, new)
         /\ \A s \in Seqs :
              new[s] = IF s \in Rendered(old, new) THEN old[s] + 1 ELSE old[s]
<1>1. MaxSeq \in Nat /\ Seqs = 1..MaxSeq /\ m <= n
  BY Constants DEF Rises
<1>2. ASSUME n = m
      PROVE  new = old /\ Passed(m, n, old, new) = {}
  <2>1. \A s \in Seqs : s <= m \/ s > n
    BY <1>1, <1>2
  <2>2. \A s \in Seqs : new[s] = old[s]
    BY <2>1 DEF Rises
  <2>3. new = old
    BY <2>2
  <2> QED BY <1>2, <2>3, RisesNothing
<1>3. ASSUME n # m
      PROVE  /\ n > m /\ n \in Seqs /\ n \in Rendered(old, new)
             /\ Rendered(old, new) \subseteq m + 1..n
             /\ Passed(m, n, old, new) = (m + 1..n) \ Rendered(old, new)
  <2>1. n > m /\ n \in Seqs
    BY <1>1, <1>3
  <2>2. new[n] = old[n] + 1 /\ old[n] \in Nat
    BY <2>1 DEF Rises
  <2>3. n \in Rendered(old, new)
    BY <2>1, <2>2 DEF Rendered
  <2>4. Rendered(old, new) \subseteq m + 1..n
    <3>1. \A s \in Rendered(old, new) : s \in 1..MaxSeq /\ ~(s <= m) /\ ~(s > n)
      BY <1>1 DEF Rises, Rendered
    <3> QED BY <1>1, <3>1
  <2>5. Passed(m, n, old, new) = (m + 1..n) \ Rendered(old, new)
    <3>1. \A s \in m + 1..n : s \in Seqs
      BY <1>1
    <3> QED BY <3>1 DEF Passed, Rendered
  <2> QED BY <2>1, <2>3, <2>4, <2>5
<1>4. \A s \in Seqs : new[s] = IF s \in Rendered(old, new) THEN old[s] + 1 ELSE old[s]
  BY DEF Rises, Rendered
<1> QED BY <1>2, <1>3, <1>4

LEMMA IngestGrows ==
  ASSUME NEW c \in Clients, NEW s \in Seqs
  PROVE  /\ Ingest(c, s) \in Clients
         /\ Ingest(c, s).view.firstJoin = c.view.firstJoin
         /\ Grown(c.view.queue, Ingest(c, s).view.queue, {s})
<1> DEFINE q == c.view.queue
           r == Offer(q, s)
<1>1. /\ c.view \in Views /\ c.shown \in [Seqs -> Nat] /\ c.lost \in SUBSET Seqs
      /\ Tidy(q) /\ q \in Queues
  BY DEF Clients, Tidy
<1>2. Tidy(r.queue) /\ Grown(q, r.queue, {s}) /\ r.queue \in Queues
  BY <1>1, OfferGrows DEF Tidy
<1>3. CASE IsDuplicate(q, s)
  <2>1. Ingest(c, s) = c
    BY <1>3 DEF Ingest
  <2>2. q.delivered \in Int
    BY <1>1, Constants DEF Queues
  <2>3. Grown(q, q, {s})
    BY <1>3, <2>2 DEF Grown
  <2> QED BY <2>1, <2>3
<1>4. CASE ~IsDuplicate(q, s)
  <2> DEFINE gap == HasGap(r.queue)
             v == [c.view EXCEPT !.queue = r.queue, !.gapOpen = gap, !.resyncSent = @ /\ gap]
             sh == CountShown(c.shown, r.released)
             lo == c.lost \cup SteppedOver(q, r)
  <2>1. Ingest(c, s) = [view |-> v, shown |-> sh, lost |-> lo]
    BY <1>4 DEF Ingest
  <2>2. gap \in BOOLEAN
    BY DEF HasGap
  <2>3. v \in Views /\ v.queue = r.queue /\ v.firstJoin = c.view.firstJoin
    <3> HIDE DEF gap, r
    <3> QED BY <1>1, <1>2, <2>2 DEF Views
  <2>4. sh \in [Seqs -> Nat]
    BY <1>1, CountShownType
  <2>5. lo \in SUBSET Seqs
    BY <1>1, <1>2, SteppedOverType
  <2> HIDE DEF v, sh, lo, r, q
  <2>6. /\ Ingest(c, s) \in [view : Views, shown : [Seqs -> Nat], lost : SUBSET Seqs]
        /\ Ingest(c, s).view = v
    BY <2>1, <2>3, <2>4, <2>5
  <2> QED BY <1>2, <2>3, <2>6 DEF Clients, q
<1> QED BY <1>3, <1>4

\* The recursion of IngestAll has a solution, which stays among the clients.
LEMMA IngestAllIs ==
  ASSUME NEW c \in Clients, NEW S \in SUBSET Seqs
  PROVE  \E f \in [0..MaxSeq -> Clients] :
           /\ f[0] = c
           /\ \A n \in 1..MaxSeq : f[n] = IF n \in S THEN Ingest(f[n - 1], n) ELSE f[n - 1]
           /\ IngestAll(c, S) = f[MaxSeq]
<1> DEFINE step == [n \in 1..MaxSeq |-> [d \in Clients |-> IF n \in S THEN Ingest(d, n) ELSE d]]
           Solves(f) == f = [n \in 0..MaxSeq |->
                               IF n = 0 THEN c
                               ELSE IF n \in S THEN Ingest(f[n - 1], n) ELSE f[n - 1]]
           g == CHOOSE f : Solves(f)
           Good == {n \in 0..MaxSeq : g[n] \in Clients}
<1>1. MaxSeq \in Nat /\ \A n \in 1..MaxSeq, d \in Clients : Ingest(d, n) \in Clients
  BY Constants, IngestGrows
<1>2. step \in [1..MaxSeq -> [Clients -> Clients]]
  BY <1>1
<1> HIDE DEF step, Solves, g, Good
<1>3. PICK f \in [0..MaxSeq -> Clients] :
         f[0] = c /\ \A n \in 1..MaxSeq : f[n] = step[n][f[n - 1]]
  <2>1. MaxSeq \in Nat
    BY <1>1
  <2>2. Iterations(MaxSeq, Clients, c, step) # {}
    BY <2>1, <1>2, Iterate
  <2> QED BY <2>2 DEF Iterations
<1>4. \A n \in 1..MaxSeq : n - 1 \in 0..MaxSeq /\ n # 0 /\ n \in 0..MaxSeq
  BY <1>1
<1>5. \A n \in 1..MaxSeq : f[n] = IF n \in S THEN Ingest(f[n - 1], n) ELSE f[n - 1]
  BY <1>3, <1>4 DEF step
<1>6. \A n \in 0..MaxSeq : n = 0 \/ n \in 1..MaxSeq
  BY <1>1
<1>7. Solves(f)
  BY <1>3, <1>5, <1>6 DEF Solves
<1>8. Solves(g)
  BY <1>7 DEF g
<1>9. IngestAll(c, S) = g[MaxSeq]
  BY DEF IngestAll, g, Solves
<1>10. g[0] = c
  BY <1>1, <1>8 DEF Solves
<1>11. \A n \in 1..MaxSeq : g[n] = IF n \in S THEN Ingest(g[n - 1], n) ELSE g[n - 1]
  BY <1>4, <1>8 DEF Solves
<1>12. 0..MaxSeq \subseteq Good
  <2>1. 0 \in Good
    BY <1>1, <1>10 DEF Good
  <2>2. \A n \in 1..MaxSeq : n - 1 \in Good => n \in Good
    BY <1>1, <1>4, <1>11 DEF Good
  <2> QED BY <1>1, <2>1, <2>2, UpTo
<1>13. g \in [0..MaxSeq -> Clients]
  BY <1>8, <1>12 DEF Solves, Good
<1> QED BY <1>9, <1>10, <1>11, <1>13

LEMMA IngestAllGrows ==
  ASSUME NEW c \in Clients, NEW S \in SUBSET Seqs
  PROVE  /\ IngestAll(c, S) \in Clients
         /\ IngestAll(c, S).view.firstJoin = c.view.firstJoin
         /\ Grown(c.view.queue, IngestAll(c, S).view.queue, S)
<1> PICK f \in [0..MaxSeq -> Clients] :
       /\ f[0] = c
       /\ \A n \in 1..MaxSeq : f[n] = IF n \in S THEN Ingest(f[n - 1], n) ELSE f[n - 1]
       /\ IngestAll(c, S) = f[MaxSeq]
  BY IngestAllIs
<1> DEFINE Grows(n) == /\ f[n].view.firstJoin = c.view.firstJoin
                       /\ Grown(c.view.queue, f[n].view.queue, S \cap 1..n)
           Good == {n \in 0..MaxSeq : Grows(n)}
<1>1. MaxSeq \in Nat /\ Seqs = 1..MaxSeq
  BY Constants
<1>2. \A d \in Clients : d.view.queue.delivered \in Int
  BY Constants DEF Clients, Tidy, Queues
<1>3. Grows(0)
  <2>1. S \cap 1..0 = {}
    OBVIOUS
  <2>2. Grown(c.view.queue, c.view.queue, {})
    BY <1>2 DEF Grown
  <2> QED BY <2>1, <2>2
<1>4. ASSUME NEW n \in 1..MaxSeq, Grows(n - 1)
      PROVE  Grows(n)
  <2>1. f[n - 1] \in Clients /\ f[n] \in Clients /\ n \in Seqs
    BY <1>1
  <2>2. \A s \in 1..n : s = n \/ s \in 1..n - 1
    OBVIOUS
  <2>3. CASE n \in S
    <3>1. f[n] = Ingest(f[n - 1], n)
      BY <2>3
    <3>2. f[n].view.firstJoin = f[n - 1].view.firstJoin
          /\ Grown(f[n - 1].view.queue, f[n].view.queue, {n})
      BY <2>1, <3>1, IngestGrows
    <3>3. /\ c.view.queue.delivered \in Int /\ f[n].view.queue.delivered \in Int
          /\ f[n - 1].view.queue.delivered \in Int
      BY <1>2, <2>1
    <3> QED BY <1>4, <2>2, <3>2, <3>3 DEF Grown
  <2>4. CASE n \notin S
    <3>1. f[n] = f[n - 1] /\ S \cap 1..n \subseteq S \cap 1..n - 1
      BY <2>2, <2>4
    <3> QED BY <1>4, <3>1 DEF Grown
  <2> QED BY <2>3, <2>4
<1> HIDE DEF Grows
<1>5. 0 \in Good /\ \A n \in 1..MaxSeq : n - 1 \in Good => n \in Good
  <2>1. 0 \in 0..MaxSeq /\ \A n \in 1..MaxSeq : n \in 0..MaxSeq
    BY <1>1
  <2> QED BY <2>1, <1>3, <1>4
<1> HIDE DEF Good
<1>6. 0..MaxSeq \subseteq Good
  BY <1>1, <1>5, UpTo
<1>7. Grows(MaxSeq)
  <2>1. MaxSeq \in 0..MaxSeq
    BY <1>1
  <2> QED BY <2>1, <1>6 DEF Good
<1>8. S \cap 1..MaxSeq = S /\ MaxSeq \in 0..MaxSeq
  <2>1. MaxSeq \in Nat /\ S \subseteq 1..MaxSeq
    BY <1>1
  <2>2. S \cap 1..MaxSeq = S
    BY <2>1
  <2>3. MaxSeq \in 0..MaxSeq
    BY <2>1
  <2> QED BY <2>2, <2>3
<1> QED BY <1>7, <1>8 DEF Grows
\* What the terminal renders between c and d is a burst, and the numbers the
\* mark passes without rendering them are given up.
Bursts(c, d) ==
  /\ Rises(c.view.queue.delivered, d.view.queue.delivered, c.shown, d.shown)
  /\ d.lost = c.lost \cup Passed(c.view.queue.delivered, d.view.queue.delivered,
                                c.shown, d.shown)

LEMMA ClientNumbers ==
  ASSUME NEW c \in Clients
  PROVE  c.view.queue.delivered \in 0..MaxSeq /\ c.shown \in [Seqs -> Nat]
BY DEF Clients, Tidy, Queues

LEMMA BurstsNothing ==
  ASSUME NEW c \in Clients
  PROVE  Bursts(c, c)
BY ClientNumbers, RisesNothing DEF Bursts

LEMMA BurstsJoin ==
  ASSUME NEW c \in Clients, NEW d \in Clients, NEW e \in Clients, Bursts(c, d), Bursts(d, e)
  PROVE  Bursts(c, e)
<1>1. /\ c.view.queue.delivered \in 0..MaxSeq /\ d.view.queue.delivered \in 0..MaxSeq
      /\ e.view.queue.delivered \in 0..MaxSeq
  BY ClientNumbers
<1>2. /\ Rises(c.view.queue.delivered, e.view.queue.delivered, c.shown, e.shown)
      /\ Passed(c.view.queue.delivered, e.view.queue.delivered, c.shown, e.shown)
           = Passed(c.view.queue.delivered, d.view.queue.delivered, c.shown, d.shown)
               \cup Passed(d.view.queue.delivered, e.view.queue.delivered, d.shown, e.shown)
  BY <1>1, RisesJoin DEF Bursts
<1> QED BY <1>2 DEF Bursts

LEMMA IngestBursts ==
  ASSUME NEW c \in Clients, NEW s \in Seqs
  PROVE  Bursts(c, Ingest(c, s))
<1> DEFINE q == c.view.queue
           r == Offer(q, s)
<1>1. Tidy(q) /\ q \in Queues /\ c.shown \in [Seqs -> Nat] /\ c.view \in Views
  BY DEF Clients, Tidy
<1>2. CASE IsDuplicate(q, s)
  <2>1. Ingest(c, s) = c
    BY <1>2 DEF Ingest
  <2> QED BY <2>1, BurstsNothing
<1>3. CASE ~IsDuplicate(q, s)
  <2> DEFINE gap == HasGap(r.queue)
             v == [c.view EXCEPT !.queue = r.queue, !.gapOpen = gap, !.resyncSent = @ /\ gap]
             sh == CountShown(c.shown, r.released)
             lo == c.lost \cup SteppedOver(q, r)
  <2>1. Ingest(c, s) = [view |-> v, shown |-> sh, lost |-> lo]
    BY <1>3 DEF Ingest
  <2>2. Sound(q, r)
    BY <1>1, OfferSound
  <2>3. /\ Rises(q.delivered, r.queue.delivered, c.shown, sh)
        /\ Passed(q.delivered, r.queue.delivered, c.shown, sh) = SteppedOver(q, r)
    BY <1>1, <2>2, SoundRises
  <2>4. v.queue = r.queue
    <3> HIDE DEF gap, r, q
    <3> QED BY <1>1 DEF Views
  <2> HIDE DEF v, sh, r, q
  <2>5. /\ Ingest(c, s).view = v /\ Ingest(c, s).shown = sh
        /\ Ingest(c, s).lost = c.lost \cup SteppedOver(q, r)
    BY <2>1
  <2> QED BY <2>3, <2>4, <2>5 DEF Bursts, q
<1> QED BY <1>2, <1>3

LEMMA IngestAllBursts ==
  ASSUME NEW c \in Clients, NEW S \in SUBSET Seqs
  PROVE  Bursts(c, IngestAll(c, S))
<1> PICK f \in [0..MaxSeq -> Clients] :
       /\ f[0] = c
       /\ \A n \in 1..MaxSeq : f[n] = IF n \in S THEN Ingest(f[n - 1], n) ELSE f[n - 1]
       /\ IngestAll(c, S) = f[MaxSeq]
  BY IngestAllIs
<1> DEFINE Good == {n \in 0..MaxSeq : Bursts(c, f[n])}
<1>1. MaxSeq \in Nat /\ Seqs = 1..MaxSeq
  BY Constants
<1>2. ASSUME NEW n \in 1..MaxSeq, n - 1 \in Good
      PROVE  n \in Good
  <2>1. f[n - 1] \in Clients /\ f[n] \in Clients /\ n \in Seqs /\ n \in 0..MaxSeq
    BY <1>1
  <2>2. Bursts(f[n - 1], f[n])
    <3>1. CASE n \in S
      BY <2>1, <3>1, IngestBursts
    <3>2. CASE n \notin S
      BY <2>1, <3>2, BurstsNothing
    <3> QED BY <3>1, <3>2
  <2>3. Bursts(c, f[n])
    BY <1>2, <2>1, <2>2, BurstsJoin
  <2> QED BY <2>1, <2>3
<1>3. 0 \in Good
  BY <1>1, BurstsNothing
<1> HIDE DEF Good
<1>4. 0..MaxSeq \subseteq Good
  BY <1>1, <1>2, <1>3, UpTo
<1>5. MaxSeq \in Good
  BY <1>1, <1>4
<1> QED BY <1>5 DEF Good

LEMMA NewQueueTidy ==
  ASSUME NEW n \in 0..MaxSeq
  PROVE  Tidy(NewQueue(n))
<1>1. NewQueue(n) \in Queues /\ NewQueue(n).buffer = {}
  BY DEF NewQueue, Queues
<1>2. Cardinality({}) = 0
  BY FS_EmptySet
<1> QED BY <1>1, <1>2, Constants DEF Tidy

LEMMA BaselineType ==
  ASSUME NEW f, f.last \in 0..MaxSeq, f.backlog \in SUBSET Seqs
  PROVE  /\ Baseline(f) \in 0..MaxSeq
         /\ f.backlog = {} => Baseline(f) = f.last
         /\ f.backlog # {} =>
              \E b \in f.backlog : Baseline(f) = b - 1 /\ \A s \in f.backlog : b <= s
<1>1. CASE f.backlog = {}
  BY <1>1 DEF Baseline
<1>2. CASE f.backlog # {}
  <2>1. f.backlog \in SUBSET (0..MaxSeq) /\ MaxSeq \in Nat
    BY Constants
  <2>2. Lowest(f.backlog) \in f.backlog /\ \A s \in f.backlog : Lowest(f.backlog) <= s
    BY <1>2, <2>1, LowestExists
  <2>3. Baseline(f) = Lowest(f.backlog) - 1 /\ Lowest(f.backlog) \in 1..MaxSeq
    BY <1>2, <2>2, Constants DEF Baseline
  <2> HIDE DEF Baseline
  <2>4. Baseline(f) \in 0..MaxSeq
    BY <2>1, <2>3
  <2> QED BY <1>2, <2>2, <2>3, <2>4
<1> QED BY <1>1, <1>2

LEMMA ResetIs ==
  ASSUME NEW q \in Queues, NEW n
  PROVE  Reset(q, n) = NewQueue(n)
<1>1. q \in [delivered : 0..MaxSeq, buffer : SUBSET Seqs]
  BY DEF Queues
<1>2. Reset(q, n) \in [delivered : {n}, buffer : {{}}]
  BY <1>1 DEF Reset
<1>3. NewQueue(n) \in [delivered : {n}, buffer : {{}}]
  BY DEF NewQueue
<1>4. \A r, t \in [delivered : {n}, buffer : {{}}] : r = t
  OBVIOUS
<1> QED BY <1>2, <1>3, <1>4

\* A joined frame that does not place the queue grows it.
LEMMA HandleJoinedGrows ==
  ASSUME NEW c \in Clients, NEW f, f.last \in 0..MaxSeq, f.backlog \in SUBSET Seqs
  PROVE  /\ HandleJoined(c, f) \in Clients
         /\ ~Places(c, f) =>
              Grown(c.view.queue, HandleJoined(c, f).view.queue, f.backlog)
<1> DEFINE placed == IF Places(c, f) THEN Reset(c.view.queue, Baseline(f)) ELSE c.view.queue
           d == [c EXCEPT !.view.queue = placed, !.view.firstJoin = FALSE]
<1>1. /\ c.view \in Views /\ Tidy(c.view.queue) /\ c.view.queue \in Queues
      /\ c \in [view : Views, shown : [Seqs -> Nat], lost : SUBSET Seqs]
  BY DEF Clients, Tidy
<1>2. Reset(c.view.queue, Baseline(f)) = NewQueue(Baseline(f))
  BY <1>1, ResetIs
<1>3. Tidy(placed) /\ (~Places(c, f) => placed = c.view.queue)
  BY <1>1, <1>2, BaselineType, NewQueueTidy
<1>4. placed \in Queues
  BY <1>3 DEF Tidy
<1>5. HandleJoined(c, f) = IngestAll(d, f.backlog)
  BY DEF HandleJoined
<1> HIDE DEF placed
<1>6. d \in [view : Views, shown : [Seqs -> Nat], lost : SUBSET Seqs] /\ d.view.queue = placed
  BY <1>1, <1>4 DEF Views
<1>7. d \in Clients /\ d.view.queue = placed
  BY <1>3, <1>6 DEF Clients
<1> HIDE DEF d
<1>8. IngestAll(d, f.backlog) \in Clients
      /\ Grown(placed, IngestAll(d, f.backlog).view.queue, f.backlog)
  BY <1>7, IngestAllGrows
<1> QED BY <1>3, <1>5, <1>8

\* A joined frame that does not place the queue renders a burst.
LEMMA HandleJoinedBursts ==
  ASSUME NEW c \in Clients, NEW f, f.backlog \in SUBSET Seqs, ~Places(c, f)
  PROVE  Bursts(c, HandleJoined(c, f))
<1> DEFINE d == [c EXCEPT !.view.queue = c.view.queue, !.view.firstJoin = FALSE]
<1>1. /\ c.view \in Views /\ Tidy(c.view.queue)
      /\ c \in [view : Views, shown : [Seqs -> Nat], lost : SUBSET Seqs]
  BY DEF Clients
<1>2. HandleJoined(c, f) = IngestAll(d, f.backlog)
  BY DEF HandleJoined
<1>3. /\ d \in [view : Views, shown : [Seqs -> Nat], lost : SUBSET Seqs]
      /\ d.view.queue = c.view.queue /\ d.shown = c.shown /\ d.lost = c.lost
  BY <1>1 DEF Views
<1> HIDE DEF d
<1>4. d \in Clients
  BY <1>1, <1>3 DEF Clients
<1>5. Bursts(d, IngestAll(d, f.backlog))
  BY <1>4, IngestAllBursts
<1> QED BY <1>2, <1>3, <1>5 DEF Bursts

\* What ForceRelease leaves, of a queue as every call leaves it.
LEMMA ForceReleaseGrows ==
  ASSUME NEW q, Tidy(q)
  PROVE  /\ Tidy(ForceRelease(q).queue)
         /\ Grown(q, ForceRelease(q).queue, {})
         /\ ForceRelease(q).released = q.buffer
<1>1. q \in Queues /\ q.delivered \in 0..MaxSeq /\ q.buffer \in SUBSET (1..MaxSeq)
  BY Constants DEF Tidy, Queues
<1> DEFINE S == q.buffer \cup {q.delivered}
<1>2. S \in SUBSET (0..MaxSeq) /\ S # {} /\ MaxSeq \in Nat
  BY <1>1, Constants
<1>3. Highest(S) \in S /\ \A s \in S : s <= Highest(S)
  BY <1>2, HighestExists
<1>4. ForceRelease(q) = [queue |-> NewQueue(Highest(S)), released |-> q.buffer]
  BY DEF ForceRelease
<1>5. Tidy(NewQueue(Highest(S)))
  BY <1>2, <1>3, NewQueueTidy
<1>6. NewQueue(Highest(S)).delivered = Highest(S)
  BY DEF NewQueue
<1>7. Grown(q, NewQueue(Highest(S)), {})
  <2>1. Highest(S) >= q.delivered /\ Highest(S) \in Int
    BY <1>1, <1>2, <1>3
  <2>2. \A s \in Seqs : IsDuplicate(q, s) => s <= Highest(S)
    <3> TAKE s \in Seqs
    <3>1. s \in q.buffer => s <= Highest(S)
      BY <1>3
    <3>2. s <= q.delivered => s <= Highest(S)
      BY <1>1, <2>1, Constants
    <3> QED BY <3>1, <3>2 DEF IsDuplicate
  <2> HIDE DEF S
  <2> QED BY <1>6, <2>1, <2>2 DEF Grown, IsDuplicate
<1> HIDE DEF S
<1> QED BY <1>4, <1>5, <1>7

(***************************************************************************)
(* The client: types.                                                      *)
(***************************************************************************)
LEMMA HereType ==
  ASSUME TypeOK, Tidy(view.queue)
  PROVE  Here \in Clients /\ Here.view = view
BY DEF TypeOK, Here, Clients

LEMMA BecomeType ==
  ASSUME NEW c \in Clients, Become(c)
  PROVE  /\ view' \in Views /\ shown' \in [Seqs -> Nat] /\ lost' \in SUBSET Seqs
         /\ Tidy(view'.queue) /\ view' = c.view
BY DEF Become, Clients

\* What Receive does to the queue.
LEMMA ReceiveIs ==
  ASSUME TypeOK, Tidy(view.queue), Receive
  PROVE  \E f \in Frames :
           /\ frames # <<>> /\ f = Head(frames) /\ frames' = Tail(frames)
           /\ \E c \in Clients : Become(c)
           /\ \/ /\ f.frame # "joined" /\ active' = active /\ asked' = asked
                 /\ f.seq \in Seqs /\ Grown(view.queue, view'.queue, {f.seq})
              \/ /\ f.frame = "joined" /\ active' = TRUE
                 /\ \/ asked' = {}
                    \/ asked' = asked /\ Grown(view.queue, view'.queue, f.backlog)
<1> DEFINE f == Head(frames)
<1>1. frames # <<>> /\ frames' = Tail(frames) /\ f \in Frames
  BY HeadTailProperties DEF Receive, Arrive, TypeOK, FeedTypeOK
<1>2. Here \in Clients /\ Here.view = view
  BY HereType
<1>3. CASE f \in [frame : {"message", "resent"}, seq : Seqs]
  <2>1. f.frame # "joined" /\ f.seq \in Seqs
    BY <1>3
  <2>2. Become(Ingest(Here, f.seq)) /\ active' = active /\ asked' = asked
    BY <2>1 DEF Receive
  <2>3. Ingest(Here, f.seq) \in Clients /\ Grown(view.queue, Ingest(Here, f.seq).view.queue, {f.seq})
    BY <1>2, <2>1, IngestGrows
  <2> QED BY <1>1, <2>1, <2>2, <2>3, BecomeType
<1>4. CASE f \in [frame : {"joined"}, last : 0..MaxSeq, backlog : SUBSET Seqs]
  <2>1. f.frame = "joined" /\ f.last \in 0..MaxSeq /\ f.backlog \in SUBSET Seqs
    BY <1>4
  <2>2. /\ Become(HandleJoined(Here, f)) /\ active' = TRUE
        /\ asked' = IF Places(Here, f) THEN {} ELSE asked
    BY <2>1 DEF Receive
  <2>3. /\ HandleJoined(Here, f) \in Clients
        /\ ~Places(Here, f) => Grown(view.queue, HandleJoined(Here, f).view.queue, f.backlog)
    BY <1>2, <2>1, HandleJoinedGrows
  <2> QED BY <1>1, <2>1, <2>2, <2>3, BecomeType
<1> QED BY <1>1, <1>3, <1>4 DEF Frames

\* A step of the client is a step at the end of its feed.
LEMMA NextIsFeedStep ==
  ASSUME TypeOK, [Next]_vars
  PROVE  FeedStep \/ EndStep \/ UNCHANGED feed
<1> DEFINE join == [cmd |-> "join", seq |-> view.queue.delivered]
           resync == [cmd |-> "resync", seq |-> view.queue.delivered]
<1>1. join \in Cmds /\ resync \in Cmds /\ [cmd |-> "leave"] \in Cmds
  BY DEF TypeOK, Views, Queues, Cmds
<1>2. <<>> \in Seq(Cmds) /\ <<join>> \in Seq(Cmds)
  BY <1>1, EmptySeq
<1>3. CASE Reconnect
  <2>1. \E first \in Seq(Cmds) : Connect(first)
    BY <1>2, <1>3 DEF Reconnect
  <2> QED BY <2>1 DEF EndStep
<1>4. CASE TypeJoin \/ TypeLeave \/ AskResync
  <2>1. \E c \in Cmds : Type(c) \/ (Command(c) /\ UNCHANGED typed)
    BY <1>1, <1>4 DEF TypeJoin, TypeLeave, AskResync
  <2> QED BY <2>1 DEF EndStep
<1>5. CASE Fed \/ Receive \/ NoteResync \/ GiveUp \/ UNCHANGED vars
  BY <1>5 DEF Fed, Receive, NoteResync, GiveUp, EndStep, vars
<1> QED BY <1>3, <1>4, <1>5 DEF Next

LEMMA ClientTypeOK ==
  ASSUME TypeOK, Tidy(view.queue), Next
  PROVE  /\ active' \in BOOLEAN /\ view' \in Views /\ watchdog' \in {"asleep", "sending", "cut"}
         /\ shown' \in [Seqs -> Nat] /\ lost' \in SUBSET Seqs /\ asked' \in SUBSET Seqs
         /\ Tidy(view'.queue)
<1> USE DEF TypeOK
<1>1. CASE Fed \/ Reconnect
  BY <1>1 DEF Fed, client, Reconnect
<1>2. CASE Receive
  <2>1. watchdog' = watchdog
    BY <1>2 DEF Receive
  <2>2. active' \in BOOLEAN /\ asked' \in SUBSET Seqs /\ \E c \in Clients : Become(c)
    BY <1>2, ReceiveIs
  <2> QED BY <2>1, <2>2, BecomeType
<1>3. CASE TypeJoin \/ TypeLeave
  BY <1>3 DEF TypeJoin, TypeLeave
<1>4. CASE AskResync
  <2>1. Reach \in SUBSET Seqs
    BY DEF Reach, FeedTypeOK
  <2> QED BY <1>4, <2>1 DEF AskResync
<1>5. CASE NoteResync
  <2>1. view' \in Views /\ view'.queue = view.queue
    BY <1>5 DEF NoteResync, Views
  <2> QED BY <1>5, <2>1 DEF NoteResync
<1>6. CASE GiveUp
  <2> DEFINE r == ForceRelease(view.queue)
             v == [view EXCEPT !.queue = r.queue, !.gapOpen = FALSE, !.resyncSent = FALSE]
  <2>1. Tidy(r.queue) /\ r.queue \in Queues /\ view.queue \in Queues
    BY ForceReleaseGrows DEF Tidy
  <2>2. /\ view' = v /\ shown' = CountShown(shown, r.released)
        /\ lost' = lost \cup SteppedOver(view.queue, r)
        /\ active' = active /\ watchdog' = watchdog /\ asked' = asked
    BY <1>6 DEF GiveUp, Become
  <2>3. v \in Views /\ v.queue = r.queue
    <3> HIDE DEF r
    <3> QED BY <2>1 DEF Views
  <2>4. shown' \in [Seqs -> Nat]
    BY <2>2, CountShownType
  <2>5. lost' \in SUBSET Seqs
    BY <2>1, <2>2, SteppedOverType
  <2> HIDE DEF r, v
  <2> QED BY <2>1, <2>2, <2>3, <2>4, <2>5
<1> QED BY <1>1, <1>2, <1>3, <1>4, <1>5, <1>6 DEF Next

LEMMA NextTypeOK ==
  ASSUME TypeOK, FeedInv, Tidy(view.queue), [Next]_vars
  PROVE  TypeOK' /\ FeedInv' /\ Tidy(view.queue)'
<1>1. FeedInv'
  BY NextIsFeedStep, NextFeedInv
<1>2. CASE Next
  BY <1>1, <1>2, ClientTypeOK DEF TypeOK, FeedInv
<1>3. CASE UNCHANGED vars
  BY <1>1, <1>3 DEF TypeOK, FeedInv, vars, client
<1> QED BY <1>1, <1>2, <1>3

(***************************************************************************)
(* What the client asked for: it stays stored, and its answer stays under  *)
(* way until the client has it, the connection is lost or the query fails. *)
(***************************************************************************)
Elsewhere ==
  \/ Take \/ \E s \in Seqs : Publish(s) \/ Save(s) \/ Burn(s) \/ LoseSave(s)
  \/ Listen \/ BreakLink \/ Forward

LEMMA ElsewhereSteps ==
  ASSUME Elsewhere
  PROVE  op' = op /\ commands' = commands
BY DEF Elsewhere, Take, Publish, Save, Burn, LoseSave, Listen, BreakLink, Forward,
   session, wire

LEMMA StoredStays ==
  ASSUME FeedStep \/ EndStep \/ UNCHANGED feed
  PROVE  stored \subseteq stored'
BY DEF FeedStep, EndStep, Take, Publish, Save, Burn, LoseSave, Listen, BreakLink,
   Forward, Serve, ServeJoin, ReadCurrent, ReadBacklog, SendJoined, ServeResync,
   SendResync, ServeLeave, Drop, Query, Connect, Type, Command, Arrive, feed, room

LEMMA FramesKept ==
  ASSUME FeedTypeOK, FeedStep, ~Drop
  PROVE  Range(frames) \subseteq Range(frames')
<1>1. \A f \in Frames : Range(Append(frames, f)) = Range(frames) \cup {f}
  BY RangeAppend DEF FeedTypeOK
<1> QED BY <1>1, AppendsFrames

LEMMA ServedCommand ==
  ASSUME FeedTypeOK, commands # <<>>, commands' = Tail(commands), NEW c \in Range(commands)
  PROVE  c = Head(commands) \/ c \in Range(commands')
BY RangeHeadTail DEF FeedTypeOK

LEMMA ServeResyncAnswers ==
  ASSUME FeedTypeOK, ServeResync, ~ResyncFails, NEW s \in stored, Answering(s)
  PROVE  Answering(s)'
<1>1. /\ op.at = "idle" /\ commands # <<>> /\ commands' = Tail(commands)
      /\ Head(commands).cmd = "resync" /\ frames' = frames
  BY DEF ServeResync, Pending
<1>2. Head(commands).seq \in 0..MaxSeq
  BY <1>1, HeadCmd
<1> PICK read \in {{}, Backlog(Head(commands).seq)} :
      /\ Query(Head(commands).seq, read)
      /\ op' = [NoOperation EXCEPT !.at = "sending", !.backlog = read]
  BY DEF ServeResync
<1>3. op'.at = "sending" /\ op'.backlog = read
  BY DEF NoOperation
<1>4. read = Backlog(Head(commands).seq)
  BY <1>1, <1>3 DEF Query, ResyncFails
<1>5. CASE \E f \in Range(frames) : f.frame = "resent" /\ f.seq = s
  BY <1>1, <1>5 DEF Answering
<1>6. ASSUME NEW c \in Range(commands), c.cmd = "resync", c.seq < s, s <= c.seq + Limit
      PROVE  Answering(s)'
  <2>1. CASE c = Head(commands)
    <3>1. s \in op'.backlog
      BY <1>2, <1>3, <1>4, <1>6, <2>1, BacklogReaches
    <3> QED BY <1>3, <3>1 DEF Answering
  <2>2. CASE c \in Range(commands')
    BY <1>6, <2>2 DEF Answering
  <2> QED BY <1>1, <2>1, <2>2, ServedCommand
<1> QED BY <1>1, <1>5, <1>6 DEF Answering

LEMMA SendResyncAnswers ==
  ASSUME FeedTypeOK, SendResync, NEW s, Answering(s)
  PROVE  Answering(s)'
<1>1. commands' = commands /\ op.at = "sending" /\ op \in Operations
  BY DEF SendResync, FeedTypeOK
<1>2. Range(frames) \subseteq Range(frames')
  BY FramesKept DEF FeedStep, Serve, SendResync, Drop
<1>3. ASSUME s \in op.backlog
      PROVE  Answering(s)'
  <2> DEFINE f == [frame |-> "resent", seq |-> Lowest(op.backlog)]
  <2>1. frames' = Append(frames, f) /\ op' = [op EXCEPT !.backlog = @ \ {Lowest(@)}]
    BY <1>3 DEF SendResync
  <2>2. op'.at = "sending" /\ op'.backlog = op.backlog \ {Lowest(op.backlog)}
    BY <1>1, <2>1 DEF Operations
  <2>3. CASE s # Lowest(op.backlog)
    BY <1>3, <2>2, <2>3 DEF Answering
  <2>4. CASE s = Lowest(op.backlog)
    <3>1. f \in Frames
      <4>1. s \in Seqs
        BY <1>1, <1>3 DEF Operations
      <4> QED BY <2>4, <4>1 DEF Frames
    <3>2. f.frame = "resent" /\ f.seq = s
      BY <2>4
    <3> HIDE DEF f
    <3>3. f \in Range(frames')
      BY <2>1, <3>1, RangeAppend DEF FeedTypeOK
    <3> QED BY <3>2, <3>3 DEF Answering
  <2> QED BY <2>3, <2>4
<1> QED BY <1>1, <1>2, <1>3 DEF Answering

LEMMA FeedAnswers ==
  ASSUME FeedTypeOK, FeedStep, online', ~ResyncFails, NEW s \in stored, Answering(s)
  PROVE  Answering(s)'
<1>1. ~Drop
  BY DEF Drop
<1>2. Range(frames) \subseteq Range(frames')
  BY <1>1, FramesKept
<1>3. CASE Elsewhere
  BY <1>2, <1>3, ElsewhereSteps DEF Answering
<1>4. CASE ServeJoin \/ ServeLeave
  <2>1. /\ op.at = "idle" /\ commands # <<>> /\ commands' = Tail(commands)
        /\ Head(commands).cmd # "resync"
    BY <1>4 DEF ServeJoin, ServeLeave, Pending
  <2>2. \A c \in Range(commands) : c.cmd = "resync" => c \in Range(commands')
    BY <2>1, ServedCommand
  <2> QED BY <1>2, <2>1, <2>2 DEF Answering
<1>5. CASE ReadCurrent \/ ReadBacklog \/ SendJoined
  <2>1. op.at # "sending" /\ commands' = commands
    BY <1>5 DEF ReadCurrent, ReadBacklog, SendJoined, wire
  <2> QED BY <1>2, <2>1 DEF Answering
<1> QED
  BY <1>1, <1>3, <1>4, <1>5, ServeResyncAnswers, SendResyncAnswers
     DEF FeedStep, Serve, Elsewhere

LEMMA NextAsked ==
  ASSUME IInv, [Next]_vars
  PROVE  AskedInv' /\ (~online => asked = {})'
<1>1. /\ TypeOK /\ FeedTypeOK /\ Tidy(view.queue) /\ AskedInv /\ (~online => asked = {})
      /\ view \in Views /\ asked \in SUBSET Seqs
  BY DEF IInv, TypeOK
<1>2. stored \subseteq stored'
  BY <1>1, NextIsFeedStep, StoredStays
<1>3. ASSUME asked' = {}
      PROVE  AskedInv' /\ (~online => asked = {})'
  BY <1>3 DEF AskedInv
<1>4. CASE Fed
  <2>1. CASE ~online' \/ ResyncFails
    BY <1>3, <1>4, <2>1 DEF Fed
  <2>2. CASE online' /\ ~ResyncFails
    <3>1. FeedStep /\ asked' = asked /\ view' = view
      BY <1>4, <2>2 DEF Fed
    <3>2. \A s \in stored : Answering(s) => Answering(s)'
      BY <1>1, <2>2, <3>1, FeedAnswers
    <3> QED BY <1>1, <1>2, <2>2, <3>1, <3>2 DEF AskedInv
  <2> QED BY <2>1, <2>2
<1>5. CASE Receive
  <2> PICK f \in Frames :
        /\ frames # <<>> /\ f = Head(frames) /\ frames' = Tail(frames)
        /\ \/ /\ f.frame # "joined" /\ asked' = asked
              /\ f.seq \in Seqs /\ Grown(view.queue, view'.queue, {f.seq})
           \/ /\ f.frame = "joined"
              /\ \/ asked' = {}
                 \/ asked' = asked /\ Grown(view.queue, view'.queue, f.backlog)
    BY <1>1, <1>5, ReceiveIs
  <2>1. commands' = commands /\ op' = op /\ online' = online
    BY <1>5 DEF Receive, Arrive, session
  <2>2. Range(frames) = {f} \cup Range(frames')
    BY <1>1, RangeHeadTail DEF FeedTypeOK
  <2>3. ASSUME asked' = asked
        PROVE  AskedInv' /\ (~online => asked = {})'
    <3>1. ASSUME NEW s \in asked
          PROVE  IsDuplicate(view'.queue, s) \/ Answering(s)'
      <4>1. \A t \in Seqs : IsDuplicate(view.queue, t) => IsDuplicate(view'.queue, t)
        BY <1>3, <2>3, <3>1 DEF Grown
      <4>2. f.frame = "resent" /\ f.seq = s => IsDuplicate(view'.queue, s)
        BY <2>3, <3>1 DEF Grown
      <4>3. Answering(s) => Answering(s)' \/ (f.frame = "resent" /\ f.seq = s)
        BY <2>1, <2>2 DEF Answering
      <4> QED BY <1>1, <3>1, <4>1, <4>2, <4>3 DEF AskedInv
    <3> QED BY <1>1, <1>2, <2>1, <2>3, <3>1 DEF AskedInv
  <2> QED BY <1>3, <2>3
<1>6. CASE AskResync
  <2> DEFINE c == [cmd |-> "resync", seq |-> view.queue.delivered]
  <2>1. c \in Cmds /\ c.cmd = "resync" /\ c.seq = view.queue.delivered
    BY <1>1 DEF Views, Queues, Cmds
  <2>2. /\ online /\ online' = online /\ asked' = Reach /\ stored' = stored
        /\ commands' = Append(commands, c)
    BY <1>6 DEF AskResync, Command, room
  <2> HIDE DEF c
  <2>3. c \in Range(commands')
    BY <1>1, <2>1, <2>2, RangeAppend DEF FeedTypeOK
  <2>4. \A s \in Reach : c.seq < s /\ s <= c.seq + Limit /\ s \in stored
    BY <2>1 DEF Reach
  <2> QED BY <2>1, <2>2, <2>3, <2>4 DEF AskedInv, Answering
<1>7. CASE TypeJoin \/ TypeLeave
  <2>1. \E c \in Cmds : Type(c)
    <3>1. [cmd |-> "join", seq |-> view.queue.delivered] \in Cmds /\ [cmd |-> "leave"] \in Cmds
      BY <1>1 DEF Views, Queues, Cmds
    <3> QED BY <1>7, <3>1 DEF TypeJoin, TypeLeave
  <2>2. Range(commands) \subseteq Range(commands')
    <3>1. \A c \in Cmds : Range(Append(commands, c)) = Range(commands) \cup {c}
      BY <1>1, RangeAppend DEF FeedTypeOK
    <3> QED BY <2>1, <3>1 DEF Type, Command
  <2>3. /\ op' = op /\ frames' = frames /\ online' = online
        /\ view' = view /\ asked' = asked
    BY <1>7, <2>1 DEF TypeJoin, TypeLeave, Type, Command, session
  <2>4. \A s \in asked : Answering(s) => Answering(s)'
    BY <2>2, <2>3 DEF Answering
  <2> QED BY <1>1, <1>2, <2>3, <2>4 DEF AskedInv
<1>8. CASE Reconnect
  BY <1>1, <1>3, <1>8 DEF Reconnect, Connect, client
<1>9. CASE NoteResync \/ GiveUp \/ UNCHANGED vars
  <2>1. UNCHANGED feed /\ asked' = asked
    BY <1>9 DEF NoteResync, GiveUp, vars, client
  <2>2. \A t \in Seqs : IsDuplicate(view.queue, t) => IsDuplicate(view'.queue, t)
    <3>1. CASE GiveUp
      <4>1. view'.queue = ForceRelease(view.queue).queue
        BY <1>1, <3>1 DEF GiveUp, Become, Views
      <4> QED BY <1>1, <4>1, ForceReleaseGrows DEF Grown
    <3>2. CASE NoteResync \/ UNCHANGED vars
      <4>1. view'.queue = view.queue
        BY <1>1, <3>2 DEF NoteResync, Views, vars, client
      <4> QED BY <4>1
    <3> QED BY <1>9, <3>1, <3>2
  <2>3. /\ online' = online /\ stored' = stored
        /\ \A s \in asked : Answering(s) => Answering(s)'
    BY <2>1 DEF feed, room, session, wire, Answering
  <2> QED BY <1>1, <2>1, <2>2, <2>3 DEF AskedInv
<1> QED BY <1>4, <1>5, <1>6, <1>7, <1>8, <1>9 DEF Next

(***************************************************************************)
(* The theorems.                                                           *)
(***************************************************************************)
LEMMA InitIInv ==
  ASSUME Init
  PROVE  IInv
<1>1. /\ FeedInit /\ asked = {} /\ lost = {} /\ shown = [s \in Seqs |-> 0]
      /\ active = TRUE /\ watchdog = "asleep"
  BY DEF Init
<1>2. view = [queue |-> NewQueue(0), firstJoin |-> TRUE, gapOpen |-> FALSE, resyncSent |-> FALSE]
  BY DEF Init
<1>3. Tidy(NewQueue(0)) /\ NewQueue(0) \in Queues
  BY NewQueueTidy, Constants DEF Tidy
<1>4. view \in Views /\ view.queue = NewQueue(0)
  BY <1>2, <1>3 DEF Views
<1>5. FeedInv /\ FeedTypeOK
  BY <1>1, InitFeedInv DEF FeedInv
<1>6. TypeOK
  BY <1>1, <1>4, <1>5, Constants DEF TypeOK
<1>7. AskedInv
  BY <1>1 DEF AskedInv
<1> QED BY <1>1, <1>3, <1>4, <1>5, <1>6, <1>7 DEF IInv

\* What the client and its feed keep.
THEOREM Inductive == Spec => []IInv
<1>1. Init => IInv
  BY InitIInv
<1>2. IInv /\ [Next]_vars => IInv'
  BY NextTypeOK, NextAsked DEF IInv
<1> QED BY <1>1, <1>2, PTL DEF Spec

\* Every value of the client, of its session and of the wire has its type.
THEOREM TypeCorrect == Spec => []TypeOK
<1>1. IInv => TypeOK
  BY DEF IInv
<1> QED BY <1>1, Inductive, PTL

\* _backlog_contiguo: what the backlog of a join leaves out, within its limit
\* and up to the counter the join read, is not in the history and never will
\* be, unless the last query failed.
THEOREM Covers == Spec => []BacklogCovers
<1>1. IInv => BacklogCovers
  BY DEF IInv, FeedInv
<1> QED BY <1>1, Inductive, PTL

\* _gap_watchdog: what the answer to its resync could have brought, it does not
\* give up, whatever the room, the session and the user do meanwhile.
THEOREM GivesUp == Spec => GivesUpWhatDidNotCome
<1>1. ASSUME IInv, GiveUp, AnswersInTime
      PROVE  (lost' \ lost) \cap asked = {}
  <2>1. CASE ~online
    BY <1>1, <2>1 DEF IInv
  <2>2. CASE online
    <3>1. ~Awaited /\ TypeOK /\ Tidy(view.queue)
      BY <1>1, <2>2 DEF GiveUp, IInv
    <3>2. \A s \in asked : IsDuplicate(view.queue, s)
      BY <1>1, <3>1 DEF Awaited, Answering, IInv, AskedInv
    <3>3. lost' \ lost \subseteq SteppedOver(view.queue, ForceRelease(view.queue))
      BY <1>1 DEF GiveUp, Become
    <3>4. \A s \in lost' \ lost : ~IsDuplicate(view.queue, s)
      <4>1. ForceRelease(view.queue).released = view.queue.buffer
        BY <3>1, ForceReleaseGrows
      <4>2. view.queue.delivered \in Int /\ ForceRelease(view.queue).queue.delivered \in Int
        BY <3>1, ForceReleaseGrows, Constants DEF Tidy, Queues
      <4>3. \A s \in Expected(view.queue)..ForceRelease(view.queue).queue.delivered :
              ~(s <= view.queue.delivered)
        BY <4>2 DEF Expected
      <4> QED BY <3>3, <4>1, <4>3 DEF SteppedOver, IsDuplicate
    <3> QED BY <3>2, <3>4
  <2> QED BY <2>1, <2>2
<1>2. IInv /\ [Next]_vars =>
        [GiveUp /\ AnswersInTime => (lost' \ lost) \cap asked = {}]_vars
  BY <1>1
<1> QED BY <1>2, Inductive, PTL DEF Spec, GivesUpWhatDidNotCome

(***************************************************************************)
(* What the terminal renders.                                              *)
(***************************************************************************)
\* A burst of the terminal is one of OrderedDelivery, or nothing.
LEMMA TerminalBurst ==
  ASSUME TypeOK, Tidy(view.queue), NEW c \in Clients, Become(c), Bursts(Here, c)
  PROVE  [Terminal!Release]_(Terminal!vars)
<1> PICK m, n, old, new :
      /\ m = view.queue.delivered /\ n = view'.queue.delivered
      /\ old = shown /\ new = shown'
  OBVIOUS
<1>1. /\ m \in 0..MaxSeq /\ old \in [Seqs -> Nat]
      /\ n \in 0..MaxSeq /\ new \in [Seqs -> Nat]
      /\ n = c.view.queue.delivered /\ new = c.shown
  BY ClientNumbers, Constants DEF TypeOK, Views, Queues, Become
<1>2. Here.view.queue.delivered = m /\ Here.shown = old /\ Here.lost = lost
  BY DEF Here
<1>3. Rises(m, n, old, new) /\ lost' = lost \cup Passed(m, n, old, new)
  BY <1>1, <1>2 DEF Bursts, Become
<1>4. CASE n = m
  <2>1. new = old /\ Passed(m, n, old, new) = {}
    BY <1>1, <1>3, <1>4, RisesIs
  <2> QED BY <1>3, <1>4, <2>1 DEF Terminal!vars
<1>5. CASE n # m
  <2> DEFINE burst == Rendered(old, new)
             passed == Passed(m, n, old, new)
  <2>1. /\ n > m /\ n \in Seqs /\ n \in burst /\ burst \subseteq m + 1..n
        /\ passed = (m + 1..n) \ burst
        /\ \A s \in Seqs : new[s] = IF s \in burst THEN old[s] + 1 ELSE old[s]
    BY <1>1, <1>3, <1>5, RisesIs
  <2>2. lost' = lost \cup passed
    BY <1>3
  <2> HIDE DEF burst, passed
  <2>3. new = [s \in Seqs |-> IF s \in burst THEN old[s] + 1 ELSE old[s]]
    BY <1>1, <2>1
  <2>4. Terminal!Release
    BY <2>1, <2>2, <2>3 DEF Terminal!Release, Terminal!Burst, Terminal!Seqs, Seqs
  <2> QED BY <2>4
<1> QED BY <1>4, <1>5

LEMMA ReceiveRenders ==
  ASSUME TypeOK, Tidy(view.queue), Receive
  PROVE  [Terminal!Release]_(Terminal!vars) \/ Repositions
<1> DEFINE f == Head(frames)
<1>1. frames # <<>> /\ frames' = Tail(frames) /\ f \in Frames
  BY HeadTailProperties DEF Receive, Arrive, TypeOK, FeedTypeOK
<1>2. Here \in Clients
  BY HereType
<1>3. CASE f \in [frame : {"message", "resent"}, seq : Seqs]
  <2>1. f.frame # "joined" /\ f.seq \in Seqs
    BY <1>3
  <2>2. Become(Ingest(Here, f.seq))
    BY <2>1 DEF Receive
  <2>3. Ingest(Here, f.seq) \in Clients /\ Bursts(Here, Ingest(Here, f.seq))
    BY <1>2, <2>1, IngestGrows, IngestBursts
  <2> QED BY <2>2, <2>3, TerminalBurst
<1>4. CASE f \in [frame : {"joined"}, last : 0..MaxSeq, backlog : SUBSET Seqs]
  <2>1. f.frame = "joined" /\ f.last \in 0..MaxSeq /\ f.backlog \in SUBSET Seqs
    BY <1>4
  <2>2. CASE Places(Here, f)
    BY <1>1, <2>1, <2>2 DEF Repositions
  <2>3. CASE ~Places(Here, f)
    <3>1. Become(HandleJoined(Here, f))
      BY <2>1 DEF Receive
    <3>2. HandleJoined(Here, f) \in Clients /\ Bursts(Here, HandleJoined(Here, f))
      BY <1>2, <2>1, <2>3, HandleJoinedGrows, HandleJoinedBursts
    <3> QED BY <3>1, <3>2, TerminalBurst
  <2> QED BY <2>2, <2>3
<1> QED BY <1>1, <1>3, <1>4 DEF Frames

LEMMA GiveUpRenders ==
  ASSUME TypeOK, Tidy(view.queue), GiveUp
  PROVE  [Terminal!Release]_(Terminal!vars)
<1> DEFINE q == view.queue
           r == ForceRelease(q)
           v == [view EXCEPT !.queue = r.queue, !.gapOpen = FALSE, !.resyncSent = FALSE]
           sh == CountShown(shown, r.released)
           lo == lost \cup SteppedOver(q, r)
           c == [view |-> v, shown |-> sh, lost |-> lo]
<1>1. Become(c)
  BY DEF GiveUp
<1>2. /\ view \in Views /\ q \in Queues /\ shown \in [Seqs -> Nat] /\ lost \in SUBSET Seqs
      /\ Tidy(r.queue) /\ r.queue \in Queues
  BY ForceReleaseGrows DEF TypeOK, Tidy
<1>3. \A s \in q.buffer : s >= Expected(q)
  <2>1. \A s \in q.buffer : s > Expected(q) /\ s \in Int
    BY <1>2, Constants DEF Tidy, Queues
  <2>2. Expected(q) \in Int
    BY <1>2, Constants DEF Expected, Queues
  <2> QED BY <2>1, <2>2
<1>4. Sound(q, r)
  BY <1>2, <1>3, ForceReleaseSound
<1>5. /\ Rises(q.delivered, r.queue.delivered, shown, sh)
      /\ Passed(q.delivered, r.queue.delivered, shown, sh) = SteppedOver(q, r)
  BY <1>2, <1>4, SoundRises
<1>6. sh \in [Seqs -> Nat] /\ lo \in SUBSET Seqs
  BY <1>2, CountShownType, SteppedOverType
<1>7. v \in Views /\ v.queue = r.queue
  <2> HIDE DEF r, q
  <2> QED BY <1>2 DEF Views
<1>8. Here.view.queue = q /\ Here.shown = shown /\ Here.lost = lost
  BY DEF Here
<1>9. /\ c.view = v /\ c.shown = sh /\ c.lost = lost \cup SteppedOver(q, r)
      /\ (v \in Views /\ sh \in [Seqs -> Nat] /\ lo \in SUBSET Seqs =>
            c \in [view : Views, shown : [Seqs -> Nat], lost : SUBSET Seqs])
  <2> HIDE DEF v, sh, r, q
  <2> QED OBVIOUS
<1> HIDE DEF c, v, sh, lo, r
<1>10. c \in Clients
  BY <1>2, <1>6, <1>7, <1>9 DEF Clients
<1>11. Bursts(Here, c)
  BY <1>5, <1>7, <1>8, <1>9 DEF Bursts
<1> QED BY <1>1, <1>10, <1>11, TerminalBurst

\* Except where a joined frame places the queue, what the terminal renders is
\* what OrderedDelivery allows: the mark never moves back, nothing at or below
\* it is rendered, and what it steps over is counted as lost.
THEOREM RendersBursts == Spec => RendersUpward
<1>1. ASSUME IInv, [Next]_vars
      PROVE  [Terminal!Release \/ Repositions]_(Terminal!vars)
  <2>1. TypeOK /\ Tidy(view.queue)
    BY <1>1 DEF IInv
  <2>2. CASE Receive
    BY <2>1, <2>2, ReceiveRenders
  <2>3. CASE GiveUp
    BY <2>1, <2>3, GiveUpRenders
  <2>4. CASE Fed \/ Reconnect \/ TypeJoin \/ TypeLeave \/ AskResync \/ UNCHANGED vars
    BY <2>4 DEF Fed, Reconnect, TypeJoin, TypeLeave, AskResync, vars, client, Terminal!vars
  <2>5. CASE NoteResync
    <3>1. view'.queue = view.queue
      BY <2>1, <2>5 DEF NoteResync, TypeOK, Views
    <3> QED BY <2>5, <3>1 DEF NoteResync, Terminal!vars
  <2> QED BY <1>1, <2>2, <2>3, <2>4, <2>5 DEF Next
<1> QED BY <1>1, Inductive, PTL DEF Spec, RendersUpward

(***************************************************************************)
(* The web page: what it makes of a message and of a backlog.              *)
(***************************************************************************)
Pages ==
  {c \in [queue : Queues, timer : BOOLEAN, rendered : [Seqs -> Nat]] : Tidy(c.queue)}

\* Nothing above n is held or passed.
Below(q, n) == q.delivered <= n /\ q.buffer \subseteq 1..n

ShowsUpToMark(c) ==
  \A s \in Seqs : c.rendered[s] = IF s <= c.queue.delivered THEN 1 ELSE 0

LEMMA NotFull ==
  ASSUME NEW q, Tidy(q), NEW n \in Nat, Below(q, n), n <= q.delivered + MaxBuffer
  PROVE  ~IsFull(q)
<1>1. /\ MaxBuffer \in Nat /\ MaxBuffer > 0 /\ q.delivered \in Nat
      /\ \A s \in q.buffer : s \in 1..n /\ s > q.delivered + 1
  BY Constants DEF Tidy, Queues, Expected, Below
<1>2. q.buffer \subseteq q.delivered + 2..n
  BY <1>1
<1>3. Cardinality(q.delivered + 2..n) < MaxBuffer /\ IsFiniteSet(q.delivered + 2..n)
  <2>0. q.delivered + 2 \in Int /\ n \in Int
    BY <1>1
  <2>1. IsFiniteSet(q.delivered + 2..n)
        /\ Cardinality(q.delivered + 2..n) =
             IF q.delivered + 2 > n THEN 0 ELSE n - (q.delivered + 2) + 1
    <3>1. IsFiniteSet(q.delivered + 2..n)
      BY <2>0, FS_Interval
    <3>2. Cardinality(q.delivered + 2..n) =
            IF q.delivered + 2 > n THEN 0 ELSE n - (q.delivered + 2) + 1
      BY <2>0, FS_Interval
    <3> QED BY <3>1, <3>2
  <2>2. CASE q.delivered + 2 > n
    BY <1>1, <2>1, <2>2
  <2>3. CASE ~(q.delivered + 2 > n)
    <3>1. n - (q.delivered + 2) + 1 < MaxBuffer
      BY <1>1, <2>3
    <3> QED BY <2>1, <2>3, <3>1
  <2> QED BY <2>2, <2>3
<1>4. /\ Cardinality(q.buffer) <= Cardinality(q.delivered + 2..n)
      /\ Cardinality(q.buffer) \in Nat /\ Cardinality(q.delivered + 2..n) \in Nat
  BY <1>2, <1>3, FS_Subset, FS_CardinalityType
<1>5. Cardinality(q.buffer) < MaxBuffer
  BY <1>1, <1>3, <1>4
<1> QED BY <1>1, <1>4, <1>5 DEF IsFull

LEMMA OfferBelow ==
  ASSUME NEW q, Tidy(q), NEW s \in Seqs, NEW n \in Nat, s <= n, Below(q, n)
  PROVE  Below(Offer(q, s).queue, n)
<1> DEFINE r == Offer(q, s)
<1>1. Sound(q, r) /\ Keeps(q, s, r)
  BY OfferSound, OfferKeeps
<1>2. q.buffer \cup {s} \subseteq 1..n
  BY Constants DEF Below
<1>3. r.queue.buffer \subseteq 1..n /\ r.released \subseteq 1..n
  BY <1>1, <1>2 DEF Keeps
<1>4. r.queue.delivered <= n
  BY <1>1, <1>3 DEF Sound, Below
<1> QED BY <1>3, <1>4 DEF Below

LEMMA DeliverIs ==
  ASSUME NEW c \in Pages, NEW s \in Seqs
  PROVE  /\ Deliver(c, s) \in Pages
         /\ Deliver(c, s).queue = Offer(c.queue, s).queue
         /\ IsDuplicate(c.queue, s) => Deliver(c, s) = c
         /\ ~IsDuplicate(c.queue, s) =>
              Deliver(c, s).rendered = CountShown(c.rendered, Offer(c.queue, s).released)
<1> DEFINE q == c.queue
           r == Offer(q, s)
<1>1. /\ c \in [queue : Queues, timer : BOOLEAN, rendered : [Seqs -> Nat]]
      /\ Tidy(q) /\ c.timer \in BOOLEAN /\ c.rendered \in [Seqs -> Nat]
  BY DEF Pages
<1>2. Tidy(r.queue) /\ r.queue \in Queues
  BY <1>1, OfferGrows DEF Tidy
<1>3. CASE IsDuplicate(q, s)
  BY <1>3 DEF Deliver, Offer
<1>4. CASE ~IsDuplicate(q, s)
  <2> DEFINE t == r.released = {} \/ (c.timer /\ HasGap(r.queue))
             sh == CountShown(c.rendered, r.released)
  <2>1. Deliver(c, s) = [queue |-> r.queue, timer |-> t, rendered |-> sh]
    BY <1>4 DEF Deliver
  <2>2. t \in BOOLEAN /\ sh \in [Seqs -> Nat]
    BY <1>1, CountShownType
  <2> HIDE DEF t, sh, r
  <2>3. Deliver(c, s) \in Pages /\ Deliver(c, s).queue = r.queue /\ Deliver(c, s).rendered = sh
    BY <1>2, <2>1, <2>2 DEF Pages
  <2> QED BY <1>4, <2>3 DEF r, sh
<1> QED BY <1>3, <1>4

LEMMA DeliverShows ==
  ASSUME NEW c \in Pages, NEW s \in Seqs, ShowsUpToMark(c), ~IsFull(c.queue)
  PROVE  ShowsUpToMark(Deliver(c, s))
<1> DEFINE q == c.queue
           r == Offer(q, s)
<1>1. Tidy(q) /\ c.rendered \in [Seqs -> Nat]
  BY DEF Pages
<1>2. Sound(q, r) /\ r.released = Expected(q)..r.queue.delivered
  BY <1>1, OfferSound
<1>3. q.delivered \in Nat /\ r.queue.delivered \in Nat /\ r.queue.delivered >= q.delivered
  BY <1>1, <1>2, Constants DEF Sound, Tidy, Queues
<1>4. CASE IsDuplicate(q, s)
  BY <1>4, DeliverIs
<1>5. CASE ~IsDuplicate(q, s)
  <2>1. /\ Deliver(c, s).queue = r.queue
        /\ Deliver(c, s).rendered = CountShown(c.rendered, r.released)
    BY <1>5, DeliverIs
  <2> HIDE DEF r
  <2>2. ASSUME NEW t \in Seqs
        PROVE  CountShown(c.rendered, r.released)[t] = IF t <= r.queue.delivered THEN 1 ELSE 0
    <3>1. t \in Nat /\ c.rendered[t] = IF t <= q.delivered THEN 1 ELSE 0
      BY Constants DEF ShowsUpToMark
    <3>2. t \in r.released <=> q.delivered < t /\ t <= r.queue.delivered
      BY <1>2, <1>3, <3>1 DEF Expected
    <3> QED BY <1>3, <3>1, <3>2 DEF CountShown
  <2> QED BY <2>1, <2>2 DEF ShowsUpToMark
<1> QED BY <1>4, <1>5

\* The recursion of DeliverAll has a solution, which stays among the pages.
LEMMA DeliverAllIs ==
  ASSUME NEW c \in Pages, NEW S \in SUBSET Seqs
  PROVE  \E f \in [0..MaxSeq -> Pages] :
           /\ f[0] = c
           /\ \A n \in 1..MaxSeq : f[n] = IF n \in S THEN Deliver(f[n - 1], n) ELSE f[n - 1]
           /\ DeliverAll(c, S) = f[MaxSeq]
<1> DEFINE step == [n \in 1..MaxSeq |-> [d \in Pages |-> IF n \in S THEN Deliver(d, n) ELSE d]]
           Solves(f) == f = [n \in 0..MaxSeq |->
                               IF n = 0 THEN c
                               ELSE IF n \in S THEN Deliver(f[n - 1], n) ELSE f[n - 1]]
           g == CHOOSE f : Solves(f)
           Good == {n \in 0..MaxSeq : g[n] \in Pages}
<1>1. MaxSeq \in Nat /\ \A n \in 1..MaxSeq, d \in Pages : Deliver(d, n) \in Pages
  BY Constants, DeliverIs
<1>2. step \in [1..MaxSeq -> [Pages -> Pages]]
  BY <1>1
<1> HIDE DEF step, Solves, g, Good
<1>3. PICK f \in [0..MaxSeq -> Pages] :
         f[0] = c /\ \A n \in 1..MaxSeq : f[n] = step[n][f[n - 1]]
  <2>1. MaxSeq \in Nat
    BY <1>1
  <2>2. Iterations(MaxSeq, Pages, c, step) # {}
    BY <2>1, <1>2, Iterate
  <2> QED BY <2>2 DEF Iterations
<1>4. \A n \in 1..MaxSeq : n - 1 \in 0..MaxSeq /\ n # 0 /\ n \in 0..MaxSeq
  BY <1>1
<1>5. \A n \in 1..MaxSeq : f[n] = IF n \in S THEN Deliver(f[n - 1], n) ELSE f[n - 1]
  BY <1>3, <1>4 DEF step
<1>6. \A n \in 0..MaxSeq : n = 0 \/ n \in 1..MaxSeq
  BY <1>1
<1>7. Solves(f)
  BY <1>3, <1>5, <1>6 DEF Solves
<1>8. Solves(g)
  BY <1>7 DEF g
<1>9. DeliverAll(c, S) = g[MaxSeq]
  BY DEF DeliverAll, g, Solves
<1>10. g[0] = c
  BY <1>1, <1>8 DEF Solves
<1>11. \A n \in 1..MaxSeq : g[n] = IF n \in S THEN Deliver(g[n - 1], n) ELSE g[n - 1]
  BY <1>4, <1>8 DEF Solves
<1>12. 0..MaxSeq \subseteq Good
  <2>1. 0 \in Good
    BY <1>1, <1>10 DEF Good
  <2>2. \A n \in 1..MaxSeq : n - 1 \in Good => n \in Good
    BY <1>1, <1>4, <1>11 DEF Good
  <2> QED BY <1>1, <2>1, <2>2, UpTo
<1>13. g \in [0..MaxSeq -> Pages]
  BY <1>8, <1>12 DEF Solves, Good
<1> QED BY <1>9, <1>10, <1>11, <1>13

\* A backlog below n leaves the queue below n; as long as n is within the
\* reach of the buffer it is shown in order.
LEMMA DeliverAllBelow ==
  ASSUME NEW c \in Pages, NEW S \in SUBSET Seqs, NEW n \in Nat, S \subseteq 1..n,
         Below(c.queue, n)
  PROVE  /\ DeliverAll(c, S) \in Pages
         /\ Below(DeliverAll(c, S).queue, n)
         /\ ShowsUpToMark(c) /\ n <= c.queue.delivered + MaxBuffer =>
              ShowsUpToMark(DeliverAll(c, S))
<1> PICK f \in [0..MaxSeq -> Pages] :
       /\ f[0] = c
       /\ \A k \in 1..MaxSeq : f[k] = IF k \in S THEN Deliver(f[k - 1], k) ELSE f[k - 1]
       /\ DeliverAll(c, S) = f[MaxSeq]
  BY DeliverAllIs
<1> DEFINE Shows == ShowsUpToMark(c) /\ n <= c.queue.delivered + MaxBuffer
           Grows(k) == /\ Below(f[k].queue, n)
                       /\ Shows => /\ ShowsUpToMark(f[k])
                                   /\ n <= f[k].queue.delivered + MaxBuffer
           Good == {k \in 0..MaxSeq : Grows(k)}
<1>1. MaxSeq \in Nat /\ Seqs = 1..MaxSeq /\ MaxBuffer \in Nat
  BY Constants
<1>2. \A d \in Pages : Tidy(d.queue) /\ d.queue.delivered \in Nat
  BY Constants DEF Pages, Tidy, Queues
<1>3. Grows(0)
  BY <1>1
<1>4. ASSUME NEW k \in 1..MaxSeq, Grows(k - 1)
      PROVE  Grows(k)
  <2>1. f[k - 1] \in Pages /\ f[k] \in Pages /\ k \in Seqs
    BY <1>1
  <2>2. CASE k \in S
    <3>1. f[k] = Deliver(f[k - 1], k) /\ k <= n
      BY <2>2
    <3>2. f[k].queue = Offer(f[k - 1].queue, k).queue
      BY <2>1, <3>1, DeliverIs
    <3>3. Below(f[k].queue, n) /\ Grown(f[k - 1].queue, f[k].queue, {k})
      BY <1>2, <1>4, <2>1, <3>1, <3>2, OfferBelow, OfferGrows
    <3>4. ASSUME Shows
          PROVE  ShowsUpToMark(f[k]) /\ n <= f[k].queue.delivered + MaxBuffer
      <4>1. ~IsFull(f[k - 1].queue)
        BY <1>2, <1>4, <2>1, <3>4, NotFull
      <4>2. f[k].queue.delivered >= f[k - 1].queue.delivered
        BY <3>3 DEF Grown
      <4>3. n <= f[k].queue.delivered + MaxBuffer
        BY <1>1, <1>2, <1>4, <2>1, <3>4, <4>2
      <4> QED BY <1>4, <2>1, <3>1, <3>4, <4>1, <4>3, DeliverShows
    <3> QED BY <3>3, <3>4
  <2>3. CASE k \notin S
    <3>1. f[k] = f[k - 1]
      BY <2>3
    <3> QED BY <1>4, <3>1
  <2> QED BY <2>2, <2>3
<1> HIDE DEF Grows
<1>5. 0 \in Good /\ \A k \in 1..MaxSeq : k - 1 \in Good => k \in Good
  <2>1. 0 \in 0..MaxSeq /\ \A k \in 1..MaxSeq : k \in 0..MaxSeq
    BY <1>1
  <2> QED BY <2>1, <1>3, <1>4
<1> HIDE DEF Good
<1>6. 0..MaxSeq \subseteq Good
  BY <1>1, <1>5, UpTo
<1>7. Grows(MaxSeq) /\ f[MaxSeq] \in Pages
  <2>1. MaxSeq \in 0..MaxSeq
    BY <1>1
  <2> QED BY <2>1, <1>6 DEF Good
<1> QED BY <1>7 DEF Grows

(***************************************************************************)
(* Full or not, what a page releases is a burst.                           *)
(***************************************************************************)
Releases(c, d) == Rises(c.queue.delivered, d.queue.delivered, c.rendered, d.rendered)

LEMMA PageNumbers ==
  ASSUME NEW c \in Pages
  PROVE  c.queue.delivered \in 0..MaxSeq /\ c.rendered \in [Seqs -> Nat]
BY DEF Pages, Queues

LEMMA DeliverReleases ==
  ASSUME NEW c \in Pages, NEW s \in Seqs
  PROVE  Releases(c, Deliver(c, s))
<1>1. Tidy(c.queue) /\ c.queue \in Queues /\ c.rendered \in [Seqs -> Nat]
  BY DEF Pages
<1>2. CASE IsDuplicate(c.queue, s)
  <2>1. Deliver(c, s) = c
    BY <1>2, DeliverIs
  <2> QED BY <2>1, PageNumbers, RisesNothing DEF Releases
<1>3. CASE ~IsDuplicate(c.queue, s)
  <2>1. /\ Deliver(c, s).queue = Offer(c.queue, s).queue
        /\ Deliver(c, s).rendered = CountShown(c.rendered, Offer(c.queue, s).released)
    BY <1>3, DeliverIs
  <2>2. Sound(c.queue, Offer(c.queue, s))
    BY <1>1, OfferSound
  <2> QED BY <1>1, <2>1, <2>2, SoundRises DEF Releases
<1> QED BY <1>2, <1>3

LEMMA DeliverAllReleases ==
  ASSUME NEW c \in Pages, NEW S \in SUBSET Seqs
  PROVE  Releases(c, DeliverAll(c, S))
<1> PICK f \in [0..MaxSeq -> Pages] :
       /\ f[0] = c
       /\ \A n \in 1..MaxSeq : f[n] = IF n \in S THEN Deliver(f[n - 1], n) ELSE f[n - 1]
       /\ DeliverAll(c, S) = f[MaxSeq]
  BY DeliverAllIs
<1> DEFINE Good == {n \in 0..MaxSeq : Releases(c, f[n])}
<1>1. MaxSeq \in Nat /\ Seqs = 1..MaxSeq
  BY Constants
<1>2. 0 \in Good
  BY <1>1, PageNumbers, RisesNothing DEF Releases
<1>3. ASSUME NEW n \in 1..MaxSeq, n - 1 \in Good
      PROVE  n \in Good
  <2>1. /\ f[n - 1] \in Pages /\ f[n] \in Pages /\ n \in Seqs /\ n \in 0..MaxSeq
        /\ Releases(c, f[n - 1])
    BY <1>1, <1>3
  <2>2. CASE n \in S
    <3>1. Releases(f[n - 1], f[n])
      BY <2>1, <2>2, DeliverReleases
    <3>2. Releases(c, f[n])
      BY <2>1, <3>1, PageNumbers, RisesJoin DEF Releases
    <3> QED BY <2>1, <3>2
  <2>3. CASE n \notin S
    BY <2>1, <2>3
  <2> QED BY <2>2, <2>3
<1> HIDE DEF Good
<1>4. 0..MaxSeq \subseteq Good
  BY <1>1, <1>2, <1>3, UpTo
<1>5. MaxSeq \in 0..MaxSeq
  BY <1>1
<1>6. Releases(c, f[MaxSeq])
  BY <1>4, <1>5 DEF Good
<1> QED BY <1>6

(***************************************************************************)
(* What fits into the buffer makes the page step over nothing.             *)
(***************************************************************************)
Skips(c) == {s \in 1..c.queue.delivered : c.rendered[s] = 0}

LEMMA NotFullWith ==
  ASSUME NEW q, Tidy(q), NEW T \in SUBSET Seqs, Cardinality(T) <= MaxBuffer,
         q.buffer \subseteq T, NEW s \in T, s \notin q.buffer
  PROVE  ~IsFull(q)
<1>1. IsFiniteSet(T) /\ IsFiniteSet(q.buffer)
  <2>1. IsFiniteSet(1..MaxSeq)
    BY Constants, FS_Interval
  <2> QED BY <2>1, Constants, FS_Subset
<1>2. /\ Cardinality(q.buffer \cup {s}) = Cardinality(q.buffer) + 1
      /\ IsFiniteSet(q.buffer \cup {s})
  BY <1>1, FS_AddElement
<1>3. Cardinality(q.buffer \cup {s}) <= Cardinality(T)
  <2>1. q.buffer \cup {s} \subseteq T
    OBVIOUS
  <2> QED BY <1>1, <2>1, FS_Subset
<1>4. Cardinality(q.buffer) \in Nat /\ Cardinality(T) \in Nat /\ MaxBuffer \in Nat
  BY <1>1, FS_CardinalityType, Constants
<1> QED BY <1>2, <1>3, <1>4 DEF IsFull

LEMMA DeliverSkips ==
  ASSUME NEW c \in Pages, NEW s \in Seqs
  PROVE  /\ Deliver(c, s).queue.delivered >= c.queue.delivered
         /\ Deliver(c, s).queue.buffer \subseteq c.queue.buffer \cup {s}
         /\ IsDuplicate(c.queue, s) \/ ~IsFull(c.queue) => Skips(Deliver(c, s)) = Skips(c)
<1> DEFINE q == c.queue
           r == Offer(q, s)
           d == Deliver(c, s)
<1>1. /\ Tidy(q) /\ q \in Queues /\ c.rendered \in [Seqs -> Nat]
      /\ d \in Pages /\ d.queue = r.queue
  BY DeliverIs DEF Pages
<1>2. /\ Sound(q, r) /\ Keeps(q, s, r)
      /\ ~IsFull(q) => r.released = Expected(q)..r.queue.delivered
  BY <1>1, OfferSound, OfferKeeps
<1>3. q.delivered \in 0..MaxSeq /\ r.queue.delivered \in 0..MaxSeq
      /\ r.queue.delivered >= q.delivered
  BY <1>1, <1>2, PageNumbers DEF Sound
<1>4. CASE IsDuplicate(q, s)
  <2>1. d = c
    BY <1>4, DeliverIs
  <2> QED BY <1>1, <1>2, <1>3, <2>1 DEF Keeps
<1>5. CASE ~IsDuplicate(q, s)
  <2>1. d.rendered = CountShown(c.rendered, r.released)
    BY <1>5, DeliverIs
  <2> HIDE DEF r, d
  <2>2. ASSUME ~IsFull(q)
        PROVE  Skips(d) = Skips(c)
    <3>1. ASSUME NEW t \in 1..d.queue.delivered
          PROVE  /\ t \in 1..q.delivered => d.rendered[t] = c.rendered[t]
                 /\ ~(t \in 1..q.delivered) => d.rendered[t] # 0
      <4>1. t \in Seqs /\ c.rendered[t] \in Nat
        BY <1>1, <1>3, Constants
      <4>2. t \in r.released <=> ~(t \in 1..q.delivered)
        BY <1>1, <1>2, <1>3, <2>2, Constants DEF Expected
      <4> QED BY <2>1, <4>1, <4>2 DEF CountShown
    <3>2. 1..q.delivered \subseteq 1..d.queue.delivered
      BY <1>1, <1>3, Constants
    <3> QED BY <3>1, <3>2 DEF Skips
  <2>3. d.queue.delivered >= q.delivered /\ d.queue.buffer \subseteq q.buffer \cup {s}
    BY <1>1, <1>2, <1>3 DEF Keeps
  <2> QED BY <1>5, <2>2, <2>3 DEF d
<1> QED BY <1>4, <1>5

LEMMA DeliverAllSkips ==
  ASSUME NEW c \in Pages, NEW S \in SUBSET Seqs,
         Cardinality(c.queue.buffer \cup {s \in S : s > c.queue.delivered}) <= MaxBuffer
  PROVE  Skips(DeliverAll(c, S)) = Skips(c)
<1> PICK f \in [0..MaxSeq -> Pages] :
       /\ f[0] = c
       /\ \A n \in 1..MaxSeq : f[n] = IF n \in S THEN Deliver(f[n - 1], n) ELSE f[n - 1]
       /\ DeliverAll(c, S) = f[MaxSeq]
  BY DeliverAllIs
<1> DEFINE T == c.queue.buffer \cup {s \in S : s > c.queue.delivered}
           Fits(d) == /\ d.queue.delivered >= c.queue.delivered
                      /\ d.queue.buffer \subseteq T
                      /\ Skips(d) = Skips(c)
           Good == {n \in 0..MaxSeq : Fits(f[n])}
<1>1. MaxSeq \in Nat /\ Seqs = 1..MaxSeq
  BY Constants
<1>2. \A d \in Pages : d.queue.delivered \in 0..MaxSeq /\ d.queue \in Queues /\ Tidy(d.queue)
  BY PageNumbers DEF Pages
<1>3. 0 \in Good
  BY <1>1, <1>2
<1>4. ASSUME NEW n \in 1..MaxSeq, n - 1 \in Good
      PROVE  n \in Good
  <2>1. /\ f[n - 1] \in Pages /\ f[n] \in Pages /\ n \in Seqs /\ n \in 0..MaxSeq
        /\ Fits(f[n - 1])
    BY <1>1, <1>4
  <2>2. CASE n \in S
    <3>1. f[n] = Deliver(f[n - 1], n)
      BY <2>2
    <3> DEFINE q == f[n - 1].queue
    <3>2. /\ f[n].queue.delivered >= q.delivered
          /\ f[n].queue.buffer \subseteq q.buffer \cup {n}
          /\ IsDuplicate(q, n) \/ ~IsFull(q) => Skips(f[n]) = Skips(f[n - 1])
      BY <2>1, <3>1, DeliverSkips
    <3>3. CASE IsDuplicate(q, n)
      <4>1. f[n] = f[n - 1]
        BY <2>1, <3>1, <3>3, DeliverIs
      <4> QED BY <2>1, <4>1
    <3>4. CASE ~IsDuplicate(q, n)
      <4>1. n > q.delivered /\ n \notin q.buffer
        BY <1>1, <1>2, <2>1, <3>4 DEF IsDuplicate
      <4>2. n \in T
        BY <1>2, <2>1, <2>2, <4>1
      <4>3. ~IsFull(q)
        <5>1. T \in SUBSET Seqs
          BY <1>2 DEF Queues
        <5> HIDE DEF T
        <5>2. Tidy(q) /\ q.buffer \subseteq T
          BY <1>2, <2>1
        <5> HIDE DEF q
        <5>3. Cardinality(T) <= MaxBuffer
          BY DEF T
        <5> QED BY <4>1, <4>2, <5>1, <5>2, <5>3, NotFullWith
      <4>4. f[n].queue.delivered >= c.queue.delivered
        BY <1>2, <2>1, <3>2
      <4> QED BY <2>1, <3>2, <4>2, <4>3, <4>4
    <3> QED BY <3>3, <3>4
  <2>3. CASE n \notin S
    BY <2>1, <2>3
  <2> QED BY <2>2, <2>3
<1> HIDE DEF Good
<1>5. 0..MaxSeq \subseteq Good
  BY <1>1, <1>3, <1>4, UpTo
<1>6. MaxSeq \in 0..MaxSeq
  BY <1>1
<1>7. Fits(f[MaxSeq])
  BY <1>5, <1>6 DEF Good
<1> QED BY <1>7

(***************************************************************************)
(* The steps of the page.                                                  *)
(***************************************************************************)
LEMMA PageIsFeedStep ==
  ASSUME PageTypeOK, [PageNext]_pageVars
  PROVE  FeedStep \/ EndStep \/ UNCHANGED feed
<1> DEFINE resync == [cmd |-> "resync", seq |-> queue.delivered]
           join(n) == [cmd |-> "join", seq |-> n]
<1>1. resync \in Cmds /\ join(queue.delivered) \in Cmds /\ join(0) \in Cmds
  BY Constants DEF PageTypeOK, Queues, Cmds
<1>2. CASE connect
  <2>1. <<join(queue.delivered)>> \in Seq(Cmds)
    BY <1>1
  <2>2. \E first \in Seq(Cmds) : Connect(first)
    BY <1>2, <2>1 DEF connect
  <2> QED BY <2>2 DEF EndStep
<1>3. CASE roomadd \/ gapTimer
  <2>1. \E c \in Cmds : Type(c) \/ (Command(c) /\ UNCHANGED typed)
    BY <1>1, <1>3 DEF roomadd, gapTimer
  <2> QED BY <2>1 DEF EndStep
<1>4. CASE handle \/ UNCHANGED pageVars
  BY <1>4 DEF handle, EndStep, pageVars
<1> QED BY <1>2, <1>3, <1>4 DEF PageNext

LEMMA PageType ==
  ASSUME PageTypeOK, Tidy(queue)
  PROVE  Page \in Pages /\ Page.queue = queue /\ Page.rendered = rendered
BY DEF PageTypeOK, Page, Pages

\* What arrives at the page.
LEMMA HandleIs ==
  ASSUME PageInv, handle
  PROVE  /\ PageTypeOK' <=> FeedTypeOK'
         /\ Tidy(queue)' /\ counter' = counter /\ Below(queue, counter)'
         /\ ShowsEachOnce /\ WithinReach => ShowsEachOnce'
         /\ \E c \in Pages : PageBecomes(c) /\ Releases(Page, c)
<1> DEFINE f == Head(frames)
<1>0. /\ PageTypeOK /\ FeedTypeOK /\ Tidy(queue) /\ counter \in Nat
      /\ Below(queue, counter) /\ counter' = counter
  <2>1. PageTypeOK /\ FeedTypeOK /\ Tidy(queue) /\ Below(queue, counter)
    BY DEF PageInv, PageTypeOK, Below
  <2>2. counter \in Nat
    BY <2>1, Constants DEF FeedTypeOK
  <2>3. counter' = counter
    BY DEF handle, Arrive, room
  <2> QED BY <2>1, <2>2, <2>3
<1>1. f \in Frames /\ f \in Range(frames)
  BY <1>0, HeadTailProperties, RangeHeadTail DEF handle, Arrive, FeedTypeOK
<1>2. Brought(f) \subseteq 1..counter
  BY <1>1 DEF PageInv, FeedInv, TakenInv
<1>3. Page \in Pages /\ Page.queue = queue /\ Page.rendered = rendered
  BY <1>0, PageType
<1>4. ASSUME NEW c \in Pages, PageBecomes(c), Below(c.queue, counter),
             ShowsUpToMark(Page) /\ WithinReach => ShowsUpToMark(c)
      PROVE  /\ PageTypeOK' <=> FeedTypeOK'
             /\ Tidy(queue)' /\ Below(queue, counter)'
             /\ ShowsEachOnce /\ WithinReach => ShowsEachOnce'
  <2>1. /\ c.queue \in Queues /\ c.timer \in BOOLEAN /\ c.rendered \in [Seqs -> Nat]
        /\ Tidy(c.queue)
    BY DEF Pages
  <2>2. queue' = c.queue /\ timer' = c.timer /\ rendered' = c.rendered
    BY <1>4 DEF PageBecomes
  <2>3. PageTypeOK' <=> FeedTypeOK'
    BY <2>1, <2>2 DEF PageTypeOK
  <2>4. Tidy(queue') /\ Below(queue', counter')
    BY <1>0, <1>4, <2>1, <2>2
  <2>5. ShowsEachOnce /\ WithinReach => ShowsEachOnce'
    BY <1>3, <1>4, <2>2 DEF ShowsEachOnce, ShowsUpToMark
  <2> QED BY <2>3, <2>4, <2>5
<1>5. CASE f.frame # "joined"
  <2>1. f.seq \in Seqs /\ f.seq <= counter
    BY <1>0, <1>1, <1>2, <1>5 DEF Frames, Brought
  <2> DEFINE c == Deliver(Page, f.seq)
  <2>2. c \in Pages /\ c.queue = Offer(queue, f.seq).queue
    BY <1>3, <2>1, DeliverIs
  <2>3. Below(c.queue, counter)
    BY <1>0, <2>1, <2>2, OfferBelow
  <2>4. WithinReach => ~IsFull(queue)
    BY <1>0, NotFull DEF WithinReach
  <2>5. ShowsUpToMark(Page) /\ WithinReach => ShowsUpToMark(c)
    BY <1>3, <2>1, <2>4, DeliverShows
  <2>6. PageBecomes(c)
    BY <1>5 DEF handle
  <2>7. Releases(Page, c)
    BY <1>3, <2>1, DeliverReleases
  <2> HIDE DEF c
  <2> QED BY <1>0, <1>4, <2>2, <2>3, <2>5, <2>6, <2>7
<1>6. CASE f.frame = "joined"
  <2>1. f.backlog \in SUBSET Seqs /\ f.backlog \subseteq 1..counter
    BY <1>1, <1>2, <1>6 DEF Frames, Brought
  <2> DEFINE c == DeliverAll(Page, f.backlog)
  <2>2. /\ c \in Pages /\ Below(c.queue, counter)
        /\ ShowsUpToMark(Page) /\ counter <= queue.delivered + MaxBuffer => ShowsUpToMark(c)
    BY <1>0, <1>3, <2>1, DeliverAllBelow
  <2>3. PageBecomes(c)
    BY <1>6 DEF handle
  <2>4. Releases(Page, c)
    BY <1>3, <2>1, DeliverAllReleases
  <2> HIDE DEF c
  <2> QED BY <1>0, <1>4, <2>2, <2>3, <2>4 DEF WithinReach
<1> QED BY <1>0, <1>5, <1>6 DEF handle

\* A burst of the page is one of OrderedDelivery.
LEMMA ScreenBurst ==
  ASSUME PageTypeOK, Tidy(queue), \A s \in Seqs : s > queue.delivered => rendered[s] = 0,
         NEW c \in Pages, PageBecomes(c), Releases(Page, c)
  PROVE  /\ [Screen!Release]_(Screen!vars)
         /\ \A s \in Seqs : s > queue'.delivered => rendered'[s] = 0
<1> DEFINE Gone(n, count) == {s \in 1..n : count[s] = 0}
<1>1. /\ MaxSeq \in Nat /\ Seqs = 1..MaxSeq
      /\ queue.delivered \in 0..MaxSeq /\ queue'.delivered \in 0..MaxSeq
      /\ rendered \in [Seqs -> Nat] /\ rendered' \in [Seqs -> Nat]
  <2>1. queue' = c.queue /\ rendered' = c.rendered
    BY DEF PageBecomes
  <2> QED BY <2>1, PageNumbers, Constants DEF PageTypeOK, Queues
<1>2. Rises(queue.delivered, queue'.delivered, rendered, rendered')
  BY PageType DEF Releases, PageBecomes
<1>3. \A s \in Seqs : s > queue'.delivered => rendered'[s] = 0
  <2>1. \A s \in Seqs : s > queue'.delivered => s > queue.delivered
    BY <1>1, <1>2 DEF Rises
  <2> QED BY <1>2, <2>1 DEF Rises
<1>4. ASSUME queue'.delivered > queue.delivered, queue'.delivered \in Seqs,
             NEW burst \in SUBSET (queue.delivered + 1..queue'.delivered),
             queue'.delivered \in burst,
             rendered' = [s \in Seqs |->
                            IF s \in burst THEN rendered[s] + 1 ELSE rendered[s]]
      PROVE  Screen!Release
  <2>1. ASSUME NEW s \in 1..queue'.delivered
        PROVE  /\ s \in Seqs
               /\ s \in 1..queue.delivered \/ s \in queue.delivered + 1..queue'.delivered
    BY <1>1
  <2>2. ASSUME NEW s \in 1..queue.delivered
        PROVE  s \in 1..queue'.delivered /\ rendered'[s] = rendered[s]
    <3>1. s \in 1..queue'.delivered /\ s \in Seqs /\ s <= queue.delivered
      BY <1>1, <1>4
    <3> QED BY <1>2, <3>1 DEF Rises
  <2>3. ASSUME NEW s \in queue.delivered + 1..queue'.delivered
        PROVE  s \in 1..queue'.delivered /\ (rendered'[s] = 0 <=> s \notin burst)
    <3>1. s \in 1..queue'.delivered /\ s \in Seqs /\ s > queue.delivered
      BY <1>1
    <3>2. rendered[s] = 0
      BY <3>1
    <3> QED BY <1>4, <3>1, <3>2
  <2>4. Gone(queue'.delivered, rendered') =
          Gone(queue.delivered, rendered)
            \cup ((queue.delivered + 1..queue'.delivered) \ burst)
    BY <2>1, <2>2, <2>3
  <2> QED BY <1>4, <2>4 DEF Unshown, Screen!Release, Screen!Burst, Screen!Seqs, Seqs
<1> PICK m, n, old, new :
      m = queue.delivered /\ n = queue'.delivered /\ old = rendered /\ new = rendered'
  OBVIOUS
<1>5. /\ m \in 0..MaxSeq /\ n \in 0..MaxSeq /\ old \in [Seqs -> Nat] /\ new \in [Seqs -> Nat]
      /\ Rises(m, n, old, new)
  BY <1>1, <1>2
<1>6. CASE n = m
  <2>1. new = old
    BY <1>5, <1>6, RisesIs
  <2> QED BY <1>3, <1>6, <2>1 DEF Screen!vars, Unshown
<1>7. CASE n # m
  <2> DEFINE burst == Rendered(old, new)
  <2>1. /\ n > m /\ n \in Seqs /\ n \in burst /\ burst \subseteq m + 1..n
        /\ \A s \in Seqs : new[s] = IF s \in burst THEN old[s] + 1 ELSE old[s]
    BY <1>5, <1>7, RisesIs
  <2> HIDE DEF burst
  <2>2. new = [s \in Seqs |-> IF s \in burst THEN old[s] + 1 ELSE old[s]]
    BY <1>5, <2>1
  <2>3. Screen!Release
    BY <1>4, <2>1, <2>2
  <2> QED BY <1>3, <2>3
<1> QED BY <1>6, <1>7

LEMMA NextPageInv ==
  ASSUME PageInv, [PageNext]_pageVars
  PROVE  /\ PageInv'
         /\ ShowsEachOnce /\ WithinReach => ShowsEachOnce'
         /\ [Screen!Release]_(Screen!vars)
<1>1. PageTypeOK /\ FeedInv /\ Tidy(queue) /\ Below(queue, counter)
  BY DEF PageInv, Below
<1>2. FeedStep \/ EndStep \/ UNCHANGED feed
  BY <1>1, PageIsFeedStep
<1>3. FeedInv' /\ FeedTypeOK' /\ counter \in Nat /\ counter' \in Nat /\ counter <= counter'
  BY <1>1, <1>2, NextFeedInv, UnsettledSteps DEF FeedInv
<1>4. CASE handle
  <2> PICK c \in Pages : PageBecomes(c) /\ Releases(Page, c)
    BY <1>4, HandleIs
  <2>1. /\ [Screen!Release]_(Screen!vars)
        /\ \A s \in Seqs : s > queue'.delivered => rendered'[s] = 0
    BY <1>1, ScreenBurst DEF PageInv
  <2> QED BY <1>3, <1>4, <2>1, HandleIs DEF PageInv, Below
<1>5. CASE queue' = queue /\ rendered' = rendered /\ timer' \in BOOLEAN
  <2>1. PageTypeOK' /\ Tidy(queue')
    BY <1>1, <1>3, <1>5 DEF PageTypeOK
  <2>2. queue'.delivered <= counter' /\ queue'.buffer \subseteq 1..counter'
    <3>1. queue.delivered \in Nat
      BY <1>1, Constants DEF PageTypeOK, Queues
    <3>2. 1..counter \subseteq 1..counter'
      BY <1>3
    <3> QED BY <1>1, <1>3, <1>5, <3>1, <3>2 DEF Below
  <2>3. ShowsEachOnce => ShowsEachOnce'
    BY <1>5 DEF ShowsEachOnce
  <2>4. UNCHANGED Screen!vars
    BY <1>5 DEF Screen!vars, Unshown
  <2> QED BY <1>3, <1>5, <2>1, <2>2, <2>3, <2>4 DEF PageInv
<1>6. handle \/ (queue' = queue /\ rendered' = rendered /\ timer' \in BOOLEAN)
  BY <1>1 DEF PageNext, connect, roomadd, gapTimer, page, pageVars, PageTypeOK
<1> QED BY <1>4, <1>5, <1>6

LEMMA InitPageInv ==
  ASSUME PageInit
  PROVE  PageInv /\ ShowsEachOnce
<1>1. FeedInit /\ queue = NewQueue(0) /\ timer = FALSE /\ rendered = [s \in Seqs |-> 0]
  BY DEF PageInit
<1>2. Tidy(queue) /\ queue \in Queues /\ queue.delivered = 0 /\ queue.buffer = {}
  BY <1>1, NewQueueTidy, Constants DEF Tidy, NewQueue
<1>3. FeedInv /\ FeedTypeOK /\ counter = 0
  BY <1>1, InitFeedInv DEF FeedInv, FeedInit
<1>4. PageTypeOK
  BY <1>1, <1>2, <1>3 DEF PageTypeOK
<1>5. ShowsEachOnce /\ \A s \in Seqs : s > queue.delivered => rendered[s] = 0
  BY <1>1, <1>2, Constants DEF ShowsEachOnce
<1> QED BY <1>2, <1>3, <1>4, <1>5 DEF PageInv

THEOREM PageInductive == PageSpec => []PageInv
BY InitPageInv, NextPageInv, PTL DEF PageSpec

\* Every value of the page, of its session and of the wire has its type.
THEOREM PageTypeCorrect == PageSpec => []PageTypeOK
<1>1. PageInv => PageTypeOK
  BY DEF PageInv
<1> QED BY <1>1, PageInductive, PTL

\* handleMessage, deliver: the page shows every number up to its mark, once,
\* as long as the room is never more than MaxBuffer messages ahead of it.
THEOREM PageShowsEachOnce == PageSpec /\ []WithinReach => []ShowsEachOnce
<1>1. PageInit => ShowsEachOnce
  BY InitPageInv
<1>2. PageInv /\ WithinReach /\ ShowsEachOnce /\ [PageNext]_pageVars => ShowsEachOnce'
  BY NextPageInv
<1> QED BY <1>1, <1>2, PageInductive, PTL DEF PageSpec

\* Through losses, reconnections, rooms added twice and a full buffer the page
\* shows bursts above its mark, which never moves back: nothing is shown twice,
\* nothing that was stepped over is shown later.
THEOREM PageImplementsPeriod == PageSpec => ScreenPeriod
<1>1. PageInit => Screen!Init
  <2> SUFFICES ASSUME PageInit PROVE Screen!Init
    OBVIOUS
  <2>1. queue.delivered = 0 /\ rendered = [s \in Seqs |-> 0]
    BY DEF PageInit, NewQueue
  <2> QED BY <2>1 DEF Unshown, Screen!Init, Screen!Seqs, Seqs
<1>2. PageInv /\ [PageNext]_pageVars => [Screen!Release]_(Screen!vars)
  BY NextPageInv
<1> QED BY <1>1, <1>2, PageInductive, PTL DEF PageSpec, ScreenPeriod, Screen!Period

\* deliver: the page steps over a number only when what it holds and what comes
\* above its mark do not fit into the buffer together.
THEOREM PageLosesOnlyWhenFull == PageSpec => LosesOnlyWhenFull
<1>1. ASSUME PageInv, [PageNext]_pageVars, Unshown' # Unshown
      PROVE  Cardinality(queue.buffer \cup Coming) > MaxBuffer
  <2>1. handle
    BY <1>1 DEF PageNext, connect, roomadd, gapTimer, page, pageVars, Unshown
  <2> DEFINE f == Head(frames)
             T == queue.buffer \cup Coming
  <2>2. /\ PageTypeOK /\ FeedTypeOK /\ Tidy(queue) /\ queue \in Queues
        /\ Page \in Pages /\ Page.queue = queue /\ Page.rendered = rendered
    BY <1>1, PageType DEF PageInv, PageTypeOK
  <2>3. f \in Frames
    BY <2>1, <2>2, HeadTailProperties DEF handle, Arrive, FeedTypeOK
  <2>4. T \in SUBSET Seqs /\ Cardinality(T) \in Nat
    <3>1. Brought(f) \in SUBSET Seqs
      BY <2>3 DEF Brought, Frames
    <3>2. T \in SUBSET (1..MaxSeq)
      BY <2>2, <3>1, Constants DEF Coming, Queues
    <3>3. IsFiniteSet(1..MaxSeq)
      BY Constants, FS_Interval
    <3> HIDE DEF T
    <3> QED BY <3>2, <3>3, Constants, FS_Subset, FS_CardinalityType
  <2>5. \A c : PageBecomes(c) => Unshown' = Skips(c)
    BY DEF PageBecomes, Unshown, Skips
  <2>6. Unshown = Skips(Page)
    BY <2>2 DEF Unshown, Skips
  <2>7. SUFFICES ASSUME Cardinality(T) <= MaxBuffer
                 PROVE  FALSE
    <3> HIDE DEF T
    <3>1. Cardinality(T) > MaxBuffer \/ Cardinality(T) <= MaxBuffer
      BY <2>4, Constants
    <3> QED BY <3>1 DEF T
  <2>8. CASE f.frame # "joined"
    <3>1. f.seq \in Seqs /\ Coming = {s \in {f.seq} : s > queue.delivered}
      BY <2>3, <2>8 DEF Frames, Coming, Brought
    <3>2. PageBecomes(Deliver(Page, f.seq))
      BY <2>1, <2>8 DEF handle
    <3>3. IsDuplicate(queue, f.seq) \/ ~IsFull(queue)
      <4>1. ASSUME ~IsDuplicate(queue, f.seq)
            PROVE  f.seq \in T /\ f.seq \notin queue.buffer
        BY <2>2, <3>1, <4>1, Constants DEF IsDuplicate, Queues
      <4>2. queue.buffer \subseteq T
        OBVIOUS
      <4> HIDE DEF T
      <4> QED BY <2>2, <2>4, <2>7, <4>1, <4>2, NotFullWith
    <3>4. Skips(Deliver(Page, f.seq)) = Skips(Page)
      BY <2>2, <3>1, <3>3, DeliverSkips
    <3> QED BY <1>1, <2>5, <2>6, <3>2, <3>4
  <2>9. CASE f.frame = "joined"
    <3>1. f.backlog \in SUBSET Seqs /\ Coming = {s \in f.backlog : s > queue.delivered}
      BY <2>3, <2>9 DEF Frames, Coming, Brought
    <3>2. PageBecomes(DeliverAll(Page, f.backlog))
      BY <2>1, <2>9 DEF handle
    <3>3. Skips(DeliverAll(Page, f.backlog)) = Skips(Page)
      BY <2>2, <2>7, <3>1, DeliverAllSkips
    <3> QED BY <1>1, <2>5, <2>6, <3>2, <3>3
  <2> QED BY <2>8, <2>9
<1>2. PageInv /\ [PageNext]_pageVars =>
        [Unshown' # Unshown => Cardinality(queue.buffer \cup Coming) > MaxBuffer]_pageVars
  BY <1>1
<1> QED BY <1>2, PageInductive, PTL DEF PageSpec, LosesOnlyWhenFull
=============================================================================
