------------------------- MODULE MessageFlowProofs -------------------------
(***************************************************************************)
(* MessageFlow is safe for any number of nodes, connections, messages and  *)
(* faults: the inductive invariant IInv, the safety properties it implies, *)
(* and the refinement of Room.                                             *)
(***************************************************************************)
EXTENDS MessageFlow, SequenceTheorems, TLAPS

(***************************************************************************)
(* How each kind of step changes the sends: one connection moves, the      *)
(* others stay where they are.                                             *)
(***************************************************************************)
LEMMA GotoMoves ==
  ASSUME TypeOK, NEW c \in Conns, NEW pc \in Steps, Goto(c, pc)
  PROVE  /\ handler'[c].pc = pc /\ handler'[c].msg = handler[c].msg
         /\ handler'[c].seq = handler[c].seq /\ handler'[c].re = handler[c].re
         /\ \A d \in Conns \ {c} : handler'[d] = handler[d]
         /\ handler' \in [Conns -> Handlers]
<1>1. handler \in [Conns -> Handlers]
  BY DEF TypeOK
<1>2. handler' = [handler EXCEPT ![c].pc = pc]
  BY DEF Goto
<1> QED BY <1>1, <1>2 DEF Handlers

LEMMA EndMoves ==
  ASSUME TypeOK, NEW c \in Conns, End(c)
  PROVE  /\ handler'[c] = Idle
         /\ \A d \in Conns \ {c} : handler'[d] = handler[d]
         /\ handler' \in [Conns -> Handlers]
<1>1. handler \in [Conns -> Handlers] /\ MaxSeq \in Nat
  BY FlowAssumption DEF TypeOK
<1>2. handler' = [handler EXCEPT ![c] = Idle]
  BY DEF End
<1>3. Idle \in Handlers
  BY <1>1 DEF Idle, Handlers, Steps
<1> QED BY <1>1, <1>2, <1>3

\* A connection whose send ended waits, the others carry what they carried.
LEMMA EndCarries ==
  ASSUME TypeOK, NEW c \in Conns, End(c)
  PROVE  \A d \in Conns : handler'[d].pc # "idle" => handler'[d].msg \in Msgs
<1> SUFFICES ASSUME NEW d \in Conns, handler'[d].pc # "idle"
             PROVE  handler'[d].msg \in Msgs
  OBVIOUS
<1>1. d # c
  BY EndMoves DEF Idle
<1>2. handler'[d] = handler[d]
  BY <1>1, EndMoves
<1> QED BY <1>2 DEF TypeOK

LEMMA InitTypeOK == Init => TypeOK
<1>1. MaxSeq \in Nat /\ MaxFaults \in Nat
  BY FlowAssumption
<1>2. Idle \in Handlers /\ Idle.pc = "idle"
  BY <1>1 DEF Idle, Handlers, Steps
<1>3. <<>> \in Seq(Seqs)
  OBVIOUS
<1> QED BY <1>1, <1>2, <1>3 DEF Init, TypeOK

LEMMA EnvelopeType ==
  ASSUME TypeOK, NEW c \in Conns, ~At(c, "idle"), handler[c].seq # 0
  PROVE  EnvelopeOf(c) \in Envelopes
<1>1. /\ handler[c] \in Handlers /\ handler[c].msg \in Msgs
      /\ MaxSeq \in Nat
  BY FlowAssumption DEF TypeOK, At
<1> QED BY <1>1 DEF EnvelopeOf, Envelopes, Handlers, Seqs

(***************************************************************************)
(* Type correctness needs that a send past INCR holds a number.            *)
(***************************************************************************)
LEMMA NextTypeOK ==
  ASSUME TypeOK, NumberInv, [Next]_vars
  PROVE  TypeOK'
<1>1. /\ MaxSeq \in Nat /\ MaxFaults \in Nat /\ counter \in 0..MaxSeq
      /\ handler \in [Conns -> Handlers]
      /\ NodeOf \in [Conns -> Nodes]
      /\ Expirable \subseteq Msgs
  BY FlowAssumption DEF TypeOK
<1>2. ASSUME NEW c \in Conns, NEW m \in Msgs, NEW re \in 0..MaxSeq, Claim(c, m, re)
      PROVE  TypeOK'
  <2>1. [ pc  |-> IF idem[m] = None THEN "claimed" ELSE "refused",
          msg |-> m, seq |-> 0, re |-> re ] \in Handlers
    BY <1>1 DEF Handlers, Steps
  <2>2. handler' \in [Conns -> Handlers]
    BY <1>1, <1>2, <2>1 DEF Claim
  <2>3. \A d \in Conns : handler'[d].pc # "idle" => handler'[d].msg \in Msgs
    BY <1>1, <1>2 DEF Claim, TypeOK
  <2>4. idem' \in [Msgs -> {None, Pending} \cup Seqs]
    BY <1>2 DEF Claim, TypeOK
  <2> QED BY <1>2, <2>2, <2>3, <2>4 DEF Claim, TypeOK, delivery, storage
<1>3. ASSUME NEW c \in Conns, ReadClaim(c) PROVE TypeOK'
  <2>1. CASE idem[handler[c].msg] # None /\ End(c)
             /\ acks' = acks \cup {DuplicateAck(handler[c].msg)}
    <3>1. handler[c].msg \in Msgs
      BY <1>3 DEF ReadClaim, At, TypeOK
    <3>2. DuplicateAck(handler[c].msg) \in Acks
      <4>1. idem[handler[c].msg] \in {None, Pending} \cup Seqs
        BY <3>1 DEF TypeOK
      <4> QED BY <2>1, <3>1, <4>1, <1>1 DEF DuplicateAck, Acks, Seqs
    <3>3. \A d \in Conns : handler'[d].pc # "idle" => handler'[d].msg \in Msgs
      BY <2>1, EndCarries
    <3> QED BY <1>3, <2>1, <3>2, <3>3, EndMoves
         DEF ReadClaim, TypeOK, redis, delivery, storage
  <2>2. CASE Goto(c, "claimed") /\ UNCHANGED acks
    <3>1. \A d \in Conns : handler'[d].pc # "idle" => handler'[d].msg \in Msgs
      BY <1>3, <2>2, GotoMoves DEF ReadClaim, At, TypeOK, Steps
    <3> QED BY <1>3, <2>2, <3>1, GotoMoves
         DEF ReadClaim, TypeOK, redis, delivery, storage, Steps
  <2> QED BY <1>3, <2>1, <2>2 DEF ReadClaim
<1>4. ASSUME NEW c \in Conns, NextSeq(c) PROVE TypeOK'
  <2>1. counter + 1 \in 0..MaxSeq
    BY <1>1, <1>4 DEF NextSeq
  <2>2. handler' \in [Conns -> Handlers]
    BY <1>1, <1>4, <2>1 DEF NextSeq, Handlers, Steps
  <2>3. \A d \in Conns : handler'[d].pc # "idle" => handler'[d].msg \in Msgs
    BY <1>1, <1>4 DEF NextSeq, At, TypeOK, Handlers
  <2> QED BY <1>4, <2>1, <2>2, <2>3 DEF NextSeq, TypeOK, delivery, storage
<1>5. ASSUME NEW c \in Conns, Record(c) PROVE TypeOK'
  <2>1. handler[c].seq \in Seqs
    BY <1>1, <1>5 DEF Record, At, NumberInv, HasNumber, Seqs
  <2>2. idem' \in [Msgs -> {None, Pending} \cup Seqs]
    BY <1>5, <2>1 DEF Record, TypeOK
  <2>3. \A d \in Conns : handler'[d].pc # "idle" => handler'[d].msg \in Msgs
    BY <1>5, GotoMoves DEF Record, At, TypeOK, Steps
  <2> QED BY <1>5, <2>2, <2>3, GotoMoves DEF Record, TypeOK, delivery, storage, Steps
<1>6. ASSUME NEW c \in Conns, Publish(c) PROVE TypeOK'
  <2>1. handler[c].seq \in Seqs
    BY <1>1, <1>6 DEF Publish, At, NumberInv, HasNumber, Seqs
  <2>2. EnvelopeOf(c) \in Envelopes
    BY <1>1, <1>6, <2>1, EnvelopeType DEF Publish, At, Seqs
  <2>3. inbox' \in [Nodes -> Seq(Seqs)]
    BY <1>6, <2>1 DEF Publish, TypeOK
  <2>4. \A d \in Conns : handler'[d].pc # "idle" => handler'[d].msg \in Msgs
    BY <1>6, GotoMoves DEF Publish, At, TypeOK, Steps
  <2> QED BY <1>6, <2>2, <2>3, <2>4, GotoMoves DEF Publish, TypeOK, redis, storage, Steps
<1>7. ASSUME NEW c \in Conns, Acknowledge(c) PROVE TypeOK'
  <2>1. handler[c].seq \in Seqs
    BY <1>1, <1>7 DEF Acknowledge, At, NumberInv, HasNumber, Seqs
  <2>2. EnvelopeOf(c) \in Envelopes
    BY <1>1, <1>7, <2>1, EnvelopeType DEF Acknowledge, At, Seqs
  <2>3. saving' \in [Nodes -> SUBSET Envelopes]
    BY <1>1, <1>7, <2>2 DEF Acknowledge, TypeOK
  <2>4. handler[c].msg \in Msgs
    BY <1>7 DEF Acknowledge, At, TypeOK
  <2>5. acks' \in SUBSET Acks
    <3>1. [msg |-> handler[c].msg, seq |-> handler[c].seq, duplicate |-> FALSE] \in Acks
      BY <1>1, <2>1, <2>4 DEF Acks, Seqs
    <3> QED BY <1>7, <3>1 DEF Acknowledge, TypeOK
  <2>6. \A d \in Conns : handler'[d].pc # "idle" => handler'[d].msg \in Msgs
    BY <1>7, EndCarries DEF Acknowledge
  <2> QED BY <1>7, <2>3, <2>5, <2>6, EndMoves DEF Acknowledge, TypeOK, redis, delivery
<1>8. ASSUME NEW c \in Conns, Fail(c) PROVE TypeOK'
  <2>1. \A d \in Conns : handler'[d].pc # "idle" => handler'[d].msg \in Msgs
    <3>1. End(c) BY <1>8 DEF Fail
    <3> QED BY <3>1, EndCarries
  <2> QED BY <1>1, <1>8, <2>1, EndMoves DEF Fail, Fault, TypeOK, redis, delivery, storage
<1>9. ASSUME NEW n \in Nodes, Deliver(n) PROVE TypeOK'
  <2>1. inbox[n] \in Seq(Seqs) /\ inbox[n] # <<>>
    BY <1>9 DEF Deliver, TypeOK
  <2>2. Head(inbox[n]) \in Seqs /\ Tail(inbox[n]) \in Seq(Seqs)
    BY <2>1, HeadTailProperties
  <2> QED BY <1>9, <2>2 DEF Deliver, TypeOK, redis, storage
<1>10. ASSUME NEW n \in Nodes, Listen(n) \/ Restart(n) PROVE TypeOK'
  BY <1>10 DEF Listen, Restart, TypeOK, redis, storage
<1>11. ASSUME NEW n \in Nodes, BreakLink(n) PROVE TypeOK'
  <2>1. <<>> \in Seq(Seqs) OBVIOUS
  <2> QED BY <1>1, <1>11, <2>1 DEF BreakLink, Fault, TypeOK, redis, storage
<1>12. ASSUME NEW n \in Nodes, Crash(n) PROVE TypeOK'
  <2>1. <<>> \in Seq(Seqs) OBVIOUS
  <2>2. Idle \in Handlers /\ Idle.pc = "idle"
    BY <1>1 DEF Idle, Handlers, Steps
  <2>3. /\ handler' \in [Conns -> Handlers]
        /\ \A d \in Conns : handler'[d].pc # "idle" => handler'[d].msg \in Msgs
    BY <1>1, <1>12, <2>2 DEF Crash, TypeOK
  <2> QED BY <1>1, <1>12, <2>1, <2>3 DEF Crash, Fault, TypeOK, redis
<1>13. ASSUME NEW n \in Nodes, NEW e \in saving[n], Save(n, e) \/ LoseSave(n, e)
       PROVE  TypeOK'
  <2>1. e \in Envelopes
    BY DEF TypeOK
  <2>2. saving' \in [Nodes -> SUBSET Envelopes] /\ history' \in SUBSET Envelopes
    BY <1>13, <2>1 DEF Save, LoseSave, TypeOK
  <2> QED BY <1>1, <1>13, <2>2 DEF Save, LoseSave, Fault, TypeOK, redis, delivery
<1>14. ASSUME NEW m \in Msgs, Expire(m) PROVE TypeOK'
  BY <1>14 DEF Expire, TypeOK, delivery, storage
<1>15. CASE UNCHANGED vars
  BY <1>15 DEF vars, TypeOK
<1> QED BY <1>2, <1>3, <1>4, <1>5, <1>6, <1>7, <1>8, <1>9, <1>10, <1>11, <1>12,
           <1>13, <1>14, <1>15 DEF Next, SendStep

(***************************************************************************)
(* The steps that only forget: a send that fails, a node that crashes, a   *)
(* link that breaks or comes back, a save that is lost.                    *)
(***************************************************************************)
Forget ==
  /\ UNCHANGED <<redis, published, seen, history, acks>>
  /\ \A c \in Conns : handler'[c] = handler[c] \/ handler'[c] = Idle
  /\ \A n \in Nodes : inbox'[n] = inbox[n] \/ inbox'[n] = <<>>
  /\ \A n \in Nodes : saving'[n] \subseteq saving[n]

LEMMA ForgetSteps ==
  ASSUME TypeOK
  PROVE  /\ \A c \in Conns : Fail(c) => Forget
         /\ \A n \in Nodes : Listen(n) \/ Restart(n) \/ BreakLink(n) \/ Crash(n) => Forget
         /\ \A n \in Nodes : \A e \in saving[n] : LoseSave(n, e) => Forget
         /\ UNCHANGED vars => Forget
<1>1. /\ handler \in [Conns -> Handlers]
      /\ inbox \in [Nodes -> Seq(Seqs)]
      /\ saving \in [Nodes -> SUBSET Envelopes]
  BY DEF TypeOK
<1>2. ASSUME NEW c \in Conns, Fail(c) PROVE Forget
  <2>1. End(c) /\ UNCHANGED <<redis, published, delivery, storage, acks>>
    BY <1>2 DEF Fail
  <2>2. \A d \in Conns : handler'[d] = handler[d] \/ handler'[d] = Idle
    BY <2>1, EndMoves
  <2> QED BY <2>1, <2>2 DEF Forget, delivery, storage
<1>3. ASSUME NEW n \in Nodes, Listen(n) \/ Restart(n) PROVE Forget
  BY <1>3 DEF Listen, Restart, Forget, storage
<1>4. ASSUME NEW n \in Nodes, BreakLink(n) PROVE Forget
  BY <1>1, <1>4 DEF BreakLink, Forget, storage
<1>5. ASSUME NEW n \in Nodes, Crash(n) PROVE Forget
  <2>1. \A d \in Conns : handler'[d] = handler[d] \/ handler'[d] = Idle
    BY <1>5 DEF Crash
  <2>2. \A o \in Nodes : inbox'[o] = inbox[o] \/ inbox'[o] = <<>>
    BY <1>1, <1>5 DEF Crash
  <2>3. \A o \in Nodes : saving'[o] \subseteq saving[o]
    BY <1>1, <1>5 DEF Crash
  <2> QED BY <1>5, <2>1, <2>2, <2>3 DEF Crash, Forget
<1>6. ASSUME NEW n \in Nodes, NEW e \in saving[n], LoseSave(n, e) PROVE Forget
  <2>1. \A o \in Nodes : saving'[o] \subseteq saving[o]
    BY <1>1, <1>6 DEF LoseSave
  <2> QED BY <1>6, <2>1 DEF LoseSave, Forget, delivery
<1>7. UNCHANGED vars => Forget
  BY DEF vars, Forget, redis
<1> QED BY <1>2, <1>3, <1>4, <1>5, <1>6, <1>7

(***************************************************************************)
(* NumberInv.  Only NextSeq changes the counter and only Publish changes   *)
(* what is published; in every other step each send stays, loses its       *)
(* number, or keeps its number while it moves from INCR to PUBLISH.        *)
(***************************************************************************)
LEMMA NumberFrame ==
  ASSUME TypeOK, TypeOK', NumberInv,
         counter' = counter, published' = published,
         \A c \in Conns :
           \/ handler'[c] = handler[c]
           \/ /\ handler'[c].re <= counter
              /\ handler'[c].pc \in {"idle", "refused", "claimed"}
           \/ /\ At(c, "numbered") /\ handler'[c].pc = "recorded"
              /\ handler'[c].seq = handler[c].seq
              /\ handler'[c].re = handler[c].re,
         \A n \in Nodes : \A s \in seen'[n] : s <= counter,
         \A n \in Nodes : \A i \in 1..Len(inbox'[n]) : inbox'[n][i] <= counter
  PROVE  NumberInv'
<1>1. \A c \in Conns : handler'[c].re <= counter'
  BY DEF NumberInv
<1>2. \A c \in Conns : HasNumber(c)' => /\ handler'[c].seq \in 1..counter'
                                       /\ handler'[c].re < handler'[c].seq
  BY DEF NumberInv, HasNumber, At
<1>3. \A c, d \in Conns :
        HasNumber(c)' /\ HasNumber(d)' /\ handler'[c].seq = handler'[d].seq => c = d
  BY DEF NumberInv, HasNumber, At
<1>4. \A e \in published' : e.seq <= counter'
  BY DEF NumberInv
<1>5. \A c \in Conns, e \in published' :
        handler'[c].pc = "numbered" \/ handler'[c].pc = "recorded" => e.seq # handler'[c].seq
  BY DEF NumberInv, At
<1>6. \A c \in Conns : handler'[c].pc = "published" => EnvelopeOf(c)' \in published'
  BY DEF NumberInv, EnvelopeOf, At
<1> QED BY <1>1, <1>2, <1>3, <1>4, <1>5, <1>6 DEF NumberInv, At

LEMMA NextNumberInv ==
  ASSUME TypeOK, TypeOK', NumberInv, [Next]_vars
  PROVE  NumberInv'
<1>1. /\ MaxSeq \in Nat /\ counter \in 0..MaxSeq
      /\ handler \in [Conns -> Handlers]
      /\ inbox \in [Nodes -> Seq(Seqs)] /\ seen \in [Nodes -> SUBSET Seqs]
  BY FlowAssumption DEF TypeOK
<1>2. /\ \A n \in Nodes : \A s \in seen[n] : s <= counter
      /\ \A n \in Nodes : \A i \in 1..Len(inbox[n]) : inbox[n][i] <= counter
      /\ \A c \in Conns : handler[c].re <= counter
  BY DEF NumberInv
<1>3. ASSUME NEW c \in Conns, NEW m \in Msgs, NEW re \in 0..MaxSeq, Claim(c, m, re)
      PROVE  NumberInv'
  <2>1. re <= counter
    BY <1>1, <1>2, <1>3 DEF Claim, Readable
  <2>2. \A d \in Conns :
          \/ handler'[d] = handler[d]
          \/ handler'[d].re <= counter /\ handler'[d].pc \in {"idle", "refused", "claimed"}
    BY <1>1, <1>3, <2>1 DEF Claim
  <2> QED BY <1>2, <1>3, <2>2, NumberFrame DEF Claim, delivery
<1>4. ASSUME NEW c \in Conns, ReadClaim(c) PROVE NumberInv'
  <2>1. \A d \in Conns :
          \/ handler'[d] = handler[d]
          \/ handler'[d].re <= counter /\ handler'[d].pc \in {"idle", "refused", "claimed"}
    <3>1. CASE End(c)
      BY <1>1, <3>1, EndMoves DEF Idle
    <3>2. CASE Goto(c, "claimed")
      BY <1>2, <3>2, GotoMoves DEF Steps
    <3> QED BY <1>4, <3>1, <3>2 DEF ReadClaim
  <2> QED BY <1>2, <1>4, <2>1, NumberFrame DEF ReadClaim, delivery, redis
<1>5. ASSUME NEW c \in Conns, NextSeq(c) PROVE NumberInv'
  <2>1. /\ handler'[c].pc = "numbered" /\ handler'[c].seq = counter + 1
        /\ handler'[c].re = handler[c].re
        /\ \A d \in Conns \ {c} : handler'[d] = handler[d]
        /\ counter' = counter + 1 /\ published' = published
        /\ seen' = seen /\ inbox' = inbox
    BY <1>1, <1>5 DEF NextSeq, Handlers, delivery
  <2>2. \A e \in published : e.seq \in Nat /\ e.seq <= counter
    BY <1>1 DEF TypeOK, Envelopes, Seqs, NumberInv
  <2>3. \A d \in Conns : handler[d].re \in Nat /\ handler[d].seq \in Nat
    BY <1>1 DEF Handlers
  <2>4. \A d \in Conns : handler'[d].re <= counter'
    BY <1>1, <1>2, <2>1, <2>3
  <2>5. \A d \in Conns : HasNumber(d)' => /\ handler'[d].seq \in 1..counter'
                                         /\ handler'[d].re < handler'[d].seq
    BY <1>1, <1>2, <2>1, <2>3 DEF HasNumber, NumberInv
  <2>6. \A d, f \in Conns :
          HasNumber(d)' /\ HasNumber(f)' /\ handler'[d].seq = handler'[f].seq => d = f
    BY <1>1, <2>1, <2>3 DEF HasNumber, NumberInv
  <2>7. \A d \in Conns, e \in published' :
          handler'[d].pc = "numbered" \/ handler'[d].pc = "recorded" => e.seq # handler'[d].seq
    BY <1>1, <2>1, <2>2 DEF NumberInv, At
  <2>8. \A d \in Conns : handler'[d].pc = "published" => EnvelopeOf(d)' \in published'
    BY <2>1 DEF NumberInv, At, EnvelopeOf
  <2>9. \A e \in published' : e.seq <= counter'
    BY <1>1, <2>1, <2>2
  <2>10. /\ \A n \in Nodes : \A s \in seen'[n] : s <= counter'
         /\ \A n \in Nodes : \A i \in 1..Len(inbox'[n]) : inbox'[n][i] <= counter'
    <3>1. \A n \in Nodes : \A s \in seen[n] : s \in Nat
      BY <1>1 DEF Seqs
    <3>2. \A n \in Nodes : \A i \in 1..Len(inbox[n]) : inbox[n][i] \in Nat
      BY <1>1 DEF Seqs
    <3> QED BY <1>1, <1>2, <2>1, <3>1, <3>2
  <2> QED BY <2>4, <2>5, <2>6, <2>7, <2>8, <2>9, <2>10 DEF NumberInv, At
<1>6. ASSUME NEW c \in Conns, Record(c) PROVE NumberInv'
  <2>1. \A d \in Conns :
          \/ handler'[d] = handler[d]
          \/ /\ At(d, "numbered") /\ handler'[d].pc = "recorded"
             /\ handler'[d].seq = handler[d].seq /\ handler'[d].re = handler[d].re
    BY <1>6, GotoMoves DEF Record, Steps
  <2> QED BY <1>2, <1>6, <2>1, NumberFrame DEF Record, delivery
<1>7. ASSUME NEW c \in Conns, Publish(c) PROVE NumberInv'
  <2>1. /\ At(c, "recorded") /\ counter' = counter /\ seen' = seen
        /\ published' = published \cup {EnvelopeOf(c)}
        /\ handler'[c].pc = "published" /\ handler'[c].msg = handler[c].msg
        /\ handler'[c].seq = handler[c].seq /\ handler'[c].re = handler[c].re
        /\ \A d \in Conns \ {c} : handler'[d] = handler[d]
    BY <1>7, GotoMoves DEF Publish, redis, Steps
  <2>2. /\ EnvelopeOf(c).seq = handler[c].seq
        /\ handler[c].seq \in 1..counter
    BY <2>1 DEF EnvelopeOf, NumberInv, HasNumber, At
  <2>3. \A d \in Conns : handler'[d].re <= counter'
    BY <1>2, <2>1
  <2>4. \A d \in Conns : HasNumber(d)' => /\ handler'[d].seq \in 1..counter'
                                         /\ handler'[d].re < handler'[d].seq
    BY <2>1 DEF HasNumber, At, NumberInv
  <2>5. \A d, f \in Conns :
          HasNumber(d)' /\ HasNumber(f)' /\ handler'[d].seq = handler'[f].seq => d = f
    BY <2>1 DEF HasNumber, At, NumberInv
  <2>6. \A d \in Conns, e \in published' :
          handler'[d].pc = "numbered" \/ handler'[d].pc = "recorded" => e.seq # handler'[d].seq
    <3>1. TAKE d \in Conns, e \in published'
    <3>2. HAVE handler'[d].pc = "numbered" \/ handler'[d].pc = "recorded"
    <3>3. d # c /\ handler'[d] = handler[d]
      BY <2>1, <3>2
    <3>4. HasNumber(d) /\ HasNumber(c)
      BY <2>1, <3>2, <3>3 DEF HasNumber, At
    <3>5. CASE e \in published
      BY <3>2, <3>3, <3>5 DEF NumberInv, At
    <3>6. CASE e = EnvelopeOf(c)
      BY <2>2, <3>3, <3>4, <3>6 DEF NumberInv
    <3> QED BY <2>1, <3>5, <3>6
  <2>7. \A d \in Conns : handler'[d].pc = "published" => EnvelopeOf(d)' \in published'
    BY <2>1 DEF NumberInv, At, EnvelopeOf
  <2>8. \A e \in published' : e.seq <= counter'
    BY <1>1, <2>1, <2>2 DEF NumberInv
  <2>9. \A n \in Nodes : \A i \in 1..Len(inbox'[n]) : inbox'[n][i] <= counter'
    <3>1. TAKE n \in Nodes
    <3>2. handler[c].seq \in Seqs /\ handler[c].seq <= counter
      BY <1>1, <2>2 DEF Seqs
    <3>3. CASE inbox'[n] = inbox[n]
      BY <1>2, <2>1, <3>3
    <3>4. CASE inbox'[n] = Append(inbox[n], handler[c].seq)
      BY <1>1, <1>2, <2>1, <3>2, <3>4, AppendProperties
    <3> QED BY <1>7, <3>3, <3>4 DEF Publish
  <2> QED BY <1>2, <2>1, <2>3, <2>4, <2>5, <2>6, <2>7, <2>8, <2>9 DEF NumberInv, At
<1>8. ASSUME NEW c \in Conns, Acknowledge(c) PROVE NumberInv'
  <2>1. \A d \in Conns :
          \/ handler'[d] = handler[d]
          \/ handler'[d].re <= counter /\ handler'[d].pc \in {"idle", "refused", "claimed"}
    BY <1>1, <1>8, EndMoves DEF Acknowledge, Idle
  <2> QED BY <1>2, <1>8, <2>1, NumberFrame DEF Acknowledge, delivery, redis
<1>9. ASSUME NEW n \in Nodes, Deliver(n) PROVE NumberInv'
  <2>1. inbox[n] \in Seq(Seqs) /\ inbox[n] # <<>>
    BY <1>1, <1>9 DEF Deliver
  <2>2. Head(inbox[n]) <= counter
    BY <1>2, <2>1, HeadTailProperties
  <2>3. \A o \in Nodes : \A s \in seen'[o] : s <= counter
    BY <1>1, <1>2, <1>9, <2>2 DEF Deliver
  <2>4. \A i \in 1..Len(Tail(inbox[n])) : Tail(inbox[n])[i] <= counter
    BY <1>2, <2>1, HeadTailProperties
  <2>5. \A o \in Nodes : \A i \in 1..Len(inbox'[o]) : inbox'[o][i] <= counter
    BY <1>1, <1>2, <1>9, <2>4 DEF Deliver
  <2> QED BY <1>9, <2>3, <2>5, NumberFrame DEF Deliver, redis
<1>10. ASSUME NEW n \in Nodes, NEW e \in saving[n], Save(n, e) PROVE NumberInv'
  BY <1>2, <1>10, NumberFrame DEF Save, redis, delivery
<1>11. ASSUME NEW m \in Msgs, Expire(m) PROVE NumberInv'
  BY <1>2, <1>11, NumberFrame DEF Expire, delivery
<1>12. CASE Forget
  <2>1. \A d \in Conns :
          \/ handler'[d] = handler[d]
          \/ handler'[d].re <= counter /\ handler'[d].pc \in {"idle", "refused", "claimed"}
    BY <1>1, <1>12 DEF Forget, Idle
  <2>2. \A o \in Nodes : \A i \in 1..Len(inbox'[o]) : inbox'[o][i] <= counter
    BY <1>2, <1>12 DEF Forget
  <2> QED BY <1>2, <1>12, <2>1, <2>2, NumberFrame DEF Forget, redis
<1> QED BY <1>3, <1>4, <1>5, <1>6, <1>7, <1>8, <1>9, <1>10, <1>11, <1>12,
           ForgetSteps DEF Next, SendStep

(***************************************************************************)
(* KeyInv.  OneSender holds after a step in which nobody but the winner of *)
(* a free key gets past the claim; KeyOf(d) holds after a step that leaves *)
(* the send of d, its key and the envelopes of its message alone.          *)
(***************************************************************************)
LEMMA NoneIsNoNumber == None \notin Seqs /\ Pending \notin Seqs /\ None # Pending
BY FlowAssumption DEF Seqs

LEMMA SenderFrame ==
  ASSUME OneSender, expired \subseteq expired',
         \A d \in Conns : PastClaim(d)' =>
           \/ PastClaim(d) /\ handler'[d].msg = handler[d].msg
           \/ handler'[d].msg \in expired'
  PROVE  OneSender'
<1> SUFFICES ASSUME NEW c \in Conns, NEW d \in Conns, Live(c)', PastClaim(c)', PastClaim(d)',
                    handler'[c].msg = handler'[d].msg
             PROVE  c = d
  BY DEF OneSender
<1>1. handler'[c].msg \in Msgs /\ handler'[c].msg \notin expired'
  BY DEF Live
<1>2. /\ PastClaim(c) /\ handler'[c].msg = handler[c].msg
      /\ PastClaim(d) /\ handler'[d].msg = handler[d].msg
  BY <1>1
<1>3. Live(c)
  BY <1>1, <1>2 DEF Live
<1> QED BY <1>2, <1>3 DEF OneSender

LEMMA KeyFrame ==
  ASSUME NEW d \in Conns, KeyOf(d), handler'[d] = handler[d],
         expired \subseteq expired',
         handler[d].msg \notin expired' => idem'[handler[d].msg] = idem[handler[d].msg],
         \A e \in published' : e \in published \/ e.msg # handler[d].msg
  PROVE  KeyOf(d)'
<1> SUFFICES ASSUME Live(d)'
             PROVE  /\ At(d, "idle")' \/ idem'[handler'[d].msg] # None
                    /\ At(d, "claimed")' \/ At(d, "numbered")' => idem'[handler'[d].msg] = Pending
                    /\ At(d, "recorded")' \/ At(d, "published")' =>
                         idem'[handler'[d].msg] = handler'[d].seq
                    /\ Unpublished(d)' => \A e \in published' : e.msg # handler'[d].msg
  BY DEF KeyOf
<1>1. Live(d) /\ handler[d].msg \notin expired'
  BY DEF Live
<1>2. idem'[handler'[d].msg] = idem[handler[d].msg]
  BY <1>1
<1>3. Unpublished(d)' => Unpublished(d)
  BY DEF Unpublished
<1>4. Unpublished(d)' => \A e \in published' : e.msg # handler'[d].msg
  BY <1>1, <1>3 DEF KeyOf
<1> QED BY <1>1, <1>2, <1>4 DEF KeyOf, At

LEMMA EndedKey ==
  ASSUME NEW d \in Conns, handler'[d].pc = "idle"
  PROVE  KeyOf(d)' /\ ~PastClaim(d)'
BY DEF KeyOf, PastClaim, Unpublished, At

LEMMA LapsedKey ==
  ASSUME NEW d \in Conns, handler'[d].msg \in expired'
  PROVE  KeyOf(d)'
BY DEF KeyOf, Live

\* Sends that stay or end, over untouched keys and envelopes.
LEMMA QuietKeys ==
  ASSUME KeyInv, idem' = idem, expired' = expired, published' = published,
         \A d \in Conns : handler'[d] = handler[d] \/ handler'[d].pc = "idle"
  PROVE  KeyInv'
<1>1. ASSUME NEW d \in Conns
      PROVE  /\ KeyOf(d)'
             /\ PastClaim(d)' => PastClaim(d) /\ handler'[d].msg = handler[d].msg
  <2>1. CASE handler'[d].pc = "idle"
    BY <2>1, EndedKey
  <2>2. CASE handler'[d] = handler[d]
    <3>1. KeyOf(d)
      BY DEF KeyInv
    <3>2. KeyOf(d)'
      BY <2>2, <3>1, KeyFrame
    <3>3. PastClaim(d)' => PastClaim(d)
      BY <2>2 DEF PastClaim, Unpublished, At
    <3> QED BY <2>2, <3>2, <3>3
  <2> QED BY <2>1, <2>2
<1>2. OneSender'
  BY <1>1, SenderFrame DEF KeyInv
<1> QED BY <1>1, <1>2 DEF KeyInv

LEMMA NextKeyInv ==
  ASSUME TypeOK, TypeOK', NumberInv, KeyInv, RecordedBeforePublished, [Next]_vars
  PROVE  KeyInv'
<1>1. /\ MaxSeq \in Nat /\ counter \in 0..MaxSeq
      /\ handler \in [Conns -> Handlers]
      /\ idem \in [Msgs -> {None, Pending} \cup Seqs]
      /\ \A e \in published : e.seq \in Seqs
  BY FlowAssumption DEF TypeOK, Envelopes
<1>2. OneSender /\ \A d \in Conns : KeyOf(d)
  BY DEF KeyInv
<1>3. ASSUME NEW c \in Conns, NEW m \in Msgs, NEW re \in 0..MaxSeq, Claim(c, m, re)
      PROVE  KeyInv'
  <2>1. /\ handler'[c].msg = m
        /\ handler'[c].pc = IF idem[m] = None THEN "claimed" ELSE "refused"
        /\ \A d \in Conns \ {c} : handler'[d] = handler[d]
        /\ expired' = expired /\ published' = published
        /\ idem' = IF idem[m] = None THEN [idem EXCEPT ![m] = Pending] ELSE idem
    BY <1>1, <1>3 DEF Claim
  <2>2. \A d \in Conns \ {c} : PastClaim(d)' => PastClaim(d) /\ handler'[d].msg = handler[d].msg
    BY <2>1 DEF PastClaim, Unpublished, At
  <2>3. CASE idem[m] # None
    <3>1. idem' = idem /\ handler'[c].pc = "refused"
      BY <2>1, <2>3
    <3>2. KeyOf(c)' /\ ~PastClaim(c)'
      BY <2>1, <2>3, <3>1 DEF KeyOf, PastClaim, Unpublished, At
    <3>3. \A d \in Conns : KeyOf(d)'
      BY <1>2, <2>1, <3>1, <3>2, KeyFrame
    <3>4. OneSender'
      BY <1>2, <2>1, <2>2, <3>2, SenderFrame
    <3> QED BY <3>3, <3>4 DEF KeyInv
  <2>4. CASE idem[m] = None
    <3>1. idem'[m] = Pending /\ \A k \in Msgs \ {m} : idem'[k] = idem[k]
      BY <1>1, <2>1, <2>4
    <3>2. m \notin expired => \A e \in published : e.msg # m
      BY <1>1, <2>4, NoneIsNoNumber DEF RecordedBeforePublished
    <3>3. m \notin expired => \A d \in Conns : handler[d].msg = m => At(d, "idle")
      BY <1>2, <2>4 DEF KeyOf, Live
    <3>4. KeyOf(c)'
      BY <2>1, <2>4, <3>1, <3>2, NoneIsNoNumber DEF KeyOf, Live, At
    <3>5. ASSUME NEW d \in Conns \ {c} PROVE KeyOf(d)'
      <4>1. KeyOf(d) /\ handler'[d] = handler[d]
        BY <1>2, <2>1
      <4>2. CASE handler[d].msg \in Msgs \ {m}
        BY <2>1, <3>1, <4>1, <4>2, KeyFrame
      <4>3. CASE handler[d].msg = m /\ m \notin expired
        BY <3>3, <4>1, <4>3, EndedKey DEF At
      <4>4. CASE handler[d].msg \in expired
        BY <2>1, <4>1, <4>4, LapsedKey
      <4>5. CASE handler[d].msg \notin Msgs
        BY <4>1, <4>5 DEF KeyOf, Live
      <4> QED BY <4>2, <4>3, <4>4, <4>5
    <3>6. OneSender'
      <4>1. SUFFICES ASSUME NEW e \in Conns, NEW f \in Conns, Live(e)', PastClaim(e)', PastClaim(f)',
                            handler'[e].msg = handler'[f].msg, e # f
                     PROVE  FALSE
        BY DEF OneSender
      <4>2. CASE e # c /\ f # c
        BY <1>2, <2>1, <2>2, <4>1, <4>2 DEF OneSender, Live
      <4>3. CASE e = c
        BY <2>1, <2>2, <3>3, <4>1, <4>3 DEF Live, PastClaim, Unpublished, At
      <4>4. CASE f = c
        BY <2>1, <2>2, <3>3, <4>1, <4>4 DEF Live, PastClaim, Unpublished, At
      <4> QED BY <4>2, <4>3, <4>4
    <3> QED BY <3>4, <3>5, <3>6 DEF KeyInv
  <2> QED BY <2>3, <2>4
<1>4. ASSUME NEW c \in Conns, ReadClaim(c) PROVE KeyInv'
  <2>1. idem' = idem /\ expired' = expired /\ published' = published
    BY <1>4 DEF ReadClaim, redis
  <2>2. CASE End(c)
    <3>1. \A d \in Conns : handler'[d] = handler[d] \/ handler'[d].pc = "idle"
      BY <2>2, EndMoves DEF Idle
    <3> QED BY <2>1, <3>1, QuietKeys
  <2>3. CASE idem[handler[c].msg] = None /\ Goto(c, "claimed")
    <3>1. handler[c].msg \in Msgs /\ At(c, "refused")
      BY <1>4 DEF ReadClaim, At, TypeOK
    <3>2. handler[c].msg \in expired
      BY <1>2, <2>3, <3>1 DEF KeyOf, Live, At
    <3>3. /\ handler'[c].msg \in expired'
          /\ \A d \in Conns \ {c} : handler'[d] = handler[d]
      BY <2>1, <2>3, <3>2, GotoMoves DEF Steps
    <3>4. \A d \in Conns : KeyOf(d)'
      BY <1>2, <2>1, <3>3, KeyFrame, LapsedKey
    <3>5. \A d \in Conns \ {c} : PastClaim(d)' => PastClaim(d) /\ handler'[d].msg = handler[d].msg
      BY <3>3 DEF PastClaim, Unpublished, At
    <3>6. OneSender'
      BY <1>2, <2>1, <3>3, <3>5, SenderFrame
    <3> QED BY <3>4, <3>6 DEF KeyInv
  <2> QED BY <1>4, <2>2, <2>3 DEF ReadClaim
<1>5. ASSUME NEW c \in Conns, NextSeq(c) PROVE KeyInv'
  <2>1. /\ At(c, "claimed") /\ handler'[c].pc = "numbered"
        /\ handler'[c].msg = handler[c].msg
        /\ \A d \in Conns \ {c} : handler'[d] = handler[d]
        /\ idem' = idem /\ expired' = expired /\ published' = published
    BY <1>1, <1>5 DEF NextSeq, Handlers
  <2>2. KeyOf(c)'
    BY <1>2, <2>1 DEF KeyOf, Live, Unpublished, At
  <2>3. \A d \in Conns : PastClaim(d)' => PastClaim(d) /\ handler'[d].msg = handler[d].msg
    BY <2>1 DEF PastClaim, Unpublished, At
  <2>4. \A d \in Conns \ {c} : KeyOf(d)'
    BY <1>2, <2>1, KeyFrame
  <2>5. OneSender'
    BY <1>2, <2>1, <2>3, SenderFrame
  <2> QED BY <2>2, <2>4, <2>5 DEF KeyInv
<1>6. ASSUME NEW c \in Conns, Record(c) PROVE KeyInv'
  <2> DEFINE m == handler[c].msg
  <2>1. /\ At(c, "numbered") /\ m \in Msgs /\ handler[c].seq \in Seqs
        /\ expired' = expired /\ published' = published
        /\ handler'[c].pc = "recorded" /\ handler'[c].msg = m
        /\ handler'[c].seq = handler[c].seq
        /\ \A d \in Conns \ {c} : handler'[d] = handler[d]
    BY <1>1, <1>6, GotoMoves DEF Record, At, TypeOK, Steps, NumberInv, HasNumber, Seqs
  <2>2. idem'[m] = handler[c].seq /\ \A k \in Msgs \ {m} : idem'[k] = idem[k]
    BY <1>1, <1>6, <2>1 DEF Record
  <2>3. \A d \in Conns : PastClaim(d)' => PastClaim(d) /\ handler'[d].msg = handler[d].msg
    BY <2>1 DEF PastClaim, Unpublished, At
  <2>4. OneSender'
    BY <1>2, <2>1, <2>3, SenderFrame
  <2>5. KeyOf(c)'
    BY <1>2, <2>1, <2>2, NoneIsNoNumber DEF KeyOf, Live, Unpublished, At
  <2>6. ASSUME NEW d \in Conns \ {c} PROVE KeyOf(d)'
    <3>1. KeyOf(d) /\ handler'[d] = handler[d]
      BY <1>2, <2>1
    <3>2. CASE handler[d].msg \in Msgs \ {m}
      BY <2>1, <2>2, <3>1, <3>2, KeyFrame
    <3>3. CASE handler[d].msg \in expired
      BY <2>1, <3>1, <3>3, LapsedKey
    <3>4. CASE handler[d].msg = m /\ m \notin expired
      <4>1. ~PastClaim(d)
        BY <1>2, <2>1, <3>4 DEF OneSender, PastClaim, Unpublished, Live, At
      <4>2. handler[d].pc \notin {"claimed", "numbered", "recorded", "published"}
        BY <4>1 DEF PastClaim, Unpublished, At
      <4> QED BY <2>1, <2>2, <3>1, <3>4, <4>2, NoneIsNoNumber DEF KeyOf, Unpublished, At
    <3>5. CASE handler[d].msg \notin Msgs
      BY <3>1, <3>5 DEF KeyOf, Live
    <3> QED BY <3>2, <3>3, <3>4, <3>5
  <2> QED BY <2>4, <2>5, <2>6 DEF KeyInv
<1>7. ASSUME NEW c \in Conns, Publish(c) PROVE KeyInv'
  <2> DEFINE m == handler[c].msg
  <2>1. /\ At(c, "recorded") /\ m \in Msgs
        /\ idem' = idem /\ expired' = expired
        /\ published' = published \cup {EnvelopeOf(c)} /\ EnvelopeOf(c).msg = m
        /\ handler'[c].pc = "published" /\ handler'[c].msg = m
        /\ handler'[c].seq = handler[c].seq
        /\ \A d \in Conns \ {c} : handler'[d] = handler[d]
    BY <1>7, GotoMoves DEF Publish, At, TypeOK, Steps, redis, EnvelopeOf
  <2>2. \A d \in Conns : PastClaim(d)' => PastClaim(d) /\ handler'[d].msg = handler[d].msg
    BY <2>1 DEF PastClaim, Unpublished, At
  <2>3. OneSender'
    BY <1>2, <2>1, <2>2, SenderFrame
  <2>4. KeyOf(c)'
    BY <1>2, <2>1 DEF KeyOf, Live, Unpublished, At
  <2>5. ASSUME NEW d \in Conns \ {c} PROVE KeyOf(d)'
    <3>1. KeyOf(d) /\ handler'[d] = handler[d]
      BY <1>2, <2>1
    <3>2. CASE handler[d].msg # m
      BY <2>1, <3>1, <3>2, KeyFrame
    <3>3. CASE handler[d].msg \in expired
      BY <2>1, <3>1, <3>3, LapsedKey
    <3>4. CASE handler[d].msg = m /\ m \notin expired
      <4>1. ~PastClaim(d)
        BY <1>2, <2>1, <3>4 DEF OneSender, PastClaim, Unpublished, Live, At
      <4>2. ~Unpublished(d)'
        BY <3>1, <4>1 DEF PastClaim, Unpublished
      <4> QED BY <2>1, <3>1, <3>4, <4>2 DEF KeyOf, Live, At
    <3> QED BY <3>2, <3>3, <3>4
  <2> QED BY <2>3, <2>4, <2>5 DEF KeyInv
<1>8. ASSUME NEW c \in Conns, Acknowledge(c) PROVE KeyInv'
  <2>1. \A d \in Conns : handler'[d] = handler[d] \/ handler'[d].pc = "idle"
    BY <1>8, EndMoves DEF Acknowledge, Idle
  <2> QED BY <1>8, <2>1, QuietKeys DEF Acknowledge, redis
<1>9. ASSUME NEW n \in Nodes, Deliver(n) PROVE KeyInv'
  BY <1>9, QuietKeys DEF Deliver, redis
<1>10. ASSUME NEW n \in Nodes, NEW e \in saving[n], Save(n, e) PROVE KeyInv'
  BY <1>10, QuietKeys DEF Save, redis
<1>11. ASSUME NEW m \in Msgs, Expire(m) PROVE KeyInv'
  <2>1. /\ handler' = handler /\ published' = published /\ expired' = expired \cup {m}
        /\ \A k \in Msgs \ {m} : idem'[k] = idem[k]
    BY <1>1, <1>11 DEF Expire
  <2>2. \A d \in Conns : PastClaim(d)' => PastClaim(d)
    BY <2>1 DEF PastClaim, Unpublished, At
  <2>3. OneSender'
    BY <1>2, <2>1, <2>2, SenderFrame
  <2>4. ASSUME NEW d \in Conns PROVE KeyOf(d)'
    <3>1. CASE handler[d].msg \in expired'
      BY <2>1, <3>1, LapsedKey
    <3>2. CASE handler[d].msg \in Msgs \ {m}
      BY <1>2, <2>1, <3>2, KeyFrame
    <3>3. CASE handler[d].msg \notin Msgs
      BY <2>1, <3>3 DEF KeyOf, Live
    <3> QED BY <2>1, <3>1, <3>2, <3>3
  <2> QED BY <2>3, <2>4 DEF KeyInv
<1>12. CASE Forget
  <2>1. \A d \in Conns : handler'[d] = handler[d] \/ handler'[d].pc = "idle"
    BY <1>12 DEF Forget, Idle
  <2> QED BY <1>12, <2>1, QuietKeys DEF Forget, redis
<1> QED BY <1>3, <1>4, <1>5, <1>6, <1>7, <1>8, <1>9, <1>10, <1>11, <1>12,
           ForgetSteps DEF Next, SendStep

(***************************************************************************)
(* SaveInv and HistoryFaithful.  An envelope is in one place at a time: at *)
(* the send that published it, in the background task of one node, or in   *)
(* the table.                                                              *)
(***************************************************************************)
LEMMA SaveFrame ==
  ASSUME SaveInv, HistoryFaithful, published \subseteq published', history' = history,
         \A n \in Nodes : saving'[n] \subseteq saving[n],
         \A c \in Conns : handler'[c].pc = "published" =>
           \/ handler'[c] = handler[c]
           \/ EnvelopeOf(c)' \notin published
  PROVE  SaveInv' /\ HistoryFaithful'
<1>1. /\ \A n \in Nodes : saving'[n] \subseteq published'
      /\ \A n, o \in Nodes : n # o => saving'[n] \cap saving'[o] = {}
  BY DEF SaveInv
<1>2. ASSUME NEW c \in Conns, handler'[c].pc = "published"
      PROVE  /\ \A n \in Nodes : EnvelopeOf(c)' \notin saving'[n]
             /\ EnvelopeOf(c)' \notin history'
  <2>1. CASE EnvelopeOf(c)' \notin published
    BY <2>1 DEF SaveInv, HistoryFaithful
  <2>2. CASE handler'[c] = handler[c]
    BY <1>2, <2>2 DEF SaveInv, At, EnvelopeOf
  <2> QED BY <1>2, <2>1, <2>2
<1>3. /\ history' \subseteq published'
      /\ \A n \in Nodes : \A e \in saving'[n], f \in history' : e.seq # f.seq
  BY DEF HistoryFaithful
<1> QED BY <1>1, <1>2, <1>3 DEF SaveInv, HistoryFaithful, At

LEMMA NextSaveInv ==
  ASSUME TypeOK, NumberInv, SaveInv, SequenceUnique, HistoryFaithful, [Next]_vars
  PROVE  SaveInv' /\ HistoryFaithful'
<1>1. /\ handler \in [Conns -> Handlers]
      /\ saving \in [Nodes -> SUBSET Envelopes]
      /\ NodeOf \in [Conns -> Nodes]
      /\ \A n \in Nodes : saving[n] \subseteq published
      /\ history \subseteq published
  BY FlowAssumption DEF TypeOK, SaveInv, HistoryFaithful
<1>2. ASSUME NEW c \in Conns, NEW m \in Msgs, NEW re \in 0..MaxSeq, Claim(c, m, re)
      PROVE  SaveInv' /\ HistoryFaithful'
  <2>1. \A d \in Conns : handler'[d] = handler[d] \/ handler'[d].pc # "published"
    BY <1>1, <1>2 DEF Claim
  <2> QED BY <1>2, <2>1, SaveFrame DEF Claim, storage
<1>3. ASSUME NEW c \in Conns, ReadClaim(c) \/ NextSeq(c) \/ Record(c)
      PROVE  SaveInv' /\ HistoryFaithful'
  <2>1. \A d \in Conns : handler'[d] = handler[d] \/ handler'[d].pc # "published"
    <3>1. CASE End(c)
      BY <3>1, EndMoves DEF Idle
    <3>2. CASE Goto(c, "claimed") \/ Goto(c, "recorded")
      BY <3>2, GotoMoves DEF Steps
    <3>3. CASE NextSeq(c)
      BY <1>1, <3>3 DEF NextSeq, Handlers
    <3> QED BY <1>3, <3>1, <3>2, <3>3 DEF ReadClaim, Record
  <2>2. published' = published /\ history' = history /\ saving' = saving
    BY <1>3 DEF ReadClaim, NextSeq, Record, storage
  <2> QED BY <2>1, <2>2, SaveFrame
<1>4. ASSUME NEW c \in Conns, Publish(c) PROVE SaveInv' /\ HistoryFaithful'
  <2>1. /\ At(c, "recorded") /\ published \subseteq published'
        /\ history' = history /\ saving' = saving
        /\ EnvelopeOf(c)' = EnvelopeOf(c)
        /\ \A d \in Conns \ {c} : handler'[d] = handler[d]
    BY <1>4, GotoMoves DEF Publish, storage, Steps, EnvelopeOf
  <2>2. EnvelopeOf(c) \notin published
    BY <2>1 DEF NumberInv, EnvelopeOf
  <2> QED BY <2>1, <2>2, SaveFrame
<1>5. ASSUME NEW c \in Conns, Acknowledge(c) PROVE SaveInv' /\ HistoryFaithful'
  <2> DEFINE e == EnvelopeOf(c)
  <2>1. /\ At(c, "published") /\ published' = published /\ history' = history
        /\ saving'[NodeOf[c]] = saving[NodeOf[c]] \cup {e}
        /\ \A n \in Nodes \ {NodeOf[c]} : saving'[n] = saving[n]
        /\ NodeOf[c] \in Nodes
        /\ handler'[c] = Idle
        /\ \A d \in Conns \ {c} : handler'[d] = handler[d]
    BY <1>1, <1>5, EndMoves DEF Acknowledge
  <2>2. e \in published /\ e \notin history /\ \A n \in Nodes : e \notin saving[n]
    BY <2>1 DEF NumberInv, SaveInv
  <2>3. \A d \in Conns \ {c} : At(d, "published") => EnvelopeOf(d) # e
    BY <2>1 DEF NumberInv, HasNumber, EnvelopeOf, At
  <2>4. \A n \in Nodes : saving'[n] \subseteq published'
    BY <1>1, <2>1, <2>2
  <2>5. \A n, o \in Nodes : n # o => saving'[n] \cap saving'[o] = {}
    BY <2>1, <2>2 DEF SaveInv
  <2>6. \A d \in Conns : At(d, "published")' =>
          /\ \A n \in Nodes : EnvelopeOf(d)' \notin saving'[n]
          /\ EnvelopeOf(d)' \notin history'
    <3>1. TAKE d \in Conns
    <3>2. HAVE At(d, "published")'
    <3>3. d # c /\ At(d, "published") /\ EnvelopeOf(d)' = EnvelopeOf(d)
      BY <2>1, <3>2 DEF At, Idle, EnvelopeOf
    <3> QED BY <2>1, <2>3, <3>3 DEF SaveInv
  <2>7. \A f \in history : e.seq # f.seq
    BY <1>1, <2>2 DEF SequenceUnique
  <2>8. HistoryFaithful'
    BY <2>1, <2>7 DEF HistoryFaithful
  <2> QED BY <2>4, <2>5, <2>6, <2>8 DEF SaveInv
<1>6. ASSUME NEW n \in Nodes, NEW e \in saving[n], Save(n, e)
      PROVE  SaveInv' /\ HistoryFaithful'
  <2>1. /\ published' = published /\ handler' = handler
        /\ saving'[n] = saving[n] \ {e}
        /\ \A o \in Nodes \ {n} : saving'[o] = saving[o]
        /\ history' = history \cup {e}
    BY <1>1, <1>6 DEF Save, HistoryFaithful
  <2>2. \A o \in Nodes : e \notin saving'[o]
    BY <2>1 DEF SaveInv
  <2>3. \A o \in Nodes : saving'[o] \subseteq saving[o]
    BY <2>1
  <2>4. \A o, q \in Nodes : o # q => saving'[o] \cap saving'[q] = {}
    BY <2>3 DEF SaveInv
  <2>5. \A d \in Conns : At(d, "published")' =>
          /\ \A o \in Nodes : EnvelopeOf(d)' \notin saving'[o]
          /\ EnvelopeOf(d)' \notin history'
    BY <2>1, <2>3 DEF SaveInv, At, EnvelopeOf
  <2>6. \A o \in Nodes : \A g \in saving'[o] : g.seq # e.seq
    BY <1>1, <2>2, <2>3 DEF SequenceUnique
  <2>7. HistoryFaithful'
    BY <1>1, <2>1, <2>3, <2>6 DEF HistoryFaithful
  <2> QED BY <1>1, <2>1, <2>3, <2>4, <2>5, <2>7 DEF SaveInv
<1>7. ASSUME NEW n \in Nodes, Deliver(n) PROVE SaveInv' /\ HistoryFaithful'
  BY <1>7, SaveFrame DEF Deliver, storage
<1>8. ASSUME NEW m \in Msgs, Expire(m) PROVE SaveInv' /\ HistoryFaithful'
  BY <1>8, SaveFrame DEF Expire, storage
<1>9. CASE Forget
  <2>1. \A d \in Conns : handler'[d] = handler[d] \/ handler'[d].pc # "published"
    BY <1>9 DEF Forget, Idle
  <2> QED BY <1>9, <2>1, SaveFrame DEF Forget
<1> QED BY <1>2, <1>3, <1>4, <1>5, <1>6, <1>7, <1>8, <1>9, ForgetSteps DEF Next, SendStep

(***************************************************************************)
(* The properties that relate keys, envelopes and acks.                    *)
(***************************************************************************)
KeySafety ==
  /\ SequenceUnique
  /\ PublishedOnce
  /\ RecordedBeforePublished
  /\ AcksAgree
  /\ AnswersSortAfter

LEMMA QuietSafety ==
  ASSUME KeySafety, UNCHANGED <<idem, expired, published, acks>>
  PROVE  KeySafety'
BY DEF KeySafety, SequenceUnique, PublishedOnce, RecordedBeforePublished, AcksAgree,
       AnswersSortAfter

\* A step that writes one key keeps both properties of the keys when nothing
\* was published or acknowledged under the value it replaces.
LEMMA KeyWritten ==
  ASSUME KeySafety, NEW m \in Msgs, published' = published, acks' = acks,
         expired \subseteq expired',
         \A k \in Msgs \ {m} : idem'[k] = idem[k],
         \A e \in published : e.msg \in Msgs,
         \A a \in acks : a.msg \in Msgs,
         m \notin expired' =>
           /\ \A e \in published : e.msg # m
           /\ \A a \in acks : a.msg = m => a.seq = 0
  PROVE  KeySafety'
<1>1. SequenceUnique' /\ AnswersSortAfter'
  BY DEF KeySafety, SequenceUnique, AnswersSortAfter
<1>2. PublishedOnce'
  BY DEF KeySafety, PublishedOnce
<1>3. RecordedBeforePublished'
  BY DEF KeySafety, RecordedBeforePublished
<1>4. ASSUME NEW a \in acks, a.seq # 0
      PROVE  /\ a.msg \notin expired' => idem'[a.msg] = a.seq
             /\ a.duplicate \/ \E e \in published' : e.msg = a.msg /\ e.seq = a.seq
  <2>1. /\ a.msg \notin expired => idem[a.msg] = a.seq
        /\ a.duplicate \/ \E e \in published : e.msg = a.msg /\ e.seq = a.seq
    BY <1>4 DEF KeySafety, AcksAgree
  <2>2. a.msg \notin expired' => idem'[a.msg] = a.seq
    BY <1>4, <2>1
  <2> QED BY <2>1, <2>2
<1>5. AcksAgree'
  BY <1>4 DEF AcksAgree
<1> QED BY <1>1, <1>2, <1>3, <1>5 DEF KeySafety

LEMMA NewAck ==
  ASSUME KeySafety, UNCHANGED <<idem, expired, published>>, NEW a,
         acks' = acks \cup {a},
         a.seq # 0 =>
           /\ a.msg \notin expired => idem[a.msg] = a.seq
           /\ a.duplicate \/ \E e \in published : e.msg = a.msg /\ e.seq = a.seq
  PROVE  KeySafety'
<1>1. AcksAgree'
  BY DEF KeySafety, AcksAgree
<1> QED BY <1>1 DEF KeySafety, SequenceUnique, PublishedOnce, RecordedBeforePublished,
                    AnswersSortAfter

LEMMA NextKeySafety ==
  ASSUME TypeOK, NumberInv, KeyInv, KeySafety, [Next]_vars
  PROVE  KeySafety'
<1>1. /\ MaxSeq \in Nat
      /\ handler \in [Conns -> Handlers]
      /\ idem \in [Msgs -> {None, Pending} \cup Seqs]
      /\ \A e \in published : e.msg \in Msgs /\ e.seq \in Seqs
      /\ \A a \in acks : a.msg \in Msgs /\ a.seq \in 0..MaxSeq
      /\ None \notin 0..MaxSeq /\ Pending \notin 0..MaxSeq
  BY FlowAssumption DEF TypeOK, Envelopes, Acks
<1>2. ASSUME NEW c \in Conns, NEW m \in Msgs, NEW re \in 0..MaxSeq, Claim(c, m, re)
      PROVE  KeySafety'
  <2>1. /\ published' = published /\ acks' = acks /\ expired' = expired
        /\ idem' = IF idem[m] = None THEN [idem EXCEPT ![m] = Pending] ELSE idem
    BY <1>2 DEF Claim
  <2>2. CASE idem[m] # None
    BY <2>1, <2>2, QuietSafety
  <2>3. CASE idem[m] = None
    <3>1. \A k \in Msgs \ {m} : idem'[k] = idem[k]
      BY <1>1, <2>1, <2>3
    <3>2. m \notin expired => \A e \in published : e.msg # m
      BY <1>1, <2>3, NoneIsNoNumber DEF KeySafety, RecordedBeforePublished
    <3>3. m \notin expired => \A a \in acks : a.msg = m => a.seq = 0
      BY <1>1, <2>3 DEF KeySafety, AcksAgree
    <3> QED BY <1>1, <2>1, <3>1, <3>2, <3>3, KeyWritten
  <2> QED BY <2>2, <2>3
<1>3. ASSUME NEW c \in Conns, ReadClaim(c) PROVE KeySafety'
  <2>1. UNCHANGED <<idem, expired, published>>
    BY <1>3 DEF ReadClaim, redis
  <2>2. CASE acks' = acks
    BY <2>1, <2>2, QuietSafety
  <2>3. CASE acks' = acks \cup {DuplicateAck(handler[c].msg)}
    <3> DEFINE a == DuplicateAck(handler[c].msg)
    <3>1. a.duplicate /\ (a.seq # 0 => idem[a.msg] = a.seq)
      BY DEF DuplicateAck
    <3> HIDE DEF a
    <3> QED BY <2>1, <2>3, <3>1, NewAck DEF a
  <2> QED BY <1>3, <2>2, <2>3 DEF ReadClaim
<1>4. ASSUME NEW c \in Conns, NextSeq(c) PROVE KeySafety'
  BY <1>4, QuietSafety DEF NextSeq
<1>5. ASSUME NEW c \in Conns, Record(c) PROVE KeySafety'
  <2> DEFINE m == handler[c].msg
  <2>1. /\ At(c, "numbered") /\ m \in Msgs
        /\ published' = published /\ acks' = acks /\ expired' = expired
        /\ \A k \in Msgs \ {m} : idem'[k] = idem[k]
    BY <1>1, <1>5 DEF Record, At, TypeOK
  <2>2. m \notin expired => idem[m] = Pending /\ \A e \in published : e.msg # m
    BY <2>1 DEF KeyInv, KeyOf, Live, Unpublished, At
  <2>3. m \notin expired => \A a \in acks : a.msg = m => a.seq = 0
    BY <1>1, <2>2 DEF KeySafety, AcksAgree
  <2> QED BY <1>1, <2>1, <2>2, <2>3, KeyWritten
<1>6. ASSUME NEW c \in Conns, Publish(c) PROVE KeySafety'
  <2> DEFINE m == handler[c].msg
             e == EnvelopeOf(c)
  <2>1. /\ At(c, "recorded") /\ m \in Msgs
        /\ published' = published \cup {e}
        /\ idem' = idem /\ expired' = expired /\ acks' = acks
        /\ e.msg = m /\ e.seq = handler[c].seq /\ e.re = handler[c].re
    BY <1>6 DEF Publish, At, TypeOK, redis, EnvelopeOf
  <2>2. \A f \in published : f.seq # e.seq
    BY <2>1 DEF NumberInv
  <2>3. e.re < e.seq
    BY <2>1 DEF NumberInv, HasNumber, At
  <2>4. m \notin expired => idem[m] = e.seq /\ \A f \in published : f.msg # m
    BY <2>1 DEF KeyInv, KeyOf, Live, Unpublished, At
  <2>5. SequenceUnique'
    BY <2>1, <2>2 DEF KeySafety, SequenceUnique
  <2>6. PublishedOnce'
    BY <2>1, <2>4 DEF KeySafety, PublishedOnce
  <2>7. RecordedBeforePublished'
    BY <2>1, <2>4 DEF KeySafety, RecordedBeforePublished
  <2>8. AcksAgree'
    BY <2>1 DEF KeySafety, AcksAgree
  <2>9. AnswersSortAfter'
    BY <2>1, <2>3 DEF KeySafety, AnswersSortAfter
  <2> QED BY <2>5, <2>6, <2>7, <2>8, <2>9 DEF KeySafety
<1>7. ASSUME NEW c \in Conns, Acknowledge(c) PROVE KeySafety'
  <2> DEFINE a == [msg |-> handler[c].msg, seq |-> handler[c].seq, duplicate |-> FALSE]
  <2>1. /\ At(c, "published") /\ handler[c].msg \in Msgs
        /\ UNCHANGED <<idem, expired, published>> /\ acks' = acks \cup {a}
    BY <1>7 DEF Acknowledge, At, TypeOK, redis
  <2>2. EnvelopeOf(c) \in published /\ EnvelopeOf(c).msg = a.msg /\ EnvelopeOf(c).seq = a.seq
    BY <2>1 DEF NumberInv, EnvelopeOf
  <2>3. a.msg \notin expired => idem[a.msg] = a.seq
    BY <2>1 DEF KeyInv, KeyOf, Live
  <2> QED BY <2>1, <2>2, <2>3, NewAck
<1>8. ASSUME NEW n \in Nodes, Deliver(n) PROVE KeySafety'
  BY <1>8, QuietSafety DEF Deliver, redis
<1>9. ASSUME NEW n \in Nodes, NEW e \in saving[n], Save(n, e) PROVE KeySafety'
  BY <1>9, QuietSafety DEF Save, redis
<1>10. ASSUME NEW m \in Msgs, Expire(m) PROVE KeySafety'
  <2>1. /\ published' = published /\ acks' = acks /\ expired' = expired \cup {m}
        /\ \A k \in Msgs \ {m} : idem'[k] = idem[k]
    BY <1>1, <1>10 DEF Expire
  <2> QED BY <1>1, <2>1, KeyWritten
<1>11. CASE Forget
  BY <1>11, QuietSafety DEF Forget, redis
<1> QED BY <1>2, <1>3, <1>4, <1>5, <1>6, <1>7, <1>8, <1>9, <1>10, <1>11,
           ForgetSteps DEF Next, SendStep

(***************************************************************************)
(* The results.                                                            *)
(***************************************************************************)
LEMMA InitIInv == Init => IInv
<1> SUFFICES ASSUME Init PROVE IInv
  OBVIOUS
<1>1. TypeOK
  BY InitTypeOK
<1>2. NumberInv
  BY DEF Init, NumberInv, HasNumber, At, Idle
<1>3. KeyInv
  BY DEF Init, KeyInv, OneSender, KeyOf, PastClaim, Unpublished, At, Idle
<1>4. SaveInv
  BY DEF Init, SaveInv, At, Idle
<1>5. /\ SequenceUnique /\ PublishedOnce /\ RecordedBeforePublished
      /\ AcksAgree /\ AnswersSortAfter /\ HistoryFaithful
  BY DEF Init, SequenceUnique, PublishedOnce, RecordedBeforePublished, AcksAgree,
         AnswersSortAfter, HistoryFaithful
<1> QED BY <1>1, <1>2, <1>3, <1>4, <1>5 DEF IInv

LEMMA NextIInv == IInv /\ [Next]_vars => IInv'
<1> SUFFICES ASSUME IInv, [Next]_vars PROVE IInv'
  OBVIOUS
<1>1. /\ TypeOK /\ NumberInv /\ KeyInv /\ SaveInv /\ KeySafety
      /\ SequenceUnique /\ RecordedBeforePublished /\ HistoryFaithful
  BY DEF IInv, KeySafety
<1>2. TypeOK'
  BY <1>1, NextTypeOK
<1>3. NumberInv'
  BY <1>1, <1>2, NextNumberInv
<1>4. KeyInv'
  BY <1>1, <1>2, NextKeyInv
<1>5. SaveInv' /\ HistoryFaithful'
  BY <1>1, NextSaveInv
<1>6. KeySafety'
  BY <1>1, NextKeySafety
<1> QED BY <1>2, <1>3, <1>4, <1>5, <1>6 DEF IInv, KeySafety

\* IInv holds in every reachable state of every cluster.
THEOREM Inductive == Spec => []IInv
BY InitIInv, NextIInv, PTL DEF Spec

\* The variables of the send path keep their types.
THEOREM TypeCorrect == Spec => []TypeOK
BY Inductive, PTL DEF IInv

\* No two envelopes of a room carry the same number, whatever crashes and
\* retries there are (next_seq is the only source of numbers).
THEOREM Uniqueness == Spec => []SequenceUnique
BY Inductive, PTL DEF IInv

\* A message is published once while its key lives (send claims before INCR).
THEOREM Idempotence == Spec => []PublishedOnce
BY Inductive, PTL DEF IInv

\* The number of a published message is already in its key (record precedes
\* publish), so every later retry is answered with it.
THEOREM Recorded == Spec => []RecordedBeforePublished
BY Inductive, PTL DEF IInv

\* Every ack with a number names the number in the key, and a first ack names
\* a published envelope.
THEOREM Agreement == Spec => []AcksAgree
BY Inductive, PTL DEF IInv

\* An answer is numbered above the message it answers, across all nodes.
THEOREM Causality == Spec => []AnswersSortAfter
BY Inductive, PTL DEF IInv

\* Only published envelopes are stored, and the conditional put never finds
\* its number taken.
THEOREM Faithful == Spec => []HistoryFaithful
BY Inductive, PTL DEF IInv

\* The cluster implements the room of module Room.
THEOREM Refinement == Spec => RoomSpec
<1>1. Init => Promise!Init
  BY DEF Init, Promise!Init
<1>2. IInv /\ [Next]_vars => [Promise!Next]_(Promise!vars)
  <2> SUFFICES ASSUME IInv, [Next]_vars PROVE [Promise!Next]_(Promise!vars)
    OBVIOUS
  <2>1. TypeOK /\ NumberInv /\ KeyInv /\ SaveInv /\ HistoryFaithful
    BY DEF IInv
  <2>2. /\ handler \in [Conns -> Handlers] /\ MaxSeq \in Nat
        /\ \A n \in Nodes : saving[n] \subseteq published
    BY <2>1, FlowAssumption DEF TypeOK, SaveInv
  <2>3. ASSUME UNCHANGED <<published, history, expired>>
        PROVE  [Promise!Next]_(Promise!vars)
    BY <2>3 DEF Promise!vars
  <2>4. ASSUME NEW c \in Conns, Publish(c) PROVE Promise!Next
    <3> DEFINE e == EnvelopeOf(c)
    <3>1. /\ At(c, "recorded") /\ e.msg \in Msgs /\ e.seq \in Seqs /\ e.re \in Seqs \cup {0}
          /\ e = [msg |-> e.msg, seq |-> e.seq, re |-> e.re]
      <4>1. At(c, "recorded") /\ handler[c].msg \in Msgs
        BY <2>1, <2>4 DEF Publish, At, TypeOK
      <4>3. handler[c].re \in 0..MaxSeq
        <5>1. handler[c] \in Handlers
          BY <2>2
        <5> QED BY <5>1 DEF Handlers
      <4>2. handler[c].seq \in Seqs
        <5>1. handler[c].seq \in 1..counter
          BY <2>1, <4>1 DEF NumberInv, HasNumber, At
        <5>2. counter \in 0..MaxSeq
          BY <2>1 DEF TypeOK
        <5> QED BY <2>2, <5>1, <5>2 DEF Seqs
      <4> QED BY <2>2, <4>1, <4>2, <4>3 DEF EnvelopeOf, Seqs
    <3>2. \A f \in published : f.seq # e.seq
      BY <2>1, <3>1 DEF NumberInv, EnvelopeOf
    <3>3. e.msg \in expired \/ \A f \in published : f.msg # e.msg
      BY <2>1, <3>1 DEF KeyInv, KeyOf, Live, Unpublished, At, EnvelopeOf
    <3>4. published' = published \cup {e} /\ UNCHANGED <<history, expired>>
      BY <2>4 DEF Publish, redis, storage
    <3>5. Promise!Publish(e.msg, e.seq, e.re)
      BY <3>1, <3>2, <3>3, <3>4 DEF Promise!Publish
    <3> QED BY <3>1, <3>5 DEF Promise!Next
  <2>5. ASSUME NEW n \in Nodes, NEW e \in saving[n], Save(n, e)
        PROVE  Promise!Next
    <3>1. Promise!Store(e)
      BY <2>1, <2>5 DEF Save, redis, HistoryFaithful, Promise!Store
    <3> QED BY <2>2, <3>1 DEF Promise!Next
  <2>6. ASSUME NEW m \in Msgs, Expire(m) PROVE Promise!Next
    <3>1. Promise!Lapse(m)
      BY <2>6 DEF Expire, storage, Promise!Lapse
    <3> QED BY <3>1 DEF Promise!Next
  <2>7. CASE Forget
    BY <2>3, <2>7 DEF Forget, redis
  <2>8. ASSUME NEW c \in Conns, NEW m \in Msgs, NEW re \in 0..MaxSeq, Claim(c, m, re)
        PROVE  [Promise!Next]_(Promise!vars)
    BY <2>3, <2>8 DEF Claim, storage
  <2>9. ASSUME NEW c \in Conns, ReadClaim(c) \/ NextSeq(c) \/ Record(c) \/ Acknowledge(c)
        PROVE  [Promise!Next]_(Promise!vars)
    BY <2>3, <2>9 DEF ReadClaim, NextSeq, Record, Acknowledge, storage, redis
  <2>10. ASSUME NEW n \in Nodes, Deliver(n) PROVE [Promise!Next]_(Promise!vars)
    BY <2>3, <2>10 DEF Deliver, storage, redis
  <2> QED BY <2>1, <2>4, <2>5, <2>6, <2>7, <2>8, <2>9, <2>10, ForgetSteps DEF Next, SendStep
<1> QED BY <1>1, <1>2, Inductive, PTL DEF Spec, RoomSpec, Promise!Spec
=============================================================================
