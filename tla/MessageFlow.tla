---------------------------- MODULE MessageFlow ----------------------------
(***************************************************************************)
(* The path of a message through the cluster, for one room: ChatService.   *)
(* send of src/salaviva/app/chat_service.py as the sequence of its awaits, *)
(* against the Redis idempotency store, the Redis sequencer, the Pub/Sub   *)
(* bus and the DynamoDB history, on several nodes that crash and restart.  *)
(*                                                                         *)
(* A connection dispatches one frame at a time, so it runs at most one     *)
(* send; a client retries on any connection of any node, while the first   *)
(* attempt may still be running.                                           *)
(***************************************************************************)
EXTENDS Integers, Sequences, FiniteSets

CONSTANTS
  Nodes,        \* server processes
  Conns,        \* WebSocket connections
  NodeOf,       \* the node each connection is open on
  Msgs,         \* client_msg_ids
  Expirable,    \* messages retried after the idempotency key expired
  MaxSeq,       \* numbers one run may assign (bounds the counter)
  MaxFaults,    \* crashes, broken Pub/Sub links and failed calls in one run
  None,         \* no idempotency key
  Pending       \* the provisional marker _PENDING

ASSUME FlowAssumption ==
  /\ NodeOf \in [Conns -> Nodes]
  /\ Expirable \subseteq Msgs
  /\ MaxSeq \in Nat
  /\ MaxFaults \in Nat
  /\ None \notin 0..MaxSeq /\ Pending \notin 0..MaxSeq /\ None # Pending

VARIABLES
  idem,         \* Redis: idempotency key of each message
  counter,      \* Redis: chat:seq of the room
  handler,      \* the send each connection is running
  published,    \* every envelope ever published on the topic
  node,         \* state of each node's process and Pub/Sub link
  inbox,        \* envelopes sent to a node and not yet handled, by number
  seen,         \* numbers each node has broadcast to its local members
  saving,       \* background tasks of each node: envelopes being saved
  history,      \* DynamoDB: envelopes stored
  acks,         \* acks sent to clients
  expired,      \* messages whose key expired (the TTL elapsed)
  faults        \* faults so far (bounded by MaxFaults)

redis == <<idem, counter, expired>>
delivery == <<node, inbox, seen>>
storage == <<saving, history>>
vars == <<idem, counter, handler, published, node, inbox, seen, saving,
          history, acks, expired, faults>>

Seqs == 1..MaxSeq

Envelopes == [msg : Msgs, seq : Seqs, re : 0..MaxSeq]

Acks == [msg : Msgs, seq : 0..MaxSeq, duplicate : BOOLEAN]

\* Where a send stands: between two of its awaits.
Steps == {"idle", "refused", "claimed", "numbered", "recorded", "published"}

Idle == [pc |-> "idle", msg |-> None, seq |-> 0, re |-> 0]

Handlers == [pc : Steps, msg : Msgs \cup {None}, seq : 0..MaxSeq, re : 0..MaxSeq]

TypeOK ==
  /\ idem \in [Msgs -> {None, Pending} \cup Seqs]
  /\ counter \in 0..MaxSeq
  /\ handler \in [Conns -> Handlers]
  /\ \A c \in Conns : handler[c].pc # "idle" => handler[c].msg \in Msgs
  /\ published \in SUBSET Envelopes
  /\ node \in [Nodes -> {"down", "up", "listening"}]
  /\ inbox \in [Nodes -> Seq(Seqs)]
  /\ seen \in [Nodes -> SUBSET Seqs]
  /\ saving \in [Nodes -> SUBSET Envelopes]
  /\ history \in SUBSET Envelopes
  /\ acks \in SUBSET Acks
  /\ expired \in SUBSET Expirable
  /\ faults \in 0..MaxFaults

Init ==
  /\ idem = [m \in Msgs |-> None]
  /\ counter = 0
  /\ handler = [c \in Conns |-> Idle]
  /\ published = {}
  /\ node = [n \in Nodes |-> "up"]
  /\ inbox = [n \in Nodes |-> <<>>]
  /\ seen = [n \in Nodes |-> {}]
  /\ saving = [n \in Nodes |-> {}]
  /\ history = {}
  /\ acks = {}
  /\ expired = {}
  /\ faults = 0

-----------------------------------------------------------------------------
(* ChatService.send, one action per await.                                 *)

At(c, pc) == handler[c].pc = pc

Goto(c, pc) == handler' = [handler EXCEPT ![c].pc = pc]

End(c) == handler' = [handler EXCEPT ![c] = Idle]

Alive(n) == node[n] # "down"

\* Every number some user may have read on a screen.
Readable == UNION {seen[n] : n \in Nodes}

\* Mutant: a claim that finds the provisional marker takes it over.
ClaimTakeover(c, m, re) ==
  /\ At(c, "idle")
  /\ Alive(NodeOf[c])
  /\ re \in Readable \cup {0}
  /\ handler' = [handler EXCEPT ![c] =
       [ pc  |-> IF idem[m] \in {None, Pending} THEN "claimed" ELSE "refused",
         msg |-> m, seq |-> 0, re |-> re ]]
  /\ idem' = IF idem[m] = None THEN [idem EXCEPT ![m] = Pending] ELSE idem
  /\ UNCHANGED <<counter, expired, published, delivery, storage, acks, faults>>

\* SET key pending NX: the first attempt wins, the others go on to GET.
\* re is the message the user answers, already shown to somebody.
Claim(c, m, re) ==
  /\ At(c, "idle")
  /\ Alive(NodeOf[c])
  /\ re \in Readable \cup {0}
  /\ handler' = [handler EXCEPT ![c] =
       [ pc  |-> IF idem[m] = None THEN "claimed" ELSE "refused",
         msg |-> m, seq |-> 0, re |-> re ]]
  /\ idem' = IF idem[m] = None THEN [idem EXCEPT ![m] = Pending] ELSE idem
  /\ UNCHANGED <<counter, expired, published, delivery, storage, acks, faults>>

DuplicateAck(m) ==
  [ msg |-> m, seq |-> IF idem[m] = Pending THEN 0 ELSE idem[m],
    duplicate |-> TRUE ]

\* Mutant: a duplicate waits until the first attempt has recorded its number.
ReadClaimWait(c) ==
  /\ At(c, "refused")
  /\ idem[handler[c].msg] # Pending
  /\ \/ /\ idem[handler[c].msg] # None
        /\ acks' = acks \cup {DuplicateAck(handler[c].msg)}
        /\ End(c)
     \/ /\ idem[handler[c].msg] = None
        /\ Goto(c, "claimed")
        /\ UNCHANGED acks
  /\ UNCHANGED <<redis, published, delivery, storage, faults>>

\* GET key after a refused SET: a value is a duplicate and is answered with
\* it; no value (the key expired in between) reads as a successful claim.
ReadClaim(c) ==
  /\ At(c, "refused")
  /\ \/ /\ idem[handler[c].msg] # None
        /\ acks' = acks \cup {DuplicateAck(handler[c].msg)}
        /\ End(c)
     \/ /\ idem[handler[c].msg] = None
        /\ Goto(c, "claimed")
        /\ UNCHANGED acks
  /\ UNCHANGED <<redis, published, delivery, storage, faults>>

\* Mutant: the number comes from what was published, not from INCR.
NextSeqRead(c) ==
  /\ At(c, "claimed")
  /\ Cardinality(published) < MaxSeq
  /\ counter' = Cardinality(published) + 1
  /\ handler' = [handler EXCEPT ![c].pc = "numbered", ![c].seq = counter']
  /\ UNCHANGED <<idem, expired, published, delivery, storage, acks, faults>>

\* Mutant: numbers are fetched in blocks of two and used from the top.
NextSeqBlock(c) ==
  /\ At(c, "claimed")
  /\ counter < MaxSeq
  /\ counter' = counter + 1
  /\ handler' = [handler EXCEPT ![c].pc = "numbered",
                   ![c].seq = IF counter % 2 = 0 THEN counter + 2 ELSE counter]
  /\ UNCHANGED <<idem, expired, published, delivery, storage, acks, faults>>

\* INCR chat:seq: the only place where the order of the room is decided.
NextSeq(c) ==
  /\ At(c, "claimed")
  /\ counter < MaxSeq
  /\ counter' = counter + 1
  /\ handler' = [handler EXCEPT ![c].pc = "numbered", ![c].seq = counter + 1]
  /\ UNCHANGED <<idem, expired, published, delivery, storage, acks, faults>>

Record(c) ==
  /\ At(c, "numbered")
  /\ idem' = [idem EXCEPT ![handler[c].msg] = handler[c].seq]
  /\ Goto(c, "recorded")
  /\ UNCHANGED <<counter, expired, published, delivery, storage, acks, faults>>

EnvelopeOf(c) ==
  [msg |-> handler[c].msg, seq |-> handler[c].seq, re |-> handler[c].re]

\* Mutant: publish before record.
PublishFirst(c) ==
  /\ At(c, "numbered") \/ At(c, "recorded")
  /\ published' = published \cup {EnvelopeOf(c)}
  /\ inbox' = [n \in Nodes |-> IF node[n] = "listening"
                                 THEN Append(inbox[n], handler[c].seq)
                                 ELSE inbox[n]]
  /\ Goto(c, "published")
  /\ UNCHANGED <<redis, node, seen, storage, acks, faults>>

\* Mutant: a PUBLISH that fails is logged and the send goes on.
PublishSwallowed(c) ==
  /\ At(c, "recorded")
  /\ \/ published' = published \cup {EnvelopeOf(c)}
     \/ published' = published
  /\ Goto(c, "published")
  /\ UNCHANGED <<redis, node, inbox, seen, storage, acks, faults>>

\* PUBLISH: at most once, to the nodes whose link is up at this moment.
Publish(c) ==
  /\ At(c, "recorded")
  /\ published' = published \cup {EnvelopeOf(c)}
  /\ inbox' = [n \in Nodes |-> IF node[n] = "listening"
                                 THEN Append(inbox[n], handler[c].seq)
                                 ELSE inbox[n]]
  /\ Goto(c, "published")
  /\ UNCHANGED <<redis, node, seen, storage, acks, faults>>

\* Mutant: the envelope is not handed to the background save.
AcknowledgeOnly(c) ==
  /\ At(c, "published")
  /\ acks' = acks \cup {[msg |-> handler[c].msg, seq |-> handler[c].seq,
                         duplicate |-> FALSE]}
  /\ End(c)
  /\ UNCHANGED <<redis, published, delivery, storage, faults>>

\* Back from PUBLISH: start the save in the background and return the ack.
Acknowledge(c) ==
  /\ At(c, "published")
  /\ saving' = [saving EXCEPT ![NodeOf[c]] = @ \cup {EnvelopeOf(c)}]
  /\ acks' = acks \cup {[msg |-> handler[c].msg, seq |-> handler[c].seq,
                         duplicate |-> FALSE]}
  /\ End(c)
  /\ UNCHANGED <<redis, published, delivery, history, faults>>

-----------------------------------------------------------------------------
(* The other tasks of a node.                                              *)

\* _read_loop hands envelopes over to _on_bus_message one at a time.
Deliver(n) ==
  /\ inbox[n] # <<>>
  /\ seen' = [seen EXCEPT ![n] = @ \cup {Head(inbox[n])}]
  /\ inbox' = [inbox EXCEPT ![n] = Tail(@)]
  /\ UNCHANGED <<redis, handler, published, node, storage, acks, faults>>

\* Mutant: a save that succeeded is tried again.
SaveAgain(n, e) ==
  /\ e \in saving[n]
  /\ history' = IF \E f \in history : f.seq = e.seq THEN history
                                                    ELSE history \cup {e}
  /\ UNCHANGED <<redis, handler, published, delivery, saving, acks, faults>>

\* The conditional put refuses a number the table already holds.
Save(n, e) ==
  /\ e \in saving[n]
  /\ saving' = [saving EXCEPT ![n] = @ \ {e}]
  /\ history' = IF \E f \in history : f.seq = e.seq THEN history
                                                    ELSE history \cup {e}
  /\ UNCHANGED <<redis, handler, published, delivery, acks, faults>>

\* Subscribing, for the first local member or after a broken link.
Listen(n) ==
  /\ node[n] = "up"
  /\ node' = [node EXCEPT ![n] = "listening"]
  /\ UNCHANGED <<redis, handler, published, inbox, seen, storage, acks, faults>>

Restart(n) ==
  /\ node[n] = "down"
  /\ node' = [node EXCEPT ![n] = "up"]
  /\ UNCHANGED <<redis, handler, published, inbox, seen, storage, acks, faults>>

-----------------------------------------------------------------------------
(* What may go wrong.                                                      *)

Fault == faults < MaxFaults /\ faults' = faults + 1

\* A call to Redis raises and the send ends where it stands; nothing that it
\* already wrote is taken back.
Fail(c) ==
  /\ ~At(c, "idle")
  /\ Fault
  /\ End(c)
  /\ UNCHANGED <<redis, published, delivery, storage, acks>>

\* The write to DynamoDB fails: save logs it and gives up.
LoseSave(n, e) ==
  /\ e \in saving[n]
  /\ Fault
  /\ saving' = [saving EXCEPT ![n] = @ \ {e}]
  /\ UNCHANGED <<redis, handler, published, delivery, history, acks>>

\* The Pub/Sub link of a node breaks; what was on it is lost.
BreakLink(n) ==
  /\ node[n] = "listening"
  /\ Fault
  /\ node' = [node EXCEPT ![n] = "up"]
  /\ inbox' = [inbox EXCEPT ![n] = <<>>]
  /\ UNCHANGED <<redis, handler, published, seen, storage, acks>>

\* The process dies with its sends, its background saves and its link.
Crash(n) ==
  /\ Alive(n)
  /\ Fault
  /\ node' = [node EXCEPT ![n] = "down"]
  /\ inbox' = [inbox EXCEPT ![n] = <<>>]
  /\ saving' = [saving EXCEPT ![n] = {}]
  /\ handler' = [c \in Conns |-> IF NodeOf[c] = n THEN Idle ELSE handler[c]]
  /\ UNCHANGED <<redis, published, seen, history, acks>>

\* The TTL of the idempotency key elapses (once per message in a run).
Expire(m) ==
  /\ m \in Expirable \ expired
  /\ idem[m] # None
  /\ idem' = [idem EXCEPT ![m] = None]
  /\ expired' = expired \cup {m}
  /\ UNCHANGED <<counter, handler, published, delivery, storage, acks, faults>>

-----------------------------------------------------------------------------
SendStep(c) ==
  ReadClaim(c) \/ NextSeq(c) \/ Record(c) \/ Publish(c) \/ Acknowledge(c)

Next ==
  \/ \E c \in Conns, m \in Msgs, re \in 0..MaxSeq : Claim(c, m, re)
  \/ \E c \in Conns : SendStep(c) \/ Fail(c)
  \/ \E n \in Nodes : Deliver(n) \/ Listen(n) \/ Restart(n) \/ BreakLink(n) \/ Crash(n)
  \/ \E n \in Nodes : \E e \in saving[n] : Save(n, e) \/ LoseSave(n, e)
  \/ \E m \in Msgs : Expire(m)

Spec == Init /\ [][Next]_vars

(***************************************************************************)
(* asyncio runs every task that can run, and a call to Redis or DynamoDB   *)
(* returns or raises: the steps of a send, the reader task and the         *)
(* background saves are weakly fair.  Users and faults are not.            *)
(***************************************************************************)
Fairness ==
  /\ \A c \in Conns : WF_vars(SendStep(c))
  /\ \A n \in Nodes : WF_vars(Deliver(n))
  /\ \A n \in Nodes : WF_vars(\E e \in saving[n] : Save(n, e))

FairSpec == Spec /\ Fairness

-----------------------------------------------------------------------------
(* Safety.                                                                 *)

\* Two envelopes of the room never carry the same number, across nodes and
\* crashes: numbers come from INCR alone and a send publishes once.
SequenceUnique == \A e, f \in published : e.seq = f.seq => e = f

\* A message is published at most once while its idempotency key lives, in
\* spite of concurrent retries on other nodes and of sends cut short.
PublishedOnce ==
  \A e, f \in published : e.msg = f.msg /\ e.msg \notin expired => e = f

\* Whoever has read the echo and retries is answered with its number: the key
\* is recorded before PUBLISH and no other send overwrites it.
RecordedBeforePublished ==
  \A e \in published : e.msg \notin expired => idem[e.msg] = e.seq

\* All acks of a message that name a number name the one in the store, and a
\* first ack is sent only for a message that was published under it.
AcksAgree ==
  \A a \in acks : a.seq # 0 =>
    /\ a.msg \notin expired => idem[a.msg] = a.seq
    /\ a.duplicate \/ \E e \in published : e.msg = a.msg /\ e.seq = a.seq

\* An answer sorts after what it answers, whichever nodes the two users are
\* on: a number read on a screen is below every number assigned later.
AnswersSortAfter == \A e \in published : e.re < e.seq

\* The history holds published envelopes only, and the conditional put of
\* save never meets a number that is already taken.
HistoryFaithful ==
  /\ history \subseteq published
  /\ \A n \in Nodes : \A e \in saving[n], f \in history : e.seq # f.seq

(***************************************************************************)
(* The inductive invariant behind them.  A send that took a number owns it *)
(* alone until it has published it; while its key lives, a message has one *)
(* send past the claim, and the key tells how far that send has come.      *)
(***************************************************************************)
HasNumber(c) == handler[c].pc \in {"numbered", "recorded", "published"}

Unpublished(c) == handler[c].pc \in {"claimed", "numbered", "recorded"}

PastClaim(c) == Unpublished(c) \/ At(c, "published")

NumberInv ==
  /\ \A c \in Conns : handler[c].re <= counter
  /\ \A c \in Conns : HasNumber(c) => /\ handler[c].seq \in 1..counter
                                     /\ handler[c].re < handler[c].seq
  /\ \A c, d \in Conns :
       HasNumber(c) /\ HasNumber(d) /\ handler[c].seq = handler[d].seq => c = d
  /\ \A e \in published : e.seq <= counter
  /\ \A c \in Conns, e \in published :
       At(c, "numbered") \/ At(c, "recorded") => e.seq # handler[c].seq
  /\ \A c \in Conns : At(c, "published") => EnvelopeOf(c) \in published
  /\ \A n \in Nodes : \A s \in seen[n] : s <= counter
  /\ \A n \in Nodes : \A i \in 1..Len(inbox[n]) : inbox[n][i] <= counter

Live(c) == handler[c].msg \in Msgs \ expired

KeyOf(c) == Live(c) =>
  /\ ~At(c, "idle") => idem[handler[c].msg] # None
  /\ At(c, "claimed") \/ At(c, "numbered") => idem[handler[c].msg] = Pending
  /\ At(c, "recorded") \/ At(c, "published") => idem[handler[c].msg] = handler[c].seq
  /\ Unpublished(c) => \A e \in published : e.msg # handler[c].msg

OneSender ==
  \A c, d \in Conns :
    Live(c) /\ PastClaim(c) /\ PastClaim(d) /\ handler[c].msg = handler[d].msg => c = d

KeyInv == OneSender /\ \A c \in Conns : KeyOf(c)

SaveInv ==
  /\ \A n \in Nodes : saving[n] \subseteq published
  /\ \A n, o \in Nodes : n # o => saving[n] \cap saving[o] = {}
  /\ \A c \in Conns : At(c, "published") =>
       /\ \A n \in Nodes : EnvelopeOf(c) \notin saving[n]
       /\ EnvelopeOf(c) \notin history

IInv ==
  /\ TypeOK
  /\ NumberInv
  /\ KeyInv
  /\ SaveInv
  /\ SequenceUnique
  /\ PublishedOnce
  /\ RecordedBeforePublished
  /\ AcksAgree
  /\ AnswersSortAfter
  /\ HistoryFaithful

\* The cluster implements the room its users are promised.
Promise == INSTANCE Room
  WITH Numbers <- Seqs, stored <- history, lapsed <- expired

RoomSpec == Promise!Spec

-----------------------------------------------------------------------------
(* Liveness, under FairSpec.                                               *)

\* A dispatched send ends, by an ack, a failure or the death of its node, so
\* a connection never stops reading frames.
SendEnds == \A c \in Conns : ~At(c, "idle") ~> At(c, "idle")

\* A claimed message reaches the history unless some fault intervenes.
ClaimedIsStored ==
  \A m \in Msgs :
    (idem[m] # None) ~> (faults > 0 \/ \E e \in history : e.msg = m)

-----------------------------------------------------------------------------
(* What the comments of the code say and the code does not do.             *)

\* chat_service.py, _duplicate_ack: after a duplicate ack "the client
\* reconciles when the echo arrives", so the message is published or a send
\* of it is on its way to PUBLISH.
DuplicateAckReconciles ==
  \A a \in acks : a.duplicate =>
    \/ \E e \in published : e.msg = a.msg
    \/ \E c \in Conns : /\ handler[c].msg = a.msg
                         /\ handler[c].pc \in {"claimed", "numbered", "recorded"}
=============================================================================
