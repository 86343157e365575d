------------------------------ MODULE HoldBack ------------------------------
(***************************************************************************)
(* A hold-back queue in use: the state one client keeps for one room.  The *)
(* environment offers any number at any time, again or never, which covers *)
(* live delivery, the backlog of a join, the answer to a resync, and every *)
(* reordering, duplication or loss between them.  The watchdog may give up *)
(* a gap, and a join may reposition the queue.                             *)
(*                                                                         *)
(* handed, missed and base are history variables: what the caller rendered,*)
(* what it will never render, and where the current period started.        *)
(***************************************************************************)
EXTENDS HoldBackQueue

VARIABLES held, handed, missed, base

heldVars == <<held, handed, missed, base>>

QueueTypeOK ==
  /\ held \in Queues
  /\ handed \in [Seqs -> Nat]
  /\ missed \in SUBSET Seqs
  /\ base \in 0..MaxSeq

QueueInit ==
  /\ held = NewQueue(0)
  /\ handed = [s \in Seqs |-> 0]
  /\ missed = {}
  /\ base = 0

\* The caller renders what was released; what the mark stepped over is lost.
Render(r) ==
  /\ held' = r.queue
  /\ handed' = [s \in Seqs |-> IF s \in r.released THEN handed[s] + 1 ELSE handed[s]]
  /\ missed' = missed \cup ((Expected(held)..r.queue.delivered) \ r.released)
  /\ UNCHANGED base

TakeIn(seq) == Render(Offer(held, seq))

GiveUpGap == HasGap(held) /\ Render(ForceRelease(held))

Reposition(seq) ==
  /\ held' = Reset(held, seq)
  /\ handed' = [s \in Seqs |-> 0]
  /\ missed' = {}
  /\ base' = seq

QueueNext ==
  \/ \E seq \in Seqs : TakeIn(seq)
  \/ GiveUpGap
  \/ \E seq \in 0..MaxSeq : Reposition(seq)

QueueSpec == QueueInit /\ [][QueueNext]_heldVars

-----------------------------------------------------------------------------
\* Nothing is shown twice, whatever overlap there is between live delivery,
\* backlog and resync (the duplicate test of offer).
ShownAtMostOnce == \A s \in Seqs : handed[s] <= 1

\* What is retained is waiting for something: the next expected number is
\* never in the buffer, so no deliverable message sits there.
NothingDeliverableHeld == \A s \in held.buffer : s > Expected(held)

\* Retained items never exceed the limit, forced release included.
BufferBounded == Cardinality(held.buffer) <= MaxBuffer

\* Every number of the period up to the mark was either shown or given up,
\* never both, and nothing above the mark was: no hole is left unaccounted.
EveryNumberAccounted ==
  /\ base <= held.delivered
  /\ {s \in Seqs : handed[s] > 0} \cup missed = base + 1..held.delivered
  /\ \A s \in missed : handed[s] = 0

\* A number is given up only when the buffer had reached its limit or the
\* watchdog asked for it; an offer below the limit never loses a message.
LossOnlyByGivingUp ==
  [][~(missed' \subseteq missed) => IsFull(held) \/ GiveUpGap]_heldVars

\* The inductive invariant of the proofs.
QueueInv ==
  /\ QueueTypeOK
  /\ NothingDeliverableHeld
  /\ BufferBounded
  /\ EveryNumberAccounted
  /\ ShownAtMostOnce

\* The queue implements the promise of OrderedDelivery: bursts above a mark
\* that never moves back within a period, losses final.
Delivery == INSTANCE OrderedDelivery WITH
              mark <- held.delivered, shown <- handed, lost <- missed

DeliverySpec == Delivery!Spec
=============================================================================
