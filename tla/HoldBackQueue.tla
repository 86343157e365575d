--------------------------- MODULE HoldBackQueue ---------------------------
(***************************************************************************)
(* The hold-back queue of src/salaviva/domain/ordering.py as pure          *)
(* operators.  A queue is the pair (_delivered, _buffer); the payload of a *)
(* message is abstracted to its sequence number, so the buffer is the set  *)
(* of the numbers it retains.  Every operation of the class that releases  *)
(* items returns both the queue it leaves and the set of numbers it        *)
(* released; within one call the code hands them out in increasing order   *)
(* (a run is popped one number after the other, a forced release is        *)
(* sorted), so the set determines the list.                                *)
(***************************************************************************)
EXTENDS Integers, FiniteSets

CONSTANTS
  MaxSeq,       \* highest sequence number a room assigns in one run
  MaxBuffer     \* max_buffer: items retained before the gap is given up

ASSUME HoldBackAssumption ==
  /\ MaxSeq \in Nat
  /\ MaxBuffer \in Nat \ {0}     \* __init__ rejects max_buffer < 1

Seqs == 1..MaxSeq

Queues == [delivered : 0..MaxSeq, buffer : SUBSET Seqs]

NewQueue(startSeq) == [delivered |-> startSeq, buffer |-> {}]

Expected(q) == q.delivered + 1

HasGap(q) == q.buffer # {}

\* Mutant: only the buffer is looked at, not the mark.
IsDuplicateHeld(q, seq) == seq \in q.buffer

IsDuplicate(q, seq) == seq <= q.delivered \/ seq \in q.buffer

\* Mutant: full one item early.
IsFullEarly(q) == Cardinality(q.buffer) >= MaxBuffer - 1

IsFull(q) == Cardinality(q.buffer) >= MaxBuffer

Retain(q, seq) == [q EXCEPT !.buffer = @ \cup {seq}]

\* Mutant: one item is released, not the run that starts there.
RunEndFirst(q) == IF Expected(q) \in q.buffer THEN Expected(q) ELSE q.delivered

\* The last number of the contiguous run that starts right after delivered.
RunEnd(q) ==
  CHOOSE n \in q.delivered..MaxSeq :
    /\ Expected(q)..n \subseteq q.buffer
    /\ n + 1 \notin q.buffer

Drain(q) ==
  LET run == Expected(q)..RunEnd(q)
  IN  [ queue    |-> [delivered |-> RunEnd(q), buffer |-> q.buffer \ run],
        released |-> run ]

Highest(S) == CHOOSE m \in S : \A s \in S : s <= m

Lowest(S) == CHOOSE m \in S : \A s \in S : m <= s

\* Mutants of ForceRelease: the mark stays, or goes to the first item released.
ForceReleaseStay(q) ==
  [queue |-> NewQueue(q.delivered), released |-> q.buffer]

ForceReleaseFirst(q) ==
  [ queue    |-> NewQueue(IF HasGap(q) THEN Lowest(q.buffer) ELSE q.delivered),
    released |-> q.buffer ]

ForceRelease(q) ==
  [ queue    |-> NewQueue(Highest(q.buffer \cup {q.delivered})),
    released |-> q.buffer ]

\* Mutant: a second early number gives up the gap, full or not.
OfferEager(q, seq) ==
  IF IsDuplicate(q, seq)
    THEN [queue |-> q, released |-> {}]
    ELSE IF IsFull(q) \/ HasGap(q)
      THEN ForceRelease(Retain(q, seq))
      ELSE Drain(Retain(q, seq))

Offer(q, seq) ==
  IF IsDuplicate(q, seq)
    THEN [queue |-> q, released |-> {}]
    ELSE IF IsFull(q)
      THEN ForceRelease(Retain(q, seq))
      ELSE Drain(Retain(q, seq))

\* What the client asks the server for; meaningful only when HasGap(q).
MissingRange(q) == Expected(q)..(Lowest(q.buffer) - 1)

Reset(q, seq) == [q EXCEPT !.delivered = seq, !.buffer = {}]

-----------------------------------------------------------------------------
\* What every call leaves: nothing deliverable is held, and no more than fits.
Tidy(q) ==
  /\ q \in Queues
  /\ \A s \in q.buffer : s > Expected(q)
  /\ Cardinality(q.buffer) <= MaxBuffer
=============================================================================
