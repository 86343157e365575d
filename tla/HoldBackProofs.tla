--------------------------- MODULE HoldBackProofs ---------------------------
(***************************************************************************)
(* The hold-back queue, for every MaxSeq and MaxBuffer.  First facts about *)
(* the operators of HoldBackQueue, which the clients' proofs use too: the  *)
(* CHOOSEs have a value, and what each operation returns.  Then a queue in *)
(* use: type correctness, the inductive invariant, and the refinement of   *)
(* OrderedDelivery.                                                        *)
(***************************************************************************)
EXTENDS HoldBack, FiniteSetTheorems, WellFoundedInduction, TLAPS

(***************************************************************************)
(* A nonempty set of naturals below a bound has a highest element.  The    *)
(* intervals s..M, for s in the set, are finite; one that is minimal for   *)
(* strict inclusion starts at the highest element.                         *)
(***************************************************************************)
LEMMA HighestExists ==
  ASSUME NEW M \in Nat, NEW S \in SUBSET (0..M), S # {}
  PROVE  Highest(S) \in S /\ \A s \in S : s <= Highest(S)
<1> DEFINE Up == {s..M : s \in S}
<1>1. Up # {}
  OBVIOUS
<1>2. Up \subseteq FiniteSubsetsOf(0..M)
  <2>1. \A s \in S : s..M \in SUBSET (0..M) /\ IsFiniteSet(s..M)
    BY FS_Interval
  <2> QED BY <2>1 DEF FiniteSubsetsOf
<1>3. IsWellFoundedOn(StrictSubsetOrdering(0..M), FiniteSubsetsOf(0..M))
  BY FS_StrictSubsetOrderingWellFounded
<1> HIDE DEF Up
<1>4. PICK U \in Up : \A V \in Up : ~(<<V, U>> \in StrictSubsetOrdering(0..M))
  BY <1>1, <1>2, <1>3, WFMin
<1>5. PICK m \in S : U = m..M
  BY DEF Up
<1>6. ASSUME NEW s \in S, ~(s <= m)
      PROVE  FALSE
  <2>1. s..M \in Up BY DEF Up
  <2>2. s..M \subseteq U /\ s..M # U
    BY <1>5, <1>6
  <2>3. s..M \in SUBSET (0..M) /\ U \in SUBSET (0..M)
    BY <1>5
  <2>4. <<s..M, U>> \in StrictSubsetOrdering(0..M)
    BY <2>2, <2>3 DEF StrictSubsetOrdering
  <2> QED BY <1>4, <2>1, <2>4
<1> QED BY <1>6 DEF Highest

LEMMA LowestExists ==
  ASSUME NEW M \in Nat, NEW S \in SUBSET (0..M), S # {}
  PROVE  Lowest(S) \in S /\ \A s \in S : Lowest(S) <= s
<1> DEFINE Back == {M - s : s \in S}
<1>1. Back \in SUBSET (0..M) /\ Back # {}
  <2>1. \A s \in S : s \in 0..M /\ M - s \in 0..M
    OBVIOUS
  <2> QED BY <2>1
<1>2. PICK b \in Back : \A c \in Back : c <= b
  BY <1>1, HighestExists
<1>3. PICK m \in S : b = M - m
  OBVIOUS
<1>4. \A s \in S : m <= s
  <2>1. TAKE s \in S
  <2>2. M - s \in Back
    OBVIOUS
  <2>3. M - s <= M - m
    BY <1>2, <1>3, <2>2
  <2> QED BY <2>3
<1> QED BY <1>4 DEF Lowest

(***************************************************************************)
(* Induction up to a bound, over a set; and the function that a step       *)
(* repeated up to a bound defines.                                         *)
(***************************************************************************)
LEMMA UpTo ==
  ASSUME NEW M \in Nat, NEW S, 0 \in S, \A n \in 1..M : n - 1 \in S => n \in S
  PROVE  0..M \subseteq S
<1> DEFINE Bad == (0..M) \ S
<1> SUFFICES ASSUME Bad # {} PROVE FALSE
  OBVIOUS
<1>1. Bad \in SUBSET (0..M)
  OBVIOUS
<1>2. PICK m \in Bad : \A n \in Bad : m <= n
  BY <1>1, LowestExists
<1>3. m \in 1..M
  OBVIOUS
<1>4. m - 1 \in S
  BY <1>2, <1>3
<1> QED BY <1>3, <1>4

Iterations(m, T, c, step) ==
  {f \in [0..m -> T] : f[0] = c /\ \A n \in 1..m : f[n] = step[n][f[n - 1]]}

LEMMA Iterate ==
  ASSUME NEW M \in Nat, NEW T, NEW c \in T, NEW step \in [1..M -> [T -> T]]
  PROVE  Iterations(M, T, c, step) # {}
<1> USE DEF Iterations
<1> DEFINE Runs(m) == Iterations(m, T, c, step)
           Good == {m \in 0..M : Runs(m) # {}}
<1>1. 0 \in Good
  <2> DEFINE f == [n \in 0..0 |-> c]
  <2>1. f \in Runs(0)
    OBVIOUS
  <2> HIDE DEF f, Runs
  <2> QED BY <2>1
<1>2. ASSUME NEW m \in 1..M, m - 1 \in Good
      PROVE  m \in Good
  <2>1. PICK f \in [0..m - 1 -> T] : f[0] = c /\ \A n \in 1..m - 1 : f[n] = step[n][f[n - 1]]
    BY <1>2
  <2> DEFINE g == [n \in 0..m |-> IF n = m THEN step[m][f[m - 1]] ELSE f[n]]
  <2>2. m - 1 \in 0..m - 1 /\ m \in Nat
    OBVIOUS
  <2>3. f[m - 1] \in T /\ step[m][f[m - 1]] \in T
    BY <2>1, <2>2
  <2>4. g \in [0..m -> T]
    BY <2>1, <2>3
  <2>5. g[0] = c
    BY <2>1
  <2>6. \A n \in 1..m : g[n] = step[n][g[n - 1]]
    <3> TAKE n \in 1..m
    <3>1. CASE n = m
      BY <2>2, <3>1
    <3>2. CASE n # m
      <4>1. n \in 1..m - 1 /\ n - 1 # m /\ n - 1 \in 0..m /\ n \in 0..m
        BY <3>2
      <4>2. g[n] = f[n] /\ g[n - 1] = f[n - 1]
        BY <3>2, <4>1
      <4> QED BY <2>1, <4>1, <4>2
    <3> QED BY <3>1, <3>2
  <2> HIDE DEF g
  <2>7. g \in Runs(m)
    BY <2>4, <2>5, <2>6
  <2> HIDE DEF Runs
  <2> QED BY <2>7
<1> HIDE DEF Good
<1>3. 0..M \subseteq Good
  BY <1>1, <1>2, UpTo
<1>4. M \in Good
  BY <1>3
<1> QED BY <1>4 DEF Good

(***************************************************************************)
(* RunEnd is well defined: the run that starts after delivered stops       *)
(* before some number that is not retained.                                *)
(***************************************************************************)
LEMMA RunEndExists ==
  ASSUME NEW q \in Queues
  PROVE  /\ RunEnd(q) \in q.delivered..MaxSeq
         /\ Expected(q)..RunEnd(q) \subseteq q.buffer
         /\ RunEnd(q) + 1 \notin q.buffer
<1> DEFINE d == q.delivered
           Missing == {n \in d..MaxSeq : n + 1 \notin q.buffer}
           Back == {MaxSeq - n : n \in Missing}
<1>1. d \in 0..MaxSeq /\ q.buffer \in SUBSET (1..MaxSeq) /\ MaxSeq \in Nat
  BY HoldBackAssumption DEF Queues, Seqs
<1>2. MaxSeq \in Missing
  BY <1>1
<1>3. Back \in SUBSET (0..MaxSeq) /\ Back # {}
  BY <1>1, <1>2
<1>4. PICK b \in Back : \A c \in Back : c <= b
  BY <1>1, <1>3, HighestExists
<1>5. PICK n \in Missing : b = MaxSeq - n
  OBVIOUS
<1>6. \A k \in Missing : n <= k
  <2>1. TAKE k \in Missing
  <2>2. MaxSeq - k \in Back OBVIOUS
  <2>3. MaxSeq - k <= MaxSeq - n BY <1>4, <1>5, <2>2
  <2> QED BY <1>1, <2>3
<1>7. \A j \in d + 1..n : j \in q.buffer
  <2>1. TAKE j \in d + 1..n
  <2>2. SUFFICES ASSUME j \notin q.buffer PROVE FALSE
    OBVIOUS
  <2>3. j - 1 \in Missing
    BY <1>1, <2>2
  <2> QED BY <1>1, <1>6, <2>3
<1>8. /\ n \in q.delivered..MaxSeq
      /\ Expected(q)..n \subseteq q.buffer
      /\ n + 1 \notin q.buffer
  BY <1>1, <1>7 DEF Expected
<1> QED BY <1>8 DEF RunEnd

(***************************************************************************)
(* What a call that may release items promises about the queue r.queue it  *)
(* leaves, given the queue q it started from.                              *)
(***************************************************************************)
Sound(q, r) ==
  /\ r.queue \in Queues
  /\ r.queue.delivered >= q.delivered
  /\ r.released \subseteq Expected(q)..r.queue.delivered
  /\ r.released # {} => r.queue.delivered \in r.released
  /\ r.released = {} => r.queue.delivered = q.delivered
  /\ \A s \in r.queue.buffer : s > Expected(r.queue)
  /\ Cardinality(r.queue.buffer) <= MaxBuffer

LEMMA BufferFinite ==
  ASSUME NEW q \in Queues
  PROVE  IsFiniteSet(q.buffer) /\ Cardinality(q.buffer) \in Nat
<1>1. IsFiniteSet(1..MaxSeq)
  BY HoldBackAssumption, FS_Interval
<1> QED BY <1>1, FS_Subset, FS_CardinalityType DEF Queues, Seqs

LEMMA RetainType ==
  ASSUME NEW q \in Queues, NEW seq \in Seqs
  PROVE  /\ Retain(q, seq) \in Queues
         /\ Retain(q, seq).delivered = q.delivered
         /\ Retain(q, seq).buffer = q.buffer \cup {seq}
BY DEF Queues, Retain

(***************************************************************************)
(* Forced release of a queue that retains something ahead of the mark.     *)
(***************************************************************************)
LEMMA ForceReleaseSound ==
  ASSUME NEW q \in Queues, \A s \in q.buffer : s >= Expected(q)
  PROVE  Sound(q, ForceRelease(q))
<1> DEFINE S == q.buffer \cup {q.delivered}
           top == Highest(S)
<1>1. MaxSeq \in Nat /\ MaxBuffer \in Nat /\ S \in SUBSET (0..MaxSeq) /\ S # {}
  BY HoldBackAssumption DEF Queues, Seqs
<1>2. top \in S /\ \A s \in S : s <= top
  BY <1>1, HighestExists
<1> HIDE DEF top
<1>3. ForceRelease(q) = [queue |-> [delivered |-> top, buffer |-> {}],
                         released |-> q.buffer]
  BY DEF ForceRelease, NewQueue, top
<1>4. Cardinality({}) = 0
  BY FS_EmptySet
<1>5. q.delivered \in 0..MaxSeq /\ q.buffer \in SUBSET (1..MaxSeq)
  BY DEF Queues, Seqs
<1>6. q.buffer # {} => top \in q.buffer
  BY <1>2, <1>5, <1>1 DEF Expected
<1> QED BY <1>1, <1>2, <1>3, <1>4, <1>5, <1>6 DEF Sound, Queues, Seqs, Expected

(***************************************************************************)
(* Draining after a number was retained below the limit.                   *)
(***************************************************************************)
LEMMA DrainSound ==
  ASSUME NEW q \in Queues, \A s \in q.buffer : s >= Expected(q),
         Cardinality(q.buffer) <= MaxBuffer
  PROVE  /\ Sound(q, Drain(q))
         /\ Drain(q).released = Expected(q)..Drain(q).queue.delivered
<1> DEFINE n == RunEnd(q)
           rest == q.buffer \ (Expected(q)..n)
<1>1. MaxSeq \in Nat /\ MaxBuffer \in Nat
      /\ q.delivered \in 0..MaxSeq /\ q.buffer \in SUBSET (1..MaxSeq)
  BY HoldBackAssumption DEF Queues, Seqs
<1>2. n \in q.delivered..MaxSeq /\ Expected(q)..n \subseteq q.buffer
      /\ n + 1 \notin q.buffer
  BY RunEndExists
<1> HIDE DEF n
<1>3. Drain(q) = [queue |-> [delivered |-> n, buffer |-> rest],
                  released |-> Expected(q)..n]
  BY DEF Drain, n
<1>4. Cardinality(rest) <= MaxBuffer
  <2>1. IsFiniteSet(q.buffer) /\ Cardinality(q.buffer) \in Nat
    BY BufferFinite
  <2>2. rest \in SUBSET q.buffer OBVIOUS
  <2>3. IsFiniteSet(rest) /\ Cardinality(rest) <= Cardinality(q.buffer)
    BY <2>1, <2>2, FS_Subset
  <2>4. Cardinality(rest) \in Nat
    BY <2>3, FS_CardinalityType
  <2> QED BY <1>1, <2>1, <2>3, <2>4
<1>5. \A s \in rest : s > n + 1
  BY <1>1, <1>2 DEF Expected
<1> HIDE DEF rest
<1>6. rest \in SUBSET (1..MaxSeq)
  BY <1>1 DEF rest
<1> DEFINE r == Drain(q)
<1>7. /\ r.queue.delivered = n
      /\ r.queue.buffer = rest
      /\ r.released = Expected(q)..n
  BY <1>3
<1>8. r.queue \in Queues
  BY <1>1, <1>2, <1>3, <1>6 DEF Queues, Seqs
<1> HIDE DEF r
<1>9. r.released # {} => n \in r.released
  BY <1>1, <1>2, <1>7 DEF Expected
<1>10. r.released = {} => n = q.delivered
  <2>1. n \in Nat /\ q.delivered \in Nat /\ n >= q.delivered
    BY <1>1, <1>2
  <2>2. n # q.delivered => n \in Expected(q)..n
    BY <2>1 DEF Expected
  <2> QED BY <1>7, <2>2
<1>11. Sound(q, r)
  BY <1>1, <1>2, <1>4, <1>5, <1>7, <1>8, <1>9, <1>10 DEF Sound, Expected
<1> QED BY <1>7, <1>11 DEF r

LEMMA OfferSound ==
  ASSUME NEW q, Tidy(q), NEW seq \in Seqs
  PROVE  /\ Sound(q, Offer(q, seq))
         /\ ~IsFull(q) =>
              Offer(q, seq).released = Expected(q)..Offer(q, seq).queue.delivered
<1> DEFINE p == Retain(q, seq)
<1>1. q \in Queues /\ MaxSeq \in Nat /\ MaxBuffer \in Nat \ {0}
  BY HoldBackAssumption DEF Tidy
<1>2. p \in Queues /\ p.delivered = q.delivered /\ p.buffer = q.buffer \cup {seq}
  BY <1>1, RetainType
<1>3. CASE IsDuplicate(q, seq)
  <2>1. Offer(q, seq) = [queue |-> q, released |-> {}]
    BY <1>3 DEF Offer
  <2>2. q.delivered \in 0..MaxSeq
    BY <1>1 DEF Queues
  <2>3. Expected(q)..q.delivered = {}
    BY <2>2 DEF Expected
  <2> QED BY <2>1, <2>2, <2>3, <1>1 DEF Sound, Tidy
<1>4. CASE ~IsDuplicate(q, seq)
  <2>1. \A s \in p.buffer : s >= Expected(p)
    BY <1>1, <1>2, <1>4 DEF IsDuplicate, Tidy, Expected, Queues, Seqs
  <2>2. Expected(p) = Expected(q)
    BY <1>2 DEF Expected
  <2>3. \A r : Sound(p, r) => Sound(q, r)
    BY <1>2, <2>2 DEF Sound
  <2>4. CASE IsFull(q)
    <3>1. Offer(q, seq) = ForceRelease(p)
      BY <1>4, <2>4 DEF Offer
    <3>2. Sound(p, ForceRelease(p))
      BY <1>2, <2>1, ForceReleaseSound
    <3> QED BY <2>3, <2>4, <3>1, <3>2
  <2>5. CASE ~IsFull(q)
    <3>1. Offer(q, seq) = Drain(p)
      BY <1>4, <2>5 DEF Offer
    <3>2. Cardinality(p.buffer) <= MaxBuffer
      <4>1. IsFiniteSet(q.buffer) /\ Cardinality(q.buffer) \in Nat
        BY <1>1, BufferFinite
      <4>2. Cardinality(p.buffer) <= Cardinality(q.buffer) + 1
        <5>1. Cardinality(q.buffer \cup {seq}) =
                IF seq \in q.buffer THEN Cardinality(q.buffer)
                                    ELSE Cardinality(q.buffer) + 1
          BY <4>1, FS_AddElement
        <5> QED BY <1>2, <4>1, <5>1
      <4>3. Cardinality(q.buffer) < MaxBuffer
        BY <1>1, <2>5, <4>1 DEF IsFull
      <4>4. Cardinality(p.buffer) \in Nat
        BY <1>2, BufferFinite
      <4> QED BY <1>1, <4>1, <4>2, <4>3, <4>4
    <3>3. Sound(p, Drain(p)) /\ Drain(p).released = Expected(p)..Drain(p).queue.delivered
      BY <1>2, <2>1, <3>2, DrainSound
    <3> QED BY <2>2, <2>3, <3>1, <3>3
  <2> QED BY <2>4, <2>5
<1> QED BY <1>3, <1>4

(***************************************************************************)
(* Nothing offered or retained is forgotten, and nothing else is retained. *)
(***************************************************************************)
Keeps(q, seq, r) ==
  /\ \A s \in q.buffer \cup {seq} : s <= r.queue.delivered \/ s \in r.queue.buffer
  /\ r.queue.buffer \subseteq q.buffer \cup {seq}
  /\ r.released \subseteq q.buffer \cup {seq}

LEMMA OfferKeeps ==
  ASSUME NEW q, Tidy(q), NEW seq \in Seqs
  PROVE  Keeps(q, seq, Offer(q, seq))
<1> DEFINE p == Retain(q, seq)
<1>1. q \in Queues /\ MaxSeq \in Nat
  BY HoldBackAssumption DEF Tidy
<1>2. p \in Queues /\ p.delivered = q.delivered /\ p.buffer = q.buffer \cup {seq}
  BY <1>1, RetainType
<1>3. p.buffer \in SUBSET (1..MaxSeq) /\ p.delivered \in 0..MaxSeq
  BY <1>2 DEF Queues, Seqs
<1>4. CASE IsDuplicate(q, seq)
  <2>1. Offer(q, seq) = [queue |-> q, released |-> {}]
    BY <1>4 DEF Offer
  <2> QED BY <1>4, <2>1 DEF IsDuplicate, Keeps
<1>5. CASE ~IsDuplicate(q, seq) /\ IsFull(q)
  <2> DEFINE S == p.buffer \cup {p.delivered}
  <2>1. S \in SUBSET (0..MaxSeq) /\ S # {}
    BY <1>3
  <2>2. \A s \in S : s <= Highest(S)
    BY <1>1, <2>1, HighestExists
  <2>3. Offer(q, seq) = [queue |-> [delivered |-> Highest(S), buffer |-> {}],
                         released |-> p.buffer]
    BY <1>5 DEF Offer, ForceRelease, NewQueue
  <2> QED BY <1>2, <2>2, <2>3 DEF Keeps
<1>6. CASE ~IsDuplicate(q, seq) /\ ~IsFull(q)
  <2> DEFINE n == RunEnd(p)
             run == Expected(p)..n
  <2>1. n \in p.delivered..MaxSeq /\ run \subseteq p.buffer
    BY <1>2, RunEndExists
  <2>2. Offer(q, seq) = [queue |-> [delivered |-> n, buffer |-> p.buffer \ run],
                         released |-> run]
    BY <1>6 DEF Offer, Drain
  <2>3. \A s \in run : s <= n
    BY <1>3, <2>1 DEF Expected
  <2> HIDE DEF n, run
  <2> QED BY <1>2, <2>1, <2>2, <2>3 DEF Keeps
<1> QED BY <1>4, <1>5, <1>6

-----------------------------------------------------------------------------
(* A queue in use.                                                         *)

LEMMA TidyQueueInv == QueueInv => Tidy(held)
BY DEF QueueInv, QueueTypeOK, NothingDeliverableHeld, BufferBounded, Tidy

(***************************************************************************)
(* Rendering the outcome of a sound call keeps the invariant.              *)
(***************************************************************************)
LEMMA RenderKeeps ==
  ASSUME QueueInv, NEW r, Sound(held, r), Render(r)
  PROVE  QueueInv'
<1> USE DEF QueueInv
<1>1. /\ MaxSeq \in Nat
      /\ held.delivered \in 0..MaxSeq /\ held.buffer \in SUBSET (1..MaxSeq)
      /\ base \in 0..MaxSeq /\ missed \in SUBSET (1..MaxSeq)
      /\ handed \in [Seqs -> Nat] /\ Seqs = 1..MaxSeq
  BY HoldBackAssumption DEF QueueTypeOK, Queues, Seqs
<1>2. /\ held' = r.queue
      /\ handed' = [s \in Seqs |-> IF s \in r.released THEN handed[s] + 1 ELSE handed[s]]
      /\ missed' = missed \cup ((Expected(held)..r.queue.delivered) \ r.released)
      /\ base' = base
  BY DEF Render
<1>3. /\ r.queue \in Queues
      /\ r.queue.delivered >= held.delivered
      /\ r.released \subseteq Expected(held)..r.queue.delivered
  BY DEF Sound
<1>4. r.queue.delivered \in 0..MaxSeq
  BY <1>3 DEF Queues
<1>5. QueueTypeOK'
  <2>1. missed' \in SUBSET Seqs
    <3>1. Expected(held)..r.queue.delivered \subseteq Seqs
      BY <1>1, <1>4 DEF Expected
    <3>2. missed \in SUBSET Seqs
      BY <1>1
    <3> QED BY <1>2, <3>1, <3>2
  <2>2. handed' \in [Seqs -> Nat]
    BY <1>1, <1>2
  <2> QED BY <1>2, <1>3, <2>1, <2>2 DEF QueueTypeOK
<1>6. NothingDeliverableHeld' /\ BufferBounded'
  BY <1>2 DEF Sound, NothingDeliverableHeld, BufferBounded
<1>7. \A s \in r.released : s > held.delivered /\ handed[s] = 0 /\ s \notin missed
  <2>1. TAKE s \in r.released
  <2>2. s \in Expected(held)..r.queue.delivered
    BY <1>3
  <2>3. s \in Seqs /\ s > held.delivered
    BY <1>1, <1>4, <2>2 DEF Expected
  <2>4. s \notin base + 1..held.delivered
    BY <1>1, <2>3
  <2>5. ~(handed[s] > 0) /\ s \notin missed
    BY <2>3, <2>4 DEF EveryNumberAccounted
  <2> QED BY <1>1, <2>3, <2>5
<1>8. ShownAtMostOnce'
  BY <1>1, <1>2, <1>7 DEF ShownAtMostOnce
<1>9. EveryNumberAccounted'
  <2> DEFINE d == r.queue.delivered
             Seen == {s \in Seqs : handed[s] > 0}
             Step == Expected(held)..d
  <2>1. base <= d /\ base <= held.delivered /\ held.delivered <= d
    BY <1>1, <1>3, <1>4 DEF EveryNumberAccounted
  <2>2. Seen \cup missed = base + 1..held.delivered
    BY DEF EveryNumberAccounted
  <2>3. r.released \subseteq Seqs
    BY <1>1, <1>3, <1>4 DEF Expected
  <2>4. {s \in Seqs : handed'[s] > 0} = Seen \cup r.released
    BY <1>1, <1>2, <2>3
  <2>5. (Seen \cup r.released) \cup missed' = (base + 1..held.delivered) \cup Step
    BY <1>2, <1>3, <2>2
  <2>6. (base + 1..held.delivered) \cup Step = base + 1..d
    BY <1>1, <1>4, <2>1 DEF Expected
  <2>7. \A s \in missed' : handed'[s] = 0
    <3>1. TAKE s \in missed'
    <3>2. s \in Seqs
      BY <1>5 DEF QueueTypeOK
    <3>3. CASE s \in missed
      <4>1. s \notin r.released BY <1>7, <3>3
      <4> QED BY <1>2, <3>2, <3>3, <4>1 DEF EveryNumberAccounted
    <3>4. CASE s \notin missed
      <4>1. s \in Step /\ s \notin r.released
        BY <1>2, <3>4
      <4>2. s \notin base + 1..held.delivered
        BY <1>1, <1>4, <4>1 DEF Expected
      <4>3. ~(handed[s] > 0)
        BY <2>2, <3>2, <4>2
      <4>4. handed[s] \in Nat
        BY <1>1, <3>2
      <4> QED BY <1>2, <3>2, <4>1, <4>3, <4>4
    <3> QED BY <3>3, <3>4
  <2> QED BY <1>2, <2>1, <2>4, <2>5, <2>6, <2>7 DEF EveryNumberAccounted
<1> QED BY <1>5, <1>6, <1>8, <1>9

LEMMA InitQueueInv == QueueInit => QueueInv
<1>1. MaxSeq \in Nat /\ MaxBuffer \in Nat \ {0}
  BY HoldBackAssumption
<1>2. Cardinality({}) = 0
  BY FS_EmptySet
<1> QED BY <1>1, <1>2 DEF QueueInit, QueueInv, QueueTypeOK, NewQueue, Queues, Seqs,
           NothingDeliverableHeld, BufferBounded, EveryNumberAccounted, ShownAtMostOnce

LEMMA RepositionKeeps ==
  ASSUME QueueInv, NEW seq \in 0..MaxSeq, Reposition(seq)
  PROVE  QueueInv'
<1>1. MaxSeq \in Nat /\ MaxBuffer \in Nat \ {0}
  BY HoldBackAssumption
<1>2. Cardinality({}) = 0
  BY FS_EmptySet
<1>3. held \in Queues
  BY DEF QueueInv, QueueTypeOK
<1>4. held' \in Queues /\ held'.delivered = seq /\ held'.buffer = {}
  BY <1>3 DEF Reposition, Reset, Queues
<1>5. handed' = [s \in Seqs |-> 0] /\ missed' = {} /\ base' = seq
  BY DEF Reposition
<1>6. QueueTypeOK'
  BY <1>4, <1>5 DEF QueueTypeOK
<1>7. EveryNumberAccounted' /\ ShownAtMostOnce'
  BY <1>1, <1>4, <1>5 DEF EveryNumberAccounted, ShownAtMostOnce
<1>8. NothingDeliverableHeld' /\ BufferBounded'
  BY <1>1, <1>2, <1>4 DEF NothingDeliverableHeld, BufferBounded
<1> QED BY <1>6, <1>7, <1>8 DEF QueueInv

(***************************************************************************)
(* Both calls that release are sound from a state of the invariant.        *)
(***************************************************************************)
LEMMA TakeInSound ==
  ASSUME QueueInv, NEW seq \in Seqs
  PROVE  Sound(held, Offer(held, seq))
BY TidyQueueInv, OfferSound

LEMMA GiveUpSound ==
  ASSUME QueueInv
  PROVE  Sound(held, ForceRelease(held))
<1>1. Tidy(held)
  BY TidyQueueInv
<1>2. \A s \in held.buffer : s >= Expected(held)
  BY <1>1 DEF Tidy, Expected, Queues, Seqs
<1> QED BY <1>1, <1>2, ForceReleaseSound DEF Tidy

LEMMA NextQueueInv == QueueInv /\ [QueueNext]_heldVars => QueueInv'
<1> SUFFICES ASSUME QueueInv, [QueueNext]_heldVars PROVE QueueInv'
  OBVIOUS
<1>1. ASSUME NEW seq \in Seqs, TakeIn(seq) PROVE QueueInv'
  BY <1>1, TakeInSound, RenderKeeps DEF TakeIn
<1>2. CASE GiveUpGap
  BY <1>2, GiveUpSound, RenderKeeps DEF GiveUpGap
<1>3. ASSUME NEW seq \in 0..MaxSeq, Reposition(seq) PROVE QueueInv'
  BY <1>3, RepositionKeeps
<1>4. CASE UNCHANGED heldVars
  BY <1>4 DEF heldVars, QueueInv, QueueTypeOK, NothingDeliverableHeld, BufferBounded,
              EveryNumberAccounted, ShownAtMostOnce
<1> QED BY <1>1, <1>2, <1>3, <1>4 DEF QueueNext

THEOREM QueueInductive == QueueSpec => []QueueInv
BY InitQueueInv, NextQueueInv, PTL DEF QueueSpec

\* A queue keeps its shape: a mark and a set of numbers.
THEOREM QueueTypeCorrect == QueueSpec => []QueueTypeOK
BY QueueInductive, PTL DEF QueueInv

\* Each number is rendered at most once per period.
THEOREM AtMostOnce == QueueSpec => []ShownAtMostOnce
BY QueueInductive, PTL DEF QueueInv

\* Up to the mark, a number was rendered or given up, never both.
THEOREM Accounting == QueueSpec => []EveryNumberAccounted
BY QueueInductive, PTL DEF QueueInv

\* The buffer holds only messages that wait for an earlier one, and never
\* more than MaxBuffer of them.
THEOREM Waiting == QueueSpec => [](NothingDeliverableHeld /\ BufferBounded)
BY QueueInductive, PTL DEF QueueInv

\* Only the watchdog or a full buffer gives a number up.
THEOREM Loss == QueueSpec => LossOnlyByGivingUp
<1>1. QueueInv /\ [QueueNext]_heldVars => [~(missed' \subseteq missed) => IsFull(held) \/ GiveUpGap]_heldVars
  <2> SUFFICES ASSUME QueueInv, QueueNext, ~IsFull(held), ~GiveUpGap
               PROVE  missed' \subseteq missed
    BY DEF heldVars
  <2>1. ASSUME NEW seq \in Seqs, TakeIn(seq) PROVE missed' \subseteq missed
    <3>1. Offer(held, seq).released = Expected(held)..Offer(held, seq).queue.delivered
      BY TidyQueueInv, OfferSound
    <3> QED BY <2>1, <3>1 DEF TakeIn, Render
  <2>2. ASSUME NEW seq \in 0..MaxSeq, Reposition(seq) PROVE missed' \subseteq missed
    BY <2>2 DEF Reposition
  <2> QED BY <2>1, <2>2 DEF QueueNext
<1> QED BY <1>1, QueueInductive, PTL DEF QueueSpec, LossOnlyByGivingUp

(***************************************************************************)
(* The refinement of OrderedDelivery.                                      *)
(***************************************************************************)
LEMMA RenderIsBurst ==
  ASSUME QueueInv, NEW r, Sound(held, r), Render(r)
  PROVE  [Delivery!Next]_(Delivery!vars)
<1>1. /\ MaxSeq \in Nat /\ held \in Queues
      /\ held.delivered \in 0..MaxSeq
      /\ missed \in SUBSET Seqs /\ handed \in [Seqs -> Nat]
  BY HoldBackAssumption DEF QueueInv, QueueTypeOK, Queues
<1>2. /\ r.queue \in Queues /\ r.queue.delivered \in 0..MaxSeq
      /\ r.released \subseteq Expected(held)..r.queue.delivered
      /\ r.released # {} => r.queue.delivered \in r.released
      /\ r.released = {} => r.queue.delivered = held.delivered
  BY DEF Sound, Queues
<1>3. /\ held' = r.queue
      /\ handed' = [s \in Seqs |-> IF s \in r.released THEN handed[s] + 1 ELSE handed[s]]
      /\ missed' = missed \cup ((Expected(held)..r.queue.delivered) \ r.released)
  BY DEF Render
<1>4. CASE r.released = {}
  <2>1. held'.delivered = held.delivered
    BY <1>2, <1>3, <1>4
  <2>2. Expected(held)..r.queue.delivered = {}
    BY <1>1, <1>2, <1>4 DEF Expected
  <2>3. missed' = missed
    BY <1>3, <2>2
  <2>4. handed' = [s \in Seqs |-> handed[s]]
    BY <1>3, <1>4
  <2>5. handed' = handed
    BY <1>1, <2>4
  <2> QED BY <2>1, <2>3, <2>5 DEF Delivery!vars
<1>5. CASE r.released # {}
  <2> DEFINE top == r.queue.delivered
  <2>1. top \in r.released /\ top \in Seqs /\ top > held.delivered
    BY <1>1, <1>2, <1>5 DEF Expected, Seqs
  <2>2. r.released \in SUBSET (held.delivered + 1..top)
    BY <1>2 DEF Expected
  <2>3. Delivery!Burst(top, r.released)
    BY <1>3, <2>1 DEF Delivery!Burst, Delivery!Seqs, Seqs, Expected
  <2> QED BY <2>1, <2>2, <2>3 DEF Delivery!Next, Delivery!Release, Delivery!Seqs, Seqs
<1> QED BY <1>4, <1>5

\* The queue does what OrderedDelivery promises.
THEOREM Refinement == QueueSpec => DeliverySpec
<1>1. QueueInit => Delivery!Init
  BY DEF QueueInit, NewQueue, Delivery!Init, Delivery!Seqs, Seqs
<1>2. QueueInv /\ [QueueNext]_heldVars => [Delivery!Next]_(Delivery!vars)
  <2> SUFFICES ASSUME QueueInv, [QueueNext]_heldVars
               PROVE  [Delivery!Next]_(Delivery!vars)
    OBVIOUS
  <2>1. ASSUME NEW seq \in Seqs, TakeIn(seq) PROVE [Delivery!Next]_(Delivery!vars)
    BY <2>1, TakeInSound, RenderIsBurst DEF TakeIn
  <2>2. CASE GiveUpGap
    BY <2>2, GiveUpSound, RenderIsBurst DEF GiveUpGap
  <2>3. ASSUME NEW seq \in 0..MaxSeq, Reposition(seq)
        PROVE  [Delivery!Next]_(Delivery!vars)
    <3>1. held \in Queues
      BY DEF QueueInv, QueueTypeOK
    <3>2. held'.delivered = seq
      BY <2>3, <3>1 DEF Reposition, Reset, Queues
    <3>3. Delivery!Restart(seq)
      BY <2>3, <3>2 DEF Reposition, Delivery!Restart, Delivery!Seqs, Seqs
    <3> QED BY <3>3 DEF Delivery!Next
  <2>4. CASE UNCHANGED heldVars
    BY <2>4 DEF heldVars, Delivery!vars
  <2> QED BY <2>1, <2>2, <2>3, <2>4 DEF QueueNext
<1> QED BY <1>1, <1>2, QueueInductive, PTL DEF QueueSpec, DeliverySpec, Delivery!Spec
=============================================================================
