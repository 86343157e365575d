--------------------------- MODULE LoadTestProofs ---------------------------
(***************************************************************************)
(* The verdict of the load generator, for any number of clients, messages, *)
(* lost connections and faults: an alarm above the baseline of a client is *)
(* a number that is in no history or out of the reach of its one resync.   *)
(***************************************************************************)
EXTENDS LoadTest, FiniteSetTheorems, WellFoundedInduction, TLAPS

-----------------------------------------------------------------------------
(* Numbers.                                                                *)

\* Among the intervals s..M, the one that is minimal for strict inclusion
\* starts at the highest element of the set.
LEMMA MaxExists ==
  ASSUME NEW M \in Nat, NEW S \in SUBSET (0..M), S # {}
  PROVE  Max(S) \in S /\ \A s \in S : s <= Max(S)
<1> DEFINE Up == {s..M : s \in S}
<1>1. Up # {} /\ Up \subseteq FiniteSubsetsOf(0..M)
  <2>1. \A s \in S : s..M \in SUBSET (0..M) /\ IsFiniteSet(s..M)
    BY FS_Interval
  <2> QED BY <2>1 DEF FiniteSubsetsOf
<1>2. IsWellFoundedOn(StrictSubsetOrdering(0..M), FiniteSubsetsOf(0..M))
  BY FS_StrictSubsetOrderingWellFounded
<1> HIDE DEF Up
<1>3. PICK U \in Up : \A V \in Up : ~(<<V, U>> \in StrictSubsetOrdering(0..M))
  BY <1>1, <1>2, WFMin
<1>4. PICK m \in S : U = m..M
  BY DEF Up
<1>5. ASSUME NEW s \in S, ~(s <= m)
      PROVE  FALSE
  <2>1. s..M \in Up
    BY DEF Up
  <2>2. s..M \subseteq U /\ s..M # U
    BY <1>4, <1>5
  <2>3. <<s..M, U>> \in StrictSubsetOrdering(0..M)
    BY <1>4, <2>2 DEF StrictSubsetOrdering
  <2> QED BY <1>3, <2>1, <2>3
<1>6. \A s \in S : m >= s
  BY <1>5
<1> QED BY <1>6 DEF Max

LEMMA MinExists ==
  ASSUME NEW M \in Nat, NEW S \in SUBSET (0..M), S # {}
  PROVE  Min(S) \in S /\ \A s \in S : Min(S) <= s
<1> DEFINE Back == {M - s : s \in S}
<1>1. Back \in SUBSET (0..M) /\ Back # {}
  <2>1. \A s \in S : s \in 0..M /\ M - s \in 0..M
    OBVIOUS
  <2> QED BY <2>1
<1>2. PICK b \in Back : \A c \in Back : c <= b
  BY <1>1, MaxExists
<1>3. PICK m \in S : b = M - m
  OBVIOUS
<1>4. \A s \in S : m <= s
  <2>1. TAKE s \in S
  <2>2. M - s \in Back
    OBVIOUS
  <2>3. M - s <= M - m
    BY <1>2, <1>3, <2>2
  <2> QED BY <2>3
<1> QED BY <1>4 DEF Min

\* A set without a gap is the interval between its ends.
LEMMA NoGap ==
  ASSUME NEW S \in SUBSET Seqs, S # {}, ~Gap(S)
  PROVE  S = Min(S)..Max(S)
<1>1. MaxSeq \in Nat /\ S \in SUBSET (0..MaxSeq)
  BY LoadAssumption DEF Seqs
<1>2. /\ Min(S) \in S /\ \A s \in S : Min(S) <= s
      /\ Max(S) \in S /\ \A s \in S : s <= Max(S)
  BY <1>1, MinExists, MaxExists
<1>3. Min(S) \in Int /\ Max(S) \in Int /\ Min(S) <= Max(S)
  <2>1. Min(S) \in 0..MaxSeq
    BY <1>1, <1>2
  <2>2. Max(S) \in 0..MaxSeq
    BY <1>1, <1>2
  <2> QED BY <1>1, <1>2, <2>1, <2>2
<1> DEFINE I == Min(S)..Max(S)
<1>4. IsFiniteSet(I)
  BY <1>3, FS_Interval
<1>5. Cardinality(I) = Max(S) - Min(S) + 1
  BY <1>3, FS_Interval
<1>6. S \in SUBSET I
  BY <1>1, <1>2, <1>3
<1>7. Cardinality(S) = Max(S) - Min(S) + 1
  BY DEF Gap
<1> HIDE DEF I
<1>8. S = I
  BY <1>4, <1>5, <1>6, <1>7, FS_Subset
<1> QED BY <1>8 DEF I

\* Where the contiguous start ends, and that it has no hole.
LEMMA ContiguousEnd ==
  ASSUME NEW S \in SUBSET Seqs, S # {}
  PROVE  /\ Contiguous(S) \in S
         /\ \A a \in S : \A s \in Seqs : a <= s /\ s <= Contiguous(S) => s \in S
<1>1. MaxSeq \in Nat /\ S \in SUBSET (0..MaxSeq) /\ Seqs = 1..MaxSeq
  BY LoadAssumption DEF Seqs
<1> DEFINE Ends == {s \in S : s + 1 \notin S}
<1>2. Max(S) \in S /\ \A s \in S : s <= Max(S)
  BY <1>1, MaxExists
<1>3. Max(S) \in Ends
  <2>1. Max(S) \in 0..MaxSeq
    BY <1>1, <1>2
  <2>2. ~(Max(S) + 1 <= Max(S))
    BY <1>1, <2>1
  <2> QED BY <1>2, <2>2
<1>4. Min(Ends) \in Ends /\ \A s \in Ends : Min(Ends) <= s
  BY <1>1, <1>3, MinExists
<1>5. Contiguous(S) = Min(Ends)
  BY DEF Contiguous
<1>6. ASSUME NEW a \in S, NEW s \in Seqs, a <= s, s <= Contiguous(S), s \notin S
      PROVE  FALSE
  <2> DEFINE Holes == {x \in a..s : x \notin S}
  <2>1. a \in Nat /\ s \in Nat /\ s \in Holes /\ Holes \in SUBSET (0..MaxSeq)
    BY <1>1, <1>6
  <2>2. Min(Holes) \in Holes /\ \A x \in Holes : Min(Holes) <= x
    BY <1>1, <2>1, MinExists
  <2> DEFINE h == Min(Holes)
  <2>3. h \in Nat /\ h > a /\ h <= s /\ h \notin S
    BY <1>6, <2>1, <2>2
  <2>4. h - 1 \in a..s /\ h - 1 \notin Holes
    BY <2>1, <2>2, <2>3
  <2>5. h - 1 \in S /\ (h - 1) + 1 = h
    BY <2>3, <2>4
  <2> HIDE DEF h, Holes
  <2>6. h - 1 \in Ends
    BY <2>3, <2>5
  <2> HIDE DEF Ends
  <2>7. Min(Ends) <= h - 1
    BY <1>4, <2>6
  <2>8. Min(Ends) \in Nat
    <3>1. Min(Ends) \in S
      BY <1>4 DEF Ends
    <3>2. Min(Ends) \in 0..MaxSeq
      BY <1>1, <3>1
    <3> QED BY <1>1, <3>2
  <2> QED BY <1>5, <1>6, <2>1, <2>3, <2>7, <2>8
<1> QED BY <1>4, <1>5, <1>6

-----------------------------------------------------------------------------
(* One client.                                                             *)

\* _registrar_seq adds what is above the baseline, and nothing else changes.
LEMMA RecordAdds ==
  ASSUME NEW stats \in Stats, NEW seqs \in SUBSET Seqs
  PROVE  /\ Record(stats, seqs) \in Stats
         /\ Record(stats, seqs).seqs = stats.seqs \cup {s \in seqs : s > stats.baseline}
         /\ Record(stats, seqs).sessoes = stats.sessoes
         /\ Record(stats, seqs).entrou = stats.entrou
         /\ Record(stats, seqs).baseline = stats.baseline
         /\ Record(stats, seqs).asked = stats.asked
<1> DEFINE new == {s \in seqs : s > stats.baseline}
           highest == Max({stats.ultimo} \cup new)
<1>1. MaxSeq \in Nat /\ Seqs = 1..MaxSeq
  BY LoadAssumption DEF Seqs
<1>2. new \in SUBSET Seqs /\ stats.ultimo \in 0..MaxSeq
  BY DEF Stats
<1>3. {stats.ultimo} \cup new \in SUBSET (0..MaxSeq)
  BY <1>1, <1>2
<1>4. highest \in {stats.ultimo} \cup new
  BY <1>1, <1>3, MaxExists
<1>5. highest \in 0..MaxSeq
  BY <1>3, <1>4
<1>6. stats.seqs \cup new \in SUBSET Seqs
  BY <1>2 DEF Stats
<1>7. Record(stats, seqs) = [stats EXCEPT !.seqs = stats.seqs \cup new, !.ultimo = highest]
  BY DEF Record
<1> HIDE DEF new, highest
<1>8. Record(stats, seqs) \in Stats
  BY <1>5, <1>6, <1>7 DEF Stats
<1>9. Record(stats, seqs).seqs = stats.seqs \cup new
  BY <1>7 DEF Stats
<1> QED BY <1>7, <1>8, <1>9 DEF Stats, new

\* A step of one client keeps the invariant if the client fits afterwards.
LEMMA ClientKeeps ==
  ASSUME IInv, NEW c \in Clients, NEW stats \in Stats, NEW at \in Phases,
         client' = [client EXCEPT ![c] = stats], phase' = [phase EXCEPT ![c] = at],
         UNCHANGED <<room, stage, reconnect, faults>>,
         drops' \in 0..MaxDrops, drops <= drops',
         Fits(stats, at, drops', stage = "over", stored)
  PROVE  IInv'
<1>1. TypeOK'
  BY DEF IInv, TypeOK, room
<1>2. Drained'
  BY DEF IInv, Drained, room
<1>3. ASSUME NEW d \in Clients
      PROVE  Fits(client'[d], phase'[d], drops', stage' = "over", stored')
  <2>1. stored' = stored /\ stage' = stage
    BY DEF room
  <2>2. CASE d = c
    <3>1. client'[d] = stats /\ phase'[d] = at
      BY <2>2 DEF IInv, TypeOK
    <3> QED BY <2>1, <3>1
  <2>3. CASE d # c
    <3>1. client'[d] = client[d] /\ phase'[d] = phase[d]
      BY <2>3 DEF IInv, TypeOK
    <3>2. client[d] \in Stats /\ Fits(client[d], phase[d], drops, stage = "over", stored)
      BY DEF IInv, TypeOK
    <3>3. client[d].sessoes \in Int /\ drops \in Int /\ drops' \in Int
      BY <3>2, LoadAssumption DEF IInv, TypeOK, Stats
    <3> QED BY <2>1, <3>1, <3>2, <3>3 DEF Fits
  <2> QED BY <2>2, <2>3
<1> QED BY <1>1, <1>2, <1>3 DEF IInv

\* A client without a gap misses nothing between its ends.
LEMMA WholeIsAnswered ==
  ASSUME NEW stats \in Stats, ~Gap(stats.seqs), NEW history
  PROVE  Answered(stats, history)
<1> DEFINE S == stats.seqs
<1>1. MaxSeq \in Nat /\ S \in SUBSET Seqs /\ S \in SUBSET (0..MaxSeq)
  BY LoadAssumption DEF Stats, Seqs
<1>2. ASSUME NEW s \in Between(S), s \notin S
      PROVE  FALSE
  <2>1. PICK a \in S, b \in S : a < s /\ s < b
    BY <1>2 DEF Between
  <2>2. S = Min(S)..Max(S)
    BY <1>1, <2>1, NoGap
  <2>3. Min(S) \in S /\ Max(S) \in S /\ Min(S) <= a /\ b <= Max(S)
    BY <1>1, <2>1, MinExists, MaxExists
  <2>4. Min(S) \in Int /\ Max(S) \in Int /\ a \in Int /\ b \in Int /\ s \in Int
    <3>1. Min(S) \in 0..MaxSeq /\ Max(S) \in 0..MaxSeq /\ a \in 0..MaxSeq /\ b \in 0..MaxSeq
      BY <1>1, <2>3
    <3>2. s \in 1..MaxSeq
      BY DEF Between, Seqs
    <3> QED BY <3>1, <3>2, <1>1
  <2>5. s \in Min(S)..Max(S)
    BY <2>1, <2>3, <2>4
  <2> QED BY <1>2, <2>2, <2>5
<1> QED BY <1>2 DEF Answered

\* The answer to a resync after the contiguous start brings what the history
\* has, as far as it reaches.
LEMMA AnswerBrings ==
  ASSUME stored \in SUBSET Seqs, NEW stats \in Stats, stats.seqs # {},
         stats.asked = Contiguous(stats.seqs)
  PROVE  Answered(Record(stats, Backlog(stats.asked)), stored)
<1> DEFINE after == stats.asked
           new == Record(stats, Backlog(after))
<1>1. MaxSeq \in Nat /\ Seqs = 1..MaxSeq /\ after \in 0..MaxSeq
      /\ stats.seqs \in SUBSET Seqs /\ stats.baseline \in 0..MaxSeq
  BY LoadAssumption DEF Stats, Seqs
<1>2. Backlog(after) \in SUBSET Seqs
  BY DEF Backlog
<1>3. /\ new.seqs = stats.seqs \cup {s \in Backlog(after) : s > stats.baseline}
      /\ new.baseline = stats.baseline /\ new.asked = after
  BY <1>2, RecordAdds
<1> HIDE DEF new, after
<1>4. ASSUME NEW s \in Between(new.seqs), s \notin new.seqs, s > stats.baseline,
             s \in stored
      PROVE  Cardinality({t \in stored : after < t /\ t < s}) >= Limit
  <2>1. s \in Seqs /\ s \in 1..MaxSeq
    BY <1>1 DEF Between
  <2>2. s \notin Backlog(after)
    BY <1>3, <1>4
  <2>3. CASE after < s
    <3> DEFINE above == {t \in stored : t > after}
               early == {t \in above : t < s}
    <3>1. s \in above
      BY <1>4, <1>1, <2>1, <2>3
    <3>2. ~(Cardinality(early) < Limit)
      BY <2>2, <3>1 DEF Backlog
    <3>3. early = {t \in stored : after < t /\ t < s}
      BY <1>1
    <3>4. IsFiniteSet(1..MaxSeq)
      BY <1>1, FS_Interval
    <3>5. early \in SUBSET (1..MaxSeq)
      BY <1>1
    <3> HIDE DEF early
    <3>6. IsFiniteSet(early)
      BY <3>4, <3>5, FS_Subset
    <3>7. Cardinality(early) \in Nat /\ Limit \in Nat
      BY <3>6, FS_CardinalityType, LoadAssumption
    <3> QED BY <3>2, <3>3, <3>7
  <2>4. CASE ~(after < s)
    <3>1. PICK a \in new.seqs : a < s
      BY DEF Between
    <3>2. a \in stats.seqs
      <4>1. CASE a \in Backlog(after)
        <5>1. a \in 1..MaxSeq /\ a > after
          BY <1>1, <1>2, <4>1 DEF Backlog
        <5> QED BY <1>1, <2>1, <2>4, <3>1, <5>1
      <4> QED BY <1>3, <4>1
    <3>3. a \in 1..MaxSeq /\ a <= s /\ s <= after
      BY <1>1, <2>1, <2>4, <3>1, <3>2
    <3>4. s \in stats.seqs
      BY <1>1, <2>1, <3>2, <3>3, ContiguousEnd DEF after
    <3> QED BY <1>3, <1>4, <3>4
  <2> QED BY <2>3, <2>4
<1>5. Answered(new, stored)
  <2> SUFFICES ASSUME NEW s \in Between(new.seqs) \ new.seqs, s > new.baseline
               PROVE  OutOfReach(stored, s, new.asked)
    BY DEF Answered
  <2> QED BY <1>3, <1>4 DEF OutOfReach
<1> QED BY <1>5 DEF new, after

-----------------------------------------------------------------------------
(* The steps.                                                              *)

LEMMA InitIInv == Init => IInv
<1> SUFFICES ASSUME Init PROVE IInv
  OBVIOUS
<1>1. NoStats \in Stats
  BY LoadAssumption DEF NoStats, Stats, Seqs
<1>2. TypeOK
  BY <1>1, LoadAssumption DEF Init, TypeOK, Phases, Seqs
<1>3. ASSUME NEW c \in Clients
      PROVE  Fits(client[c], phase[c], drops, stage = "over", stored)
  <2>1. client[c] = NoStats /\ phase[c] \in {"away", "done"} /\ drops = 0
    BY DEF Init
  <2> QED BY <2>1 DEF Fits, NoStats
<1> QED BY <1>2, <1>3 DEF Init, IInv, Drained

\* While the run is not over nobody asks and nobody is done with a session.
LEMMA StageKeeps ==
  ASSUME IInv, stage # "over", client' \in [Clients -> Stats],
         \A c \in Clients : /\ client'[c].sessoes = client[c].sessoes
                            /\ client'[c].entrou = client[c].entrou,
         UNCHANGED <<phase, drops>>
  PROVE  \A c \in Clients : Fits(client'[c], phase'[c], drops', stage' = "over", stored')
BY DEF IInv, Fits

LEMMA PublishKeeps ==
  ASSUME IInv, NEW s \in Seqs, Publish(s)
  PROVE  IInv'
<1>1. PICK lost \in SUBSET Members :
        /\ faults + Cardinality(lost) <= MaxFaults
        /\ faults' = faults + Cardinality(lost)
        /\ client' = [c \in Clients |-> IF c \in Members \ lost THEN Record(client[c], {s})
                                                                ELSE client[c]]
  BY DEF Publish
<1>2. /\ s \in inflight /\ inflight' = inflight \ {s} /\ saving' = saving \cup {s}
      /\ UNCHANGED <<counter, stored, stage, reconnect, phase, drops>>
  BY DEF Publish
<1>3. stage # "over"
  BY <1>2 DEF IInv, Drained
<1>4. \A c \in Clients : /\ client'[c] \in Stats
                         /\ client'[c].sessoes = client[c].sessoes
                         /\ client'[c].entrou = client[c].entrou
  <2> TAKE c \in Clients
  <2>1. client[c] \in Stats
    BY DEF IInv, TypeOK
  <2>2. {s} \in SUBSET Seqs
    OBVIOUS
  <2>3. Record(client[c], {s}) \in Stats
    BY <2>1, <2>2, RecordAdds
  <2>4. /\ Record(client[c], {s}).sessoes = client[c].sessoes
        /\ Record(client[c], {s}).entrou = client[c].entrou
    BY <2>1, <2>2, RecordAdds
  <2> QED BY <1>1, <2>1, <2>3, <2>4
<1>5. client' \in [Clients -> Stats]
  BY <1>1, <1>4
<1>6. faults' \in 0..MaxFaults
  <2>1. lost \in SUBSET Clients
    BY DEF Members
  <2>2. Cardinality(lost) \in Nat
    BY <2>1, LoadAssumption, FS_Subset, FS_CardinalityType
  <2> QED BY <1>1, <2>2, LoadAssumption DEF IInv, TypeOK
<1>7. TypeOK'
  BY <1>2, <1>5, <1>6 DEF IInv, TypeOK
<1>8. Drained'
  BY <1>2, <1>3 DEF Drained
<1> QED BY <1>2, <1>3, <1>4, <1>5, <1>7, <1>8, StageKeeps DEF IInv

\* The room goes on without the clients.
LEMMA RoomKeeps ==
  ASSUME IInv, stage # "over", UNCHANGED <<reconnect, phase, client, drops>>,
         counter' \in 0..MaxSeq, inflight' \in SUBSET Seqs, saving' \in SUBSET Seqs,
         stored' \in SUBSET Seqs, stage' \in {"sending", "draining", "over"},
         faults' \in 0..MaxFaults, stage' = "over" => inflight' = {} /\ saving' = {}
  PROVE  IInv'
<1>1. TypeOK' /\ Drained'
  BY DEF IInv, TypeOK, Drained
<1>2. \A c \in Clients : Fits(client'[c], phase'[c], drops', stage' = "over", stored')
  BY StageKeeps DEF IInv, TypeOK
<1> QED BY <1>1, <1>2 DEF IInv

LEMMA NextIInv == IInv /\ [Next]_vars => IInv'
<1> SUFFICES ASSUME IInv, [Next]_vars PROVE IInv'
  OBVIOUS
<1>a. MaxSeq \in Nat /\ MaxDrops \in Nat /\ MaxFaults \in Nat /\ Seqs = 1..MaxSeq
  BY LoadAssumption DEF Seqs
<1>b. /\ TypeOK /\ Drained /\ drops \in 0..MaxDrops /\ faults \in 0..MaxFaults
      /\ counter \in 0..MaxSeq /\ drops <= drops
  BY <1>a DEF IInv, TypeOK
<1>c. \A c \in Clients : /\ client[c] \in Stats /\ phase[c] \in Phases
                         /\ Fits(client[c], phase[c], drops, stage = "over", stored)
  BY DEF IInv, TypeOK
<1>1. ASSUME NEW c \in Clients, Send(c) PROVE IInv'
  <2>1. counter + 1 \in Seqs
    BY <1>1, <1>a, <1>b DEF Send
  <2> QED BY <1>1, <1>a, <1>b, <2>1, RoomKeeps DEF Send, TypeOK, bounds
<1>2. ASSUME NEW s \in Seqs, Publish(s) PROVE IInv'
  BY <1>2, PublishKeeps
<1>3. ASSUME NEW s \in Seqs, Save(s) PROVE IInv'
  BY <1>3, <1>b, RoomKeeps DEF Save, TypeOK, Drained, bounds
<1>4. ASSUME NEW s \in Seqs, Lose(s) PROVE IInv'
  <2>1. faults + 1 \in 0..MaxFaults
    BY <1>4, <1>a, <1>b DEF Lose
  <2> QED BY <1>4, <1>b, <2>1, RoomKeeps DEF Lose, TypeOK, Drained
<1>5. CASE Drain
  BY <1>5, <1>b, RoomKeeps DEF Drain, TypeOK, room, bounds
<1>6. CASE Encerrar
  BY <1>6, <1>b, RoomKeeps DEF Encerrar, TypeOK, room, bounds
<1>7. ASSUME NEW c \in Clients, Connect(c) PROVE IInv'
  <2> DEFINE stats == [client[c] EXCEPT !.sessoes = @ + 1, !.join = client[c].ultimo]
  <2>1. client[c].sessoes \in 0..MaxDrops + 1 /\ client[c].sessoes <= drops
    BY <1>7, <1>c DEF Connect, Fits, Stats
  <2>2. client[c].sessoes + 1 \in 0..MaxDrops + 1 /\ client[c].sessoes + 1 <= drops + 1
    BY <1>a, <1>b, <2>1
  <2>3. /\ stats \in Stats /\ stats.sessoes = client[c].sessoes + 1
        /\ stats.entrou = client[c].entrou
    BY <1>c, <2>2 DEF Stats
  <2>4. ~client[c].entrou
    BY <1>7, <1>c DEF Connect, Fits
  <2>5. client' = [client EXCEPT ![c] = stats] /\ phase' = [phase EXCEPT ![c] = "joining"]
        /\ UNCHANGED <<room, stage, reconnect, faults>> /\ drops' = drops
    BY <1>7 DEF Connect, bounds
  <2> HIDE DEF stats
  <2>6. Fits(stats, "joining", drops', stage = "over", stored)
    BY <2>2, <2>3, <2>4, <2>5 DEF Fits
  <2> QED BY <1>b, <2>3, <2>5, <2>6, ClientKeeps DEF Phases
<1>8. ASSUME NEW c \in Clients, ReadCounter(c) PROVE IInv'
  <2> DEFINE stats == [client[c] EXCEPT !.last = counter]
  <2>1. stats \in Stats /\ stats.sessoes = client[c].sessoes
    BY <1>b, <1>c DEF Stats
  <2>2. client' = [client EXCEPT ![c] = stats] /\ phase' = [phase EXCEPT ![c] = "reading"]
        /\ UNCHANGED <<room, stage, reconnect, faults>> /\ drops' = drops
    BY <1>8 DEF ReadCounter, bounds
  <2> HIDE DEF stats
  <2>3. Fits(stats, "reading", drops', stage = "over", stored)
    BY <1>8, <1>c, <2>1, <2>2 DEF Fits, ReadCounter
  <2> QED BY <1>b, <2>1, <2>2, <2>3, ClientKeeps DEF Phases
<1>9. ASSUME NEW c \in Clients, Joined(c) PROVE IInv'
  <2> DEFINE first == [client[c] EXCEPT !.entrou = TRUE, !.baseline = client[c].last,
                                        !.ultimo = client[c].last]
             again == Record(client[c], Backlog(client[c].join))
             stats == IF client[c].entrou THEN again ELSE first
  <2>1. first \in Stats /\ first.sessoes = client[c].sessoes
    BY <1>c DEF Stats
  <2>2. Backlog(client[c].join) \in SUBSET Seqs
    BY <1>b DEF Backlog, TypeOK
  <2>3. again \in Stats /\ again.sessoes = client[c].sessoes
    BY <1>c, <2>2, RecordAdds
  <2>4. client' = [client EXCEPT ![c] = stats] /\ phase' = [phase EXCEPT ![c] = "working"]
        /\ UNCHANGED <<room, stage, reconnect, faults>> /\ drops' = drops
    BY <1>9 DEF Joined, bounds
  <2> HIDE DEF first, again
  <2>5. stats \in Stats /\ stats.sessoes = client[c].sessoes
    BY <2>1, <2>3
  <2> HIDE DEF stats
  <2>6. Fits(stats, "working", drops', stage = "over", stored)
    BY <1>9, <1>c, <2>4, <2>5 DEF Fits, Joined
  <2> QED BY <1>b, <2>4, <2>5, <2>6, ClientKeeps DEF Phases
<1>10. ASSUME NEW c \in Clients, Drop(c) PROVE IInv'
  <2> DEFINE stats == [client[c] EXCEPT !.entrou = FALSE, !.asked = 0]
             at == IF reconnect /\ stage # "over" THEN "away" ELSE "done"
  <2>1. stats \in Stats /\ stats.sessoes = client[c].sessoes /\ ~stats.entrou
    <3>1. client[c] \in Stats /\ 0 \in 0..MaxSeq
      BY <1>a, <1>c
    <3> QED BY <3>1 DEF Stats
  <2>2. client' = [client EXCEPT ![c] = stats] /\ phase' = [phase EXCEPT ![c] = at]
        /\ UNCHANGED <<room, stage, reconnect, faults>>
        /\ drops < MaxDrops /\ drops' = drops + 1
    BY <1>10 DEF Drop
  <2>3. client[c].sessoes \in Nat /\ client[c].sessoes <= drops + 1
    BY <1>10, <1>c DEF Fits, Drop, Members, Stats
  <2>4. at \in {"away", "done"}
    OBVIOUS
  <2> HIDE DEF stats, at
  <2>5. drops' \in 0..MaxDrops /\ drops <= drops'
    BY <1>a, <1>b, <2>2
  <2>6. client[c].sessoes <= drops' /\ client[c].sessoes <= drops' + 1
    BY <1>b, <2>2, <2>3
  <2>7. Fits(stats, at, drops', stage = "over", stored)
    BY <2>1, <2>4, <2>6 DEF Fits
  <2> QED BY <2>1, <2>2, <2>4, <2>5, <2>7, ClientKeeps DEF Phases
<1>11. ASSUME NEW c \in Clients, Reconcile(c) PROVE IInv'
  <2> DEFINE S == client[c].seqs
  <2>1. /\ stage = "over" /\ phase[c] = "working"
        /\ UNCHANGED <<room, stage, reconnect, faults>> /\ drops' = drops
    BY <1>11 DEF Reconcile, bounds
  <2>2. client[c] \in Stats /\ client[c].sessoes <= drops + 1 /\ S \in SUBSET Seqs
    BY <1>c, <2>1 DEF Fits, Stats
  <2>3. CASE Gap(S)
    <3> DEFINE stats == [client[c] EXCEPT !.asked = Contiguous(S)]
    <3>1. S # {}
      BY <2>3 DEF Gap
    <3>2. Contiguous(S) \in S
      BY <2>2, <3>1, ContiguousEnd
    <3>3. Contiguous(S) \in 0..MaxSeq
      BY <1>a, <2>2, <3>2
    <3>4. /\ stats \in Stats /\ stats.sessoes = client[c].sessoes /\ stats.seqs = S
          /\ stats.asked = Contiguous(S)
      BY <2>2, <3>3 DEF Stats
    <3>5. client' = [client EXCEPT ![c] = stats] /\ phase' = [phase EXCEPT ![c] = "asking"]
      BY <1>11, <2>3 DEF Reconcile
    <3> HIDE DEF stats, S
    <3>6. Fits(stats, "asking", drops', stage = "over", stored)
      BY <2>1, <2>2, <3>1, <3>4 DEF Fits
    <3> QED BY <1>b, <2>1, <3>4, <3>5, <3>6, ClientKeeps DEF Phases
  <2>4. CASE ~Gap(S)
    <3>1. Answered(client[c], stored)
      BY <2>2, <2>4, WholeIsAnswered
    <3>2. /\ client' = [client EXCEPT ![c] = client[c]]
          /\ phase' = [phase EXCEPT ![c] = "done"]
      BY <1>11, <1>b, <2>4 DEF Reconcile, TypeOK
    <3>3. Fits(client[c], "done", drops', stage = "over", stored)
      BY <2>1, <2>2, <3>1 DEF Fits
    <3> QED BY <1>b, <2>1, <2>2, <3>2, <3>3, ClientKeeps DEF Phases
  <2> QED BY <2>3, <2>4
<1>12. ASSUME NEW c \in Clients, AnswerResync(c) PROVE IInv'
  <2> DEFINE stats == Record(client[c], Backlog(client[c].asked))
  <2>1. /\ client' = [client EXCEPT ![c] = stats] /\ phase' = [phase EXCEPT ![c] = "done"]
        /\ UNCHANGED <<room, stage, reconnect, faults>> /\ drops' = drops
        /\ phase[c] = "asking"
    BY <1>12 DEF AnswerResync, bounds
  <2>2. /\ client[c] \in Stats /\ client[c].sessoes <= drops + 1 /\ stage = "over"
        /\ client[c].seqs # {} /\ client[c].asked = Contiguous(client[c].seqs)
    BY <1>c, <2>1 DEF Fits
  <2>3. Backlog(client[c].asked) \in SUBSET Seqs
    BY <1>b DEF Backlog, TypeOK
  <2>4. stats \in Stats /\ stats.sessoes = client[c].sessoes
    BY <2>2, <2>3, RecordAdds
  <2>5. Answered(stats, stored)
    BY <1>b, <2>2, AnswerBrings DEF TypeOK
  <2> HIDE DEF stats
  <2>6. Fits(stats, "done", drops', stage = "over", stored)
    BY <2>1, <2>2, <2>4, <2>5 DEF Fits
  <2> QED BY <1>b, <2>1, <2>4, <2>6, ClientKeeps DEF Phases
<1>13. ASSUME NEW c \in Clients, Quit(c) PROVE IInv'
  <2>1. /\ client' = [client EXCEPT ![c] = client[c]]
        /\ phase' = [phase EXCEPT ![c] = "done"]
        /\ UNCHANGED <<room, stage, reconnect, faults>> /\ drops' = drops
        /\ phase[c] = "away"
    BY <1>13, <1>b DEF Quit, bounds, TypeOK
  <2>2. client[c] \in Stats /\ client[c].sessoes <= drops /\ ~client[c].entrou
    BY <1>c, <2>1 DEF Fits
  <2>3. client[c].sessoes <= drops + 1
    BY <1>b, <2>2 DEF Stats
  <2>4. Fits(client[c], "done", drops', stage = "over", stored)
    BY <2>1, <2>2, <2>3 DEF Fits
  <2> QED BY <1>b, <2>1, <2>2, <2>4, ClientKeeps DEF Phases
<1>14. CASE UNCHANGED vars
  BY <1>14 DEF vars, room, bounds, IInv, TypeOK, Drained
<1> QED BY <1>1, <1>2, <1>3, <1>4, <1>5, <1>6, <1>7, <1>8, <1>9, <1>10, <1>11, <1>12,
           <1>13, <1>14 DEF Next, Step

-----------------------------------------------------------------------------
(* The theorems.                                                           *)

\* What a client misses in the common window lies between what it has.
LEMMA MissesBetween ==
  ASSUME TypeOK, NEW c \in Participantes, NEW s \in Faltando(c)
  PROVE  s \in Between(client[c].seqs) \ client[c].seqs
<1> DEFINE Firsts == {Min(client[d].seqs) : d \in Participantes}
           Lasts == {Max(client[d].seqs) : d \in Participantes}
<1>1. MaxSeq \in Nat /\ Seqs = 1..MaxSeq
  BY LoadAssumption DEF Seqs
<1>2. ASSUME NEW d \in Participantes
      PROVE  /\ Min(client[d].seqs) \in client[d].seqs
             /\ Max(client[d].seqs) \in client[d].seqs
             /\ client[d].seqs \in SUBSET (1..MaxSeq)
  <2>1. client[d] \in Stats /\ client[d].seqs # {}
    BY DEF Participantes, TypeOK
  <2>2. client[d].seqs \in SUBSET (1..MaxSeq)
    BY <1>1, <2>1 DEF Stats
  <2>3. client[d].seqs \in SUBSET (0..MaxSeq)
    BY <1>1, <2>2
  <2> QED BY <1>1, <2>1, <2>2, <2>3, MinExists, MaxExists
<1>3. Firsts \in SUBSET (0..MaxSeq) /\ Lasts \in SUBSET (0..MaxSeq)
  <2>1. \A d \in Participantes : /\ Min(client[d].seqs) \in 1..MaxSeq
                                 /\ Max(client[d].seqs) \in 1..MaxSeq
    BY <1>2
  <2> QED BY <1>1, <2>1
<1>4. Min(client[c].seqs) \in Firsts /\ Max(client[c].seqs) \in Lasts
  OBVIOUS
<1>5. s \in Max(Firsts)..Min(Lasts) /\ s \notin client[c].seqs
  BY DEF Faltando, Janela
<1> HIDE DEF Firsts, Lasts
<1>6. Max(Firsts) \in Firsts /\ Min(client[c].seqs) <= Max(Firsts)
  BY <1>1, <1>3, <1>4, MaxExists
<1>7. Min(Lasts) \in Lasts /\ Min(Lasts) <= Max(client[c].seqs)
  BY <1>1, <1>3, <1>4, MinExists
<1> DEFINE a == Min(client[c].seqs)
           b == Max(client[c].seqs)
<1>8. a \in client[c].seqs /\ b \in client[c].seqs /\ a \in 1..MaxSeq /\ b \in 1..MaxSeq
  BY <1>2
<1>9. Max(Firsts) \in 0..MaxSeq /\ Min(Lasts) \in 0..MaxSeq
  BY <1>3, <1>6, <1>7
<1>10. s \in Int /\ a <= s /\ s <= b
  BY <1>1, <1>5, <1>6, <1>7, <1>8, <1>9
<1>11. a # s /\ b # s
  BY <1>5, <1>8
<1> HIDE DEF a, b
<1>12. s \in Seqs /\ a < s /\ s < b
  BY <1>1, <1>8, <1>10, <1>11
<1> QED BY <1>5, <1>8, <1>12 DEF Between

THEOREM Inductive == Spec => []IInv
BY InitIInv, NextIInv, PTL DEF Spec

\* The run and its clients keep their types: no client has more sessions than
\* connections were lost, and one more.
THEOREM TypeCorrect == Spec => []TypeOK
BY Inductive, PTL DEF IInv

\* What the verdict misses above the baseline of a client that stayed to the
\* end is a real loss, whatever connections, deliveries, sends and saves the
\* run lost: no answer to the client's resync could have brought it.
THEOREM AlarmsAreReal == Spec => []AlarmIsReal
<1>1. IInv => AlarmIsReal
  <2> SUFFICES ASSUME IInv, Ended, NEW c \in Participantes, NEW s \in Faltando(c),
                      client[c].entrou, s > client[c].baseline
               PROVE  OutOfReach(stored, s, client[c].asked)
    BY DEF AlarmIsReal
  <2>1. s \in Between(client[c].seqs) \ client[c].seqs
    BY MissesBetween DEF IInv
  <2>2. phase[c] = "done" /\ Fits(client[c], phase[c], drops, stage = "over", stored)
    BY DEF IInv, Ended, Participantes
  <2> QED BY <2>1, <2>2 DEF Fits, Answered
<1> QED BY <1>1, Inductive, PTL
=============================================================================
