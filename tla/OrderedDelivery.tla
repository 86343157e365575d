-------------------------- MODULE OrderedDelivery --------------------------
(***************************************************************************)
(* What a hold-back queue promises to the code that renders a room,        *)
(* without saying how: messages come out in bursts above a mark that only  *)
(* moves up; the numbers a burst steps over are given up for good; the     *)
(* user may re-enter the room at another mark, which starts a new period.  *)
(***************************************************************************)
EXTENDS Integers

CONSTANT MaxSeq

VARIABLES
  mark,     \* highest number handed out so far
  shown,    \* how many times each number was handed out in this period
  lost      \* numbers given up in this period

vars == <<mark, shown, lost>>

Seqs == 1..MaxSeq

Init ==
  /\ mark = 0
  /\ shown = [s \in Seqs |-> 0]
  /\ lost = {}

\* A burst that ends at top and gives up the numbers below top it leaves out.
Burst(top, burst) ==
  /\ top > mark
  /\ top \in burst
  /\ mark' = top
  /\ shown' = [s \in Seqs |-> IF s \in burst THEN shown[s] + 1 ELSE shown[s]]
  /\ lost' = lost \cup ((mark + 1..top) \ burst)

Restart(seq) ==
  /\ mark' = seq
  /\ shown' = [s \in Seqs |-> 0]
  /\ lost' = {}

Release == \E top \in Seqs : \E burst \in SUBSET (mark + 1..top) : Burst(top, burst)

Next == Release \/ \E seq \in 0..MaxSeq : Restart(seq)

Spec == Init /\ [][Next]_vars

\* For who never re-enters the room: one period, in which the mark never moves
\* back, nothing comes twice and nothing below the mark comes at all.
Period == Init /\ [][Release]_vars
=============================================================================
