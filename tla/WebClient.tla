----------------------------- MODULE WebClient -----------------------------
(***************************************************************************)
(* The web page in one room (src/salaviva/static/app.js), at the end of    *)
(* Feed.  Its queue is the same as the server's and the CLI's; it starts   *)
(* at zero, no joined frame ever places it, and its only way out of a gap  *)
(* is a timer that asks for a resync, once.                                *)
(***************************************************************************)
EXTENDS Feed

VARIABLES
  queue,    \* the room's hold-back queue
  timer,    \* gapTimer is set
  rendered  \* history: how many times each number was rendered

page == <<queue, timer, rendered>>
pageVars == <<feed, page>>

PageTypeOK ==
  /\ FeedTypeOK
  /\ queue \in Queues /\ timer \in BOOLEAN
  /\ rendered \in [Seqs -> Nat]

PageInit ==
  /\ FeedInit
  /\ queue = NewQueue(0) /\ timer = FALSE
  /\ rendered = [s \in Seqs |-> 0]

-----------------------------------------------------------------------------
\* deliver: a held message arms the timer; a release stops it when no gap is
\* left.
Deliver(c, s) ==
  LET r == Offer(c.queue, s)
  IN  IF IsDuplicate(c.queue, s)
        THEN c
        ELSE [ queue |-> r.queue,
               timer |-> r.released = {} \/ (c.timer /\ HasGap(r.queue)),
               rendered |-> CountShown(c.rendered, r.released) ]

\* The backlog of a joined frame, in order.
DeliverAll(c, S) ==
  LET upTo[n \in 0..MaxSeq] ==
        IF n = 0 THEN c
        ELSE IF n \in S THEN Deliver(upTo[n - 1], n) ELSE upTo[n - 1]
  IN  upTo[MaxSeq]

Page == [queue |-> queue, timer |-> timer, rendered |-> rendered]

PageBecomes(c) == queue' = c.queue /\ timer' = c.timer /\ rendered' = c.rendered

\* Mutant: a reconnected page puts the queue back to the counter of the room.
HandleReset ==
  /\ Arrive
  /\ \E f \in {Head(frames)} :
       \/ f.frame # "joined" /\ \E c \in {Deliver(Page, f.seq)} : PageBecomes(c)
       \/ /\ f.frame = "joined"
          /\ \E c \in {[DeliverAll(Page, f.backlog) EXCEPT
                          !.queue = Reset(@, f.last)]} : PageBecomes(c)

handle ==
  /\ Arrive
  /\ \E f \in {Head(frames)} :
       \/ f.frame # "joined" /\ \E c \in {Deliver(Page, f.seq)} : PageBecomes(c)
       \/ f.frame = "joined" /\ \E c \in {DeliverAll(Page, f.backlog)} : PageBecomes(c)

\* On open: every room of the page is joined again.
connect ==
  /\ Connect(<<[cmd |-> "join", seq |-> queue.delivered]>>)
  /\ UNCHANGED page

\* The user adds the room again: join from the start, with the queue it has.
roomadd ==
  /\ Type([cmd |-> "join", seq |-> 0])
  /\ UNCHANGED page

\* Mutant: it asks for what comes after the messages it holds.
gapTimerAbove ==
  /\ timer
  /\ timer' = FALSE
  /\ Command([cmd |-> "resync", seq |-> Highest(queue.buffer \cup {queue.delivered})])
  /\ UNCHANGED <<queue, rendered, typed>>

\* The timer fires: one resync, which is dropped when the page is offline.
gapTimer ==
  /\ timer
  /\ timer' = FALSE
  /\ Command([cmd |-> "resync", seq |-> queue.delivered])
  /\ UNCHANGED <<queue, rendered, typed>>

-----------------------------------------------------------------------------
PageNext ==
  \/ FeedStep /\ UNCHANGED page
  \/ handle \/ connect \/ roomadd \/ gapTimer

PageSpec == PageInit /\ [][PageNext]_pageVars

PageProgress ==
  \/ FeedProgress /\ UNCHANGED page
  \/ handle \/ connect \/ gapTimer

\* As long as some task of the nodes or the page can run, one does; users,
\* faults and lost connections are not fair.
FairPageSpec == PageSpec /\ WF_pageVars(PageProgress)

-----------------------------------------------------------------------------
(* Safety.                                                                 *)

\* What the page shows is, through losses, reconnections and rooms added
\* twice, every number up to its mark, each of them once (as long as the
\* buffer does not fill up).
ShowsEachOnce ==
  \A s \in Seqs : rendered[s] = IF s <= queue.delivered THEN 1 ELSE 0

\* What the page stepped over.
Unshown == {s \in 1..queue.delivered : rendered[s] = 0}

\* With a full buffer too, and whatever backlogs, resyncs and live messages
\* overlap, the page does what OrderedDelivery promises to who never re-enters
\* a room: what it steps over is never shown, and the mark never moves back.
Screen == INSTANCE OrderedDelivery WITH
            mark <- queue.delivered, shown <- rendered,
            lost <- Unshown

ScreenPeriod == Screen!Period

\* The mark passes a number that was never shown only when what comes does not
\* fit into the buffer.
Coming == {s \in Brought(Head(frames)) : s > queue.delivered}

LosesOnlyWhenFull ==
  [][Unshown' # Unshown => Cardinality(queue.buffer \cup Coming) > MaxBuffer]_pageVars

(***************************************************************************)
(* What it rests on: the page never places its queue, and what it holds    *)
(* was taken, so a buffer that reaches from the mark to the counter has    *)
(* room for it.                                                            *)
(***************************************************************************)
PageInv ==
  /\ PageTypeOK /\ FeedInv /\ Tidy(queue)
  /\ queue.delivered <= counter /\ queue.buffer \subseteq 1..counter
  /\ \A s \in Seqs : s > queue.delivered => rendered[s] = 0

WithinReach == counter <= queue.delivered + MaxBuffer

-----------------------------------------------------------------------------
(* Liveness, under FairPageSpec.                                           *)

\* A message the page holds is shown if the timer is set, and the numbers
\* before it are in the history and no more than one answer brings: the timer
\* asks, or the next connection does (unless the history cannot be read).
\* Number 1 is never held.
HeldIsShown ==
  \A s \in 2..MaxSeq :
    /\ s \in queue.buffer /\ timer
    /\ Expected(queue)..(s - 1) \subseteq stored /\ s - 1 <= queue.delivered + Limit
    ~> rendered[s] > 0 \/ unread

-----------------------------------------------------------------------------
(* What the documentation says and the code does not do.                   *)

\* docs/SDD.md 10.4.5: when a number is burned all clients see the gap, wait
\* 2 s, the resync returns nothing, and force_release delivers the rest.
PageGapCloses == HasGap(queue) ~> ~HasGap(queue)
=============================================================================
