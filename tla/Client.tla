-------------------------------- MODULE Client --------------------------------
(***************************************************************************)
(* A CLI client in one room: its hold-back queue, the watchdog of its gaps *)
(* and its reconnections (client/cli/salaviva_cli.py), at the end of Feed. *)
(***************************************************************************)
EXTENDS Feed

VARIABLES
  active, view,     \* the room is joined; RoomState
  watchdog,         \* asleep, awaiting the send of a resync, or cut off in it
  shown, lost,      \* history: rendered, given up
  asked             \* history: what the answer to the latest resync must bring

client == <<active, view, watchdog, shown, lost, asked>>
vars == <<feed, client>>

\* RoomState of the client.
Views ==
  [queue : Queues, firstJoin : BOOLEAN, gapOpen : BOOLEAN, resyncSent : BOOLEAN]

TypeOK ==
  /\ FeedTypeOK
  /\ active \in BOOLEAN
  /\ view \in Views
  /\ watchdog \in {"asleep", "sending", "cut"}
  /\ shown \in [Seqs -> Nat]
  /\ lost \subseteq Seqs
  /\ asked \subseteq Seqs

Init ==
  /\ FeedInit
  /\ active = TRUE
  /\ view = [queue |-> NewQueue(0), firstJoin |-> TRUE,
             gapOpen |-> FALSE, resyncSent |-> FALSE]
  /\ watchdog = "asleep"
  /\ shown = [s \in Seqs |-> 0] /\ lost = {} /\ asked = {}

-----------------------------------------------------------------------------
\* What the mark passes without releasing it is given up.
SteppedOver(q, r) == (Expected(q)..r.queue.delivered) \ r.released

\* _ingest and _refresh_gap_state.
Ingest(c, s) ==
  LET r == Offer(c.view.queue, s)
      gap == HasGap(r.queue)
  IN  IF IsDuplicate(c.view.queue, s)
        THEN c
        ELSE [ view  |-> [c.view EXCEPT !.queue = r.queue, !.gapOpen = gap,
                                        !.resyncSent = @ /\ gap],
               shown |-> CountShown(c.shown, r.released),
               lost  |-> c.lost \cup SteppedOver(c.view.queue, r) ]

\* The backlog of a joined frame, in order.
IngestAll(c, S) ==
  LET upTo[n \in 0..MaxSeq] ==
        IF n = 0 THEN c
        ELSE IF n \in S THEN Ingest(upTo[n - 1], n) ELSE upTo[n - 1]
  IN  upTo[MaxSeq]

Baseline(f) == IF f.backlog # {} THEN Lowest(f.backlog) - 1 ELSE f.last

\* The first joined places the queue; so does one whose counter is behind the
\* mark, taken for a cluster that started again.
Places(c, f) == c.view.firstJoin \/ f.last < c.view.queue.delivered

\* Mutant: every joined frame places the queue.
HandleJoinedAfresh(c, f) ==
  IngestAll([c EXCEPT !.view.queue = Reset(@, Baseline(f)), !.view.firstJoin = FALSE],
            f.backlog)

\* _handle_joined.
HandleJoined(c, f) ==
  LET placed == IF Places(c, f)
                  THEN Reset(c.view.queue, Baseline(f))
                  ELSE c.view.queue
  IN  IngestAll([c EXCEPT !.view.queue = placed, !.view.firstJoin = FALSE], f.backlog)

Here == [view |-> view, shown |-> shown, lost |-> lost]

Become(c) == view' = c.view /\ shown' = c.shown /\ lost' = c.lost

Receive ==
  /\ Arrive
  /\ \E f \in {Head(frames)} :
       \/ /\ f.frame # "joined"
          /\ \E c \in {Ingest(Here, f.seq)} : Become(c)
          /\ UNCHANGED <<active, asked>>
       \/ /\ f.frame = "joined"
          /\ \E c \in {HandleJoined(Here, f)} : Become(c)
          /\ active' = TRUE
          /\ asked' = IF Places(Here, f) THEN {} ELSE asked
  /\ UNCHANGED watchdog

\* The query of a resync fails.
ResyncFails == op.at = "idle" /\ op'.at = "sending" /\ unread'

\* A step of the feed: no answer comes through a lost connection, or from a
\* query that failed.
Fed ==
  /\ FeedStep
  /\ asked' = IF ~online' \/ ResyncFails THEN {} ELSE asked
  /\ watchdog' = IF watchdog = "sending" /\ ~online' THEN "cut" ELSE watchdog
  /\ UNCHANGED <<active, view, shown, lost>>

\* A connection to some node, and join again where the client left off.
Reconnect ==
  /\ Connect(IF active THEN <<[cmd |-> "join", seq |-> view.queue.delivered]>> ELSE <<>>)
  /\ UNCHANGED client

TypeJoin ==
  /\ Type([cmd |-> "join", seq |-> view.queue.delivered])
  /\ active' = TRUE
  /\ UNCHANGED <<view, watchdog, shown, lost, asked>>

TypeLeave ==
  /\ active
  /\ Type([cmd |-> "leave"])
  /\ active' = FALSE
  /\ UNCHANGED <<view, watchdog, shown, lost, asked>>

\* GAP_TIMEOUT_S later, whatever else happens in the room.
Elapsed == view.gapOpen /\ watchdog = "asleep"

\* What is stored by now, as far as one answer reaches.
Reach == {s \in stored : view.queue.delivered < s /\ s <= view.queue.delivered + Limit}

\* Mutant: it asks for what comes after the messages it holds.
AskResyncAbove ==
  /\ Elapsed /\ ~view.resyncSent /\ online
  /\ watchdog' = "sending"
  /\ asked' = Reach
  /\ Command([cmd |-> "resync",
              seq |-> Highest(view.queue.buffer \cup {view.queue.delivered})])
  /\ UNCHANGED <<active, view, shown, lost, typed>>

\* First the watchdog asks for what is missing, unless the client is offline ...
AskResync ==
  /\ Elapsed /\ ~view.resyncSent /\ online
  /\ watchdog' = "sending"
  /\ asked' = Reach
  /\ Command([cmd |-> "resync", seq |-> view.queue.delivered])
  /\ UNCHANGED <<active, view, shown, lost, typed>>

\* ... and notes it when the send returns; meanwhile frames came, and the gap may
\* have closed.  Where the connection was lost, the send may return False.
NoteResync ==
  /\ watchdog # "asleep"
  /\ watchdog' = "asleep"
  /\ \/ view' = [view EXCEPT !.resyncSent = TRUE, !.gapOpen = TRUE]
     \/ watchdog = "cut" /\ UNCHANGED view
  /\ UNCHANGED <<feed, active, shown, lost, asked>>

\* Mutant: it asks again and again and never gives up.
GiveUpNever ==
  /\ Elapsed /\ view.resyncSent
  /\ view' = [view EXCEPT !.resyncSent = FALSE]
  /\ UNCHANGED <<feed, active, watchdog, shown, lost, asked>>

\* Then it gives up, connected or not; 2 s suffice for the answer, if there is
\* one to come.
GiveUp ==
  /\ Elapsed /\ view.resyncSent
  /\ online /\ AnswersInTime => ~Awaited
  /\ \E r \in {ForceRelease(view.queue)} :
       Become([ view  |-> [view EXCEPT !.queue = r.queue, !.gapOpen = FALSE,
                                       !.resyncSent = FALSE],
                shown |-> CountShown(shown, r.released),
                lost  |-> lost \cup SteppedOver(view.queue, r) ])
  /\ UNCHANGED <<feed, active, watchdog, asked>>

-----------------------------------------------------------------------------
Next ==
  \/ Fed
  \/ Receive \/ Reconnect \/ TypeJoin \/ TypeLeave
  \/ AskResync \/ NoteResync \/ GiveUp

Spec == Init /\ [][Next]_vars

Progress ==
  \/ FeedProgress /\ Fed
  \/ Receive \/ Reconnect \/ AskResync \/ NoteResync \/ GiveUp

\* As long as some task of the nodes or the client can run, one does; users,
\* faults and lost connections are not fair.
FairSpec == Spec /\ WF_vars(Progress)

-----------------------------------------------------------------------------
(* Safety.                                                                 *)

\* What the watchdog gives up, the answer to its resync could not have brought:
\* what was stored when it asked, and in reach of one answer, is not given up,
\* however many messages, joins and reconnections come in between (when 2 s
\* suffice for the answer).
GivesUpWhatDidNotCome ==
  [][GiveUp /\ AnswersInTime => (lost' \ lost) \cap asked = {}]_vars

\* But for a joined frame that places the queue, the terminal renders bursts
\* above a mark that never moves back: so only what a joined frame takes for a
\* restarted cluster lets a number be rendered again, and the mark passes
\* nothing without rendering it or counting it as lost.
Terminal == INSTANCE OrderedDelivery WITH mark <- view.queue.delivered

Repositions ==
  /\ frames # <<>> /\ Head(frames).frame = "joined" /\ frames' = Tail(frames)
  /\ Places(Here, Head(frames))

RendersUpward == [][Terminal!Release \/ Repositions]_(Terminal!vars)

(***************************************************************************)
(* The inductive invariant behind the first: what the client asked for is  *)
(* stored, and passed or held by now, or the answer is under way and has   *)
(* it.                                                                     *)
(***************************************************************************)
Answering(s) ==
  \/ \E c \in Range(commands) : c.cmd = "resync" /\ c.seq < s /\ s <= c.seq + Limit
  \/ op.at = "sending" /\ s \in op.backlog
  \/ \E f \in Range(frames) : f.frame = "resent" /\ f.seq = s

AskedInv == \A s \in asked : s \in stored /\ (IsDuplicate(view.queue, s) \/ Answering(s))

IInv == TypeOK /\ FeedInv /\ Tidy(view.queue) /\ (~online => asked = {}) /\ AskedInv

-----------------------------------------------------------------------------
(* Liveness, under FairSpec.                                               *)

\* A gap closes: by a late message, by the history, or by giving it up.
GapCloses == HasGap(view.queue) ~> ~HasGap(view.queue)

-----------------------------------------------------------------------------
(* What the comments of the code say and the code does not do.             *)

\* salaviva_cli.py, _ingest: a single entry point guarantees that "backlog
\* overlapping live does not produce a duplicate".
RenderedOnce == \A s \in Seqs : shown[s] <= 1

\* docs/SDD.md 10.4: _gap_watchdog gives up a message when "it never existed";
\* only a death between INCR and PUBLISH or between PUBLISH and the save loses
\* one.
GivenUpIsGone == lost \cap stored = {}
=============================================================================
