------------------------------ MODULE LoadTest ------------------------------
(***************************************************************************)
(* The load generator's check of total order (loadtest/run_load.py): the   *)
(* virtual clients of one room, what each records of the numbers it sees,  *)
(* the resync it asks for at the end, and the verdict over their common    *)
(* window.                                                                 *)
(*                                                                         *)
(* The system under test is what MessageFlow promises of a room: numbers   *)
(* taken one by one, published at most once in any order, saved            *)
(* afterwards.  A reader task records a frame as soon as it comes, and     *)
(* what a subscription that is late or broken misses is a fault.  The      *)
(* drain and resync_espera are taken to outlast what is under way.         *)
(***************************************************************************)
EXTENDS Integers, FiniteSets, FiniteSetsExt

CONSTANTS
  Clients,      \* the virtual clients of the room
  MaxSeq,       \* messages sent in one run
  Limit,        \* backlog_limit of the nodes
  MaxDrops,     \* connections lost in one run
  MaxFaults     \* deliveries, sends and saves that died in one run

ASSUME LoadAssumption ==
  /\ IsFiniteSet(Clients)
  /\ MaxSeq \in Nat /\ Limit \in Nat \ {0}
  /\ MaxDrops \in Nat /\ MaxFaults \in Nat

VARIABLES
  counter, inflight, saving, stored,    \* the room
  stage,                                \* of the run: its window, its drain, encerrar
  reconnect,                            \* --reconnect
  phase, client,                        \* of _cliente, and its ClientStats
  drops, faults

room == <<counter, inflight, saving, stored>>
bounds == <<drops, faults>>
vars == <<room, stage, reconnect, phase, client, bounds>>

Seqs == 1..MaxSeq

Phases == {"away", "joining", "reading", "working", "asking", "done"}

\* entrou lives as long as a session; join is the last_seq its join names, last
\* the counter that join read, and asked what the client's resync names.
Stats ==
  [ sessoes : 0..MaxDrops + 1, entrou : BOOLEAN,
    join : 0..MaxSeq, last : 0..MaxSeq, baseline : 0..MaxSeq,
    ultimo : 0..MaxSeq, seqs : SUBSET Seqs, asked : 0..MaxSeq ]

NoStats == [sessoes |-> 0, entrou |-> FALSE, join |-> 0, last |-> 0,
            baseline |-> 0, ultimo |-> 0, seqs |-> {}, asked |-> 0]

TypeOK ==
  /\ counter \in 0..MaxSeq
  /\ inflight \subseteq Seqs /\ saving \subseteq Seqs /\ stored \subseteq Seqs
  /\ stage \in {"sending", "draining", "over"}
  /\ reconnect \in BOOLEAN
  /\ phase \in [Clients -> Phases]
  /\ client \in [Clients -> Stats]
  /\ drops \in 0..MaxDrops /\ faults \in 0..MaxFaults

\* A client whose login failed never connects; with no login at all there is
\* no run.
Init ==
  /\ counter = 0 /\ inflight = {} /\ saving = {} /\ stored = {}
  /\ stage = "sending"
  /\ reconnect \in BOOLEAN
  /\ phase \in [Clients -> {"away", "done"}]
  /\ \E c \in Clients : phase[c] = "away"
  /\ client = [c \in Clients |-> NoStats]
  /\ drops = 0 /\ faults = 0

-----------------------------------------------------------------------------
(* What a client records.                                                  *)

\* _registrar_seq, over the numbers of one frame.
Record(stats, seqs) ==
  LET new == {s \in seqs : s > stats.baseline}
  IN  [stats EXCEPT !.seqs = @ \cup new, !.ultimo = Max({@} \cup new)]

\* Mutant: the numbers above the last gap are taken for contiguous too.
ContiguousLast(seqs) == Max({s \in seqs : s - 1 \notin seqs})

\* The end of the contiguous start of what the client would render.
Contiguous(seqs) == Min({s \in seqs : s + 1 \notin seqs})

Gap(seqs) == seqs # {} /\ Cardinality(seqs) # Max(seqs) - Min(seqs) + 1

Backlog(after) ==
  LET above == {s \in stored : s > after}
  IN  {s \in above : Cardinality({t \in above : t < s}) < Limit}

-----------------------------------------------------------------------------
(* The room.                                                               *)

\* _enviar: a client sends while the window lasts.
Send(c) ==
  /\ stage = "sending"
  /\ phase[c] = "working"
  /\ counter < MaxSeq
  /\ counter' = counter + 1
  /\ inflight' = inflight \cup {counter + 1}
  /\ UNCHANGED <<saving, stored, stage, reconnect, phase, client, bounds>>

Members == {c \in Clients : phase[c] \in {"joining", "reading", "working", "asking"}}

\* The nodes forward it to their members, except to those it is lost for.
Publish(s) ==
  /\ s \in inflight
  /\ inflight' = inflight \ {s}
  /\ saving' = saving \cup {s}
  /\ \E lost \in SUBSET Members :
       /\ faults + Cardinality(lost) <= MaxFaults
       /\ faults' = faults + Cardinality(lost)
       /\ client' = [c \in Clients |-> IF c \in Members \ lost THEN Record(client[c], {s})
                                                               ELSE client[c]]
  /\ UNCHANGED <<counter, stored, stage, reconnect, phase, drops>>

Save(s) ==
  /\ s \in saving
  /\ saving' = saving \ {s}
  /\ stored' = stored \cup {s}
  /\ UNCHANGED <<counter, inflight, stage, reconnect, phase, client, bounds>>

\* A send or a save dies with its node.
Lose(s) ==
  /\ s \in inflight \cup saving
  /\ faults < MaxFaults
  /\ faults' = faults + 1
  /\ inflight' = inflight \ {s}
  /\ saving' = saving \ {s}
  /\ UNCHANGED <<counter, stored, stage, reconnect, phase, client, drops>>

-----------------------------------------------------------------------------
(* The clients.                                                            *)

\* Mutant: the new event and the handshake each count a session.
ConnectTwice(c) ==
  /\ phase[c] = "away" /\ stage # "over"
  /\ phase' = [phase EXCEPT ![c] = "joining"]
  /\ client' = [client EXCEPT ![c].sessoes = @ + 2, ![c].join = client[c].ultimo]
  /\ UNCHANGED <<room, stage, reconnect, bounds>>

\* _sessao up to its join, which makes the client a member at its node.
Connect(c) ==
  /\ phase[c] = "away" /\ stage # "over"
  /\ phase' = [phase EXCEPT ![c] = "joining"]
  /\ client' = [client EXCEPT ![c].sessoes = @ + 1, ![c].join = client[c].ultimo]
  /\ UNCHANGED <<room, stage, reconnect, bounds>>

ReadCounter(c) ==
  /\ phase[c] = "joining"
  /\ phase' = [phase EXCEPT ![c] = "reading"]
  /\ client' = [client EXCEPT ![c].last = counter]
  /\ UNCHANGED <<room, stage, reconnect, bounds>>

\* _ler, the joined frame: the backlog counts when the session has entered
\* before, otherwise the counter is the new baseline.
Joined(c) ==
  /\ phase[c] = "reading"
  /\ phase' = [phase EXCEPT ![c] = "working"]
  /\ LET stats == client[c]
     IN  client' = [client EXCEPT ![c] =
           IF stats.entrou THEN Record(stats, Backlog(stats.join))
           ELSE [stats EXCEPT !.entrou = TRUE, !.baseline = stats.last,
                              !.ultimo = stats.last]]
  /\ UNCHANGED <<room, stage, reconnect, bounds>>

\* The connection is lost, and what belongs to the session with it: _cliente
\* tries again until encerrar, if asked to.
Drop(c) ==
  /\ c \in Members
  /\ drops < MaxDrops
  /\ drops' = drops + 1
  /\ phase' = [phase EXCEPT ![c] = IF reconnect /\ stage # "over" THEN "away" ELSE "done"]
  /\ client' = [client EXCEPT ![c].entrou = FALSE, ![c].asked = 0]
  /\ UNCHANGED <<room, stage, reconnect, faults>>

\* _reconciliar: one resync, after the contiguous start, if there is a gap.
Reconcile(c) ==
  /\ phase[c] = "working" /\ stage = "over"
  /\ IF Gap(client[c].seqs)
       THEN /\ phase' = [phase EXCEPT ![c] = "asking"]
            /\ client' = [client EXCEPT ![c].asked = Contiguous(client[c].seqs)]
       ELSE phase' = [phase EXCEPT ![c] = "done"] /\ UNCHANGED client
  /\ UNCHANGED <<room, stage, reconnect, bounds>>

AnswerResync(c) ==
  /\ phase[c] = "asking"
  /\ phase' = [phase EXCEPT ![c] = "done"]
  /\ client' = [client EXCEPT ![c] = Record(@, Backlog(@.asked))]
  /\ UNCHANGED <<room, stage, reconnect, bounds>>

\* Mutant: a client tries on until it has connected once.
QuitConnected(c) ==
  /\ phase[c] = "away" /\ stage = "over"
  /\ client[c].sessoes > 0
  /\ phase' = [phase EXCEPT ![c] = "done"]
  /\ UNCHANGED <<room, stage, reconnect, client, bounds>>

\* Encerrar finds the client between two sessions.
Quit(c) ==
  /\ phase[c] = "away" /\ stage = "over"
  /\ phase' = [phase EXCEPT ![c] = "done"]
  /\ UNCHANGED <<room, stage, reconnect, client, bounds>>

\* The window closes; the drain ends when nothing is under way.
Drain ==
  /\ stage = "sending"
  /\ stage' = "draining"
  /\ UNCHANGED <<room, reconnect, phase, client, bounds>>

Encerrar ==
  /\ stage = "draining"
  /\ inflight = {} /\ saving = {}
  /\ stage' = "over"
  /\ UNCHANGED <<room, reconnect, phase, client, bounds>>

-----------------------------------------------------------------------------
(* The verdict.                                                            *)

\* gather: every task of _cliente has returned.
Ended == \A c \in Clients : phase[c] = "done"

\* verificar_ordem_total: the clients that recorded anything.
Participantes == {c \in Clients : client[c].sessoes > 0 /\ client[c].seqs # {}}

\* From the greatest first number to the least last one.
Janela == Max({Min(client[c].seqs) : c \in Participantes})
            ..Min({Max(client[c].seqs) : c \in Participantes})

\* _verificar_sala, for one client: what the window has and it has not.
Faltando(c) == Janela \ client[c].seqs

Veredito ==
  IF Cardinality(Participantes) < 2 THEN "INCONCLUSIVO"
  ELSE IF Janela = {} THEN "INCONCLUSIVO"
  ELSE IF \A c \in Participantes : Faltando(c) = {} THEN "OK" ELSE "DIVERGENTE"

-----------------------------------------------------------------------------
Step(c) == Connect(c) \/ ReadCounter(c) \/ Joined(c) \/ Reconcile(c)
             \/ AnswerResync(c) \/ Quit(c)

Next ==
  \/ \E c \in Clients : Send(c) \/ Step(c) \/ Drop(c)
  \/ \E s \in Seqs : Publish(s) \/ Save(s) \/ Lose(s)
  \/ Drain \/ Encerrar

Spec == Init /\ [][Next]_vars

\* Tasks, frames and timers go on; nothing makes a connection drop or a
\* client send.
Fairness ==
  /\ \A c \in Clients : WF_vars(Step(c))
  /\ \A s \in Seqs : WF_vars(Publish(s)) /\ WF_vars(Save(s))
  /\ WF_vars(Drain) /\ WF_vars(Encerrar)

FairSpec == Spec /\ Fairness

-----------------------------------------------------------------------------
(* What is checked.                                                        *)

\* A number no answer to a resync after the given one can bring.
OutOfReach(history, s, after) ==
  \/ s \notin history
  \/ Cardinality({t \in history : after < t /\ t < s}) >= Limit

\* An alarm above the number a client (re)entered with is a real loss: what a
\* client that stayed to the end misses there is in no history, or lies
\* further behind its resync than one answer reaches.
AlarmIsReal ==
  Ended /\ Veredito = "DIVERGENTE" =>
    \A c \in Participantes : \A s \in Faltando(c) :
      client[c].entrou /\ s > client[c].baseline => OutOfReach(stored, s, client[c].asked)

\* The run ends in a report: gather waits for every client without a timeout,
\* and a client that fell between two sessions, or that joins during the
\* drain, ends too.
ReportComes == <>[]Ended

\* With --reconnect the backlog of the new joined counts, so the verdict of a
\* run that connections drop in stays OK: with nothing lost in the room, a
\* client that came back is missing nothing above the number its join named.
QuedaKeepsOk ==
  Ended /\ faults = 0 /\ Veredito = "DIVERGENTE" =>
    \A c \in Participantes : \A s \in Faltando(c) :
      client[c].entrou /\ client[c].join > 0 => s <= client[c].join

-----------------------------------------------------------------------------
(***************************************************************************)
(* What it rests on: the run is over when nothing is under way, what a     *)
(* client asks for is the end of the contiguous start of what it has, and  *)
(* the answer brings what it misses as far as one answer reaches.          *)
(***************************************************************************)
Drained == stage = "over" => inflight = {} /\ saving = {}

Between(seqs) == {s \in Seqs : \E a, b \in seqs : a < s /\ s < b}

Answered(stats, history) ==
  \A s \in Between(stats.seqs) \ stats.seqs :
    s > stats.baseline => OutOfReach(history, s, stats.asked)

\* Every session but the first follows a lost connection; nothing is recorded
\* any more when a client asks; one whose last session entered the room and was
\* not lost stays to the end.
Fits(stats, at, lost, over, history) ==
  /\ stats.sessoes <= IF at = "away" THEN lost ELSE lost + 1
  /\ at = "asking" => over /\ stats.seqs # {} /\ stats.asked = Contiguous(stats.seqs)
  /\ stats.entrou => at # "away" /\ (at = "done" => over /\ Answered(stats, history))

IInv ==
  /\ TypeOK /\ Drained
  /\ \A c \in Clients : Fits(client[c], phase[c], drops, stage = "over", stored)
=============================================================================
