# SalaViva in TLA+

SalaViva is a distributed chat. Several identical server processes (asyncio,
`src/salaviva`) sit behind a load balancer; a user holds one WebSocket to one of
them. The nodes share nothing but Redis (Pub/Sub topics, the sequence counter of
each room, idempotency keys, presence) and a DynamoDB table (the history). A
message is accepted by one node, stamped, numbered by `INCR`, published,
broadcast by every node that has a member of the room, and saved in the
background. Clients (a terminal client and a web page) put the numbers back in
order, notice gaps, ask for what is missing and finally give it up. A load
generator plays many clients at once and judges what they saw.

This directory holds models of that program, the TLC configurations that check
them and the proofs that TLAPS checks. Paths below are relative to the
repository; `PROJECT.json` says, definition by definition, which lines a
definition stands for.

## Inventory

| Component | State | Operations | What is hard | What makes it correct |
|---|---|---|---|---|
| Hold-back queue (`domain/ordering.py`, copy in `static/app.js`) | highest number delivered, buffer of early messages | `offer`, `force_release`, `missing_range`, `reset` | live delivery, backlog and resync overlap in any order; the buffer limit | in order, at most once, nothing deliverable held, every number accounted for |
| `ChatService`, message path (`app/chat_service.py`) | sends suspended at an `await`, background saves | `send`, `_on_bus_message`, `_save_async` | retries on other nodes, crashes between two awaits, key expiry | unique numbers, at-most-once publication, agreeing acks, causal order, a faithful history |
| `ChatService`, sessions (with `ws/connection.py`, `ws/manager.py`) | `conn.rooms`, the room index, heartbeat tasks | `join`, `leave`, `resync`, `disconnect`, `heartbeat`, `serve_websocket`, `_dispatch` | two sessions interleave at every await; a set iterated while it changes | index, presence and subscription agree; sessions end clean; the backlog of a join leaves no hole |
| Redis sequencer, idempotency store (`infra/redis_sequencer.py`) | counter, keys | `INCR`, `GET`, `SET NX`, `SET` | `SET NX` and `GET` are two calls; expiry | one claim per living key |
| Redis bus (`infra/redis_bus.py`) | `_subscribed`, one Pub/Sub connection, reader task | `publish`, `subscribe`, `unsubscribe`, `_run`, `_connect` | at-most-once delivery, breaks, unconfirmed commands | after a break, exactly the rooms of `_subscribed` come back |
| Message repository (`infra/dynamo_repository.py`) | table, sticky health flag | conditional put, limited query | the save is asynchronous and may fail | one envelope per number |
| Presence store, node registry (`infra/redis_presence.py`, `infra/redis_node_registry.py`) | sorted sets of sessions and of nodes by last heartbeat | `join`, `leave`, `heartbeat` (XX for sessions), `members`, `alive`, `sweep`; the heartbeat task of a session, the two loops of a node | heartbeat against sweep, in time; late commands; clocks that differ | a live member is swept only after its heartbeat was silent, a dead one disappears; a running node is listed |
| Terminal client (`client/cli/salaviva_cli.py`) | `RoomState` of each room, the connection, lines being sent, recent vectors | frames, gap watchdog, connection loop, sends, `/join`, `/leave`, `/quit` | a gap, a drop and a rejoin overlap; a line typed while offline | nothing given up that an answer can bring, gaps close, lines go out in a joined room, the client comes back |
| Web client (`static/app.js`) | queue and gap timer of each room | frames, timer, reconnection, adding a room | overlap of backlog and live messages; a gap that never closes | nothing shown twice, losses only at a full buffer; what is held and can be brought is shown |
| Clocks (`domain/clocks.py`) | Lamport and vector clock of each node | tick, update, merge, compare | stamps are taken before the awaited `INCR`; clocks are lost at a restart | causes have lower stamps; vectors characterise causes |
| Rate limiter (`app/rate_limit.py`) | tokens, time of the last call | `allow`, `retry_after` | the cap of the refill; a refused call moves the clock too | passes exactly what fits every window |
| Authentication, health (`api/auth.py`, `api/health.py`) | token lifetime; last outcome of the repository | `decode_token`, `readyz` | a refusal before the accept; stale outcome | a node that cannot serve takes no client |
| Load test (`loadtest/run_load.py`) | what each virtual client recorded | sends, frames, reconnection, final resync, verdict | reconnection, baseline, loss against alarm | an alarm is a real loss; the run ends in a report |
| In-memory adapters, HTTP API, settings, wiring | twins for tests; stateless handlers | | | |

Interactions: a session task calls `ChatService`, which calls the stores and the
bus and awaits each call; the bus's single reader task calls `_on_bus_message`,
which broadcasts through `ConnectionManager` on the very connections the session
tasks answer on; `_save_async` runs as a task of its own; the heartbeat task of
a session shares `conn.rooms` with its receive loop. Everything in a process
interleaves at awaits only; between processes nothing is ordered but Redis.

## Modules

| Module | Models | Extends / uses |
|---|---|---|
| `HoldBackQueue` | the queue as pure operators | |
| `HoldBack` | the queue in use, against `OrderedDelivery` | `HoldBackQueue`, `OrderedDelivery` |
| `OrderedDelivery` | abstract: bursts above a mark, final losses; one period of it | |
| `MessageFlow` | the path of a message on several nodes | `Room` |
| `Room` | abstract: unique numbers, at-most-once publication | |
| `Clocks` | the two logical clocks as pure operators | |
| `Causality` | the stamps of several nodes, and the badge drawn from them | `Clocks` |
| `Sessions` | the sessions of one node, its index and subscriptions | |
| `Presence` | scores, heartbeats and sweeps in time: who is in a room, which nodes run | |
| `Feed` | what feeds one client: room, session, link, connection | `HoldBackQueue` |
| `Client`, `WebClient` | a terminal client, a web page, at the end of `Feed` | `Feed`, `OrderedDelivery` |
| `Gate` | connection loop and sends of a client, what the node puts before a send | `Throttle` |
| `Throttle` | abstract: a rate limit on every window of time | |
| `LoadTest` | the load generator's check of total order | |
| `MCMessageFlow`, `MCSessions`, `MCCausality` | small instances for TLC | |
| `HoldBackProofs`, `MessageFlowProofs`, `SessionsProofs`, `PresenceProofs`, `CausalityProofs`, `GateProofs`, `ClientProofs`, `LoadTestProofs` | proofs; `ClientProofs` is about both clients | the module they are named after |

Mutated forms of a definition (marked `Mutant`) stand before it; they are no part
of the specification.

### HoldBackQueue, HoldBack

A queue is the pair `_delivered`, `_buffer`; a message is its number, so the
buffer is a set. `Offer` is `offer` with its three outcomes (duplicate, forced
release at the limit, run of consecutive numbers), `ForceRelease` is
`force_release`, `Reset` is `reset`. `HoldBack` offers any number at any time,
which stands for every loss, duplication and reordering of live delivery,
backlog and resync. `handed` (how often a number was rendered), `missed` (what
never will be) and `base` are history variables.

`OrderedDelivery` says what the renderer relies on; `DeliverySpec` is the
refinement with `mark <- held.delivered`, `shown <- handed`, `lost <- missed`.
`Release` is a burst; `Period` is what is left for a renderer that never
repositions, and `WebClient` implements it.

### MessageFlow, Room

One room. `send` is cut at its awaits:

| `handler[c].pc` | In `send` | Next action |
|---|---|---|
| `idle` | the receive loop waits for a frame | `Claim`: `SET NX` |
| `refused` | `SET NX` failed | `ReadClaim`: `GET`, then a duplicate ack, or `claimed` if the key has expired |
| `claimed` | key is ours | `NextSeq`: `INCR` |
| `numbered` | number taken, envelope built | `Record`: `SET key seq` |
| `recorded` | before `bus.publish` | `Publish` |
| `published` | back from `bus.publish` | `Acknowledge`: start the save, return the ack |

`Deliver` is one envelope handed by the reader to `_on_bus_message`; `Save` the
background task; `Listen` a subscription taking effect; `Crash`, `Restart`,
`BreakLink`, `Fail` (a call raises; nothing written is taken back), `LoseSave`,
`Expire` what may go wrong. A client retries by dispatching the same message on
any connection of any live node, also while an earlier attempt runs. The field
`re` of an envelope is the number of a message somebody has on the screen when
the message is typed: it carries causality. The Lamport and vector stamps are
in `Causality`, since nothing on this path reads them.

`Room` allows an envelope only with a fresh number and, while the key lives, for
an unpublished message; `RoomSpec` is the refinement.

### Clocks, Causality

A vector is a function over the nodes; a component that the dictionary lacks
counts as zero in `merge` and in `compare`, so the two say the same. `Causality`
cuts `send` differently from `MessageFlow`: `Stamp` is the two ticks, which no
await separates, `Number` the `INCR` with the envelope built after it, `Publish`
and `Save` follow; between them other sends of the node and deliveries
(`Deliver`, both clocks taking in the stamps) move the clocks. `Fail` ends a send
and leaves its ticks; `Restart` gives a node new clocks under its old name.
`past` is a history variable: what a node stamped or received in its present
life, with all that came before those; an envelope carries the past of its node,
which is what "before" means in the properties. `Render` is a client showing the
next number, `ConcurrentWith` the messages `_detect_concurrency` looks for among
the last `History` vectors, of which the badge names the newest.

### Sessions

One node. `pc` is where each session's task stands between awaits; `rooms`,
`members`, `presence`, `subscribed` are `conn.rooms`, `_by_room`, the Redis sets
and `_subscribed`. `wire` holds the SUBSCRIBE and UNSUBSCRIBE commands sent on
the one Pub/Sub connection and not yet executed by Redis, `topics` what Redis
delivers. `EndSession` is the `finally` of `serve_websocket`: it awaits the
heartbeat first, and if that task had failed, its exception comes out there and
`disconnect` does not run (`abandoned`). The heartbeat's iteration over a Python
set is modelled with the size it started from, since that is what Python
compares.

### Presence

The two sorted sets and the tasks that write them, in discrete time. `age[s]` is
how old the score of session `s` in `chat:presence` is, by the clock of the node
that wrote it (`Absent` when there is none), `nodeAge[n]` the same in
`chat:nodes`; `beat`, `sweeper` and `nodeBeat` are how long the tasks have slept.
`Tick` lets one unit pass for everybody, and does not pass over a task that has
overslept by `Delay`. `Beat` is the wake-up of `_heartbeat_loop`, which sends the
`ZADD XX`, `Renew` its execution by Redis: a session may leave or end in between.
`Sweep` is one round of `_sweeper_loop` on one node, over the entries of all
nodes, `NodeHeartbeat` one of `_node_heartbeat_loop`, `Listed` the answer of
`alive`. A score or a cutoff is computed before the call that carries it, so it
may be `late` ticks old when Redis executes the command; `offset` is how far the
clock of a node is ahead, up to `Skew`. After `Crash` the sessions of a node are
`dead`: their entries stay and no client can say goodbye.

The shipped settings let a session's heartbeat come every 20 s and sweep its
entry after 15 s, so no property says that a live session is always listed: that
is what the violation run refutes. What holds for all intervals is that a sweep
takes the entry of a session in the room only when its heartbeat has been silent
for the time to live, but for delays and clock skew (`SweptOnlyWhenSilent`); and
for nodes, whose heartbeat comes every 5 s, that they stay listed (`NodesInTime`).

The interleaving of presence with the room index, and calls that fail, are in
`Sessions`; here calls succeed, and a session is in one room at most, since rooms
do not share entries. Member details (`chat:member`, 300 s) are left out.

### Feed, Client, WebClient

`Feed` is everything that feeds a client in one room, every frame in order on its
connection. The room is the abstraction that `MessageFlow` supports: numbers are
taken one by one, and each is published at most once, in any order, then saved;
`Burn` and `LoseSave` are the two windows in which a message is lost. `op` is the
command the session is handling: `ServeJoin` (the session becomes a member),
`ReadCurrent`, `ReadBacklog` (one turn of `_backlog_contiguo`), `SendJoined`;
`ServeResync`, `SendResync`. A query that fails returns what an empty history
returns (`Query`); the join makes up for it with its next read, if there is one,
and the resync cannot, so what is promised about its answer exempts a query that
failed. A message of that answer is the same to the client as a live one; the
model calls it `resent` only to tell when the answer is complete (`Awaited`).
`Forward` is the node's reader broadcasting between
any two of these steps. `Connect` and `Drop` are the connection, to some node,
which loses everything on its way when it goes.

`Client` puts the terminal client at the end: `Receive` is `_handle_frame`,
`Ingest` is `_ingest` with `_refresh_gap_state`, `HandleJoined` is
`_handle_joined`, `AskResync` and `GiveUp` are the two stages of `_gap_watchdog`,
`Reconnect` joins again from the mark. Between the resync and the note that it was
sent the watchdog awaits `_send` (`watchdog`), frames come and the gap may close;
`NoteResync` then opens it again, as the code's assignments do. `asked` is a
history variable: what was in the history when the client asked, as far as one
answer reaches (`Reach`), until the connection or the query fails or a joined
frame places the queue. `Places` is the condition on which that happens; but for
it the terminal does only what `Release` of `OrderedDelivery` allows
(`RendersUpward`, over the instance `Terminal`).

`WebClient` puts the page there: `handle` and `deliver`, the rejoin on `open`
(`connect`), a room added a second time (`roomadd`, which joins from zero with
the queue it has) and the one-shot timer (`gapTimer`). No joined frame places its
queue, which starts at zero, and no timer gives a gap up. So the page is one
`Period` of `OrderedDelivery`, whose losses are the numbers up to the mark that
were never shown (`Screen`). Its definitions carry
`Page` in their names where `Client` has the same one, since `ClientProofs` is
about both.

Timers fire at any moment once they are set: the watchdog and the page's timer
look at nothing but their clock, while others go on sending, saving and joining.
Time appears in two guards, both under `AnswersInTime`. The second stage of the
watchdog comes 2 s after the resync, and online these suffice for the answer: no
part of it is under way (`Awaited`). And the last read of `_backlog_contiguo`
finds saved what was taken before the counter was read: its pauses suffice for
the publications and saves that were then under way, not for those that begin
later. Without the first any gap may be given up before its answer, and nothing
could be said about losses; without the second any backlog may have a hole.

### Gate, Throttle

`Gate` is what lies between a typed line and `ChatService.send`. On the client:
`_connection_loop` with its backoff (`Accept`, `Reject`, `Break`), `_session`
(`Welcome`: the joins, then online), `_send_message` (`Type` at once or waiting,
`Resume` when the session is back, `GiveUp` when the wait is over: the line goes
if there is a socket, joined or not). On the node: `_receive_loop` and
`_dispatch`, for joins and sends (`ServeJoin`, `NotInRoom`, `RateLimited`,
`Admit`), with each answer an error class gives. While Redis is down a join or a
send either ends the session (redis-py's errors are no `ConnectionError` of
Python, so the handler for "dependencies" does not see them) or is answered
`service_unavailable` (a bus that was stopped raises `RuntimeError`). A token may
expire at any time and is looked at only before the accept; `Ready` is `readyz`,
which a refused connection depends on too. The bucket works in
integer units, a message costing `Cost`, a tick earning `Rate`.

`Throttle` says what a limit is: a message passes exactly when no window of time
that ends now gets more than the burst and what its length earns. `since[s]`
counts the messages that passed from time `s` on; `PassesWhatFits` is the
refinement, with the same variables.

### LoadTest

The virtual clients of one room. `phase` is where `_cliente` stands, `client` its
`ClientStats` reduced to the baseline, the last number and the set of numbers
seen (`_aplicar_hold_back` sorts and removes duplicates, so a set is what the
verdict sees), with what belongs to the present session: the `last_seq` of its
join, the counter its join read, whether `entrou` is set, and what its resync
asks for. `Publish` broadcasts to the members but those it is lost for;
`Reconcile` and `AnswerResync` are `_reconciliar`; `Drain`, `Encerrar` and `Quit`
the end of `run`; `Veredito` is `verificar_ordem_total` of one room. The drain
and `resync_espera` are taken to outlast what is under way. Queries of the
history do not fail here (they do in `Feed`).

## Runs

`tlc -workers 2 -config X.cfg M`, in this directory. `PROJECT.json` gives each
run's module and, for each property, a mutated form of a definition under which
TLC finds it violated.

| Run | Instance | Shows |
|---|---|---|
| `holdback` | 7 numbers, a buffer of 3 | any sequence of offers, forced releases and repositions keeps the order, shows nothing twice, holds nothing deliverable and accounts for every number; the queue implements `OrderedDelivery` |
| `flow_cluster` | 2 nodes, 2 connections, 2 messages, no fault; symmetry | numbers are unique, answers sort after what they answer, the history is faithful; the cluster implements `Room` |
| `flow_retry` | 2 nodes, 3 connections, 1 message, 2 faults; fair | a key is recorded before its message is published, all acks agree; every send ends, a claimed message is stored unless a fault happens |
| `sessions_faults` | 2 sessions, 1 room, 1 failed call, 1 break; fair | no subscription without an owner, presence follows the index, Redis delivers what the bus believes; every command ends, an empty room is released |
| `sessions_race` | 2 sessions, 1 room, no fault | *violation*: a member in a room its node does not receive |
| `presence` | 2 nodes, 1 session; 8, 6, 2 and 2 ticks of 2.5 s for the shipped 20, 15, 5 and 5 s; delay and skew 1, 1 crash | a dead session's entry goes in time, a running node is listed, nobody returns after leaving, a session in the room is swept only when its heartbeat was silent |
| `presence_defaults` | the same intervals; no delay, skew or crash | *violation*: a session that stays in a room leaves its list |
| `client` | 2 numbers, `Limit` 1, 1 drop, 1 command, 1 fault; fair | gaps close, only a `joined` that places the queue lets the mark go back or a number be rendered again, the backlog covers the window of the asynchronous save, the watchdog gives up nothing that the answer to its resync could have brought |
| `web` | 3 numbers, `MaxBuffer` 1, `Limit` 1, 1 drop, 1 command, 1 fault; fair | the page implements a period of `OrderedDelivery` although its buffer overflows; it steps over a number only when what it holds and what comes do not fit; a message it holds is shown if the timer is set and one answer brings what is before it |
| `causality` | 2 nodes, 3 messages, 1 reader, a history of 1, 1 restart; symmetry | Lamport stamps follow causes; vectors characterise them while no clock is lost; the badge tells the truth |
| `gate` | 4 lines, `Rate` 1, `Cost` 2, `Capacity` 4, time to 3, 2 faults; fair | only a line that stopped waiting is refused for its room; the bucket implements `Throttle`; a client with a valid token comes back |
| `load` | 2 clients, 3 numbers, limit 1, 1 drop, 1 fault; fair | an alarm above the baseline is a real loss or out of reach of one resync; the run ends in a report |

Types are run in `load`; elsewhere they are theorems.

### Bounds

- `MaxSeq`: the smallest at which the case happens. The queue needs a full buffer
  of 3 with numbers before, inside and after it (7). A terminal needs one number
  it misses and one that reveals it (2); a message published after its gap opened
  is beyond this bound, and `GivesUp` is proved for every one. A page with a
  buffer of 1 needs a third to overflow it (3). In the load test the third lets
  a client miss a number inside the common window; that a resync of `Limit` 1
  falls short would need four numbers and two losses, and is only proved.
- Three connections in `flow_retry`: a first send, a retry that meets its claim
  and one that comes after it was released. Two messages in `flow_cluster`: an
  answer to a message, and one of them sent again after its key expired.
- `MaxFaults`, `MaxFailures`, `MaxBreaks`, `MaxDrops`, `MaxCrashes`,
  `MaxRestarts`: what may go wrong at all. A second failure in `flow_retry` hits
  the retry of the first. A fault of the client's room is a publication that
  never happens, a save or a query that fails, or a broken link.
- `MaxWire` 2: an `UNSUBSCRIBE` and a `SUBSCRIBE` may be under way at once.
- `presence`: ticks of 2.5 s are the coarsest that keep the proportions of the
  shipped intervals; `MaxAge` 11 is more than time to live, sweep, delays and
  skew (11 is the first age that `GhostsBounded` refuses), so time stops at it
  only while no node has swept yet.
- `MaxReads` 2 in `client` (the code reads the history 4 times): one read before
  a save lands and one after it; `web` reads once, which leaves more to its timer.
- `Limit` 1 in `client` and `web`: a backlog and an answer may fall short (the code
  has 200).
- `MaxBuffer`: `web` overflows its buffer of 1, `holdback` one of 3 (the code has
  500 and 1000). The 10 of `client` is never reached; `ClientProofs` has no bound.
- `causality`: three messages are the fewest with a cause of a cause; the reader
  keeps one recent vector, and the third message pushes the first out.
- `gate`: four lines exceed a burst of two and what three ticks earn.
  `MaxAttempt` 2 lets the backoff grow and reach its cap.

`CHECK_DEADLOCK FALSE` stands wherever the system may stop: all users have gone,
all numbers are used, the run of the load test has ended. `presence` and
`holdback` never stop; in the violation runs the counterexample comes first.
Symmetry is used where only safety is checked: the two nodes with their
connections in `flow_cluster`, the messages in `causality`.

### Fairness

asyncio runs each task whose await is over, and a call to Redis or DynamoDB
returns or raises. So weak fairness is assumed of tasks and answers, and never
of users, lost connections, crashes, faults or the expiry of a token or a key.

- `MessageFlow`: each step of a send, the reader task, the background saves.
- `Sessions`: each task, the execution of what is on the wire, the bus's
  reconnection (`_run` tries for ever).
- `Client`, `WebClient`: of all the tasks of node and client together: if some
  can go on, one does. This is weaker than fairness of each.
- `Gate`: accepting a connection, the welcome, the two ends of the wire, and the
  recovery of Redis; the connection loop tries for ever.
- `LoadTest`: each client, each publication and save, the drain and the end of
  the run (timers of the generator).

## Proofs

`tlapm M.tla` for each module. The assumptions on the constants are in the model
(`HoldBackAssumption`, `FlowAssumption`, `SessionsAssumption`,
`PresenceAssumption`, `CausalityAssumption`, `GateAssumption`, `FeedAssumption`,
`LoadAssumption`); TLC evaluates them in the runs.

| Module | Theorems |
|---|---|
| `HoldBackProofs` | `QueueTypeCorrect`, `AtMostOnce`, `Waiting`, `Accounting`, `Loss`, `Refinement` (the queue implements `OrderedDelivery`) |
| `MessageFlowProofs` | `TypeCorrect`, `Uniqueness`, `Idempotence`, `Recorded`, `Agreement`, `Causality`, `Faithful`, `Refinement` (the cluster implements `Room`) |
| `SessionsProofs` | `TypeCorrect`, `Owned`, `Follows`, `Restored` |
| `PresenceProofs` | `Inductive`, `TypeCorrect`, `SweptSilent`, `Ghosts` (assumes `Skew < PresenceTTL`), `Listing` (assumes `NodesInTime`), `NoReturn` |
| `CausalityProofs` | `TypeCorrect`, `LamportTellsCauses`, `VectorsShowCauses`, `VectorsShowOnlyCauses`, `BadgesAreTrue` |
| `GateProofs` | `TypeCorrect`, `BucketImplementsLimit`, `OnlineIsInRoom` |
| `ClientProofs` | the terminal: `Inductive`, `TypeCorrect`, `Covers`, `GivesUp`, `RendersBursts`; the page: `PageInductive`, `PageTypeCorrect`, `PageShowsEachOnce` (assumes `[]WithinReach`), `PageImplementsPeriod` and `PageLosesOnlyWhenFull` (without it) |
| `LoadTestProofs` | `Inductive`, `TypeCorrect`, `AlarmsAreReal` |

Each rests on an invariant that `Init` implies and `[Next]_vars` preserves,
`IInv` (of the queue `QueueInv`, of the page `PageInv`) unless `TypeOK` is enough.
With these, every invariant and every action property of the passing runs, and
every refinement, is a theorem for all values of the constants.

*Queue.* `EveryNumberAccounted` says which of `handed`, `missed` and the buffer a
number is in, relative to `delivered`; with `BufferBounded` and
`NothingDeliverableHeld` it is inductive. The lemmas about the operators say
what `Offer` and `ForceRelease` return: the run of consecutive numbers ends
at the first one missing.

*Message path.* `SequenceUnique` alone is not inductive: a handler that holds a
number it has not published may publish a second envelope with it. `NumberInv`
says that numbers held by handlers are distinct, at most `counter` and not yet
published. `KeyInv` says what the key of a message holds, given where its
handlers stand, and that one handler at most is past the claim while the key
lives. `SaveInv` gives every background save to one node and to an envelope
already published.

*Sessions.* `IndexInv` relates the index, `conn.rooms` and the step a command has
reached, `EmptiedInv` the rooms a command is going to unsubscribe. `TopicsFollow`
says, for each room, what the last command on the wire that names it decides:
appending a command decides for its rooms and leaves the others, executing the
first one leaves all of them. Without a connection nothing is on the wire
(`CutInv`), so one command that names all of `_subscribed` restores it.

*Presence.* By its own clock a score is no older than the sleep of the task that
renews it and the lateness of its command, and no sleep exceeds its interval and
the delay (`SleepInv`); by the clock of a node that sweeps, no score left is
older than the time to live, the lateness of the sweep and the time since
(`SweepInv`). So the entry of a session in the room is as young as its last
heartbeat allows, and a sweep that takes it tells how long that was
(`SweptSilent`, for all intervals, the shipped ones included). `Ghosts` is about
sweepers only: it needs that clocks differ by less than the time to live, which
keeps a fresh entry from being older than it by another's clock. `Listing` needs
`NodesInTime`: interval of the node heartbeat, two delays and skew under the time
to live, as with 5 s and 15 s.

*Clocks.* Every message before the present of a node has a Lamport stamp at most
the node's, and a vector at most its vector; a stamp is above those of its
causes, its vector strictly so in the component of its node (`LamportAbove`,
`VectorAbove`). For the converse, a vector that has reached a stamp in the
component of its node has the message behind it (`VectorExact`). A restart
breaks this part only: the node counts from zero again.

*Rate limit.* What the bucket holds is the least any window of time has left
(`Windows`): at most what each window from `s` to the last call has left over the
messages it got, and exactly that of some window. Hence a message is let pass
exactly when every window has room for it.

*Lines on the wire.* Each line that was sent is on the wire once, as a command or
as its answer (`Underway`, `Apart`), and until the node has the session in the
room a join lies ahead of every line sent online (`JoinAhead`). So the node
refuses none of these lines for its room (`OnlineIsInRoom`), whatever drops and
outages came before.

*Backlog.* When its pauses suffice, the last read of `_backlog_contiguo`
comes after the saves that were under way, and an earlier read ends the loop only
if it is contiguous up to the counter, so either leaves out nothing that is kept
(`Covers`). That needs `OperationInv` (the counter of a join is never above the
counter of the room) and what a limited query brings: the lowest `Limit` numbers
above the mark reach at least `Limit` numbers far (`BacklogReaches`, by counting).

*Terminal client.* `AskedInv` says where a number that was asked for is: it is
stored, and the queue has passed or holds it, or the answer is under way and has
it, as the command that reaches it, in the operation that serves it, or in a
frame. Each step of the feed moves it on from one to the next: a query brings the
lowest `Limit` numbers above the mark it was sent with, which are those asked for. Live messages, joins and reconnections of others may come in between,
since they only move the mark up. When the second stage comes, nothing is
awaited, so whatever was asked for is passed or held, and a forced release gives
up neither.
The client folds a backlog
through its queue one number after the other; `IngestAllIs` shows that the
recursive function has the values of a function of numbers (its equation has a
solution, by induction over the bounded interval `0..MaxSeq`), and
`IngestAllGrows` that the mark never moves back and every number of the backlog
is afterwards held or passed.

*Bursts.* A call of the queue moves the mark and counts each released number once
more; `Rises` says so of any two marks and counts, and bursts one after the other
are a burst (`RisesJoin`). So a whole backlog, folded through the queue, is one
burst whose losses are the numbers it passed (`IngestAllBursts`,
`DeliverAllReleases`), and a burst is a step of `OrderedDelivery` or none
(`TerminalBurst`, `ScreenBurst`). This needs no condition on the buffer or on
time. The one exception is a `joined` frame that places the queue of the terminal.

*Web page.* A page never places its queue and holds only what was taken, so
while no gap is given up it shows every number up to the mark once. The buffer
limit is the one way a page gives up a gap, and it is reached only when
`MaxBuffer` numbers lie above the mark: hence the hypothesis `WithinReach`,
`counter <= queue.delivered + MaxBuffer`, which a page does not enforce. Without
it `PageShowsEachOnce` is false (`web.cfg` with `ShowsEachOnce`). It is a
hypothesis about the room's run: fewer than 500 messages ahead of a page that
waits for one. Without it two things remain, and the run checks them with a
buffer that overflows. Nothing is shown twice, and what was stepped over does not
come later (`PageImplementsPeriod`). And a number is stepped over only when what
the page holds and what the frame brings are more than the buffer takes
(`PageLosesOnlyWhenFull`): while a backlog is folded, the buffer never has
anything but what was held before and what the backlog brought.

*Load test.* A client records nothing after `encerrar`, so what its resync asks
for is still the end of the contiguous start of what it has (`ContiguousEnd`),
and the answer brings what it misses above, as far as `Limit` reaches (`Fits`,
`Answered`). What the verdict misses lies between two recorded numbers
(`MissesBetween`).

Only model-checked: the liveness properties (`SendEnds`, `ClaimedIsStored`,
`CommandEnds`, `EmptyRoomReleased`, `GapCloses`, `HeldIsShown`,
`ComesBack`, `ReportComes`), which need fairness and `ENABLED` and are out of the
prover's reach, and what the violation runs refute.

## Findings

Two disagreements of the code with its own text are runs of their own:

- `sessions_race`: `leave` decides to unsubscribe before it awaits
  `presence.leave` (`chat_service.py:175`) and does not look again. A session
  that joined meanwhile found the room in `_subscribed` and did not subscribe;
  the unsubscription then takes the topic away from under it. The comment of
  `join` (`:142-143`) says the node is subscribed from there on.
- `presence_defaults`: by default a session's heartbeat comes every 20 s and its
  entry is swept after 15 s (`config.py:86-90`; `.env.example` repeats the values
  and nothing overrides them), and `ZADD XX` does not add it again
  (`redis_presence.py:62`): who stays in a room silently leaves its list. The
  module comment of `ws/connection.py:8-11` says the periodic ping avoids this.

Further counterexamples can be had by hand, with a configuration of this
directory each:

| Configuration, module | Violates | What happens |
|---|---|---|
| `flow_dupack`, `MCMessageFlow` | `DuplicateAckReconciles` | `send` claims the key before `next_seq` and does not release it when a later call raises: the retry is acknowledged as a duplicate with number 0 and nothing is ever published (`chat_service.py:194`; comment at `:58-59`) |
| `sessions_abandoned`, `MCSessions` | `EndedIsClean` | `heartbeat` iterates `conn.rooms` across awaits (`chat_service.py:327`); a join or leave meanwhile makes it raise `RuntimeError`, which `await heartbeat` in the `finally` clause raises again (`ws/connection.py:97-99`): `disconnect` does not run |
| `client_twice`, `Client` | `RenderedOnce` | the node sends live messages before the join has read the counter; the `joined` repositions the queue below what was rendered and the backlog renders it again (`salaviva_cli.py:616`) |
| `client_outage`, `Client` | `GivenUpIsGone` | the watchdog gives up messages that are in the history: it fires while offline, or after the connection that carried the resync is gone (`salaviva_cli.py:800`; `docs/SDD.md:1051, 2039`); with `MaxDrops = 0` too, when the message was saved after the resync was read |
| `web_stall`, `WebClient` | `PageGapCloses` | a number that was taken and never published stops the page: it asks once and never gives up; with `MaxFaults = 0`, `MaxSeq = 3` a page stalls with nothing lost, since a resync that was read before a save, or (`Limit = 1`) that does not reach far enough, does not set the timer again (`app.js:335-346`; `docs/SDD.md:2044-2045, 2601-2602`) |
| `load_reentry`, `LoadTest` | `QuedaKeepsOk` | `_sessao` makes `entrou` anew for each session (`run_load.py:670`), so the first `joined` after a reconnection moves the baseline and its backlog is not recorded, against the comment of `_ler` (`:569-570`) and `loadtest/README.md:156-157, 165`: the verdict is `DIVERGENTE` with nothing lost |
| `causality_history`, `MCCausality` | `SeenIsLower` | a node that serves a message from the history does not take its stamp in: an answer may have a lower stamp than what its author read on the screen (SDD 7.1 and 7.2.2) |

Read in the code only:

- the first `joined` resets the queue and drops live messages it already holds;
  they come back only through the backlog or a resync;
- a reposition on a supposed regression may step over a number still in flight;
- a `/leave` typed before the `joined` of an earlier join: the frame marks the
  room active again;
- a failed call in `leave` or `disconnect` skips the rest of the cleanup;
- the echo may reach the sender before its ack (`chat_service.py:229`), which
  `ws/protocol.py:144` does not foresee;
- a dead user may stay listed for the time to live and a sweep, 20 s;
  `docs/SDD.md:262` says 15;
- `except (ConnectionError, RuntimeError)` (`ws/connection.py:131`) does not catch
  redis-py's errors, so a session ends where the comment (`:132`) says it
  survives;
- a close before the accept is an HTTP 403 to the client, so the branch of the
  terminal client that logs in again on 4401 (`salaviva_cli.py:460-465`) does not
  run (`docs/protocolo.md:20, 169, 202`);
- the client never sends again a line that got no ack.

What `GivesUpWhatDidNotCome` leaves out, the code does: in a room where others go
on sending, the watchdog steps over numbers that are in the history by then. One
that was saved after the resync was read, or published after it in a gap already
open, goes with the old gap; one further than `Limit` above the mark is not in the
answer (`docs/SDD.md` 14.11 declares this); and after a lost connection or a failed
query there is no answer. `docs/SDD.md` 10.4 has it that a number is given up when
the message never existed. `HeldIsShown` exempts the same cases on the page, where
the message is not stepped over but held until the next one arrives.

## Not modelled

- In-memory adapters: twins of the Redis and DynamoDB ones for tests and local
  runs, without what is hard there (no second node, no failure).
- HTTP API, settings, wiring, token encoding, `ensure_tables`, item formats,
  logging, rendering, typing and presence frames, ping and keepalive: stateless,
  or I/O without a decision the rest depends on. Of authentication, `Gate` has
  the one effect it has on a session: a token no longer valid is refused before
  the accept.
- The repository's sticky health flag, which `readyz` reports and the load
  balancer follows: a hazard without a property.
- A restart of Redis that loses the counter. The client's reposition on a lower
  number is there for it (`HoldBack` has `Reposition`, `Client` the frame);
  the server has no code for it.
- The backoff of the bus and the batching of `_run`'s resubscription: `Reconnect`
  is one step.
- Of the load test, its measurements, reports and plots, the kill of a node and
  the second room; scripts, infrastructure, slides and documents.

## Plan

Done, in this order: the queue and its refinement, the message path and its
refinement, sessions, presence, the terminal client, the clocks, the web client,
the gate and the rate limit, the load test; proofs of every safety property and
every refinement of the passing runs.

Left: that the feed's room is what `MessageFlow` supports, as a refinement; the
health flag with `readyz` and the load balancer; a `/leave` that races a
`joined`.
