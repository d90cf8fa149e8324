# A TLA+ model of meio

`meio` is an actor framework on top of tokio. An actor is a struct with
handlers; its runtime takes messages from a mailbox and calls the handlers one
at a time. A handler may spawn other actors and lite tasks; the spawning actor
is their supervisor: it tracks them in groups, interrupts them group by group
when it shuts down, and ends when all of them have reported that they are over.
This directory holds TLA+ modules of that machinery, the TLC configurations that
check them on small instances, and TLAPS proofs, for every instance, of all
safety properties the passing runs check.

## 1. Inventory

| Component | State | Operations | Hard because |
|---|---|---|---|
| Lifetime tracker, `meio/src/lifecycle.rs` | stages per group (terminating flag, ids), records per id, terminating flag | insert, insert_task, remove, try_terminate_next, terminate_group, is_finished | groups must end in order although children end, and are added, in any order; groups outside the sequence come in `HashSet` order, a new one at each call |
| Supervision tree, `actor_runtime.rs`, `lifecycle.rs` | `Context::alive`, the tracker, parcels in the high-priority queue | spawn_actor, spawn_task, attach, stop, shutdown, terminate_group, Done and Interrupt parcels, start, end, panic | every actor and task runs on its own; a child runs before it is tracked; an actor may fail, stop or panic with children alive |
| Actor runtime and mailbox, `actor_runtime.rs`, `linkage/address.rs` | two channels, a delay queue, the join status | act, interact, instant, schedule, interrupt, join; the biased select; the end of the entrypoint | senders interleave with each poll; a fused delay queue polled when empty closes for good; messages left behind |
| Lite tasks, `lite_runtime.rs`, `linkage/task_distributor.rs` | the watch channel of the stop signal, the routine, who holds an address | stop, the default routines with retries, the TaskDone notice; insert, remove, stop_all | the stop signal races the routine; dropping the last address is a stop too |
| System, `system.rs`, `signal.rs` | first_attempt, the signal stream | wait_or_interrupt, Ctrl-C | signals, the end of the actor and several waiting calls race |
| Scoped runtime, `thread.rs` | a oneshot, the mutex `blocker` | spawn, drop of the handle | two threads and a blocking lock |
| HeartBeat, `tasks/heartbeat.rs` | a watch channel with the duration, the instant waited for | update, drop of the handle, tick, done | the duration changes, or the handle goes, during the wait |
| Stream forwarding, `forwarders.rs`, `handlers.rs` | the stream, items in the queue of the actor | attach, forward, the methods of `Consumer` | items and the notice of the task take different queues |
| Distributor, `linkage/distributor.rs` | a set of recipients | insert, remove, act_all | recipients end inside the loop |
| Interactions, `handlers.rs`, `linkage/*` | a oneshot per request, the tags of tracked tasks | interact, recv, track_interaction, the handlers of `Interact` and `InteractionDone` | a responder moves between mailbox, handler, actor, task and notice, and may be dropped in each of them; a handler that awaits blocks its actor |
| WebSocket talker and client, `meio-connect/src/talker.rs`, `client.rs` | drained flags, the connection, the outgoing channel | the select loop, connect, reconnect | close from either side, a stop, a reconnect |
| HTTP server, `meio-connect/src/server/*` | address state and waiting responders, routing table, the listener task, open requests | bind, restart, wait_for_address, add_route, try_route, upgrade, graceful shutdown | a listener that fails and is restarted while others wait for its address; a shutdown with requests that are never answered; routes added under traffic; sockets handed over by tasks nobody tracks |
| ids, compat, FnTask, prelude, protocol, extra | none that changes | wrappers, re-exports, traits | - |

Interactions. A child holds a notifier that sends `Operation::Done` into the
high-priority queue of its supervisor; the supervisor holds a notifier that sends
an `Interrupt` (to an actor) or sets the stop signal (of a task). An `Address`
sends into the ordinary or the high-priority channel, and `join()` watches the
status the runtime sets at its end. Tasks that feed an actor (heartbeat, stream)
use the ordinary channel, their end is announced in the high-priority one. A
request carries the sender of a oneshot, at whose other end the caller waits. The
listener of the HTTP server is a lite task of its actor and announces its address
through the ordinary channel; a request of a client becomes an interaction with,
or an upgraded socket an action of, the actor its route points to. An actor may
own a background runtime, whose handle is then dropped with it.

What makes the parts correct:

* tracker and tree: no child is lost; no group is interrupted before the groups
  in front of it are empty; a late child of a terminating group is interrupted
  too; an actor is not stopped by the end of a child unless it is terminating; a
  termination always has somebody to wait for and ends; a graceful shutdown
  leaves no child running;
* mailbox: no message is duplicated or mislaid; urgent messages are overtaken a
  bounded number of times; every accepted message is handled or dropped with the
  mailbox; `join()` returns after the end and not before;
* tasks: one report, with the right result; a stop signal is never passed over;
* requests: a caller that waits has a responder somewhere, every call returns, and
  a forwarded answer is never better than the one it was made from;
* HTTP server: one listener at a time and none after the end; no stale address; a
  stable choice of routes; the shutdown ends; no client waits for an actor that is
  gone;
* system, scope, heartbeat, stream, WebSocket client: see section 4.

PROJECT.json lists the hazards one by one, at their lines.

## 2. Modules

| Module | Models | Extended by |
|---|---|---|
| `LifetimeTracker` | struct `LifetimeTracker`, as operators from trackers to trackers | `Supervision` |
| `Family` | abstract: what a supervision tree promises | `Supervision` (by `INSTANCE`) |
| `Supervision` | the tree: `Context`, the loop of `ActorRuntime::routine` as far as parcels go, `entrypoint`; implements `Family` | `MC_Supervision`, `Supervision_proofs` |
| `Mailbox` | abstract: what a mailbox promises to its senders | `ActorRuntime` (by `INSTANCE`) |
| `ActorRuntime` | one mailbox, poll by poll; implements `Mailbox` | `MC_ActorRuntime`, `ActorRuntime_proofs` |
| `LiteTask` | lite tasks and the `TaskDistributor` that holds their addresses | `LiteTask_proofs` |
| `System` | `wait_or_interrupt` and the Ctrl-C stream | `Process` |
| `ScopedRuntime` | `thread.rs` | `Process` (by `INSTANCE`) |
| `Process` | both together: each awaited actor owns a background runtime | `Process_proofs` |
| `HeartBeat` | the heartbeat task, its handle and an `OnTick` actor | `LiteTask_proofs` (by `INSTANCE`) |
| `StreamForwarder` | an attached stream, its task and the `Consumer` | `StreamForwarder_proofs` |
| `Interaction` | requests, responders, tracked interactions, recipients, and the `Distributor` | `MC_Interaction`, `Interaction_proofs` |
| `WsClient` | the reconnect loop of `WsClient`, the `Talker` of its session, the actor and the server around it | `WsClient_proofs` |
| `RoutingTable` | routes and their choice, as operators | `HttpServer` |
| `HttpServer` | the server actor, `HyperRoutine`, `Svc`, upgrades, and the actor of the routes | `MC_HttpServer`, `HttpServer_proofs` |

An `MC_` module only gives constants their values; a `_proofs` module holds the
theorems about the module it extends (section 6). A heartbeat is a lite task, and
the theorem about it is in `LiteTask_proofs`.

### LifetimeTracker and Supervision

A tracker is a record of `terminating`, `stages` (for each group: present in the
map or not, terminating, ids) and `records` (for each id its group). A method
that changes the tracker is an operator of the same name; what it sends is a
companion operator that returns the set of ids interrupted
(`insert_interrupts`, `terminate_next_interrupts`, `terminate_group_interrupts`).
`remove()` is split in `remove_record` and, if the tracker is terminating,
`try_terminate_next`, which is how the code is written. The unordered tail of the
stage sequence is any ordering of the remaining groups, chosen anew at each call.

`Supervision` gives each actor a phase, a handler it is in, `alive`, a tracker
and a high-priority queue, and each task a phase and its stop signal (`asked`).
Correspondence: `Spawn` and `Insert` are the two halves of `spawn_actor`,
`spawn_task`, `attach` and `track_interaction` (the child runs on another thread
between them); `Stop`, `shutdown`, `terminate_group` and `interrupt` are the
methods of the same names; `RecvDone` is `Operation::Done` with `remove()`, the
test of `is_finished()` and the start of the `Eliminated` handler;
`RecvInterrupt` and `RecvMessage` start handlers; `HandlerReturns` ends one (an
`Err` is only logged); `AwakeFails` is an `Err` of `StartedBy`; `LeaveLoop`,
`NotifyDone` and `Release` are the end of `entrypoint`; `Panic` unwinds it. A
handler may call any method of its `Context` any number of times before it
returns. An obedient actor is one whose `InterruptedBy` handler calls
`ctx.shutdown()`, as `HttpServer` does; the test actor `ActorSingle`
(`lib.rs:316-320`) does not, and in `supervision_tree` only the root has to. `hard`
and `late` are history variables for the statement of `GracefulShutdown`.

The mailbox is abstracted to its high-priority queue, as ordinary messages only
start handlers (`RecvMessage`).

`Family` is the abstract view: who lives, which children an actor in its loop still
keeps and in which groups (`kin`), which groups it has told to end (`told`), whether
its termination has begun (`closing`) and how it is going to end (`ending`). There
are no queues, no handlers and no history. `Advance` is the promise of a
termination: further groups are told only when no group before them has a child,
their children are asked, and the actor stops exactly when it keeps nobody, else it
keeps somebody it has told. `Learn` is the promise about the end of a child: the
parent hears of it once, after it, and is stopped by it only if it was terminating.
The mapping (`Lives` to `Endings`, `Abstract`) reads `kin` from the tracker and from
the child between `Spawn` and `Insert`, and forgets it when the loop is left; so
`Insert` only asks, and the steps into and out of handlers and `Release` stutter.

### ActorRuntime

Each poll of the biased `select!` is a step: `LoopTop` decides whether the delay
queue takes part (`choose_queue`), `PollHp`, `PollDelayed` and `PollLp` look at
one source each, `Wake` polls again after a park. Senders and the clock run
between the polls. `fate` and `overtaken` are history variables. Handlers may
stop the actor, return, or panic; `Drop` empties the channels. The delay queue is
a local variable of `routine()`, so what it holds is lost when the loop is left,
before the channels are. The branch for a closed delay queue is modelled although
the code never takes it.

`Mailbox` is the abstract view: two queues in the order of sending, a set of
messages put off, and the fate of each message. The refinement mapping
(`Abstract`) maps the channels to the queues, hides the polls, and maps the
program counter to `open` (the channels exist) and `serving` (handlers are called).

### LiteTask

`PollStop` and the routine steps are the two futures of `StopReceiver::or`, in
the order `select` polls them. The routine is the default chain: `Pre`, an
attempt that succeeds, or fails or has no result and is followed by
`routine_wait`. A task counts as stopped when the status is `Stop` or when all
senders are dropped (`just_done`): the holders are the tracker of the supervisor,
the user and the `TaskDistributor`. `stop_all()` visits its tasks one by one, in
any order, while the tasks go on.

### System, ScopedRuntime, Process, HeartBeat, StreamForwarder

`System`: one `select!` per waiting call; the Ctrl-C stream is what `signal.rs`
builds, the stream of one future, so it ends with its first item and the second
branch of `OnSignal` is never reached. `ScopedRuntime`: the spawned thread and
the thread that drops the handle; `lock()` blocks until the mutex is free.
`HeartBeat`: the loop of `routine_wait`. `timeout_at` polls `changed()` (`Changed`,
`NoSender`, `Pending`) and then its timer (`Elapsed`, `Park`), in two steps: an
`update()` between them is missed by a poll that ends the wait, and the beat comes at
the old instant. `polled` is a history variable. A poll takes no time that counts
against a duration.
`StreamForwarder`: the task sends items and at last `Done` into the ordinary
queue, its notice takes the other one, and the actor takes from both in any
order, as a message the select has already passed on to may be handled first.

`Process` puts `System` and `ScopedRuntime` together. The handle of a background
runtime is a field of the actor that a call waits for. It is dropped in a handler,
where `drop()` blocks the actor, or with the actor: `ActorRuntime` drops its fields
in their order, the actor before the channels, so that the end of the actor waits
for the background thread, after the joiners have been released.

### Interaction

The state of a request is what its `recv()` has got (`rx`) and where its responder
is: in the mailbox of the callee, with a handler, kept in the state of the actor,
or in the tag of the task that passes the question on (`tag`). `AwaitInline` is
`interact().recv().await` in a handler, `Forward` is `track_interaction` with the
responder as the tag, `Keep` and `AnswerKept` an `ActionHandler` of `Interact` that
answers later. `TaskSends`, `TaskStopped` and `TaskReports` are the lite task, and
`HandleDone` is `InteractionDone`; a task whose owner terminates is interrupted
while its request stays where it is. `HeldResponders` are those that are dropped
with a runtime.

Actors are in layers: a handler awaits only lower ones, and passes a responder on
to none that is higher. The code does not demand it, but a circle of calls hangs.
The documentation of `Interaction` suggests a tracked task as a way out; it is not
one when the task carries the responder of a caller that is awaited: the front
awaits the back inside a handler, the back passes the question to the front, and
the front does not take it. TLC found that before the layers were introduced.

The `Distributor` is a loop over recipients, interleaved with the ends of the
actors: a lazy iterator that stops at the first error.

### RoutingTable and HttpServer

The table is a slab that only grows, so a sequence; all listeners and connections
share it through an `Arc`. A request is a path and whether its query parses. The
first route with that path takes the request, also if it cannot parse the query.

`HttpServer`: the actor handles `AddRoute`, `WaitForAddress` and `AddrReady` from
its mailbox, `TaskEliminated` (`Eliminated`), the timer `RestartListener` and the
interrupt. A listener goes through `Bind`, `Announce`, serving, and then
`ServeFails` or, after the stop signal, draining until the last answer (`Drained`)
or the timeout (`TimedOut`). It has one of two slots, so that a second listener
would be seen. Addresses are numbered by the bind, as port 0 gives a new one each
time. A client connects to a listener that serves and sends its request then or later
(`Call`), which goes to an answer, or to the app (`asked`), or to an upgrade:
`upgrading`, `offered` to the app in a `WsReq`, `session`, and after the stop signal
`closing`. Answered requests and closed connections are `settled`. A session is the
`Talker` of module `WsClient`, here in two steps: it is stopped, and then it waits for
the client, which has to take what is left and to complete the closing handshake,
without a timeout. Connections are tasks of hyper and outlive their listener: a
request may come after it has failed or timed out, and one that is open when the
timeout ends the server stays open until the app answers or ends.
External: hyper may fail to serve, clients connect and leave, another process takes
and releases the port. A drain waits for the connections that have sent no request
yet, too.

### WsClient

`Top` to `Sleeping` are the steps of `connection_routine`, the actions named
`Talk...` the branches of the `select!` in `Talker::routine`, each with every way
out of it: `TalkDone` is the stop signal, `TalkClose`, `TalkData` and `TalkEnd` a
result of `connection.next()`, `TalkSend` and `TalkDrained` a result of
`rx.next()`. Pings, pongs and frames of other kinds change nothing and are left
out. A `?` inside a branch is a disjunct with `ReturnsErr`. Each session has an
outgoing channel of its own: when the Talker returns, a sender that the actor
holds, or that still waits in its queue inside `Connected`, becomes outdated. The
server and the connection (`Peer...`) are external: frames arrive in order, a
complete closing handshake ends the stream, a lost connection yields an error.
The counterparts of the actions in the actor are the status handler, `send` of
the `WsSender`, the drop of the sender, and the end of the actor, after which the
stop channel may be closed without a stop.

## 3. Bounds

| Run | Instance | Why it is enough |
|---|---|---|
| `supervision_tree` | a root, an actor, a task in any shape, two groups, one of them in the sequence, `MaxInterrupts = 1` | three levels, siblings, empty and late groups, an early end before the insert, panics and failed starts happen; a longer queue of spurious interrupts repeats the first. Longer sequences are covered by the proofs of section 6 |
| `supervision_live` | the same tree, all actors obedient, no panics, one group | nested shutdown and late spawns; that the termination passes from group to group without a stall is `TerminationPending` of the run above. With two groups and panics `KeepsFamily` is `TreeKeepsFamily` of section 6 |
| `mailbox` | two ordinary messages, one instant, two scheduled ones with different deadlines, `Horizon = 1` | two ordinary messages are needed to overtake twice; one scheduled message is due at once, one later |
| `lite_task` | two tasks, no bound on attempts | one that has ended in front of one that runs, in `stop_all()` |
| `process` | two calls with a scope each, two signals | one signal before, one after the reaction; each state of the start of one thread against each of the end of another |
| `heartbeat` | durations up to 3, two updates, two ticks in the queue | longer, shorter and repeated changes within one wait |
| `stream` | streams of 0 to 3 items | empty, stopped in the middle, complete |
| `ws_client` | an interval of 2 ticks, two messages in the channel, two data frames, three statuses in the queue, any number of sessions | data in front of and behind a close, messages left when a session ends, the `Connected` of an old session still unread when the next one starts |
| `interaction` | two actors in two layers, three requests, one broadcast | a request that is awaited while its question is passed on once more, by a task of an actor that ends; a recipient that is over in front of a living one |
| `http_server` | two routes with a common path, two requests, one waiter, one failure after a bind, any number of failed binds | a request before and one after another route is added; a second address; an open request during the drain, one upgrade beside it; one client that completes the closing handshake and one that need not |

Messages, groups, tasks and names are model values; durations are small numbers.
In `supervision_tree` and `supervision_live` TLC looks for deadlocks (`AllOver`
is the only state that may rest). The other modules model components that come to
an end, so their configurations allow it.

## 4. Runs

* `supervision_tree` - `TrackersConsistent`: stages
  and records agree. `TerminatingStagesInterrupted`: who is in a terminating stage
  has been told to stop. `OrderedTermination`: no stage is marked while one before
  it has a child. `TerminationPending`: a terminating actor has an interrupted
  child to wait for. `GracefulShutdown`: a shutdown leaves no child running, except
  one spawned after the actor was stopped. `FamilyInv`: its strengthening, with
  `ChildrenAccountedFor` (a running actor knows every child it has spawned until it
  has taken its Done parcel) and `NoticesDue` (there is at most one such parcel, and
  only of a child that is still known).
* `supervision_live` - `InterruptedEnds`: an interrupted actor ends, through
  whatever its subtree holds and spawns meanwhile. `KeepsFamily`: the tree
  implements `Family`.
* `mailbox` - `KeepsMailbox`: the runtime implements `Mailbox`, so that every message
  is in one place, is handled at most once, in its turn and not before its time.
  `OvertakenAtMostOnce`, `JoinMeansOver`, and the liveness properties
  `EverySentMessageSettles` and `StoppedReleasesJoiners`.
* `lite_task` - `InterruptedOnlyIfStopped`, `StoppedEnds`, `StopAllEndsAll`.
* `process` - `NeverAbandonsUnasked`: a call returns only when its actor is over or
  has been interrupted. `DropReturns`: `drop()` of a handle does not hang.
  `SignalEndsProcess`: after one SIGINT every call returns, every actor is dropped,
  and the background threads of the actors end.
* `interaction` - `WaitingHasResponder`, `ForwardedFaithfully`, `EveryCallReturns`,
  and `BroadcastComplete`: `act_all` returns `Ok` only if every recipient has
  accepted the action, and an error only if one is over.
* `http_server` - `NoStrayListener`: one listener or restart at a time, none after the
  end. `AddressNotStale`: a waiter gets no address older than the last one announced
  before it asked. `SamePathSameRoute`, `WaitersReturn`, `ShutdownEnds`,
  `ClientsSettle`: no client waits for an app that has ended, and only a session
  whose client is silent stays, in its closing handshake, for ever.
* `heartbeat` - `WaitsAsLastPolled`: a wait ends only when the duration has passed that
  was set when it last polled `changed()`. It is not true of the duration set when the
  beat comes, see section 2. `KeepsBeating`, `StopEndsHeartBeat`.
* `stream` - `ItemsInOrder`: before an item exactly the items in front of it have
  been handled, and all of them before `finished()`. `TaskFinishedMeansForwarded`:
  at `task_finished()` what has not been handled is in the mailbox. `StreamEnds`.
* `ws_client` - `OrderlyEndSendsAll`: a session that is stopped, or closed by the
  server, has sent all its channel accepted. `AttemptsArePaced`: the
  server is not tried again before the interval is over. `ClosedSessionEnds`,
  `StoppedClientEnds`.

The tree has a type invariant, `TypeOK`; each property has a mutant: a plausible mistake in one operator that makes the run fail.

Two runs show that the code does something else than the repository says:

* `system_second_signal`: a second Ctrl-C does not make `wait_or_interrupt`
  return, as its documentation promises; the stream has ended with the first one.
* `scoped_runtime_drop`: a handle dropped before the new thread has taken the
  mutex does not wait, and the actor starts, and runs, after `drop()`.
  `SignalEndsProcess` shows that it is interrupted then.

Smaller divergences without a run of their own:

* `Distributor::act_all` is documented as "Sends action to all in parallel."
  (`linkage/distributor.rs:43`); living recipients behind one that has ended are
  left out (`ActNext`), and the caller gets an error.
* The documentation of `repeatable_routine` says "repeated till fail or success"; a
  failure is logged and the routine is repeated (`AttemptWaits`).
* Ticks travel in the ordinary queue and the notice of the task in the other one, so
  a tick may be handled after the heartbeat is known to be over (`HandleTick`).
* `WaitForAddress` is "used to ensure the server has binded to an address"
  (`server/bind.rs:14-17`). The state never goes back to `NotAssignedYet`: between the
  failure of a bound listener and its restart a caller gets the address that was
  lost. `AddressNotStale` states what is left of the promise.
* `WsRoute` sets `BAD_REQUEST` for a request without an `Upgrade` header and then
  overwrites it with `SWITCHING_PROTOCOLS` (`server/websocket.rs:100-103`, `129`); the
  upgrade fails and the socket is closed (`Upgraded`).

## 5. Fairness

* `Supervision`: weak fairness of the steps the executor owes to a ready future
  (`Insert`, `LeaveLoop`, `NotifyDone`, `Release`) and of handlers returning. Strong
  fairness of taking a parcel: the high-priority queue is a FIFO and is polled
  first, so only the parcels ahead can delay one, and `RecvMessage` stands for
  those. An obedient actor calls `shutdown()`; a task returns after its stop
  signal. Nobody has to spawn, stop or fail. A panicking child never reports, so
  its supervisor waits for ever in `shutdown()`: that is the code's behaviour, and
  `InterruptedEnds` is checked without panics.
* `ActorRuntime`: the executor polls a woken future, handlers return, time passes,
  a woken joiner runs. With finitely many messages ordinary ones are not starved;
  against an endless stream of instants the biased select gives them no guarantee.
* `LiteTask`: polls happen and come to their end, `stop_all()` runs on, the stop
  future is woken. A routine never has to get ready by itself.
* `System`: the call is polled when the signal or the joiner is ready; nothing forces
  an actor to end. `Process`: threads are scheduled as well, and an interrupted actor
  ends, in the foreground and in the background. Nobody has to drop a handle before
  its actor ends, or to send a signal.
* `Interaction`: weak fairness of each actor's runtime (it takes messages and
  notices, its handlers return), of each task, and of the use of a kept responder:
  an actor that keeps one and never uses it makes its caller wait, by intent.
* `HttpServer`: the runtime of the server and the tasks run, timers and the shutdown
  timeout come. The app takes sockets from its mailbox but need not answer; the
  port need not get free, clients need not leave, nobody has to shut down. A session
  gets the stop signal when the app has ended. Clients take part in its closing
  handshake, but for those in `Silent`: they owe nothing, and as the code has no timeout
  there (`talker.rs:157-181`) `ClientsSettle` leaves them in it.
* `HeartBeat`: the task is polled, time passes, the actor handles its messages.
* `StreamForwarder`: the same, and strong fairness of the stream's progress: a
  stream that is polled again and again yields its next item.
* `WsClient`: the task is polled, time passes, the actor handles its statuses.
  `select!` picks at random among the branches that are ready, so each of the stop
  signal, the connection and the channel has a fairness condition of its own. An
  attempt to connect comes to a result, and the server completes a closing
  handshake: without that a stopped client waits for it for ever, as the code has
  no timeout there. The server also reads: `send().await` and `close().await`, which
  would block a session against a peer that does not, are single steps (`TalkSend`,
  `TalkDrained`). Nobody has to send, close, stop or break.

## 6. Proofs

`Supervision_proofs` proves, for all sets of actors, tasks and groups, every
termination sequence and every `MaxInterrupts`, from `TrackerAssumption` (the
sequence consists of groups, the groups are finitely many) and
`SupervisionAssumption` (actors and tasks are disjoint, the root is an actor):

* `TypeCorrect`: `Spec => []TypeOK`;
* `ConsistentTrackers`: `Spec => []TrackersConsistent`. The conjuncts about
  `pending` make it inductive: `insert` keeps a tracker consistent only if the id
  has no record yet, which holds because the id is between `Spawn` and `Insert`
  and an id is spawned once;
* `TerminatingStagesAreInterrupted`: `Spec => []TerminatingStagesInterrupted`. It
  rests on the consistency of the tracker: `try_terminate_next` interrupts ids
  that have a record, so every id of a stage must have one;
* `TerminationIsOrdered`: `Spec => OrderedTermination`. A step that marks a stage
  is one of `shutdown` and `RecvDone`; the stage was reached in a sequence that
  begins with the prioritized groups, so the stages before it are absent or empty,
  and an absent one has no ids by the consistency of the tracker.

* `NoChildEscapes`: `Spec => []FamilyInv`. The five parts need each other. A parent
  may forget a child when it takes the Done parcel (`ChildrenAccountedFor`) because
  only children that have ended, and not by a panic, have one (`DoneParcelsTrue`); a record is gone for one parcel
  only because there is one and the child is known until then (`NoticesDue`); and
  when `is_finished()` is true the tracker has no records, so everybody has ended
  (`StoppedClean`). `UnbornClean` is for the actor that is just spawned;
* `ShutdownIsGraceful`: `Spec => []GracefulShutdown`, from `StoppedClean`;
* `StoppedOnlyWhenTold`: an actor whose `alive` is cleared was stopped the hard way
  or is terminating (`StopsOnlyWhenTold`). A Done parcel
  finishes a tracker only if it is terminating already (`FinishedIsTerminating`):
  by `NoticesDue` the parcel names a tracked child, whose stage stays in the map, so
  that stage is marked;
* `TerminationNeverStalls`: `Spec => []TerminationPending`. `try_terminate_next`
  walks the sequence, which covers all groups (`SequenceCovers`), to the first
  stage that has ids (`LeastNumber`); if it finds none the actor is stopped;
* `TreeKeepsFamily`: `Spec => KeepsFamily`, step simulation. `Spawn` maps to `Spawn`,
  `Insert`, `terminate_group` and `interrupt` to `AskToEnd`, `shutdown` to `Terminate`,
  `RecvDone` to `Learn`, `LeaveLoop`, `Stop`, `AwakeFails` and `Panic` to `Leave`,
  `StopHard` and `Break`. All theorems above meet here: `TerminateNextAdvances` shows
  that one call of `try_terminate_next` is an `Advance`, by the order of the reached
  stages, the consistency of the tracker and `TerminateNextPends`; `RecvDoneLearns`
  needs `NoticesDue` and `DoneParcelsTrue` (the parcel is that of a child which is
  kept and has ended), `FinishedIsTerminating` (no stop without a termination) and
  `HardStops` (an actor stopped the hard way takes no more parcels).

The lemmas come in layers: what each method of the tracker does to its fields
(`NewFacts`, `InsertFacts`, `TerminateNextFacts`, `RemoveFacts`, `InsertStage`,
`RemoveStage`), that each keeps `Consistent`, which actions change a given tracker
(`TrackerStep`), phase (`PhaseStep`), queue (`QueueStep`), parent (`ParentStep`) or
what an actor knows of (`KnownStep`), and the step lemmas of the invariants.

`ActorRuntime_proofs` proves, for all sets of messages, all deadlines and every
horizon of the clock, from `MailboxAssumption` (the three kinds of messages are
disjoint, a deadline is a number within the horizon):

* `MailboxTypeCorrect`: `Spec => []TypeOK`;
* `RuntimeKeepsMailbox`: `Spec => KeepsMailbox`, step simulation. Sends map to
  `Send`; a poll that takes a message to one of the `Handle...` actions or to
  `PutOff`; leaving the loop to `Retire`; `Panic` and `DropRuntime` to `Close`; all
  others to stuttering. The types are needed for the messages that are taken from
  the queues, and `NothingPutOff` (while the actor awakes its delay queue is
  empty) for a failing start, which retires the mailbox without losing anything;
* `JoinAfterTheEnd`: `Spec => []JoinMeansOver`. `EndInOrder` makes it inductive:
  from `releasing` on the supervisor has been notified, and the joiners' status is
  `Stop` only once they have been released.

* `UrgentNotStarved`: `Spec => []OvertakenAtMostOnce`. `Blocking` makes it
  inductive: a message that has been overtaken as often as it may be is in the way
  of the select, which has not got past its queue in this turn. That needs a delay
  queue which is polled exactly when it holds something, and so never closes
  (`DelayQueueOpen`).

`Process_proofs`, for any number of calls, signals and background runtimes
(`SystemAssumption`): `PartsKept`, a step of `Process` is a step or a stutter of
`System` and of `ScopedRuntime`; `SystemNeverAbandons`, from `AttemptMeansAsked`
(`first_attempt` is cleared only with the interrupt, or when the actor has gone);
and `ProcessNeverAbandons`, the same of the composition, from both.

`LiteTask_proofs`, for all sets of tasks: `InterruptionHasACause` and `NoticeOnce`
(the supervisor gets one `TaskDone`, with the routine's result). `RecordKept` makes
them inductive: the tracker of the supervisor holds an address until the notice
is taken, so a task loses its last address only with its supervisor. And, for all
durations and any number of updates, `BeatsWaitAsLastPolled`: `WaitsAsLastPolled` of
`HeartBeat`. `BeatInv` carries it: the task waits for the duration it would read now,
unless a change is still to be seen, it comes to a timer only with the duration that
was set at the poll of the channel, and sleeps without looking only when the handle is
gone.

`Interaction_proofs`, for all sets of actors, layers and any number of requests
(`InteractionAssumption`; no proof uses the guards on `Layer`, which only
`EveryCallReturns` needs):

* `BroadcastReachesAll`: while the loop runs, the recipients are those that have
  accepted and those it has not come to;
* `WhoeverWaitsCanBeAnswered` and `NoMadeUpAnswers`, from `ResponderInv`: a
  responder is where its state says, in a mailbox (`InMailbox`), in the hands of a
  handler or an actor (`InHands`), or carried by the task of the request it was
  forwarded as (`Carried`, `OneCarrier`); a request that was not made has none
  (`Fresh`), one that was answered has spent it (`Settled`).

`HttpServer_proofs`, for all routes and paths, any number of waiters, requests and
failures (`HttpServerAssumption`, `RoutingTableAssumption`):

* `ServerHasOneListener`: a restart is scheduled only when a listener has gone, a
  listener is spawned only by the start and by a restart, and the actor is over only
  when the last one has been removed (`OneListener`);
* `PathsKeepTheirRoute`: the table grows at its end, so the first match of a path
  stays the first once there is one (`FirstStays`);
* `AnswersAreFresh`: addresses are announced in the order of the binds
  (`AddressOrder`), the last one is assigned or in the mailbox (`LastIsComing`), and
  a question does not overtake what was announced before it (`QuestionsInOrder`).

`StreamForwarder_proofs`, for a stream of any length: `ConsumerSeesTheStream` and
`FinishedTaskHasForwarded`. There is a number `h` such that the items `1 .. h` have
been handled and the mailbox holds exactly the other ones that were pulled, with
the end of the stream behind them (`StreamAt(h)`); `ResultKnown` ties the result of
the task, its notice and the calls of `Consumer` together.

`WsClient_proofs`, for any interval and any number of messages
(`WsClientAssumption`): `NothingLeftBehind`, as a channel found drained stays empty,
and `ReconnectsArePaced`, as the routine is at the head of its loop only when the
interval has passed.

TLC finds every inductive invariant to hold on the instance of its component's run, too.

Only model-checked: the two runs that expect a violation, and everything that needs
fairness (`InterruptedEnds`, `EverySentMessageSettles`, `StoppedReleasesJoiners`, `StoppedEnds`, `StopAllEndsAll`,
`DropReturns`, `SignalEndsProcess`, `EveryCallReturns`, `WaitersReturn`,
`ShutdownEnds`, `ClientsSettle`, `KeepsBeating`, `StopEndsHeartBeat`, `StreamEnds`,
`ClosedSessionEnds`, `StoppedClientEnds`): liveness is out of the prover's reach.

## 7. Plan

Done: all components with state; the abstract mailbox, the abstract family and
their refinements; the composition of the two entry points; proofs of the safety
properties of all modules. Open:

1. An abstract specification of the HTTP server for its clients (an address that is
   known or not, requests answered by the first route), implemented by `HttpServer`.
   Its safety is that of the three theorems of `HttpServer_proofs`.
2. `KeepsFamily` on a larger instance, should the run get faster.

## 8. Not modelled

* `FnTask`, ids, `compat`, the prelude, `meio-protocol` and `meio-extra`: no state
  that changes; ids are distinct values. The wasm branch of `compat` has no delay
  queue and is not modelled.
* Hyper, tungstenite and tokio are external and appear only by what the code relies
  on. A connection of the HTTP server carries one request in the model; keep-alive
  repeats it.
* Logging, log targets, formatting, the contents of messages.
* Memory: the channels are unbounded, a full memory is not modelled.
