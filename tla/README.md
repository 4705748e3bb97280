# Verification of π Remote

π Remote lets an Android phone or a desktop dashboard watch and control Pi
agents. This directory holds TLA+ models of its local daemon and of the part of
the Pi extension that talks to it, the TLC configurations that check them on
small instances, and TLAPS proofs that hold for every size.

Paths below are relative to the repository. *Bridge* is the end of the
extension that talks to the daemon.

## The system

    Pi process ─ extension (bridge, outbox, gates, controls)
                    │ WebSocket, protocol v3
                 daemon ── SQLite
                    │ WebSocket v3 (dashboards, clients), v2 (phones)
                 clients, Android app

A Pi process is a *logical process* (`processId`), each run of it an *instance*
(`processInstanceId`). One run goes through several *sessions*: when the user
switches session the extension shuts one runtime down and starts another, which
registers the same instance again over a new socket. The daemon numbers the
instances' events with global cursors, keeps them in SQLite, hands them to
subscribers, and routes commands, tool-gate policies and pauses to the bridge of
the process.

### Inventory

| Component | State | Operations | Hard behaviour | What makes it correct |
|---|---|---|---|---|
| **Durable store** `packages/daemon/src/store.ts` | processes, instances, events, commands, pins, replay leases, v2 assignments, cursor high-water mark | register, append, replay, pin, lease, retain, heartbeat, set state, accept / complete / fail command, recover after restart | crash between transactions; retention against retransmission and replay; several instances lost at once | cursors dense and never reused; an event committed once and in its producer's order; a restart's records clash with nothing; leased rows kept; replay complete or refused |
| **Control plane** `daemon.ts`, `process-registry.ts` | socket bindings, `#bridges`, registry, dashboard leases, subscriptions | handlers of every frame, close, sweep, publish | closes seen after the reconnect; instances that share a process; sweep against heartbeat and restart | tables name open sockets; "live" means a connected bridge; leases and policies never reach a replacement |
| **Command router** `command-router.ts` | bindings, commands in memory | bind, accept, ack, complete, disconnect | late results, retries after restarts, disconnects that come late | one execution, one result, known to all copies; an answer in the end |
| **Control handler** `controls.ts` (bridge) | cache of answers, commands under way | handle | awaits inside a command; replaced runtimes | as above |
| **Bridge and outbox** `bridge.ts`, `outbox.ts` | pending and assigned items, spool on disk, socket, timers | observe, assign, acknowledge, resume, connect, shutdown | lost spool, overflow into a gap record, late acks, two connections, handlers of ended runtimes | what has a number stays until it is committed; no number stands for two events; mandatory events are committed in order or stand behind a gap record |
| **Gate and pause controllers** `gates.ts` (bridge) | policy, pending gates, armed pause | arm, decide, time out, abort, disconnect | timeouts racing decisions; lease ends | a gate is resolved once and never left waiting |
| **Replay subscriptions and senders** `subscriptions.ts`, `backpressure.ts`, `Sender` of `daemon.ts` | last cursor, queue of each socket | subscribe, deliver, publish, flush, overflow | a queue that is full during the replay, sockets closed with frames under way | a consumer's checkpoint never passes an event it did not get; it catches up |
| **Instance lock** `instance-lock.ts` | a file | acquire, release, take over | several daemons that start at once | one daemon per profile |
| **v2 sessions and HTTP server** `v2-session.ts`, `http-server.ts` | pending and bound phones, assignments, spawned sessions and their file | bind, close, pair, rotate, disable, publish, spawn, restart | phones that come before any process, sessions that outlive the daemon | a token stands for one process; a phone hears a whole stream; sessions that the file has can still be listed after a restart |
| **Android client** `app/…/MainActivity.kt` | sockets, reconnects, transcript | connect, reconnect, switch back end, handle frames | callbacks of old sockets; reconnects scheduled before a disconnect | one connection at a time; deltas end up in the right message |
| Protocol package `packages/protocol/src` | reference stores only | schemas, parsing, redaction, v2 translation | | the reference stores are the abstract specifications here |
| **Extension entry** `index.ts`, `identity.ts` | the active runtime | session start and shutdown, hooks | hooks that come after their session | only the active runtime observes |
| Authentication, configuration, CLI, daemon client, data mapping | small or none | | | sequential or I/O, covered by unit tests |

How they interact: bridges, dashboards and clients send frames over WebSockets;
the daemon's handler of a frame calls store, registry, router and v2 manager
synchronously and replies through the senders' queues; the registry calls back
into the store when its verdict on an instance changes; the HTTP server hands
phones' messages to `routeV2`. The daemon is one thread and its handlers do not
await, so each handler is atomic; what is concurrent is the order of frames,
closes, timers and restarts, and everything that happens at the bridge between
sending and arriving.

## Modules

| Module | Models | Lines up with |
|---|---|---|
| `InstanceRows` | tables `processes`, `process_instances` | one operator per transaction of `store.ts` that writes them |
| `EventLedger` | the promise: a ledger of events under dense cursors, which never forgets an event id, and a weaker one that may | `ProducerLedger`, `CursorStore` of `packages/protocol/src/index.ts` |
| `CursorStore` | the promise for those who replay: a history, what of it has expired, what is refused | `CursorStore` of `packages/protocol/src/index.ts` |
| `DurableStore` | events, pins, replay leases, high-water mark, over `InstanceRows`; implements `EventLedger` as far as it remembers event ids, and its replay is compared with `CursorStore` | one action per public operation of `store.ts`, which is one SQLite transaction |
| `ControlPlane` | `daemon.ts`, the registry, the router's bindings, the v2 flag, dashboard leases, and at the bridge the running session and its armed policy, over `InstanceRows` | one action per frame handler, close handler and timer |
| `CommandLedger` | the promise: an id stands for one request for ever and gets one result | `CommandLedger` of `packages/protocol/src/index.ts` |
| `CommandPath` | the commands table, the router's memory, frames under way and the bridge's handler, composed with `ControlPlane`; implements `CommandLedger` | `acceptCommand` … `failCommandsForInstance`, `command-router.ts`, `controls.ts` |
| `ToolGates` | the gate and pause controllers with the hooks, frames, timers, aborts and closes that call them | one action per method of `gates.ts`, and one per outcome of `gate` |
| `Outbox` | the outbox of a bridge, with its spool, limits and gap records | one operator per method of `DurableOutbox` in `outbox.ts` |
| `BridgeDelivery` | the sessions of one Pi instance, their outboxes and sockets, the daemon's handlers for hello, registration and events, over `Outbox` and the promise of `EventLedger` | one action per hook, timer, socket event and frame of `bridge.ts`; per frame of `daemon.ts` |
| `Subscriptions` | a subscriber of protocol v3: its replay, live events, the queue of its socket, and the consumer that resumes | `events.subscribe`, `publish`, `send`, `flush` of `daemon.ts`, `ReplaySubscription`, `BoundedQueue` |
| `PhoneSessions` | the server for phones: tokens and the processes they stand for, bound and pending phones, administration, spawned sessions and their file, restarts | one action per request, socket event and timer of `http-server.ts`, over the methods of `v2-session.ts` |
| `NumberSets` | a finite set of numbers in ascending order | the history that a phone is sent, the frames that a closed socket leaves |
| `DurableStoreMC`, `ControlPlaneMC`, `CommandPathMC`, `ToolGatesMC`, `BridgeDeliveryMC`, `SubscriptionsMC`, `PhoneSessionsMC` | the instances for TLC | |
| `NumberSetsProofs`, `EventLedgerProofs`, `DurableStoreProofs`, `CommandPathProofs`, `ToolGatesProofs`, `SubscriptionsProofs`, `PhoneSessionsProofs`, `BridgeDeliveryProofs` | theorems; the first has the lemmas the others share, `CommandPathProofs` the theorems about `ControlPlane` too | |

`PROJECT.json` maps each definition to its lines. An operator without a mapped
line that stands directly before a mapped one and carries a longer name
(`ClashesByNumber` before `Clashes`) is a wrong variant: the mutants of `PROJECT.json`
put it in the place of the right one, and each property is shown to fail then.

### Choices that carry the models

*DurableStore.* A transaction is atomic, so a crash of the daemon falls between
two actions, and `Recover` is what the next start does. Time is left out of
leases: `EndLease` is release and expiry, at any time. `committed` is a history
of every row ever inserted; the properties compare the table, which retention
prunes, with it. An event's content is its id, instance, number and the time
stamp of its producer, which `retain` deletes by. An event that is refused
(`duplicate`, `event_conflict`, `process_sequence_gap`, `cursor_exhausted`)
changes no row and is a disabled action. `ProducerLedger` never forgets an event id; the
table knows one as long as it has the row. `ImplementsLedger` therefore speaks of the steps
that commit no id whose row retention has deleted (`RecallsIds`), and `NumberedSpec` of
`EventLedger` is what the store implements in every step.

*ControlPlane.* `Register` is the opening of a socket and its first frame
together; nothing else can be sent before it. `Close` is the close event, which
the daemon may see long after the bridge has gone and registered elsewhere. A
session that is registered and differs from `runtime` starts a new runtime at
the bridge, which holds no policy. `missed` counts silence in the two steps that
the registry tells apart (more than 3, more than 6 intervals). `Sweep` goes
through the registry's map in insertion order; the model allows any order, of
which only the last verdict on a process shows. Frames from the daemon to a
bridge that arm or disarm a policy arrive at once: on one socket they are in
order, and a frame lost with its socket is a `Close` before it.

*CommandPath.* Frames between daemon and bridge do take time here, and are lost
when their socket closes. `ending` has the sockets that one end has closed and
whose close the daemon is yet to see: the daemon closes one after an answer it
refuses, and a bridge whose answer could not be sent had lost it already. A
rejecting `command.ack` and a `command.result` are both answers; the accepting
ack changes nothing at the daemon and is left out. What a command does in Pi is
left out, but not that it takes time, may fail, and is forgotten with the
runtime that executes it. The bridge rejects for many reasons (deadline, busy,
payload, generation), which are one nondeterministic choice. Deadlines stored
with a command are never looked at by the daemon. Dashboards are set to none:
they touch no variable of this module.

*ToolGates.* A turn of Node's event loop is an action, and what it resolves runs on
before the next turn: `Quiet` keeps other turns out while a call is released. Calls
released together may go on in any order (the code lets them go in the order they
came). The calls at stage "gated" are `#pending`, with the policy of `ruling`; those
"paused" are `#waiters`. Timers fire at any time, so neither timeouts nor deadlines
are numbers, and a deadline that has passed is a choice at the pause. Which socket a
frame comes over does not matter to the controllers and is left out: a lost socket is
`DaemonDisconnected`, at any time. Frames of a lease stop before its end is announced,
which `ControlPlane` has. `ControlPlane` also has what becomes of a policy whose end is
never announced; here a lease may simply stay silent. The schema check of replacement
arguments may go either way, and so may the look-up of a tool.
`GateThrows` is the code as it is: with `includeArguments`, a call whose arguments
`cloneJson` refuses (a key `constructor`, an `undefined` value) uses up a policy for one
call and runs, even if the policy fails closed, because `index.ts:60` answers an
exception with `undefined`.

*Outbox and BridgeDelivery.* An item is its kind and the observations it carries, or
stands for if it is a gap record; the code has no numbers for observations. Bytes are
observations too, and the serialised state around them is left out. The hooks, session
starts and shutdowns observe; `Audit` does too, but flushes nothing. A runtime keeps its
handlers after its shutdown for as long as a socket of it lives, which is why `box` has
one outbox per runtime while they all write one `spool`. Frames of both directions are one
sequence each, over all sockets: both ends are single threads that read what has come in
order, on one machine. What was under way on a socket that closes is lost; what the daemon had still read counts
as read before. More than 64 inbound frames close the socket, and so does
`/remote-control-disable`: both are a break, at any time. A Pi that crashes is a new
instance, whose predecessor's spool nobody reads. A publish frame stands for all frames of
one flush, and the daemon takes its events one at a time, each with an ack of its own. Of
the store, `Commits` is `Admit` of `EventLedger`: numbers and cursors, which `DurableStore` is
proved to implement in every step. An outbox draws a fresh id for each event, and a repeated
number is recognised by its row. `LoseSpool` is a file that is gone,
unreadable or out of order when the next session starts.

*Subscriptions.* The consumer is not part of the repository. It does what the protocol's
README asks of it: one subscription per socket, after the last cursor it received, and a
new one when that socket has closed. A replay is a loop of the daemon that waits for
nothing, so no frame comes between its items (`rest` = {} guards everything else) and
nothing is ever buffered by the subscription. A flush writes the queue and
leaves the socket open, or closes it when the socket takes no more, which it asks after each
frame: after a first part, or after the last. A frame's size is 1 or more of the
units the queue counts.

*PhoneSessions.* A phone is a socket at a time. `heard` is what was sent to it; what it
lost with its socket it hears again after its next connect, when its process is replayed
to it. Commands are left at the router's door (`Command`), since `CommandPath` has what
happens then. `GoesAway` stands for every verdict of the registry and every close of a
bridge. A pid is "session" while a session that a daemon has spawned runs under it and
nobody has asked it to end, and may be anybody's afterwards. `persistSpawned` swallows its
errors: the file is written, or stays as it was, or ends up torn, which a later start reads
as nobody's pids. A daemon may also die after a spawn, a kill or an exit and before the file
is written (`DiesPersisting`). `saved` says whether the last call wrote the file, and `lost`
which running sessions a daemon did not find because the one before it ended with the file
incomplete. `Bypassing` are phones that `allowNoAuthFromLoopback` lets in with any token or
none, and `Unnamed` is the one verifier of all phones with no token in their URL. Phones and spawned sessions
share nothing but restarts; `Together` = FALSE keeps behaviours with both out of the runs.

## Runs

All with two workers; sizes are distinct states.

| Run | Instance | What it shows |
|---|---|---|
| `durable_store` | 2 instances of one process, 2 event ids, 2 stamps, 1 lease; 3 rows, 2 of them published, 1 pin, `maxEvents` 1; 1.6 million, 2 min | the store implements the reference ledger, except for event ids whose rows are deleted; retention never makes a number committed twice; unique constraints hold over restarts; leases keep their rows; `last_cursor` is current; replay is complete while stamps are in order and nothing is pinned |
| `replay_holes` (violation) | the same without pins, `maxEvents` 2 | retention by the producers' clocks takes rows out of the middle, and a replay over the hole is not refused |
| `control_plane` | 2 instances of one process, 2 sockets, 2 sessions, 1 dashboard, 1 lease, restarts; 270,000, 1 min | the routing tables, the process rows and the v2 flag agree; leases and policies never reach another instance or session; a silent instance ends up dead |
| `session_close` (violation) | the same | the close of a session's socket, seen after the next session has registered, unroutes that next session |
| `orphan_policy` (violation) | one instance, no restart | a dashboard that leaves while the bridge is away leaves its policy armed for ever |
| `command_path` | 2 instances of one process, the first running 2 sessions, 2 sockets, 1 client and the phones, 1 command, restarts; 845,000, 2 min | a command runs once at most, has one result everywhere, reaches the session it names, and is answered unless the daemon restarts |
| `tool_gates` | 2 tool calls with the same id, a context hook, 2 leases, 1 policy; 202,000, 1 min | every hook is answered; after the shutdown nobody waits |
| `tool_rules` | the 2 tool calls, 2 leases, 2 policies in turn; 1.3 million, 1 min | a call runs only as the dashboard that rules it allows; a policy for one call is put to one; an ended lease rules nothing |
| `bridge_delivery` | 2 sessions of one instance, 2 sockets, an outbox of 2 items, events that coalesce and mandatory ones, 1 event in the first session besides the 3 of every session, 1 fault; 718,000, 2 min | what has a number stays until it is committed; a number stands for one event; mandatory events are committed in order and none goes unaccounted for; what is assigned is committed once sockets last |
| `subscriptions` | a queue of 2 frames and 3 bytes, frames of 1 and 2, 6 events, 2 broken sockets; 165,000, 10 s | the checkpoint of a consumer passes no event that it did not get; a consumer that is no further behind than the queue can take catches up |
| `phone_sessions` | 2 processes, of which one has 2 events, 2 tokens, 2 phones, one of them on the daemon's own machine, 2 pids, restarts; 1.4 million, 3 min | a token stands for one process; a phone hears a whole stream; a phone that waits is bound; spawned sessions are remembered, unless a daemon ended with its file incomplete |
| `late_session` (violation) | the same with 1 event | a phone bound after it connected keeps the handler that answers "no session" |

### Bounds and why they are enough

Two instances of one process are where all sharing happens: the process row, the
bridge entry and the v2 flag belong to the process, and nothing in the code
couples processes. Two sockets let a new one be registered while the old one is
not yet closed; a third only repeats that. Two sessions let a runtime be replaced
and its predecessor come back. In the store, three rows let retention leave a
hole (first and third kept), and a restart lose two instances beside a row of a
producer; `MaxPublished` 2 and `MaxRows` 3 cut the rest. `MaxCursor` is also the
code's own limit (`Number.MAX_SAFE_INTEGER`), which the run reaches. One lease
and one policy suffice where a bridge has one policy slot; one command suffices
since ids do not interact. Two calls with one id are what `#pending` can confuse;
two policies let one replace another while a call is under the first. `MaxMissed` 1 in `command_path` lets instances go
stale, and leaves their death to `control_plane`. Symmetry is used for event ids
and instances of `durable_store` only, which checks no liveness.

An outbox of two items and three observations overflows with the three mandatory
observations of one session, by count and by size, keeps a snapshot beside its gap record
or finds no room for it, and is degraded when the next session loads it. Two sessions and two
sockets let handlers of an ended runtime act beside the running one, and a runtime have two
sockets; a third session meets only what the second has left. One fault is one break, one
failing dial, one lost spool or one second connection; the sockets that sessions close or
the daemon refuses come on top and need none. `MaxCursor` is out of the reach of this run:
a daemon that has no cursor left refuses everything, which `durable_store` has. A queue of
two frames is full by count and by bytes; six events let a consumer fall behind further
than it can take, twice. Two phones with one token or two, two processes and a restart are
where assignments can part. Two pids are coupled by their file: what one session's end or
spawn writes has to be right about the other. No phone of the instance has a URL without a
token, which takes a third token and more than 5 minutes; the theorems have it.

All bounds: `MaxRows`, `MaxPublished`, `MaxPins` (store), `MayRestart` (control
plane, phones), `Runtimes`, `MaxMissed` (command path), `MaxArms` (policies, gates),
`MaxRuntimes`, `NumSockets`, `BusySessions` (delivery), `MaxEvents` (delivery, phones),
`MaxFaults` (delivery, subscriptions), `MaxHead` (subscriptions), `Talking`, `Together`
(phones). `MaxItems`, `MaxBytes` and `Sizes` are limits of the code, made small, and
`EventKinds` the kinds of events that occur. The proofs assume nothing of
their values but their types.

### Fairness

`WF(Sweep)` in `ControlPlane`: the daemon sweeps from a `setInterval`, which needs
nobody else. Nothing makes a bridge connect, beat or close. In `CommandPath`:
frames on an open socket arrive and are handled, a socket that one end has
closed is closed at the other, the socket of a runtime that has been shut down
closes (`bridge.ts:92`, after 20 ms), and what Pi is asked to do ends, which the
extension takes for granted. Nothing makes a client send, a bridge reconnect or
a daemon stay up. In `ToolGates`: a released call goes on, and the timers of gates and of
pauses fire. No dashboard need ever decide. In `BridgeDelivery`: frames that have come are
handled, the reconnect timer fires, a dial that is under way and that nothing disturbs makes
a socket, that socket opens, a shutdown gets past its 20 ms, and a socket that either end
has closed closes. Sockets need not last, but there are only `MaxFaults` breaks. In
`Subscriptions`: the loop of a replay goes on, a queue is flushed, a socket that the daemon
has closed closes, frames arrive, and the consumer comes back: the last two are what
"catches up" supposes. In `PhoneSessions`: the interval of 2 s that binds waiting phones.

Deadlock is checked where something can always happen. `ToolGates`, `BridgeDelivery` and
`Subscriptions` may stop: all calls are answered and all leases over, all sessions
delivered, all events received.

## Where code and words part

Four runs find a behaviour that the repository's own words exclude; `PROJECT.json`
quotes them under `findings`.

* `replay_holes`: `retain` deletes by `occurred_at` and around pins, `replay`
  compares with the least cursor left only.
* `session_close`: the close handler cleans up by (process, instance), not by
  socket. `bridge.ts:92` closes the old socket 20 ms after shutdown, so a next
  session that registers within that time loses its route and its state "live"
  until it reconnects, which nothing tells it to do.
* `orphan_policy`: `releaseDashboardLease` tells only a bridge that is connected,
  and no later frame repeats it.
* `late_session`: `tryBindPending` binds a phone and leaves it the message handler of a
  phone without a session, whose answer to every command is `no_session`.

The models contain more of this kind. Each is behaviour the code has, that no property of a
passing run excludes, and that is written down here because the words beside it say more:

* *An instance that was closed cleanly may be reported lost.* The close handler leaves the
  registry's entry behind, the sweep turns the dead row stale again, and a restart then
  records the instance as lost. `restart.test.ts:2` is titled "restart preserves history and
  terminal state and marks live instances lost once".
* *The store forgets an event id with its row* (`store.ts:40`). An id that was committed
  under number 1, deleted by retention and published again under number 2 gets a second
  cursor, where `ProducerLedger` answers a duplicate or `event_conflict`
  (`packages/protocol/src/index.ts:93`). `packages/protocol/README.md:11` tells consumers to
  "use `eventId` and `cursor` to deduplicate". The same number never gets a second cursor
  (`CommittedOnce`).
* *A consumer that is too far behind never catches up.* A replay of more than 256 frames or
  8 MB overflows the sender's queue before its first flush; the socket is closed with 1013
  and nothing was sent, at every retry. `CatchesUp` supposes that what is missing fits
  (`packages/protocol/README.md:11` has no such limit).
* *A lost spool.* The next session numbers from 1. While the daemon expects more than
  has been numbered, `resumeFrom` throws `resume_conflict` at every reconnect; once the
  numbers have caught up, the events below the daemon's next number are taken for
  acknowledged and are gone. The comment at `outbox.ts:45` says that such a spool
  is reported "through a later gap". `SpoolKept` is the premise of two invariants for this reason.
* *A degraded outbox may stay so.* Only an assigned gap record sets the number at whose
  acknowledgement the outbox recovers. A registration or an acknowledgement that is handled
  after the shutdown has overflowed the outbox writes the flag to the spool while the record
  is still pending, and lost; the next session's outbox then takes mandatory events only,
  until it overflows in its turn.
* *What is pending when a session ends disconnected is lost*; only what has a number is in
  the spool. `MandatoryAccounted` speaks of a session that lasts.
* *Two sockets of one runtime.* `ensureConnected` does not look at the reconnect timer or at
  a dial under way. The two sockets answer one another's frames, since every handler writes
  to the variable `socket`; the daemon refuses the second hello or registration and closes
  one, whose reconnect may start it all over. `AssignedIsCommitted` supposes that nobody does
  this. The socket that is no longer `socket` also survives the shutdown.
* *Deltas change places.* A delta is merged into the one that is pending, also over
  mandatory events that came between; `CommittedInOrder` is about mandatory events.
* *A closed phone that was bound late stays in `v2Clients`* ("leaked"), and issued tokens
  are not accepted after a restart, although their assignments are kept.
* *Phones with no token in their URL share one assignment*, that of the verifier of
  "loopback" (`daemon.ts:53`, `http-server.ts:104`), whichever process the token of their
  header was issued for and whatever token a bypassing phone leaves out. `OneProcess` is about
  verifiers and holds of this one too.
* *Running sessions may be forgotten.* When the write of `spawned-sessions.json` fails or is
  cut short (`http-server.ts:26` swallows it, as `:27` does a file that it cannot parse), or the
  daemon dies between the spawn (`:49`) and the write (`:53`), and no later write succeeds
  before the daemon ends, the next ones neither list nor close the session.
  `SessionsRemembered` excludes exactly these (`lost`).
* *A pid is trusted.* `/admin/sessions/close` signals whatever runs under the pid by now.
  A spawn whose command is missing raises an `error` event nobody listens to, which ends
  the daemon (`Restart`).

## Proofs

Checked by TLAPS for all values of the constants that satisfy the named
assumptions (`InstanceAssumption`, `StoreAssumption`, `ControlAssumption`, `CommandAssumption`,
`GatesAssumption`, `SubscriptionAssumption`, `PhoneAssumption`, `OutboxAssumption`,
`DeliveryAssumption`: finitely many instances, each with one process; the values that mean
"nothing" are none of the real ones; bounds are numbers). Finiteness of `Insts` is used where a
restart numbers the instances it lost, and where the newest live row is looked up. All safety
invariants and action properties that runs check are theorems.

*`NumberSetsProofs`.* Sets of numbers with a bound have a least or greatest element; and
`AscendingEnumerates`: `Ascending` goes through all of a finite set from below. The rank of an
element, the number of those up to it, is an injection into 1 .. n and so a surjection.

*`EventLedgerProofs`.* `LedgerInvariant`, and from it `LedgerPromises`: cursors
dense, numbers admitted once, producers' order. The invariant adds to the
promises that a producer's admitted numbers are exactly those below the next
expected one, without which a step could not exclude a second admission. None of it needs
event ids, so both theorems hold of `NumberedSpec` as of `LedgerSpec`.

*`DurableStoreProofs`.* `StoreInv` conjoins the type invariant with `RowsUnique`,
`LeasedRowsKept`, `LastCursorCurrent` and two strengthenings: `RowsBounded` (no
row's cursor is above `head`, and no number below `-head`) and `LeasesCover` (what a
lease promised lies at or above its minimum). `RowsBounded` is why a new cursor is
fresh, and why the least number of a restart's records exists, one below which
`LostSequenceFresh` finds the next one unused.
`StoreImplementsLedger` is the refinement: an append is a `Commit`, a restart a
`Noting`, everything else a stutter. That an append's id is new to the ledger is what the
look-up by `event_id` says of the rows left and `RecallsIds` of those deleted. Without
`RecallsIds` every step still is one of `NumberedNext`, and from that ledger
`StoreCommittedOnce` is read off, not proved about tables again. `StoreOrderedReplay` has an invariant of its
own: while nothing was pinned and stamps are in order the table is a suffix of
the history, so the least cursor left tells all.

*`CommandPathProofs`.* For the control plane `PlaneInv` is the conjunction of the checked
invariants: it is inductive as it stands, but only together (`PolicyReachesGrantee` needs
`LiveHasBridge` for the session of the socket, which needs `RoutesOpen`). What its steps do to
sockets and rows is the same under both specifications.
For commands `PathInv` is `PlaneInv`, `RowidsBounded` (a newest live row exists, so
`getProcess` answers an instance of the process) and `CommandInv`. That adds to the checked invariants `FramesOpen` (frames are under way
on open sockets only) and `SentOnce`: a command without a row has no frame and no
execution, no two frames carry one command, and a command under way has not been
executed; the row is what survives a restart, and it is why a retry is never sent
again. `RowSteps` says what a step may do to a row, each action is shown to obey it,
and `PathImplementsLedger` needs nothing more. `PathReachesSession` uses
`LiveHasBridge` and `RoutesOpen` of the control plane.

*`ToolGatesProofs`.* `Inv` adds two facts to the checked invariants. `Unasked`: a call
that has not been put to a dashboard is under no policy, and answers are there only for
calls that have their verdict, so the first answer settles. `ArmsCounted`: if a call is
under the policy that is armed, that policy is there to stay and the call is under
exactly it, which is why a policy for one call finds no second one. Most steps settle some gated
calls and let paused ones go; `SettlingKeeps` treats them together.

*`SubscriptionsProofs`.* `SubInv` is about the stream of cursors a consumer will get if its
socket lasts, what is on the wire followed by the queue: it ascends from the checkpoint and
leaves out nothing between the checkpoint and any of its own (`Seamless`), and while the
socket is open it holds all that is wanted, with what the replay has yet to deliver
(`Covers`). Once the daemon has closed the socket the queue no longer counts, for it
may lack a dropped event; the wire alone stays seamless, which is why what still arrives does
not take the checkpoint past the drop. `SeamlessTail` and `SeamlessAppends` carry the two ends.

*`PhoneSessionsProofs`.* `PhoneInv` says where processes come from: what memory assigns to a
token is what the disk does, phones and their handlers are bound to what the disk says of
their token, and whatever a token ever had to do with is that process. The disk never
changes an assignment (`DiskKept`), so `PhoneOneProcess` outlasts restarts, which
empty the memory. `HeardInv` is about streams: a phone without a process has heard nothing, so
that the history it is sent when it gets one starts its stream, and what a phone has heard
is ascending, goes no further than its process has committed, and has all that is retained
(`Whole`). `WholeHistory` and `WholeAppend` say so of the history and of the next live event;
`PhoneStreamWhole` follows. `PhoneSessionsRemembered` needs that `spawned` is part of the file while `saved`, so that a
daemon that ends then leaves nothing out for the next, and that a child whose exit is heard
still is one of the daemon's own.

*`BridgeDeliveryProofs`.* None of the checked invariants is inductive: a step that a late answer
starts in an old outbox keeps them only if what is still under way agrees with the outboxes, the
file and the store. `DeliveryInv` says that in two halves.

`WireInv` is about sockets and order, whatever the frames carry. A runtime that was replaced
has no open socket (`Gone`), frames are on sockets that are in use and belong to a runtime
(`OwnedSockets`, `HeldFrames`), and frames of an earlier runtime are before those of a later
one: on the way to the daemon, on the way back, and from the one to the other (`InTurn`).
A runtime that has been registered, and one of which a batch is under way, therefore has no
frame of a predecessor left to meet (`Leading`). Outboxes and file are well-formed, each number
below the next one (`Boxed`).

`DataInv` is about what the frames carry. The store keeps the promises of `EventLedger`
(`StoreInv`, whose steps are those of `EventLedgerProofs`). Every outbox that can still act,
and the file, `Follows` what is under way and in the store: a number both have means the same
event, what it has yet to send comes after all that was sent or committed (mandatory items
ascend), and while the spool is kept it has every number from the one the store expects
next (`Keeps`). The rest says what that needs: batches under way are still in the outbox of
their runtime (`Backed`) and clash with nothing in the store (`Unclashing`); answers under way
acknowledge only what is committed (`Answered`), and who is registered knows what the store
expects (`Resumes`); observations are old when they are numbered (`Old`); mandatory ones are
somewhere (`Accounted`). Each method of the outbox gets one lemma that it preserves `Follows`
(`FollowsObserve`, `FollowsAssign` …), and each action a proof for either half. The promises are conjuncts of `DataInv` or follow in a few lines: a number below the
next expected one is in the store, so that no acknowledgement drops what is not.

Only model-checked: the liveness properties (`SilentEndsDead`, `SentIsAnswered`,
`EveryCallEnds`, `AssignedIsCommitted`, `CatchesUp`, `PendingGetsBound`), which are beyond
the prover, and the violations.

## Not modelled

* *The Android client.* Its state lives in callbacks of OkHttp and of Android's main
  handler. The repository has neither, nor a test that runs them; a model would rest on
  assumptions about both. What a reading shows is listed under `hazards`: callbacks that
  never ask whether their socket is still the current one, a flag that swallows the wrong
  close, reconnects that nothing withdraws, settings read from the wrong keys.
* *The instance lock.* Its steps are file-system calls of several processes, and a model would
  be one of the file system. Two daemons that reclaim one stale lock may both hold one; the
  port, which one of them can listen on, decides.
* *Authentication* (digests, failure counters): sequential, covered by its tests.
  `PhoneSessions` has which tokens are accepted and whom the loopback bypass lets in.
* *Frames and data*: schemas, parsing, redaction, the translation between v2 and v3, the
  mapping of Pi's hooks, attachments, pairing text. Stateless.
* *The command line, the configuration, the daemon's start by a bridge, the set-up page,
  logging*: I/O. `BridgeDelivery` has a dial that fails; whether a bridge has a daemon to
  talk to is `reached`.
* *Within modelled parts*: what commands do in Pi and the eviction of the 1025th cached
  answer; the delays of reconnects; what `ReplaySubscription` could buffer under an
  asynchronous replay, which the daemon does not have; `CursorStore.snapshot` and
  `BoundedPendingQueue` of the protocol package, which nothing uses; SQLite's own atomicity,
  which is taken as given; Pi itself.
