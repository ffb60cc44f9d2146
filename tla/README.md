# ghost-browsers: a verification project

ghost-browsers runs Camoufox browsers as a service.  A **runner** keeps
pre-started browsers ("workstations") and hands them to *sessions*; a **gateway**
discovers runners, chooses one for each session and mirrors their sessions; a
**VNC gateway** relays operators to a session's screen; **workers** take jobs
from a queue and run them on a session; a web **UI** watches it all.  This
directory holds TLA+ models of the parts of that program whose correctness
depends on interleaving, failure and order; TLC checks them on small instances
and TLAPS proves theorems about them for all values of the constants.

Paths below are relative to the repository's root.

## 1. Inventory

### Runner (`services/runner/app`)

* **Warm pool** (`warm_pool.py`, `browser.py`).  State: one `_WarmSlot` per
  workstation (state, browser handle, launch environment, `asyncio.Lock`) and the
  pool's `_draining` flag.  Operations: `start`, `reserve_slot`, `mark_busy`,
  `cancel_reservation`, `release_slot`, `drain`, `drain_slot`, `enable_slot`,
  `restart_slot`.  Recycling kills a browser, makes a temporary directory,
  launches with bounded retries and back-off and may navigate to a prewarm page.
  Hard: slots are picked before their lock is held; recycles keep the lock over
  long awaits that fail; a launched browser belongs to no slot until its prewarm
  has succeeded; a launch may raise with the browser running; `drain` runs against
  recycles.  Correct when: the pool orphans no process, two slots never share one, a browser that served a tenant is never
  offered again, no slot stays RECYCLING with nobody at work, drained means empty,
  every call returns.
* **Session manager** (`session_manager.py`, hooks and handlers of `main.py`).
  State: sessions, browser handles, warm-slot bindings, VNC handles, an active
  counter, one lock; a reaper task.  Operations: `create_session`,
  `update_session` (with `end_session` and `touch_session` as calls of it),
  `reap_expired_sessions`, `start`, `stop`.  Hard: five acquisitions in turn, each
  of which may fail with the earlier ones to be undone; state stored before the
  clean-up that may raise; a sweep that collects under the lock and ends outside
  it; a shutdown in several holds of the lock, against that sweep.  Correct when: the counter is exact, nothing a session held
  outlives it, one session per workstation, idle sessions end, the lock is given
  back.
* **Workstation API** (`routers/workstations.py`).  Operators call the pool
  directly, without the manager's lock and without knowing its sessions.
* **VNC pipelines** (`vnc.py`).  Deques of free displays and ports; helper
  processes started one after the other.  Hard: failure half-way, helpers that die,
  a clean-up that may raise itself.  Correct when: a display or port is never given
  twice and comes back, and no helper outlives its pipeline.
* **Session events** (`events.py`).  Publishers that post an event to the gateway
  or hand it to a callback; the manager publishes under its lock.
* **Settings, flags, configuration**: parsing; no state.

### Gateway (`services/gateway/app`)

* **Runner registry** (`services/runner_registry.py`): runners, round-robin cursor,
  websocket bindings.  **Session registry** and **session API**
  (`services/session_registry.py`, `routers/sessions.py`): handlers read the
  registry, call a runner, and write the registry.  **Discovery and maintenance**
  (`services/discovery.py`, `services/runner_health.py`, `main.py`): a loop that
  refreshes, probes and purges.  **Runner client**: HTTP with time-outs.
  Hard: every handler holds stale reads over a call; a lost answer leaves a
  session only the runner knows; removal races with creation.  Correct when:
  selection is fair, no binding outlives its session, a runner that is gone leaves
  the rotation, and its sessions go with it.
* **Websocket relay** (`services/runner_ws_proxy.py`): the client of a session's
  control channel and the runner's socket, one task per direction.  Hard: which end
  of which task ends the relay, and what the client is told.  Correct when: nothing
  is held after the end and no client is left waiting.
* **Event streams** (`routers/events.py`, `packages/core/core/websocket_bridge.py`,
  the `SessionEvent` of `packages/core/core/models.py`).  State: a queue per
  subscriber and the latest event.  Correct when: what a subscriber reads is a
  contiguous end of what was published.
* **Workstation catalogue**: a dictionary under a lock.  **Authentication and VNC
  tokens**: signatures and claims.

### VNC gateway (`services/vnc-gateway`)

A relay like the gateway's, with time-outs for frames and sends, forwarded HTTP
requests, and a registry that counts the connections under way.  Hard: an exception
in one of two tasks of a TaskGroup, time-outs against frames and closes.  Correct
when: the counts are those of the connections under way, both sides end, and the
client is told why.  A token validator is created per request.

### Worker (`services/camoufox_worker/worker`)

* **Job queue** (`queue.py`, `main.py`): three backends (memory, Redis streams,
  AMQP); a consumer that executes, acknowledges, retries or rejects, and an
  in-memory idempotency registry.  Hard: crashes between execution and
  acknowledgement, broker calls that fail after they were carried out, messages that
  do not decode.  Correct when: an unsettled job is somewhere exactly once, an
  acknowledged one was done, and every job is settled.
* **Orchestrated jobs** (`runner_orch.py`): create a session, set its proxy, poll it
  to readiness, touch it, delete it; each request with retries.  Hard: lost answers,
  a session that dies under the poll, a deadline.  Correct when: a session is left
  behind only for a reason, and the job ends.
* **Native jobs** (`runner_native.py`): one sequential call.  **Service front**
  (`service.py`): forwarded requests and a third websocket relay.

### UI (`apps/ui`) and `camoufox`

The UI's tab merges an event stream, with reconnection, into a cached list of
sessions that it also refetches, and into which its own updates' answers are
written.  Correct when: one stream is open at most, and the list is right again and
again.  `camoufox` is thin wrappers.

### How the parts interact

The session manager calls the pool and the VNC controller while it holds its
lock.  Operators call the same pool from another router.  The gateway and the
workers call the runner over HTTP.  Events flow runner -> gateway -> UI.  All
Python services are single-threaded asyncio programs: code between two awaits is
atomic, and everything else interleaves.

## 2. Modules

| module | what it is |
| --- | --- |
| `WarmPool` | `WarmPoolManager`: slots, locks, browser processes, the tasks inside its methods |
| `WarmPoolInv` | the inductive invariant of `WarmPool` |
| `WarmPoolProofs` | the theorems about `WarmPool` and their proofs |
| `SessionManager` | `SessionManager` composed with `WarmPool` (INSTANCE), operators, reaper and hooks |
| `VncPool` | the runner's displays, ports and helper processes |
| `RunnerRegistry` | the gateway's runners: round robin, discovery, probes |
| `Gateway` | the gateway's sessions and websocket bindings, commands to runners, purge, restart |
| `SlotLifecycle` | abstract: the life of a workstation, without locks, tasks and awaits; `WarmPool` and `SessionManager` implement it |
| `JobLifecycle` | abstract: the life of a job, without queues and consumers; `Worker` implements it |
| `GatewayProofs`, `VncPoolProofs`, `RelaysProofs`, `WorkerProofs`, `SessionEventsProofs`, `SessionManagerProofs`, `RunnerRegistryProofs` | for the module each is named after: the inductive invariant, the theorems and their proofs |
| `JobQueue` | the consumer loop, the idempotency registry, the three backends, crashes and restarts |
| `OrchestratedJob` | `run_orchestrated_job` against the gateway: requests, retries, deadline, clean-up |
| `Worker` | `JobQueue` composed with `OrchestratedJob` (INSTANCE, one execution per consumer) and native jobs |
| `Relays` | the three websocket relays and the VNC gateway's HTTP forwarding and connection registry |
| `SessionEvents` | the registry's changes, the event bridge, the stream, the tab's hook and cache |
| `MCWarmPool`, `MCSessionManager`, `MCVncPool`, `MCRunnerRegistry`, `MCGateway`, `MCWorker` | the instances TLC checks: symmetry, the view, the jobs |

Operators commented `Fault:` are plausible wrong versions of the definition that
follows them.  No specification uses them: each is there so that one can swap it
in and see the property that catches it fail.

### WarmPool and `warm_pool.py`

A *client* is an asyncio task in one method; `op`, `pc` and `target` say which
method, where and on which slot.  `lock`, `state`, `handle` and `draining` are the
fields of the same names.  `live` is the operating system's view: the processes
that run, whether or not anybody holds a handle.

* `Call`, `CallReserve`, `CallDrain`, `CallStart` begin a method up to its first
  lock; `CallReserve` also reads the slot's state, *before* the lock, as
  `_select_idle_slot` does.  `Refuse` and `Accepted` are the check under the lock.
* `Switch` is a method without an await under the lock (reserve, busy, cancel): one
  step.  `Enter` begins one that keeps the lock (release, enable, restart, both
  drains); `Teardown`, `MakeDirectory`/`DirectoryFails`, `Spawn`/`SpawnFails`,
  `Prewarm`/`PrewarmFails` are its awaits, each with its failure.
* `SpawnLoses` is the launch that raises with the process running: `launch_browser`
  reads one line of the process's output (`browser.py:182`), `readline()` raises
  `ValueError` when the line is longer than the stream's limit, and only the time-out
  is handled.  `_attempt_launch` takes it for a failed attempt.  `lost` remembers the
  process until it exits.
* `NextSlot`, `LoopDone` are the loops of `start` and `drain`; `start` provisions
  without locks, as the code does, and `Begin` lets nobody call before it returns,
  because the web server serves only after the start-up hook.  `StartFails`: the
  directory of a slot is made outside the loop's handler, so `mkdtemp` ends `start()`
  (place "failed") and the application with it.
* `BrowserExits`: a process dies on its own; the runner has no watcher.

`used`, `stranded`, `drained`, `reenabled` and `lost` are history variables: they
decide no step of the pool's methods, except that `CallStart` needs a `drain` to have
returned.

The lock is a variable and a waiter is a task whose lock-taking step is not enabled.
The order in which waiters are woken is left open for safety, and for liveness is
the fairness below.

### SessionManager and `session_manager.py`

`create_session` and `update_session` hold the manager's lock from beginning to
end, so a task that waits for it is a task that has not begun, and `CreateBegin`,
`Update` and the reaper's steps are enabled when it is free.  Under the lock
`mpc` follows the awaits: reserve / reserving (pool), cold (launch), build, marking
and cancelling (pool), store, created (publisher), undoing (pool) for a create;
release / releasing (pool) and publish for an update.  At each of them operators
and the pool's own recycles interleave.  Work under the lock that nothing else can
observe (killing a cold browser, releasing a VNC pipeline) is part of the step
before it.

INIT, READY and TERMINATING are one status, LIVE: the code tells only DEAD apart.
Session times are a flag, `idle`: the TTL has passed.  `Payloads` are the
combinations of status, endpoint and VNC change that `update_session`
distinguishes; DELETE is `EndPayload`.

The release of a VNC pipeline can raise what a log reader of its helpers died of
(`VncPool` tells when; the helpers have ended by then).  In a create's clean-up that is
suppressed or replaces an error by another; in an update (`UpdateRaises`) it skips
the release of the workstation and the publication, and a dead session keeps its
workstation, which nothing releases later.  `botched` remembers such sessions.

`Main` is the task of the start-up and shutdown hooks.  `stop()` is several steps,
because it takes the lock three times and awaits in between: `StopBegin` is its first
hold; then the reaper is cancelled.  It may sleep or wait for the lock
(`ReaperCancelled`), but a reaper that waited in the middle of a sweep was woken when
`stop()` gave the lock back: it has its turn before the cancellation arrives, which then
comes out of the first await of its update (`ReaperCut`).  What the update did before
that await is done, and what comes after it is not; `cut` remembers sessions that lost
a part of their end that way.  `StopCleansUp` kills the cold browsers, forgets the
handles and begins the drain; `Stopped` forgets the reservations and releases the
pipelines.  If the reaper had died of an exception, or dies of one in that last turn,
leaving the task group raises it and `stop()` ends there (`StopRaises`, phase
"aborted").

`StopBegin` waits for idle requests and operators: uvicorn closes the listeners and
lets the requests in progress end before it runs the shutdown hook
(`services/runner/Dockerfile:93`, `main.py:305`).  When a dead reaper's task group
cancels the start-up task that opened it, which is a matter of anyio and Starlette and
not of this code, the hook runs at once; that way into `stop()` is not modelled.

An operator may call any method of the pool on any slot: the API checks nothing, and
the pool knows no owners.  `opHeld` are the slots an operator has reserved and not
given back.  When the pool accepts busy, cancel or release from an operator for a slot
that is not among them, the slot goes to `intruded` (`RecordsIntrusion`), and
`WorkstationExclusive` and `ReservationHasOwner` speak of the other slots: they hold of
every slot up to that moment, and of the others for ever.  No other property mentions
intrusions.

### VncPool and `vnc.py`

`displayPool`, `portPool`, `wsPool` and `active` are the pool's deques and set.  A
caller's `pc` follows `allocate()`: start Xvfb, wait for its socket file, start
x11vnc, start websockify, wait for its port; `started` is the length of its list of
processes.  `SpawnFails` and `WaitFails` lead to the `except` (`undo`), `Release` to
`close()`; `Kill` ends the helpers last first and `Undone`, `UndoRaises` and `Closed`
are what follows.  `HelperExits`, `XvfbOpens` and `ReaderDies` are what happens by
itself: a `_drain_stream` task dies of a line beyond the stream's limit, and raises
again where it is awaited.  In `allocate()` that skips `pool.release`
(`UndoRaises`, remembered in `stranded`), in `close()` a `finally` covers it.

### RunnerRegistry, Gateway and the gateway

The registries' locks are `asyncio.Lock`s never held over an await, so taking one
does not suspend, and the code between two calls of a runner is one step.

`RunnerRegistry` has `order` and `cursor`, and of each stored snapshot whether the
runner was healthy and which requests it admits.  `SelectNext` is selection with
its fall-back to unhealthy runners; `Refresh` is discovery, with the upserts and
the removals: `Orders` are the rotations they can leave (those that stay keep their
order, those that come follow), and `CursorAfter` is the cursor after all of the
removals, in closed form; `Probe` records health.  `Gateway` has what the registries know of
sessions: `listed` (`SessionRegistry`), `bound` (websocket bindings), `known` and
`gone` of discovery, and per request where its handler is (`Send`, then
`RunnerHandles`, then `Answered` or `Deleted`; `Rejected` and `TimesOut` are the
502s).  The rewriting of a session's VNC details with its runner's templates can raise
a validation error (`vnc_overrides.py:73`) between a handler's two writes:
`RegisterInPart` has made the binding of a session that is then not listed (`half`
remembers it until it is stored), `DeletedInPart` has dropped the binding of one that
stays listed.  `remote` is the truth on the runners; `late` are creations a runner will
still carry out after the gateway gave up.  The two modules share the maintenance
loop: each keeps the part of its state that the other abstracts (`Gateway` lets a
create go to any registered runner, and has one stage for all probes).

### JobQueue, OrchestratedJob, Worker and the worker

`pc` of a consumer follows `poll_once`: polling (in `receive`), received (the depth
gauge), skipping (a known key), executing, succeeded, failed.  The backends differ
in `held`, the entries delivered and not settled: a dead process's are gone with it
in memory (which the model does not crash: nothing outlives it), pending for ever
on Redis, whose `receive` asks only for new entries, and given back by RabbitMQ.
RabbitMQ also takes back what a *living* process holds when its connection is lost:
`connect_robust` (`queue.py:669`) makes a new one, and the consumer does not notice
before it settles (`ConnectionLost`).  Until then its delivery is `Stale`: it executes
beside the next holder, and its ack or reject raises (`SettleStale`) and ends it.
On Redis `Dispatch` goes no further than the log line: the delivery tag is bytes, which
`json.dumps` refuses (`queue.py:366`, `:114`, `:571`), so `run()` ends with the entry
pending, and no job is ever executed there.
`Undecodable` messages raise after they were delivered and end the consumer
(`ended`: `run()` is left, the process is still there).  `CallFails` is a broker call
that raises, carried out or not.  `Requeue` is two actions in one, because only
the memory backend gets as far as queueing (finding 3).  `fate`, `runs` and `wins` are
history; `Publish` sends each job once, in a given order.

`OrchestratedJob` has, per execution, the request it is at and the attempts used.
An answer may be lost after the gateway carried the request out; a lost create
leaves a session nobody knows (`orphans`, history).  `SessionMoves` is the runner's
side.  A READY session ends the poll, a DEAD one is polled to the deadline, as the
code does.  `Worker` starts an execution when a consumer dispatches an orchestrated
job and returns its result to the queue; a process that dies abandons both.

### The abstract specifications

`SlotLifecycle` has a slot's public state, its browser and the browsers that served
a tenant.  A slot is reserved, taken, retired, gives up its browser and only then
gets another, unused one, or fails; slots change one at a time, except when `start()`
builds them all anew (`Rebuild`), and a process name is free again once no slot has it
(`Rename`).  Both `WarmPool` and `SessionManager` map `state` and `used` to themselves
and `browser` to `handle`, and every lock, place and launched-but-unowned browser to
nothing.

`JobLifecycle` has what became of a job, whether it is being executed, how often it was
and whether one execution succeeded.  A job is executed by one holder at a time, and
settled once, never while its holder executes it, with a verdict that is true: as done if
it was done, as a duplicate if a job with its key was, given up only after a try.  A job
can be withdrawn from its holder, who works on without knowing it (`loose`): such
executions may overlap others and outlast the verdict, but settle nothing.  `Worker`
maps `running` to the jobs executed by consumers that hold them (`Running`), `loose` to
those whose delivery is stale (`Loose`), and the three backends, deliveries and the
gateway to nothing.

### Relays and the three relays

A connection has a client, an upstream, two tasks (`c2r`, `r2c`) and a phase.  The
kinds differ where the code does: the worker accepts before it looks the session
up; the VNC gateway bounds waits and sends, and ends quietly when the runner
closes; the worker closes its client in a `finally`; the gateway closes it after an
error code only, because `async for` swallows the normal close and the handler
for it is never reached.  A runner that is lost without a close frame (`lost`) has code
1006, which must not be sent: the gateway's close raises (`refused`), application_state
is DISCONNECTED by then, and the router takes the client for closed (`Muted`).  One frame per direction may wait.  `Join` is the
TaskGroup or `asyncio.wait`, `Farewell` what the code around it tells the client.

### SessionEvents and the way to the screen

A session is the number of its last change.  A handler's write and its publish are
one step (no await between them suspends: locks are never held over one and the
queues are unbounded), except where an error comes between the two
(`StoredUnpublished`: the registry has stored the session, and `SessionEvent` refuses
the created event of one that is DEAD or TERMINATING, models.py:862, or the enrichment
after an update raises).  A late update lists a deleted or purged session again
(`Change` asks nothing of the registry), and a runner reports events of any session.
`stream` is both ends of a connection: the browser's side (opening, open), and
whether the gateway's iterator has subscribed.  `RunEffect`, `Disable`, `OnError`,
`OnOpen` and `TimerFires` are the hook's; `TakeFetched` replaces the cache,
`TakeReply` is the answer of a proxy update.  The list is asked for at any time
(`StartFetch`: mounts, invalidations), by the interval only in a `visible` tab
(`Refetch`), and at once when the tab is shown again (`Show`).  `excuse` is history: why
an entry may be out of date.

## 3. Runs

| run | instance | shows |
| --- | --- | --- |
| `warm_pool` | 2 slots, 2 clients, 3 browsers, 2 attempts; symmetric | the six safety properties of the pool; it implements `SlotLifecycle` |
| `sessions` | 2 sessions, 1 request task, 1 operator (reserve, busy, cancel, release, of any slot), 1 slot, 2 browsers, 1 launch attempt, all modes, stop and restart | the eight safety properties of the manager |
| `sessions_live` | 1 session, 1 request task, 1 operator (every call but busy), 1 slot, 1 browser, 2 attempts, hybrid | idle sessions end while the reaper lives; the lock is given back; the pool's calls return, recycling ends |
| `sweep_race` | 1 session, cold-only | finding 1 |
| `reaper_death` | 2 sessions, no operator | finding 2 |
| `vnc_pool` | 3 callers, 2 displays, 3 ports, 2 websocket ports; symmetric | pipelines are conserved and owned |
| `runner_registry` | 3 runners, 1 configured; symmetric in the others | cursor in range, fair turns |
| `gateway` | 2 runners, 1 configured, 1 session, 2 requests | bindings, orphans, removed runners |
| `worker` | 2 consumers, 3 jobs (native, orchestrated, malformed), 2 attempts, 1 fault, 2 sessions, 1 retry; each backend | jobs, executions and sessions left behind are accounted for; jobs are settled; it implements `JobLifecycle` |
| `job_retry` | 1 consumer on AMQP, no fault | finding 3 |
| `relays` | 2 connections of each pair of kinds | ends, counts, what clients are told |
| `session_events` | 2 sessions, 2 streams of one tab, 2 events, 1 reconnection in a row | queues, streams, the cache |

**Safety of the pool.**  `BrowserOwned`: each running process is a slot's or in
the hands of the task that launched it, or else one that `launch_browser` lost, and
those nobody has.  `OfferedHasOwnBrowser`: a slot that can
be reserved, or is, has a browser and shares it with none.  `TenantIsolation`: a
browser that was busy is never offered again.  `RecyclingHasWorker`: RECYCLING,
which no method accepts, always has a worker, except after the temporary
directory's factory raised, which is the hole the code has (`stranded`).
`DrainLeavesNothing`: after `drain` only slots enabled again have browsers.
`ImplementsLifecycle`: each step of each task is one step of one slot's life, or none.

**Safety of the manager.**  `ActiveCountExact`: the counter is the number of
sessions that are not DEAD, through rollbacks, repeated ends and revivals.
`NoLeakedBrowser`, `NoLeakedVnc`: each process has an owner whichever step failed; the
exceptions are the browsers that `launch_browser` lost and the helpers of a session whose
end `stop()` cut off.  `GoneHoldsNothing`: between two holders of the lock a dead or
unstored session holds nothing, except a workstation after the release of its pipeline
raised, and what `stop()` cut off.  `WorkstationExclusive`: while the runner serves, a
session's workstation is busy with that session's browser, and no one else's, and
`ReservationHasOwner`: no reservation is lost - both of the slots no operator has
intruded on.  `StopLeavesNothing`: a `stop()` that returns leaves no process but lost
browsers and cut-off helpers.  Each exception is a history variable set only where the
code has the step it stands for, and the theorems need it: without the exception TLC
finds the behaviour.

The type invariants of `Worker` and of `VncPool` are theorems and not in the runs, and
neither is `SessionManager`'s `ImplementsLifecycle`: its run's VIEW leaves out `used`,
which the refinement speaks of.  TLC has checked it on that instance without the view.

**Pipelines.**  `Conserved`: the deques, of different lengths, and the triples given
out always partition the configured ranges, so none is shared or lost.
`PipelinesHaveOwners`: a triple is some caller's, or lost by a clean-up that raised,
and no helper runs on a display that is free.

**Gateway.**  `TypeOK` of `RunnerRegistry` has the cursor inside the rotation through
any removal.  `TurnsAreFair`: no runner is chosen twice while one that could have
served every request waits; it counts anew after a removal, because the code does
not move the cursor back when a runner in front of it leaves, and so may skip one.
`BindingsHaveSessions`: no websocket binding outlives its session, whatever order
answers, deletions and purges come in; a binding without a session is one of a
registration that raised half-way.  `OrphansAreKnown`: a session is listed
without its runner only while its purge is due, or for one of the two reasons the
code has: it was stored after the runner left, or a probe that raised skipped the
purge.  `RemovedRunnersLeave`: discovery's word reaches the registry.

**Worker.**  `JobsAccountedFor`: an unsettled job is in exactly one place, through
crashes, redelivery and retries, and a settled one is nowhere.  `AckedWorkWasDone`:
done means executed with success, skipped means that a job with the same key was.
`RunsMatchBackend`: how often a job can be executed, which is never on Redis, and once
more per fault (crash, lost connection, failing call) on RabbitMQ because a redelivery
is no attempt.
`LeftoversExplained`: a session the gateway lists has a job that will delete it, or
was orphaned by a lost answer, a failed delete or a dead worker; a success has
deleted its session.  `JobsSettle`: on the memory backend and on Redis every job is
settled, unless all consumers stopped or it is pending on Redis in hands that will not
come back to it, which is how every delivery ends there.  On AMQP
nothing of the kind holds: a message that does not decode returns to the head of
the queue and ends one consumer after the other.  `ImplementsLifecycle`: each step is
one step of one job's life, or none; an execution that begins while another holder of the
same job executes it, a verdict by one who lost the job, a second verdict or one that is
not deserved would be neither.

**Relays.**  `EndedHoldsNothing`: after the end no connection, task or count is left.
`ToldUnlessEscaped`: a client that is still there was told, except when an exception
escaped in its group on the VNC gateway, or the gateway's close of it was refused.
`RunnerCloseReachesClient`: the runner's close gets through, unless an exception
escaped; on the gateway's channel only if it had an error code.

**Events.**  `StreamsAreTails`: a subscriber's queue is a contiguous end of what was
published.  `OneStream`: a tab has one source or one timer.  `DivergenceExplained`:
when a followed stream is drained, an entry that is out of date missed its event
while the tab was not subscribed, was overwritten by an older list or answer, or the
registry changed without an event.  `CacheCatchesUp`: the list is right again and
again, whatever the stream does, unless the tab stays hidden from some time on, or stays
visible and what the cache is told postpones the refetch for ever: react-query begins the
15 s anew with every write.  Both exceptions are needed.

### Bounds, and why they are enough

*Two slots, two clients* are what a property about two slots sharing a browser, or
about a task on one slot while another drains, needs; a third client only waits.
*Three browsers* give each slot one and one launch in hand; names are reused when
a process is gone and nobody remembers it, so runs of any length fit.
*One request task* is enough in `SessionManager` because its lock lets in one task
at a time: a second would only choose who is next.  *One slot* makes the operator,
the reaper and the request contend for it.  *Two sessions* let one hold what the
other wants.  `Sessions` bounds how many are ever stored; a create that failed
gives its identifier back.  In `sessions` the pool allows one launch attempt
(`warm_pool` covers the retries), and `OperatorCalls` are the four that touch whose a
slot is; restart, enable and drain of a slot, which never ask for a reservation, are in
`sessions_live`, where `busy` is left out because it waits for no slot's lock and starts
or ends no process.  `Restartable` lets `start()` come again, in `sessions` only.  The VIEW of `MCSessionManager` leaves out
what decides no step and no property of that module: the pool's histories `used`,
`stranded` and `reenabled`, an operator's hold of a slot that was intruded on, the idle
time of sessions once the reaper is dead, and a failed end without a workstation.

*Three callers* on two displays refuse one and reorder the triples.  *Three runners*
are the least with one skipped, one chosen and one waiting.  In `Gateway` sessions
meet only in their runners, so *one session* with *two requests* about it has all
races; *two runners* let one leave while the other answers probes.

*Two consumers* let one take what the other left.  *One fault* is one crash or failing
call anywhere; it already separates the backends, and the AMQP bound of
`RunsMatchBackend` is stated in the number of faults.  *Two attempts* and *one retry*
have a first, a last and one beyond.  *Two connections* share a count; more only add
to it.  *Two events* are one missed and one replayed, or one queued behind another,
or one overwritten by an older list; stores that publish nothing count among them, and
each session has one of these at most.
*Two streams* are the current and the one still closing.

### Fairness

In `Gateway`, `WF` of the maintenance loop's steps: its HTTP clients have time-outs,
it catches every exception, and discovery is assumed to answer again and again.  No
request, no runner's answer and no restart is assumed.  In `Worker`, `WF` of a live
consumer's steps and of its poll's deadline: its awaits time out.  In `Relays`, `WF`
of each ready task and of the VNC gateway's idle time-out for a silent client; peers
owe nothing.  In `SessionEvents`, `WF` of the interval's refetch, which is enabled in a
visible tab only, *unless* the cache is written again and again, because each write
begins the interval anew; and `SF` of the answer and its taking: a gateway asked again
and again answers in the end.  Nothing of the stream, and nobody has to show the tab.
In `SessionManager`, `SF` of each task's own steps, and of the hooks' steps in `start()`
and `stop()` once these have begun.  A task that has begun goes on: every await in the
methods ends (a kill waits with a time-out, a launch has a read time-out, a
back-off is a sleep), and `asyncio.Lock` wakes waiters in the order they came, so a
task whose lock is free again and again gets it.  That is strong, not weak,
fairness: the lock may be taken and given back between two looks.  No request, no
operator call, no failure, no passing of time and no shutdown is assumed to happen.

### Findings

1. **The sweep ends sessions that are in use** (`sweep_race`).
   `reap_expired_sessions` collects identifiers under the lock, gives it back, and
   ends them without looking at `last_seen_at` again (`session_manager.py:543`).
2. **One failed recycle ends the reaper** (`reaper_death`).  `_reaper_loop`
   re-raises, the sweep catches only `SessionNotFoundError`
   (`session_manager.py:1278`): afterwards no idle session is ended, and `stop()`
   re-raises the exception instead of cleaning up.  `IdleSessionEnds`, which holds,
   is the same promise as long as the reaper lives.
3. **A failed job is lost on RabbitMQ** (`job_retry`).  `requeue` serialises the
   message with `json.dumps(model_dump())`; `Job.url` is an `HttpUrl` object
   (`jobs.py:42`), which `json.dumps` refuses.  The old delivery has been rejected for
   good by then (`queue.py:649`), and the exception ends the consumer.  `tests/test_queue_consumer.py:83` and the
   worker's `README.md:71` promise retries up to the limit.

Observations without a run of their own, each visible in the model named:

* A launch whose first line of output exceeds the stream's limit raises `ValueError` and
  leaves the browser running without a handle (`browser.py:182`): `_attempt_launch`
  retries beside it, and a cold launch lets the error pass (`WarmPool`,
  `SessionManager`).
* A VNC release that raises inside `update_session` (`session_manager.py:404`) skips the
  release of the workstation: the dead session keeps it until the runner restarts
  (`SessionManager`).
* `stop()` wakes a reaper in its sweep before it cancels it, so one more end can be cut
  off in the middle: its VNC helpers may outlive the runner's clean-up
  (`session_manager.py:595`, `SessionManager`).
* POST /sessions binds a public endpoint before it can still fail
  (`gateway/app/routers/sessions.py:252`): the binding then has no session (`Gateway`).
* On Redis the log line of a received job raises on the bytes delivery tag
  (`queue.py:366`), so no job is ever executed there and every one stays pending
  (`JobQueue`).
* A RabbitMQ connection that is lost and made again in a living process lets two
  consumers execute one job at a time (`queue.py:669`, `JobQueue`).
* A runner lost without a close frame ends the gateway's control relay with a close code
  that cannot be sent, and its client is left open (`runner_ws_proxy.py:132`, `Relays`).
* Every event that reaches a tab postpones its 15 s refetch (`useSessionEvents.ts:66`,
  `DashboardPage.tsx:80`), so a list that an event cannot put right stays wrong while
  events keep coming (`SessionEvents`).
* `drain()` sets `_draining` (`warm_pool.py:509`) and nothing clears it: after
  `stop()` and `start()` every reservation is refused, while
  `services/runner/AGENT_NOTES.md:101` expects a second `start()` to begin anew
  (`SessionManager`).
* `_wait_for_display_socket` looks for a file that a killed Xvfb leaves behind
  (`vnc.py:262`), so x11vnc may start before the new server listens (`VncPool`).
* The removed runners are a local of one iteration of the maintenance loop: an
  unparsable `/health` answer raises before the purge (`gateway/app/main.py:163`)
  and the next refresh does not report them again (`Gateway`).
* The gateway's control relay leaves a silent client waiting after the runner's
  normal close: `except ConnectionClosedOK` (`runner_ws_proxy.py:129`) is never
  reached, because the iteration ends without it (`Relays`).
* The VNC relay's `except (ConnectionClosedError, ConnectionClosedOK)`
  (`proxy.py:302`) does not match what comes out of a TaskGroup, an ExceptionGroup
  (`Relays`).
* A RabbitMQ message that does not decode is delivered again and again
  (`queue.py:632`); aio_pika raises `QueueEmpty` where `queue.py:629` expects `None`
  (`JobQueue`).
* A session created DEAD or TERMINATING at the gateway is stored and its request fails, because its
  created event is refused after the write (`models.py:862`, `SessionEvents`).
* An operator's release recycles any workstation that is RESERVED or BUSY
  (`warm_pool.py:467`), a session's too.  It need not be meant so: of two operators that
  share a reservation one may release the workstation and, once it is recycled, a session
  may reserve it; the other's release, still waiting for the slot's lock, then recycles
  the session's browser (`SessionManager`, `Intrudes`).
* A create whose answer is lost is retried and leaves its first session to the
  idle TTL (`runner_orch.py:514`, `OrchestratedJob`).

## 4. Proofs

`WarmPoolProofs` proves, for any finite or infinite sets of slots, clients and
browsers and any positive number of attempts, that `Spec` implies each of the six
safety properties: `TypeCorrect`, `BrowsersAreOwned`, `OfferedSlotsHaveOwnBrowsers`,
`TenantsAreIsolated`, `RecyclesHaveWorkers` and `DrainIsFinal`.  The only
assumption is `WarmPoolAssumption`: the starter is a client, the "none" values are
none of the others, and there is at least one attempt.  `BrowsersAreOwned` says of
exactly which processes it is false: those in `lost`, which run until they exit.

The properties are not inductive by themselves.  `IInv` (in `WarmPoolInv`) adds:

* `Places`: which method can be where, and that a task at a slot has one;
* `Locks`: a slot's lock is held by exactly the task that is inside its recycle or
  drain, which is what makes "nobody else is provisioning this slot" available to
  every step;
* `Starting`: `start` works without locks, so what protects its slots is that
  nobody else runs, and that the slots it has not finished are empty;
* `Working`: while a task provisions, its slot is RECYCLING and empty, so storing
  the new browser overwrites none (`BrowserOwned`) and no reservation can come in
  between (`OfferedHasOwnBrowser`);
* `Handles`: one owner per browser, among slots and among tasks;
* `LaunchedUnused`: a browser in hand has served nobody, hence `TenantIsolation`
  when it becomes a slot's;
* `Drains`: the slots a drain has passed are empty and DRAINING, or were enabled
  again;
* `LostRuns`: a lost browser runs, so its name is not given to another.

One lemma per action (`<Action>Preserves`) shows `IInv` preserved, `NextIInv`
combines them, `Invariance` is `Spec => []IInv`, and each theorem follows from it.
TLC has also checked `IInv` on the `warm_pool` instance.

`GatewayProofs` proves three theorems, for any sets of runners, sessions and requests:
`TypeCorrect`, `NoBindingOutlivesItsSession` (`BindingsHaveSessions`) and
`OrphansAreExplained` (`OrphansAreKnown`).  The only assumption is `GatewayAssumption`:
the configured runners are runners, and the "none" values are none of the others.

`BindingsHaveSessions` is inductive: every step that takes a session from the list takes
its binding too, and only `RegisterInPart` binds a session that is not listed.  `OrphansAreKnown` is not, because a creation that the runner rejects
takes the session's runner back: had the session been listed meanwhile, it would be an
orphan nobody knows of.  Its `IInv` adds:

* `Creating`: a session whose creation waits for the runner is not listed, is on no
  runner, and no other request is about it, so nothing can list it until the answer;
* `Unheard`: a session without a runner is known to nobody, which is what a creation
  starts from and what a rejection goes back to;
* `UnderWay`: a request under way is a command about a session;
* `PurgeDue`: runners wait for the purge only between `refresh()` and the purge, and the
  first `refresh()` finds none that has left, so no refresh forgets one that is due.

The proof has the same layout.  TLC has checked this `IInv` too, on the `gateway`
instance and with two sessions and one runner.

`SessionManagerProofs` proves six theorems, for any numbers of sessions, requests,
operators, workstations and browsers, in every mode, with operators that call anything
on any slot: `TypeCorrect`, `ActiveIsExact`, `BrowsersHaveOwners` (`NoLeakedBrowser`),
`PipelinesHaveSessions` (`NoLeakedVnc`), `GoneSessionsHoldNothing` and
`StopIsComplete`.  The assumption is `SessionManagerAssumption`: the kinds of tasks are
disjoint, and the "none" values are none of the others.  The pool's part of a state is
not proved anew: `P` is `WarmPoolProofs` with the manager's variables, its `Sound` is
the first conjunct of `SInv`, and its lemmas about a pool's step are cited for the
pool's steps of every task (`SamePool` says that the two instances of the pool are
one).  `SInv` further has:

* `Tasks`, `Calls`, `App`: one task is inside a create or an update, it holds the
  lock and works on one session; the pool's method it is in follows from its place;
  outside "serving" only the hooks' task does anything, and the reaper until it is
  cancelled;
* `Hands`, `Doing`: what a task has in its hands at each place, and whether its session
  is stored yet, so a rollback knows what there is to undo;
* `Stored`: what a dead or unstored session may still have, and whose step is about to
  take it away, or why none will (`botched`, `cut`);
* `Pipelines`, `Counted`, `Owned`: the properties, with a create's not yet stored
  pipeline and browser among the owners.  `Owned` is not inductive without `Hands`: a
  launch that succeeded and whose session is then refused is owned by the task only;
* `Ending`: the drain of `stop()` leaves an empty slot behind at each turn, and no
  session claims a browser any more.

Its second part proves `WorkstationsAreExclusive` and `ReservationsHaveOwners`, for any
number of operators and without assumptions on what they do; `Sole` are the slots not
yet intruded on, and `Owners` speaks of these.  It says that a slot has one owner at most (`Apart`: a session, a task that creates
or releases, an operator), that each finds its slot as it left it (`SessionSlots`,
`TaskSlots`, `OperatorSlots`), and that a slot that is not free has an owner
(`HasOwner`).  It needs which slot a call is about (`Targets`), and that no reservation
survives a restart (`Unowned`).  What makes it inductive is `SlotKept`: a reserved slot
changes only by a call about it, so nobody else's call disturbs an owner.  Its
`TaskSlots` also says that `mark_busy` of a session's own reservation is refused only
after an intrusion: without one the roll-back at that place does not happen.

`VncPoolProofs` proves the three invariants of `VncPool` for ranges of any sizes and
any number of callers, from `VncPoolAssumption` (the sizes are numbers).  `Conserved` is
not inductive, since a caller that gave back a free number would duplicate it: `Holding`
says that a caller's triple is out and nobody else's.  `PipelinesHaveOwners` needs
`Progress`: how many helpers run follows from the place, so a caller that forgets its
triple has none left.

`RelaysProofs` proves `NothingIsHeld` (`EndedHoldsNothing`) and `ClientsAreTold`
(`ToldUnlessEscaped`), for any number of relays, from `RelaysAssumption` (their kinds).
`Fine` says for each phase what may be left of the two sockets and the two tasks; the
telling rests on its line that the task which reads the client returns only after the
client's end closed, so an ending without an exception has a closed client; a refused
close is an exception of its own, which only the control relay has.  `Counted`
has the registry's count, and the gauge, as the cardinality of the connections under
way, which a step changes by one when it begins or ends a connection.

`WorkerProofs` proves the five invariants of `Worker`, for any consumers, jobs, order of
jobs, attempts, retries and faults, on each backend, from `QueueAssumption` and
`WorkerAssumption` (modes and backends are the ones there are, one attempt at least).
The queue's half, `QueueInv`, has `OnePlace`, which is `JobsAccountedFor` without
counting; `InHands`, by which a RabbitMQ consumer holds only the entry it works on, so
that its death or a lost connection gives back one entry; `AcksDeserved`, by which a key is registered after a
success only; and `Attempts`, by which an entry's attempt tells how often it was
executed: exactly in memory, and up to the faults on RabbitMQ.  The gateway's half,
`SessionInv`, adds `Sids` to `LeftoversExplained`: an execution past its create knows a
session that exists, and reports a success only once it is deleted.  The halves meet
where an execution begins and returns.

`SessionEventsProofs` proves the three invariants of `SessionEvents` for any sessions,
streams, bounds and event orders, from `EventsAssumption`.  `Tails` is
`StreamsAreTails` entry by entry, with empty queues where nobody serves the stream.
`Single` says that a stream that can deliver is the one the hook holds, and
then no timer is set, so a timer that fires opens the only one.  `DivergenceExplained`
speaks of a drained stream; `Explained` says of any state that an entry is in sync,
excused, or has an event about it waiting, and `LastWord` that the last such event tells
the session's version: reading the queue to its end then corrects the entry.

`RunnerRegistryProofs` proves `TypeCorrect`, with the cursor inside the rotation, and
`TurnsAreAlwaysFair` (`TurnsAreFair`), for any finite set of runners, from
`RunnerRegistryAssumption`.  `TurnsAreFair` is not inductive: nothing in it says why a
runner that waits is reached before the one that was served.  `WaitersLead` does: whoever
waits for `r` comes before `r` when the rotation is read from the cursor on.  Selection
takes the first acceptable runner in that order (`MinIsLeast`), and moves the cursor just
behind it, so it never takes `r` before those in front of it; a refresh without removals
appends behind the others and leaves the cursor, except that the cursor of an empty
rotation is 0 anyway.  `RemovalsMoveTheCursor` shows the closed form of `CursorAfter`
right: any number of removals, each of which takes the cursor modulo the number of runners
left, keep it if it is still inside and leave 0 otherwise.  The library's induction
theorems are out of reach, so this proof, `MinIsLeast` and `OrdersExtend` (a refresh
without removals appends) use `LeastNumber` (a non-empty
set of numbers has a least one, from the well-foundedness of `<`): were the claim false
there would be a least removal at which it fails.

### Refinement

* `SlotsLiveOn`: `WarmPool` implements `SlotLifecycle`.  One lemma per step says which
  step of the slot's life it is (`AttemptLives` for a failed launch or prewarm,
  `PrewarmLives` for the one that succeeds, ...); `IInv` supplies what the abstract guards
  ask for, above all that a browser about to be stored is nobody's and unused, and that
  its slot is RECYCLING and empty.
* `LifecycleIsolates`: `SlotLifecycle` by itself implies `OfferedHasOwnBrowser` and
  `TenantIsolation`.  Everything else in the pool could be replaced, and these two would
  hold of whatever has that life.
* `WorkstationsLiveOn`: so does the pool inside `SessionManager`, with its creates and
  rollbacks, updates, the reaper, operators, a stop that cuts it off, and restart.  The pool's
  own steps are taken from `SlotsLiveOn`'s lemmas (`P!StepLives`); what remains is that
  the manager's steps between them touch no slot, and that a restart is `Rebuild`.
* `JobsLiveOnce`: `Worker` implements `JobLifecycle`.  To the invariants of `WorkerProofs`
  it adds `Tried`: a job at a consumer that has executed it has a run, and one that is
  skipped has a key, which is what their verdicts need.  That a job does not begin while
  its holder executes it is `OnePlace`: an entry that is delivered is in no queue.  A
  consumer whose delivery is stale begins and ends its execution as a loose one.
* `LifecycleIsFinal`: `JobLifecycle` by itself implies `AckedWorkWasDone` and that no
  settled job is executed or settled again.

The layout is the same everywhere.  TLC checked each inductive invariant on its run's
instance before it was proved, `Owners` also with two operators on one slot.

Only model-checked:

* the liveness properties (`SlotCallsReturn`, `SlotRecyclingEnds`, `LockReleased`,
  `IdleSessionEnds`, `RemovedRunnersLeave`, `JobsSettle`, `RunnerCloseReachesClient`,
  `CacheCatchesUp`): fairness and ENABLED are outside the prover;
* what the violation runs show, which is a behaviour each.

## 5. Plan

Done: all modules; every safety property the runs check is a theorem, for all values of
the constants; two abstract specifications and three refinements.

What could follow: a promise about *which* runner a session gets, which needs
`RunnerRegistry` and `Gateway` composed (each abstracts the other's state now); the native
job's inside, if it ever gets shared state; a refinement of `Gateway` to a directory of
sessions, once the code says what a client may conclude from a 502.

## 6. Not modelled, and why

Fingerprint generation, proxies, launch options, browser flags, settings and
configuration files: pure functions or parsing.  Token signing and verification:
cryptography; the VNC gateway builds its validator anew for each request, so it
keeps no state between requests.  Metrics backends, logging and the UI's
rendering: no decision depends on them.  Cancellation of a task inside `allocate()`,
whose `except Exception` does not see it.  The workstation catalogue: a dictionary under one lock whose
entries upserts and events replace, and which nothing in the gateway acts on.
Native jobs' inside and the worker's HTTP front: sequential.  Payloads, header
filtering and URL building in the relays and clients: data the properties do not
tell apart.  Browser processes' inside, Redis, RabbitMQ, Keycloak: external, taken
as what the code observes of them.
