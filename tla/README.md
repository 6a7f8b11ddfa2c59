# TLA+ models of codex-local-service

The repository puts one OpenAI-compatible HTTP gateway (`src/upstream`, Node, Express)
in front of two backends: the native `codex app-server` processes it starts itself, and
ChatGPT's web site, reached through a private *web bridge* (`src/web`, Bun) which has two
forms, one that drives a browser and one that runs a Python HTTP worker per request.
These modules model the parts of it that hold shared state across awaits. Node and Bun
run one callback at a time, so everywhere *a handler runs to its next await as one
action*, and the interleavings are those of awaits, timers, process exits and
disconnections.

## 1. Inventory

| Part (source) | State it keeps | Operations | What is hard |
|---|---|---|---|
| Worker pool (`upstream/src/subprocess/pool.ts`) | idle map by key, leased set, waiters' queue | acquire, release, prewarm, drain | acquire awaits a start and capacity; TTL and LRU eviction; workers die at any time |
| Sticky session pool (`subprocess/session-pool.ts`) | slots by session key, creations under way, a promise chain and a flag per slot | runTurn (with reset), abortSession, drain | overlapping misses, queue timeouts, a turn that outlives its caller, eviction in use |
| Web-first router (`server/web-router.ts`) | active count, cooldown and failure version, routing.json | POST handler, PUT /routing | several awaits per attempt, failure before and after output, cooldown races |
| Daily statistics (`server/daily-stats.ts`) | per-request state, day totals, a file | middleware, selectStatsBackend, markWebAttempt, completeStats, load, persist | booked once, at `finish` or `close`; unreadable files, failing writes, crashes |
| App-server process (`subprocess/manager.ts`) | pending RPC requests, handlers, process | start, startThread, submitTurn, kill | timeouts, exits, several lines in a chunk, handlers that leave the list being read |
| Turn runner (`server/routes.ts` from `runTurn`, `subprocess/fallback.ts`) | none of its own | runTurn with its fallback, withAbort, the deep health check | every await may end in an error, an abort or an exit |
| Chat and responses routes (`server/routes.ts`) | the response under way | both handlers, streamed and collected | order of writes, disconnections, errors after the headers |
| Session and runtime options (`server/sticky-options.ts`, `subprocess/runtime.ts`) | none | resolveSessionOptions, runtime selection | headers, body and settings that contradict each other |
| Progress (`server/phase-tracker.ts`, `keepalive.ts`) | the phase of a turn | observe, poll, detach, the timer | notifications overlap; a timer polls |
| Browser bridge (`web/bridge.ts`) | busy flag, the login | inference, /login/start, finish, stop | flag tested before an await and set after it; cleaning up |
| Manual login (`web/manual-login.ts`) | state, child, controller, timer | start, exit handler, verify, finish, stop | attempts overlap; results that come late |
| HTTP bridge (`web/http-bridge.ts`, `http-process.ts`, `concurrency.ts`) | active count, per request a generator and a process | inference, pull, cancel, shutdown | cleanup reached from four sides; order of freeing and telling |
| Adapters, metrics, pricing, trace, config, errors | counters | pure translation | little |
| Browser host, privacy, Python transport, solvers, scripts | outside processes | I/O | outside the repository |

How they interact: the router decides, per request, for the web bridge (over HTTP) or for
the codex route behind `next()`; that route resolves the options, then leases a worker of
the pool, or queues a turn in the session pool, or starts a one-shot process, and writes
what the turn's notifications bring; both backends report to the daily statistics through
`res.locals`. The web bridge and the gateway share `routing.json`. The browser bridge drives
the manual login through three routes and refuses inference while it is active.

What makes each part correct is stated by the properties below; the hazards, at
their lines, are in `PROJECT.json`.

## 2. Modules

| Module | Models | State ↔ code |
|---|---|---|
| `WorkerPool` | pool.ts | `idle`/`age` the idle map, `leased`, `waiters`; `pc` where each acquire is; `lease` what its caller holds; `status` the processes |
| `SessionPool` | session-pool.ts, the sticky dispatch of routes.ts | `held`/`older` the map of slots and its order, `creations` the shared creations; `queue` the promise chain; `turn` the run of each request, `next` the promise runTurn returned for it, `reply` what its caller saw |
| `WebRouter` | web-router.ts, what it does to the statistics of a request | `active`, `cooldown`, `mode`, `limit`; `outdated` the attempts whose `versionAtStart` is old; `pc` the await of each handler; `by`/`got` what was sent; `stat`, `recorded` the statistics |
| `AnswerOnce` | what the gateway promises each caller: one backend's answer, once | abstract; `WebRouter!AnsweredOnce` is its specification under `INSTANCE ... WITH` |
| `AppServer` | manager.ts | `worker` each process with its handlers, each with those subscribed before it; `op` the request, turn, timer and promise of each call's operation; `chunk` the output being read; `down` how the gateway ended |
| `TurnRunner` | routes.ts from `runTurn` to `withAbort`, fallback.ts, the health check; EXTENDS `AppServer` | `call` where each call of a route is; `idle` the workers given back |
| `RequestOptions` | sticky-options.ts, the runtime of a request, the decisions of the adapters about tools | operators only: options are classes of raw values |
| `Progress` | phase-tracker.ts, keepalive.ts | operators on the tracker's record |
| `DailyStats` | daily-stats.ts | `data` the counters in memory, `file` the one on disk, `save` the step of a save, `trouble` the last failure, `active`, `crashes` |
| `ChatRoute` | both POST routes; EXTENDS `RequestOptions`, `Progress`, `DailyStats` | `ask` what each request is: how it comes (`via`), whether its messages can be read (`input`); `reply` its response: place, status, marks written, tracker, the kind of counts its turn gave; `kept` and `filed` what was counted, in memory and on disk |
| `ManualLogin` | manual-login.ts | the fields by name; `browser` the window of each attempt, `finishing`/`verifying` the awaits |
| `BrowserBridge` | bridge.ts; EXTENDS `ManualLogin` with the routes | `busy`; `pc` of inferences, `call` of /login/start |
| `HttpBridge` | http-bridge.ts, http-process.ts, concurrency.ts | `active`, `limit`; `child` the worker, `outcome` how its generator ended, `signal`, `cancelled`, `got` |
| `*Proofs` | theorems about the module they name; `TurnOutputProofs`, which EXTENDS `TurnRunnerProofs`, is about the types, the pool and the output of `TurnRunner` | |
| `MC*` | the small instances | |

Operators named `Action_Suffix` with a comment "Fault:" are wrong versions of the action
that follows them. No specification uses them; each shows that a property fails when the
code has that fault.

The seams. `WebRouter` sees the codex route as one that answers or fails, `ChatRoute` sees
the turn as notifications that end in an answer or an error, `TurnRunner` sees of the pools
only a lease that comes, waits or fails, and the pools see a turn as an await. Each of
these promises is a property of the module on the other side: `EveryCallEnds` of
`TurnRunner` is the fairness of `ChatRoute` and of the pools, and `EveryResponseEnds` of
`ChatRoute` that of `WebRouter`'s codex step.

Abstractions. Keys, models and bodies are model values or Booleans; a text is the set of
turns whose deltas are in it, and a response the sequence of marks a client could tell apart
(text, tool calls, an error, the end). Raw option values are classes: all that a parser treats
alike is one value, an integer is an index of `ParseInt`. Time is a small number of
ticks, saturating past the TTL; an operation and a tick may come in any order. A request
calls once and names the worker, slot or window its call creates. A process that was told to
stop counts as dead for its user at once (as `kill()` sets it), while its end is an event of
its own in `AppServer` and `HttpBridge`, where something waits for it. The HTTP bridge enqueues
`response.failed` one line before it awaits `cleanup()` (http-bridge.ts:110-112); between the two
only microtasks run, which is less than a caller needs to read it, and the model tells and frees
in one step. Logs, metrics,
wording and payloads are left out.

A list of handlers is what the code tells apart in one: which handlers it holds, and which
come before each. A loop over a list that its handlers leave skips the one behind each that
left, so that of several in a row for one thread every second is reached (`Reached`); a
function from each handler to those before it says so without an iteration.

`AppServer` takes the event loop seriously, as what can go wrong there is a matter of order:
the lines of one chunk are handled in one go, before any await resumes (`chunk`); all awaits
that have settled resume before the next event (`Idle`); and a promise that has been rejected
with nobody listening by then ends the gateway (`Unhandled`), because nothing in `src/`
handles unhandled rejections.

## 3. Runs

| Run | Instance | Shows |
|---|---|---|
| `WorkerPool` | 5 calls (keys a, a, b, c and a prewarm of b), Max 2, Ttl 1 | no double lease, right key, exact `leased`, capacity never lost to a waiter (except by a failed start), fresh leases; every waiter is served if no start fails |
| `SessionPool` | 3 requests, 2 keys of one session, Max 1, both TTLs | one slot per key, no worker lost, serial turns until a queue timeout, evictions, those of the statistics getter too, spare slots in use, nothing runs after a failure; every caller settles, every turn ends |
| `WebRouter` | 2 requests × 4 kinds, 2 modes, limits 1 and 2, Cooldown 1 | slots balance, requests bound to a backend kept there, truthful statistics, cooldown sound, `AnswerOnce` implemented, every request settles |
| `TurnRunner` | 2 calls on one session or of the pool, single ones that fall back, run a oneshot or check the health; 2 processes | no process lost or given back dirty, no call gets another's text unless turns overlap, which rejections end the gateway, no turn for nobody, every call ends |
| `ChatRoute` | 6 scenarios of streams and collected answers, alone or beside another request, of fallbacks that asked the web or did not, of messages that are missing or malformed; 45 combinations of session options; valid, odd and no counts; 2 items, 2 crashes | well-formed responses, exact counters and file, the session that was told, comments about what is under way, a file that never loses; every response ends |
| `BrowserBridge` | 2 inferences, 3 calls of /login/start, 3 attempts | login results are current, no window left behind, logins end, `busy` clears |
| `HttpBridge` | 1 streamed and 1 collected request, limits 1 and 2 | each slot freed once, after its worker and before the caller is told; quiet after cancel |
| `UnheldWorkersAreIdle`, `SomebodyWillRelease`, `Serialized`, `SingleTask`, `DisconnectSurvived` | as above | **refuted**: section 6 |

Why the bounds are enough. Every interference in these parts is between a holder and one
or two others: in the pool, calls of which two share a key and one key is prewarmed, with
another queued, meet at every pair of awaits while slots of other keys compete under
the LRU rule; in the session pool a running turn, one queued behind it and one of another key
of the same session that expires, resets or evicts it; in the router an attempt that fails
while another one, begun before, succeeds. Calls of the turn runner share a process, its
thread and its list of handlers on a session, and leases in the pool, so two at a time show
how one call meets another; what takes three or four at once, such as a handler that is
skipped, is left to the proofs. The second process is the one of a fallback or of a cold
start. A call that falls back, a oneshot and a health check share nothing with another and are
run alone.
Responses share only the statistics, so two at a time show how bookings overlap with a save
and a crash, and the options, which are pure, are run one request at a time. Requests of the
HTTP bridge share only a counter and its limit, so one of each shape shows every
interleaving. `SlotsExact` does not say that the slots held are within the limit: a limit that is
lowered leaves those that are held. Ttl and Cooldown of one tick distinguish "still", "just" and "past". What needs
more actors, such as three attempts against a limit of two, is left to the proofs.

Bounds that are in the models and not in the code: the number of calls (`Requests`,
`Calls`), of processes (`MaxProcs`), of login windows (`Attempts`), of crashes
(`MaxCrashes`), ages that saturate at the TTL plus one tick, one TTL for all sessions.
`ShortTurns` names the calls whose turn timer may fire before the timer of `turn/start`.
Deadlock is not checked, because the finite instances stop once every call has ended; the
liveness properties say that they do not stop before.

### Fairness, and why the code justifies it

- `WorkerPool`: a resolved promise's continuation runs; `start()` settles because spawning
  and `initialize` are bounded by a timeout; a holder releases because a turn is bounded by
  the turn timeout and routes.ts releases on either end.
- `SessionPool`: creations and turns settle by the same timeouts, a queue timer fires, and
  continuations run.
- `WebRouter`: an attempt is bounded by `web_timeout_ms`, the codex route by the turn
  timeout; an ended response emits `finish` or `close`.
- `TurnRunner`: continuations run before the loop goes on (weak fairness of `Microstep`).
  Timers, exits, the end of a process that was told to end (SIGKILL after 5 s) and a woken
  waiter come in the end, though the output of a process may come first any number of times:
  that is strong fairness of `Due`. Nothing is assumed of the app-server itself: it may never
  answer.
- `ChatRoute`: a turn ends, which is what `TurnRunner` promises, and a save, which is
  synchronous, returns.
- `BrowserBridge`: the gateway's web timeout closes the connection of a turn that does not
  end, and closing the workers ends one way or the other. A spawn ends, a window that was
  told to stop exits or is given up after ten seconds, the login timers fire. Nothing is
  assumed of the user, nor that a verification ends by itself.
- `HttpBridge`: the gateway pulls or cancels; the worker's 115 s timer and the SIGKILL 1.5 s
  after a stop fire. That reading a dead worker's output comes to its end is strong fairness,
  because lines it had already written may be read first.

## 4. Proofs

The theorems hold for every value of the constants, under the named assumptions of the
modules only, which say that the constants range over the sets their comments give, that
maxima are positive, that no call has the name of a thread, and, of `Config`, that the bounds of
a session's life are in order. No set of requests or calls is assumed to be finite. In
every module the argument is the same: an inductive invariant that holds initially, that each
action preserves, and that implies the property; action properties are proved of each action
from a state where the invariant holds. What each needs besides the property is the interesting
part.

- **`WorkerPoolProofs`** (`IInv`). A call that has not created its worker owns nobody's worker
  (`WorkersFresh`), what is stored or held was started (`WorkersStarted`), a slot's worker
  has the slot's key (`SlotsMatchKey`), and the queue holds each waiting call once
  (`WaitersExact`). That leases are exclusive is not inductive alone: a cold start adds a
  worker, and only `WorkersFresh` says that no other request can have it already.
  `PoolIdleBounded` has an invariant of its own, that the number of slots is bounded before and
  after each eviction, by lemmas on `Oldest` and cardinalities. So has `PoolCapacityAccounted`:
  the calls that lease, start, were woken or failed are finitely many, though nothing is assumed
  of how many there are in all, and while a call waits no step takes one away from them without
  putting another in its place (`CapacitySound`).
- **`SessionPoolProofs`** (`SInv`). `SlotsAccounted` needs that those who await a creation are of
  its key and have no turn yet (`Creating`), and that a request is chained to one slot,
  once, of its key (`ChainedOnce`). Turns run one at a time until a queue timeout because,
  until then, a slot's promises tell which turns are over, its turns begin in the order of
  the chain, and `inFlight` is set exactly while one runs (`SerialAt`); the last clause, that
  a chain with a turn left has a front, stands in for an induction along the chain. From
  `SerialAt` it also follows that expiry, the LRU rule and a reset spare a session in use.
- **`WebRouterProofs`** (`IInv`). `active` is the cardinality of the attempts, which are finitely
  many (`SlotInv`); every attempt that runs in a cooldown is outdated (`CooldownIsNewer`);
  and, for each request whose caller is still there, what was sent and what the statistics hold
  follow from the place of its handler (`ReplyAtPlace`, `StatAtReply`). The last is the heart of
  it: before `FirstOutput` nothing was sent, so a fallback to codex cannot continue another
  backend's answer. From it follows the refinement `Spec => AnsweredOnce`, whose step case maps
  each action to one of `AnswerOnce` or to a stutter.
- **`TurnRunnerProofs`** (`RInv`). Of a process: if it runs, and has not been told to end, it is
  idle, the session's or under a call that is starting or turning (`Owned`). Of a call: what it
  may ask of which process, by where it is (`Place`); there, that the process of a caller
  that left is dead when `thread/start` is answered is what makes `NoTurnForNobody` true. Of
  a promise: it has a listener once `turn/start` is answered, and until then it is pending or
  was rejected early (`Promised`); a promise that was rejected early stays rejected when `turn/start`
  is then refused in the same chunk, which `forsaken` remembers of an operation. So only an
  abandoned operation, or a turn rejected before `turn/start` is answered, accepted or refused,
  can end the gateway. A step of a call is looked at as one that keeps
  all others' (`Keeps`, `Beside`), so that each action needs only what it does to its own.
- **`TurnOutputProofs`** (`Inv`, which is `RInv`, `TypeOK` and `Tidy`). Of a call (`Mine`): a
  turn that is not over has its handler, and a process that was not told to end has the
  handlers of such turns only; what is given back to the pool belongs to calls that are over,
  here and at the app-server; a turn runs on a thread of its own or on the session's. Of two
  calls (`Pair`): nobody else is under way on a process that is leased, and while a turn is
  collected on the session's thread that shares it with nobody, no other runs there. From these
  it follows that a worker is given back clean (`WorkersAccounted`) and that a call collects the
  output of its own turn (`OwnOutput`). The second was first stated of turns that overlap with
  another that is being collected, and the proof failed for a reason that takes four calls on
  one session to see: three turns overlap, a completion reaches the first and third handlers
  and skips the second, the turn that stays behind runs on with nobody to hear of it, and a
  fourth call begins beside it. A turn that still runs and that had overlapped now counts as
  a companion too (`Companions`). A leftover of a turn that failed alone does not, so that the
  property still says that nothing of it reaches the next caller.
- **`ChatRouteProofs`** (`CInv` and `DInv`). Of the file: what is on disk never exceeds the counters in
  memory, and an unreadable file has been noticed, so that nothing is saved over it (`Store`).
  Of a response: its tracker names an item that is under way, and its session is what its
  headers tell (`ReplyInv`). `active` is the number of responses begun and not booked. The lemmas
  on `RequestOptions` (a clamped life is in bounds; what is sticky has a key that fits) hold for
  any settings. `DInv` stands on `CInv`. Of a response (`PageInv`): while its turn runs, a stream
  holds no more than text, and that only if no calls may be in it, and a collected one nothing;
  once it is over, what would be booked says what was written and which counts its turn gave, and
  what was booked stays. The
  lemmas on `Written` and `LastOnly` say of each ending that may be written where its marks stand.
  Of the books (`BooksInv`): the counters are those of the requests kept, which are finitely
  many because each was booked, and what is filed is a part of what is kept. Counting needs no
  induction: `DayGrows` says what one request more does to every counter, which is what
  `record` does, and that a save which leaves the file as it was had nothing to save follows
  from the count of requests (`PartIsWhole`).
- **`HttpBridgeProofs`** (`HInv`). The counter is the cardinality of the holders, a worker process
  has a holder, and what was told is over; one that was cancelled is closing or over.
- **`BrowserBridgeProofs`** (`LInv`). The current child has its window and is the attempt that a stop
  would abort (`ChildOwned`); and while every window that was told to close did, a window or a
  verification belongs to the current attempt or was aborted (`Owned`).

Every invariant and every action property that a run checks is stated by a theorem. Only
model-checked are the liveness properties (`WaitersServed`, `EverythingEnds`,
`EveryRequestSettles`, `EveryCallEnds`, `EveryResponseEnds`, `BridgeFreed`, `SlotsFreed`), as
fairness and ENABLED are beyond the prover; and the five refutations of section 6, which are
counterexamples.

## 5. Not modelled, and why

- Metrics, pricing and trace are counters, a table and logs that nothing else reads back.
- The adapters translate message formats without shared state; their decisions about tools
  are in `RequestOptions`, the rest are marks. So are the wording of errors and the parsing of the
  environment.
- The server's lifecycle is there as far as the pools drain and the gateway crashes and restarts;
  listening, CORS and the grace period are not.
- The browser host, privacy checks, Python transport, challenge solvers and scripts are I/O
  against processes outside the repository. A browser turn, closing the browser
  workers and `captureManualLogin` appear as awaits with either end.
- In the pool, a lease that is released after `drain()`, and a start that ends after it, are modelled,
  but nothing is asked of them: the process exits.

## 6. Where code and documentation disagree

Refuted by a run:

- **A worker dropped alive** (`UnheldWorkersAreIdle`): `release()` overwrites the slot of its
  key (pool.ts:109); the worker that was there runs on, found by no TTL, LRU or drain.
- **A lost wake-up** (`SomebodyWillRelease`): a woken call whose cold start fails wakes
  nobody (pool.ts:84-88); the calls behind it wait for an unrelated request to come.
- **Turns of one session overlap** (`Serialized`): the queue timeout also runs during the
  turn, and settles the chain's tail while the turn goes on (session-pool.ts:165-168).
- **Two browser tasks** (`SingleTask`): `busy` is tested before the body is awaited and not
  again (bridge.ts:99-106).
- **A disconnection ends the gateway** (`DisconnectSurvived`): when the signal is aborted before
  `withAbort` is reached (routes.ts:669-672), nobody listens to the operation that has been
  begun; it rejects when its process is killed, and no handler for unhandled rejections exists.

Seen while modelling, without a run of their own:

- The gateway also ends if a turn's own promise rejects before anybody listens to it: an error
  notification or the turn's timer comes before `turn/start` is answered (manager.ts:331, :253),
  or `turn/start` is refused by a later line of the chunk that has the notification, when the
  catch block never comes to listen (manager.ts:380-387). `SurvivesOtherwise` states that within
  `runTurn` these and the abandoned operation are all. Outside it, an exception that a handler
  throws before its try block rejects the handler's promise, which Express 4 leaves alone: a body
  with `messages: [null]` makes the adapter throw (routes.ts:166). That is `ArrivalThrows` of
  `ChatRoute`, bounded with the crashes by `MaxCrashes`. A write to a process whose end has not been noticed may raise an error on
  its stdin, which has no listener (manager.ts:494); `down = "pipe"` in the model.
- Overlapping cold starts pass the maximum of live workers (pool.ts:70, 83-89), and
  overlapping creations that of sessions (session-pool.ts:238), as neither counts what is
  being started. upstream/README.md:98 and :264 state both as maxima.
- upstream/README.md:136 says a client's abort evicts its session. An abort while the slot is
  being created, or the turn still queued, finds no slot or leaves the turn in the chain
  (session-pool.ts:194-201), and a later slot of the same key, which serves another caller,
  may be the one discarded.
- A reset discards idle slots of a session until it meets a busy one, then fails
  (session-pool.ts:305-316).
- docs/web-routing.md:45 says that no web inference is accepted while the login window is open.
  /login/start tests `busy` before it awaits the closing of the workers
  (bridge.ts:86-89), and a turn may begin before `start()`.
- A window that does not exit makes `finish()` mark the state `failed` even if its attempt
  was cancelled or a newer one has begun (manual-login.ts:76). `ManualLogin`'s properties are
  of runs without such a window, which is what `NothingStuck` says.
- upstream/README.md:342 says that a single structured-output function comes back as a standard
  tool call. A streamed request with such a tool gets plain text: only collected answers are
  parsed for it (routes.ts:214-252, 273-281).
- upstream/README.md:158 says that visible progress is written as chunks; the routes write comments
  (routes.ts:207-212, 405-410).
- A poll marks a phase as reported even when its comment is not written because the last write is
  recent (keepalive.ts:46-56, phase-tracker.ts:219-221), so it may never be told.
- `annotateTurnUsage` takes codex's counts as they are if one of them is positive (usage.ts:39-41),
  and `completeStats` books them only if all four are valid (daily-stats.ts:133): an answer may
  have a usage that the statistics call unknown, and is not estimated either. `StatsExact` counts
  it so.
- docs/daily-stats.md says that a stream which does not end well is no success, though its HTTP
  status is 200. If what comes after `completeStats` throws (routes.ts:230-252), the stream ends
  with an error and is booked as succeeded. `StatsExact` counts it so (`BrokenOff`).
- A blank preferred header shadows a legacy header or a key in the body (sticky-options.ts).
- A crash between the writing of the temporary file and the rename leaves that file behind
  (daily-stats.ts:66).

## 7. What is left

- The composition of `SessionPool` with the caller's departure of `TurnRunner`, where an abort
  reaches the session of another caller; and of `WorkerPool` with `TurnRunner`'s leases, which
  meet so far through the promises of section 2.
- Two models of sessions in one pool (TTLs that differ by request) and more than one day of
  statistics.
- Theorems about the refuted promises: what holds in their place, such as how many workers
  may be alive at once when cold starts overlap, or which calls a failed cold start strands.
- A refinement of `SessionPool` to a map from each key to one session at a time.
