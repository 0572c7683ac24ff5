# A TLA+ verification of the Checkrd SDK

This project models the parts of the Checkrd SDK that decide whether an agent's
request goes out and whether the operator learns of it: the policy engine
compiled to WebAssembly (`crates/core`, `crates/shared`) and the Python and
JavaScript wrappers around it (`wrappers/python/src/checkrd`,
`wrappers/javascript/src`) with their threads, tasks, files and network
connections. The modules are translated from the source; every definition that
models code names its lines in `PROJECT.json` ("map").

Contents: [the system](#1-the-system) · [the design of the project](#2-the-design-of-the-project) ·
[modules](#3-the-modules-and-the-code) · [runs and bounds](#4-what-the-runs-check-and-show) ·
[fairness](#5-fairness) · [proofs](#6-what-is-proved) ·
[disagreements](#7-disagreements-between-code-and-its-words) ·
[what is left out](#8-what-is-not-modelled-and-why)

## 1. The system

An application's HTTP client is wrapped by a transport. For every request the
transport asks the engine whether it may go out; the engine answers from its
kill switch, its policy and its rate limiter and hands back a telemetry event,
which goes to a batcher. Of a streamed answer a tap reads the token usage, which
the engine prices. Three kinds of threads or tasks change what the engine decides:
the control receiver, which listens to the control plane, and two file watchers.
`init()` makes all of this, `shutdown()` ends it.

```
 control plane ──events, answers──▶ receiver ──install, set──▶ Engine ◀── transports ◀── requests
      ▲  ▲                            │  ▲                      ▲  │         │
      │  └──────── telemetry ──┐      ▼  │ restore              │  ▼ events  ▼ streamed answers
      │                        │    state files                 │ batcher    taps
 circuit breaker (shared) ◀────┴────────────────────────────────┘
                      policy file ──▶ policy file watcher ──reload──────▶│
                      sentinel file ─▶ kill switch file watcher ──set───▶┘
```

| Component | State | Operations | What is hard | What makes it correct |
|---|---|---|---|---|
| Policy engine state (`interface.rs`, `killswitch.rs`, `pricing.rs`) | policy and where it came from, kill switch, limiter, highest policy and price versions with an "installed" flag each, active price table | `init`, `reload_policy`, `reload_policy_signed`, `set_initial_policy_version`, the same two for prices, `set_kill_switch`, `evaluate_request` | any call order, repeated `init`, version 0 | only newer bundles become active; no call loosens a defence on the side |
| Envelope verification (`dsse_verify.rs`) | the loop over signatures and keys | `verify_dsse_envelope` | signatures and keys that are malformed, out of their time, or share a key id | accepted exactly when a trusted key vouches for it |
| Policy evaluation (`core/policy.rs`, `shared/policy.rs`) | none of its own; counts in the limiter | `evaluate_full`, `merge_policies`, matching | fail-open and fail-closed sides, limits that count before a later rule refuses, ranges across midnight | an organisation's denies survive a merge; unreadable bodies gain nothing; budgets hold |
| Policy analysis and diff (`shared/policy.rs`) | none | `analyze_policy`, `diff_policies` | rules that overlap, hide or equal each other | what the author is told is so |
| Glob matching (`core/policy.rs`, `core/pricing.rs`) | loop indices | `parse_pattern`, `url_matches`, `model_matches` | going back to the latest wildcard only | a match is found exactly when there is one; the loop ends |
| Rate limiter (`ratelimit.rs`) | one queue of timestamps per key in a bounded map | `check`, `evict` | timestamps that arrive late, saturation at time 0, eviction of live windows | the limit holds in every sliding window; refusals are justified |
| Pricing (`core/pricing.rs`, `cost.rs`, `pricing_bundle.rs`) | the active table | `merge_pricing`, `resolve_sku`, `settle` | inconsistent counts, rounding, saturation, ties between rows | the row that applies, exact up to rounding or marked, never less for more |
| Circuit breakers (`_circuit_breaker.py`, `_circuit_breaker.ts`, `_retry.ts`) | state, failure streak, opening time, window | `allow`, `record_success`, `record_failure`, `fetchWithRetry` | attempts that began before the circuit opened report while it is open, a receiver's twice; probes that never report; retries and polls go out unasked | refusal is bounded; what goes out unasked is paced; it closes once endpoints are reachable |
| Telemetry batchers (`batcher.py`, `_async_batcher.py`, `batcher.ts`) | bounded buffer, byte count, wake-up event or timer, counters, the batch in hand | `enqueue`, the worker, `flush`, `stop`, `urgentFlush`, sends with retries, re-initialisation after a fork or on another loop | two senders; lost answers; events that cannot be serialised; cancelled tasks; `stop` that gives up | nothing lost, sent by two or stored twice; queues drain; counters honest |
| Control receivers (`control.py`, `_async_control.py`, `receiver.ts`, `control.ts`, the bootstraps) | stream, caches of installed hashes, start and stop flags | start, stop, event stream, poll, install, save, restore | crash between install and save, failed save, lagging server, lost events, overlapping loops and polls | kill switch and policy end up as published; persisted versions keep older bundles out; a stopped one comes to rest |
| State files (`_policy_state.py`, `_pricing_state.py`) | files shared by processes | save step by step, load | kills, power failures, short writes, slower writers | whole, and as new as its writer's last save |
| Key file (`identity.py`) | `identity.key` | make or load | processes that start together; a pair that does not match | all have the one key in the file, or were told |
| File watchers (`watchers.py`, `watchers.ts`) | last mtime or presence, a poll's local variables | poll by timer or by file events, start, stop | the file changes between any two steps of a poll; polls overlap | a malformed file never takes effect, a well-formed change does; the switch comes to agree with the file |
| Transports (`_httpx.py`, `fetch.ts`) | each request's progress, the capture budget | judge, send, report | oversized and unread bodies, engine faults, dry runs, cancellation | judged and sent at most once, each for a reason, and reported |
| Streaming taps (`_stream_tap.py`, `_stream_capture.py`, `_stream_capture.ts`) | line and event buffers, finalized flag | read a chunk, mark the end, close, finalize | chunks that end anywhere, floods, large frames, a second thread that closes | the usage of the whole stream or none, reported once; bounded memory |
| Lifecycle (`__init__.py`, `_state.py`, `_runtime.ts`, `_shutdown.ts`, `integrations/_base.py`) | global context, registry, instrumentors, patched constructors | `init`, `shutdown`, `instrument`, `uninstrument` | overlapping calls, what is started outside the lock | what runs is what the context refers to; one patch per library |
| Worker isolates (`integrations/_cloudflare.ts`) | the cached attempt to initialise, its env | the handler that `withCheckrd` returns | requests that share an attempt, which may fail; a shutdown after each response | a request is served by an attempt made for its env, and by what still runs |

All components of the repository, those not modelled included, are listed in
`PROJECT.json` ("components"), and the hazards the properties are aimed at, each
at its line, under "hazards".

## 2. The design of the project

Each component has a module of its own, an action per operation or per step
between which others may run. Where a promise is shared it is stated as an abstract
specification, which the detailed ones implement:

* `HighWaterMark`: a version mark that only newer versions pass; `Engine` implements
  it twice (policies and price tables), the control receiver across restarts
  (`SpansRestartsOnceRestored`).
* `Delivery`: an event is settled once and for all, and counters are exact;
  `JsBatcher` and `AsyncBatcher` implement it.
* `Interception`: a request is judged and let out at most once, each for a reason;
  `HttpxTransport` and `FetchTransport` implement it.

Components that interact are composed: the receiver with the engine inside and the
local policy file beside it (`ControlReceiver`), policy evaluation with rules, merges
and counts (`PolicyEngine`), the limiter with its windows. Machines that share
nothing are checked in one run by an MC module in which only one of them moves in
each behaviour. The properties of such a run are conjunctions over its parts; a part
that does not move keeps its initial state, in which its conjunct holds.

Modules about which theorems are proved (and those they extend) use no `RECURSIVE`
operators; constants have named assumptions; invariants are conjunctions of named
parts.

## 3. The modules and the code

### Engine and policy (Rust)

* **`Engine`**, **`HighWaterMark`** — one action per exported function that
  changes state; the engine's lock makes them atomic. The envelope's verification
  is its outcome: the key that signed it, well-formedness, the version, the time of
  signing.
* **`DsseVerification`** — that verification: the checks before the loop
  (`Refuse`), then one action per way through the body of the loop over
  signatures and trusted keys. A signature is whom it is by and what it is over.
* **`PolicyRules`**, **`PolicyEngine`** — rules, matching and merging as
  operators; `evaluate_full` as stages. A URL pattern is the set of URLs it covers
  and the operators on a field are the set of values that satisfy them. Nothing is
  enabled between `Evaluate` and `Return` but the stages of the same call. The history
  variables `charged` and `admitted` say which keys counted a call. A window's expiry is
  `RateLimiter`'s, at times that only grow.
* **`PolicyAnalysis`** — `analyze_policy` and `diff_policies` of drafts, whose
  rules `PolicyRules` evaluates: `AnalysisTrue` says of each kind of warning what it
  means for every request, `DiffTrue` of each difference.
* **`Glob`** — one action per branch of the matcher's loop; the segment-wise
  path without `**` is the action `SegmentBySegment`. The reference meaning
  (`Means`) is the existence of a monotone alignment of pattern and text.
* **`RateLimiter`** — `Check` is a whole call of `check()`:
  eviction, expiry of the queue's front, decision, append. Eviction's ties (the
  order of a `HashMap`) are a choice. A timestamp may be up to `Skew` behind the
  clock, because the host reads it before it takes the engine's lock.
* **`Settlement`** — the merge of a catalogue with an organisation's rates, the
  choice of the row, and the price of a call with rounding and saturation. A pattern
  is the set of models it covers and its number of literals. Prices are not negative, as
  `cost.rs` says of any well-formed bundle; counts may be.

### Batchers, breaker

* **`CircuitBreaker`** — the breaker shared by batcher and receiver.
  `AllowClosed`, `AllowHalfOpen` and `AllowElapsed` are the branches of `allow()`,
  `record_success` and `record_failure` the methods' bodies. Opening time and clock
  are one variable, `age`, saturated at the window; the streak saturates at the
  threshold, beyond which the code cannot tell values apart. A control receiver
  reports twice for one leave: its stream's failure, and how the poll went that
  follows unasked ("polling"). `Abandon` is a client that never reports, such as the
  receiver's thread that ends on a rejected key.
* **`SharedBreaker`** — the JavaScript breaker and the two that share it:
  `fetchWithRetry()` as the batcher calls it (`Call`, `AnsweredOk`, `Rejected`,
  `NoAnswer`, `BackOff`, `Again`) and the receiver's loop (`Poll`, `Held`, the ends of
  poll and stream); and `pollWhileWaiting()` (`timer`, `PollBeside`), which every sleep
  starts, one that an open circuit causes included, and which neither asks the breaker
  nor reports to it. Each opening draws a window between the reset time and its jitter.
  `refused_for`, `leaked` and `beside` count, since the circuit last admitted a call, the
  ticks it refused, the requests of the two that went out without asking it, and those
  polls.
* **`TelemetryBatcher`** — the threads' batcher: one action per step between which
  another thread may run: `enqueue` (`Accept`, `Refuse`) under the lock, the daemon
  thread's loop (`CheckStopped`, `Wait`, `Clear`, `WorkerDrains`), `flush` and `stop`
  on callers, and the send that both share (`Unsent`, `BeginAttempts`,
  `AttemptSucceeds`, `Retry`, `GiveUp`, `CountSent`, `Raise`, `RunGuard`).
  `_events_sent += len(events)` is a read and a later write, as it is in the
  interpreter.
* **`AsyncBatcher`** — the asyncio batcher: an action is what happens between two
  awaits; the worker task can be cancelled wherever it awaits, and the loop itself
  may end and `enqueue()` bind the batcher to another.
* **`JsBatcher`** — the JavaScript batcher: an action is a call up to its first
  await, or what follows an await; at most one flush is in flight, which others join,
  and `urgentFlush()` goes beside it.
* **`Delivery`** — the promise of the last two: `new`, then turned away, or held and
  then `sent`, `dropped` or `lost` (uncounted; each module says when), for good.

### Receivers, watchers and files

* **`ControlReceiver`** (with `Engine` inside) — the threads' receiver: `Boot`,
  `Fetch`, `RestorePolicy`, `RestorePricing`, then `Connect`, `Receive`,
  `CleanDisconnect`, `BrokenStream`, `Poll`, and the application of one message as the
  steps `ApplyKill`, `ApplyPolicy`, `SavePolicy`, `ApplyPrice`, `SavePrice`, so that a
  crash, or the policy file watcher's reload, may fall between an installation and its
  save. The control plane is external: it publishes, tells those who listen, and may
  answer with an earlier policy.
* **`ReceiverThreads`** — the threads that `start()`, `stop()` and a fork of that
  receiver leave: the stop flag and the reference, the five seconds of `stop()`, and
  where the loop looks at the flag. What they apply is `ControlReceiver`'s.
* **`AsyncReceiver`** — the asyncio receiver with its lifecycle: `start()` with the
  restoring of the saved policy, the task's loop, stream and polls, and `stop()`, which
  awaits the task, cancels it after its time limit and closes a client of its own.
* **`JsReceiver`** — the JavaScript receiver: loop, stream, sleep, the poll that goes
  on beside a sleep (`pollWhileWaiting`), `start()` and `stop()` at any time, the
  installations with the trust list awaited between the look at the cache and the
  engine, the fall-back to default-deny, and the bootstrap.
* **`PolicyFileWatcher`**, **`KillSwitchFileWatcher`** — a poll as its steps (stat, two
  comparisons with the field, read, stat, reload, note; look, set, note) in the
  worker's and in the observer's thread, which no lock keeps apart, with the operator
  and the control receiver around it. `overtaken` says that the mtime was last noted for
  contents that the other thread had replaced by then.
* **`JsFileWatcher`** — both JavaScript watchers as one machine: the file system
  answers late, so polls overlap, and `stop()` may overtake `start()`.
* **`StateFile`** — `policy_state.json` written by several writers: temporary file,
  write, sync, replace, sync of the directory, with a failure, a kill or a power failure
  at any of them. A power failure leaves any state the directory had since its last
  sync (`possible`).
* **`KeyFile`** — `identity.key`, made by whoever links it first; failures, short
  writes, power failures, file systems without hard links, and the user who deletes a
  broken file. A process takes over what it reads before it looks whether the two halves
  match, so after that error (`warned`) its next access uses them (`AsksAgain`).

### Transports, taps, lifecycle

* **`Interception`**, **`HttpxTransport`**, **`FetchTransport`** — each request from
  the look at its body over hook and engine to the answer and its report; requests
  interleave where the code awaits or another thread may run.
* **`SseEvents`**, **`StreamTap`**, **`StreamTee`** — streams as lines of the kinds
  the readers tell apart; the Python tap that sits in the application's iteration and
  can be closed by another thread between any two of its steps, the end of the inner
  stream and its marking (`Ends`, `MarkComplete`) and the parts of `finalize()` (`Look`,
  `Claim`, `Flush`, `Judge`, `Capture`) included; and the JavaScript reader of a teed
  half. `ended`, `cut` and `raced` are the history that the tap's promise speaks of.
  `Tally` and `FieldwiseTally` are the references: what each reader should make of the
  whole stream.
* **`Lifecycle`** — `init()` and `shutdown()` by several threads: the exchange of the
  context under the lock; starting and noting parts outside it.
* **`WorkerIsolate`** — `init()`, `initAsync()`, `shutdown()` of the JavaScript SDK and
  the registry of what is to be closed; and the handler of `withCheckrd`: each
  request awaits the cached attempt (`ArriveCold`, `ArriveWarm`), an attempt is
  `initAsync()` and then `wrapAsync()` (`Initialised`, `WrapContext`,
  `WrapInitialises`, `WrapLocal`), and a response is followed by `shutdown()`.
* **`Instrumentation`** — when a library's constructor is patched and restored.

Theorems are in **`FoldLaws`** and in the **`…Proofs`** modules; **`MC…`** and `*.cfg` are instances.
Operators that begin with a comment "Mutant of" are faulty variants of the operator
that follows them; no specification uses them. Each property is known to fail
when one of them takes the operator's place.

## 4. What the runs check and show

| Run | Properties | What it shows |
|---|---|---|
| `process` | `AllTypeOK`, `FieldsAgree`, `RefusalBounded`, `BreakerRecovers`, `ThreadsFollow` | the breaker: late failures and successes keep state, streak and opening time consistent, callers are refused for at most one window per report that may still come (two of a receiver's), and the circuit closes for good once the endpoints stay up; the two Python file watchers: which writes take effect and when the switch follows the sentinel; the receiver's threads: a started one is served, only threads that `stop()` gave up on live beside, a stopped one comes to rest |
| `engine` | `AllTypeOK`, `EnvelopesJudged`, `BundlesMarked`, `DefencesHold`, `ReceiversObey` | the engine implements `HighWaterMark` twice and loosens no defence on the side; an envelope is accepted exactly when a trusted key vouches for it before anything malformed is met; the asyncio and the JavaScript receiver know what is installed, end up with what the control plane says, and come to rest after `stop()` |
| `control` | `TypeOK`, `SpansRestartsOnceRestored`, `ObeysControlPlane` | with every fault, an open stream has brought all but named exceptions (`HeardKill`, `HeardPolicy`), kill switch and policy end up as published, and persisted versions keep older bundles out where the policy was given by the caller |
| `batchers` | `AllTypeOK`, `NoneLostNoneTwice`, `CountersHonest`, `StoredOnce`, `FullBatchWakes`, `StopFlushes`, `BatchersKeepTrack`, `QueuesDrain` | the three batchers with lost answers, retries, events that cannot be serialised, a fork, cancelled tasks, another loop, joined and urgent flushes; the breaker that JavaScript's batcher and receiver share: consistent fields, bounded refusal, and what still goes out while it is open: one call's attempts, and a poll per step of a sleep |
| `policy` | `AllTypeOK`, `GuardrailsHold`, `GarblingNeverHelps`, `DryRunPredicts`, `PoliciesMeanWhatTheySay`, `FilesKept`, `StragglersCatchUp` | every merge of a family of policies through reloads; every warning and every difference the author is told of; the JavaScript watchers; the state file and the key file |
| `application` | `AllTypeOK`, `SlidingWindow`, `DenialJustified`, `FindsMatch`, `ParsingKeepsMeaning`, `RequestsReported`, `TapsHonest`, `NothingLeftBehind`, `OnlyOldestForgotten`, `Advances`, `RequestsGated`, `PricedRight` | what a request meets: limits per sliding window less the skew, matching as the alignment says, transports that gate and report, taps that report, at most once, the usage of the whole stream or none, prices; `init()`, `shutdown()` and instrumentation that leave nothing behind, and a worker's cached attempt that is the newest, not failed, and of the request's env |
| `policy_file_mtime` | `MtimeMatchesInstalled` (violated) | a write between read and second stat is never loaded |
| `control_rollback` | `SpansRestarts` (violated) | the bootstrap accepts an older bundle before the persisted version is restored |
| `control_prices` | `PricesAgree` (violated) | after a restart the current price table is refused as not newer |
| `js_default_deny` | `DenySuperseded` (violated) | a policy that is deactivated and published again with the same contents stays out, and default-deny in force |
| `policy_limits` | `RestrictiveLimitFirst` (violated) | the looser of two limits refuses, and its counts use up the stricter one |
| `isolate` | `RequestsServed` (violated) | the second request of a warm isolate is served by a batcher and a receiver that the first one's shutdown has stopped |

Bounds, and why they are enough:

* **process**: three clients (the daemon thread, a caller of `flush`, the
  receiver: all the clients a process has), threshold 3 and window 3: fewer failures
  than the threshold, exactly as many, and late failures of each client, two of the
  receiver's, while the window runs. Two writes of the policy file (removals as well),
  one of them with an old mtime: one may fall into a poll and the other into the gap
  before the next, and with watchdog two polls overtake each other at any of their
  steps. Four changes of the sentinel, one failing engine call, one setting by another.
  Two `start()` and two `stop()` of one receiver and one fork, in any order: an old
  thread meets a new one, and the second `stop()` has both to end.
* **engine**: versions 0 to 2 (0 is the marks' initial value), times 0 to 3 around
  a maximal age and future skew of 1, one key per purpose, two counted calls.
  Envelopes: trust lists of up to two entries over one key pair, two key ids and three
  windows, up to two signatures and one envelope with too many. Receivers: two
  contents, so that one can come back under a new version, and three `start()` calls
  and server changes together, at most two of them `start()`; JavaScript: one
  `pollWhileWaiting()` at a time, a trust list at hand or awaited; asyncio: one `stop()`
  at a time, a client of its own or a supplied one, with and without bootstrap, and any
  earlier version in the file.
* **control**: two publications of two contents, a price table, one kill, a clock
  of two values with maximal age 0 (a bundle of the past is stale), and one incident
  (a crash or a reload of the local policy file), one failed save and one lagging
  answer. The exception `Missaved` would need a third policy; with three and no ageing
  clock `HeardPolicy` was checked as well, and `StreamSaysAll` proves it for any
  number. `control_rollback` and `control_prices` leave out what their counterexample
  does not need.
* **batchers**: three events of two kinds (small, and large ones that cannot be
  serialised), a batch of two, a queue of two events or four bytes, two attempts, one
  caller of `flush()` or `stop()`: both limits of the queue are hit, and two senders
  hold batches at once. Threads: one fork. Asyncio: two loops, one cancelled worker.
  JavaScript: an urgent flush holds one event, one restart.
  The shared breaker: threshold 3, windows of 2 and 3, two attempts per call, so that
  a poll, the connection behind it and a call can each open the circuit again and a
  retry can fall into the window. A tick is no longer than a step of
  `pollWhileWaiting()`. The counters of refusal and traffic are bounded by what they
  show.
* **policy**: merges of policies of at most one deny and one allow from five
  matchers (method, body, two body fields, header, time), each default and mode, and
  three merges with limits of all scopes that replace one another at run time; a
  day of four minutes, a window of one, a clock up to 3. Since policies of these two
  families meet only by reload, the limits are explored without the other family's
  rules but those of their organisation. Drafts: up to three of fourteen rules (seven
  matchers), or three of seven limits, so that a pair may be hidden by a third; all pairs
  of drafts of up to two of seven named rules. Watchers: one write, which may be taken
  back with its mtime, two `start()` calls, two polls at a time. State file: two
  writers, two versions, one fault, one power failure: a slower writer can put an old
  version over a new one and be killed in any step. Key file: two processes, three keys
  made, one fault, one power failure.
* **application**: limiter: three keys in a map of two, limits 2 and 1, window 2,
  skew 1, clock up to 5: a key is evicted with live entries, comes back and fills its
  window again; the cutoff is both saturated and not. Patterns and texts of up to four
  segments over two names, the empty segment, `*` and `**` (patterns that name the second
  name first are left out, the names being alike): two runs of wildcards with a
  segment behind each, which is where going back to the latest run only could go
  wrong. Two requests side by side, capture budgets of 0 to 2. Streams of three lines
  (an event, the blank line, one more) that arrive in pieces; the tap keeps two lines and
  parses events of one, so that an event may be over either limit. Once `close()` has been
  called no further line begins, and what is in a chunk that a finalized tap lets pass
  is left out, as the tap does not look at it. Prices: catalogues of up to
  two of four rows and at most one of two overlays,
  counts that are negative and inconsistent, a unit of four tokens and a largest integer
  of 6, so that both a line item and a sum saturate. Lifecycle: two threads, two
  `init()`, one `shutdown()`, three sets of parts; JavaScript two of each; four
  calls of `instrument()` and `uninstrument()` by two threads. Isolate: two requests, two
  envs, two `initAsync()` and two `shutdown()`, with and without a control plane: a
  request joins a pending attempt, replaces it with another env's, and finds what an
  earlier one has shut down. `isolate` has one env: a warm isolate is enough.

`CHECK_DEADLOCK FALSE` stands where the system really stops: a rejected API key,
a stopped receiver or batcher, all calls made, the matcher's return, and watchers with
watchdog and no event.

## 5. Fairness

* **process** (`AllFairness` of `MCProcess`): weak fairness of the clock, of each
  client's next attempt (batcher and receiver loop for ever) and of its report, which
  may be `Abandon`: a client is never assumed to report. That a circuit stops refusing
  follows from `RefusalBounded` and the clock. Weak fairness of each watcher thread's
  steps and of the observer's wake-up: `_run_polling` waits with a timeout, watchdog
  delivers its events. Weak fairness of each receiver thread's steps: a connection has
  10 seconds and a read 90 (`control.py:432`), heartbeats are events and end a read, and
  the polls and waits have time limits.
* **engine** (`AllFairness` of `MCEngine`): weak fairness of what a receiver is obliged
  to do (a task runs once it is made, sleeps and time limits end, requests are answered
  or fail, aborts and cancellations are noticed); strong fairness of the breaker's leave
  to connect, of connections and of what a stream delivers: a server that is asked again
  and again is reached in the end. As one receiver moves in a behaviour, the fairness of
  the step of either is the fairness of both. A stream need never end.
* **control** (`FairSpec`): weak fairness of the process's own steps, and of attempts
  to connect; strong fairness of `Connect` and `Receive`, that is, of a network that
  does not fail every attempt for ever. Without it no SDK could be told anything.
  Publications, crashes, failed saves and lagging answers are not fair.
* **batchers** (`AllFairness` of `MCBatchers`): weak fairness of the daemon thread,
  which waits with a timeout, of the asyncio worker while its loop runs, of the
  JavaScript timer and of answers; and of callers that are in `flush` or `stop`.
  Requests are answered, fail or time out, as the HTTP client's timeout ensures.
  Nothing forces a caller to call or a loop to begin.
* **policy** (`AllFairness` of `MCPolicyAndFiles`): the file system answers and timers
  fire; a save goes on until it is over or fails. Nobody need start or stop a watcher.

`application` states no fairness; `FairSpec` of `JsReceiver` is that of its part of
`engine`.

## 6. What is proved

TLAPS proves the following for every value of the constants that satisfies the
named assumptions of the modules. Every module's assumptions are also evaluated by
the runs. A theorem about one part of a property that a run checks as a
conjunction is listed without one. Liveness being out of TLAPS's reach, safety and
liveness are properties of their own.

* **`ProcessProofs`**, on the breaker (any finite set of clients, threshold, window):
  `BreakerTypeCorrect`; `FieldsAlwaysAgree`, which is inductive with the types;
  `RefusalAlwaysBounded`. The bound alone is not inductive: the strengthening adds the
  ticks refused so far, what is left of the current window, one window for every
  attempt still in flight and another for those of receivers that may yet poll; each
  late failure trades a report for a window.
  On the rest of the process (either backend, any number of writes, changes, failures,
  starts, stops and forks): `ThreadsAlwaysSafe`, the safety part of `ThreadsFollow`.
  Of the policy's watcher the invariant says that what a poll holds behind the parser has
  been parsed (`Parsed`), whatever the file is by then; and that an mtime that is that of
  the last write, recorded or held by a poll that is about to record it, comes with the
  contents of that write, unless the write was unsafe (`Latest`), a thread is between its
  reload and its noting, or noted what the other's reload had replaced (`overtaken`). From
  it follows that no poll of either thread hides a later change (`NothingHidden`). Of the sentinel's, that
  `_last_present` is the switch at every step of a poll but the one between setting and
  noting, where the switch is what is about to be noted (`Noted`). Of the threads, that
  the receiver's thread is the one that `stop()` waits for, and that a receiver whose
  thread nobody waits for is not stopped (`Receiving`); and that what is applied late is
  applied under the flag, an answer by a thread that can only end after it (`LateShape`).
  `ProcessTypesHold` adds the types; that file events are bounded by the writes rests on
  a removal being followed by a write (`PolicyShape`). `BreakerAlwaysTrue` says that the
  theorems on the breaker hold in the composition: whichever part moves, each behaves
  as its own module says (`EachItsOwn`).
* **`RequestProofs`**, on the limiter (any keys, limits, window, skew, capacity):
  `LimiterTypeCorrect`, `WindowAlwaysSlides`, `DenialAlwaysJustified`,
  `TableAlwaysBounded`, `OldestAlwaysForgotten`. The invariant ties a key's queue to its
  recorded admissions: the queue is a suffix of them, and whatever was dropped before it
  is older than any later call's cutoff plus skew. The lemmas say what expiry drops, and
  by counting that a call evicts at most one window.
  On the matcher (any patterns and texts): `TypeCorrect`, `MatchFound`,
  `LoopAdvances`, `ParsingAlwaysKeepsMeaning`. The loop invariant says that the pattern
  before the latest run is laid along the text before the mark (`Behind`), and that if
  any alignment is left, there is one in which the rest begins at the mark or later
  (`Ahead`): going back only to the latest run loses nothing. Parsing is a fold, and
  that it keeps the meaning of a pattern is shown by induction over the pattern: the
  ends of the texts that a parsed pattern reaches are those its written form reaches
  (`KeepsReach`), and a many-wildcard behind another reaches nothing new.
  On the readers of token usage (any streams, chunks and limits): `TapsAlwaysHonest`. The
  invariant of the Python tap (`TapInv`) says where the two threads are relative to the flag
  and the reports (`TapPlaces`), that the bytes counted are those kept and that the tap is
  over its limit only with a reason (`TapMeasures`). As long as no `close()` began before the end
  was marked and no two threads raced (`Solo`), the retained events are, in order, those of
  the lines that are over which have a marked line (`FramesOf`) and the current event is the
  rest (`Fed`, `TapKeeps`). What is judged, held by a thread and told is what those events
  say (`TapJudges`, `TapHolds`, `TapTells`): events over the frame limit are skipped
  (`EventWithin`), the others count (`Countable`). It equals `Tally` because an event of which one line is data contributes just that line
  (`PayloadIsSole`), each line is in one event (`SoleOnce`), and the order makes the last
  event's the latest line. That of the JavaScript reader says that its counts are those of
  the lines before the current event (`Counts`) and its data the data lines since (`Gathers`).
* **`FoldLaws`** (any operator): `FoldNone` and `FoldOn`, what `FoldLeft` is of no members
  and of one more. No library theorem says so, and TLAPS cannot instantiate a theorem
  whose parameter is an operator; here the operator is the constant of a module, and an
  instance of the module provides the laws for it. The proof shows by
  induction that the recursive function behind the fold exists and does not depend on what
  comes after the members it has seen. `EverySequence` is induction over sequences with
  the set of those that have the property in the place of the property.
* **`EngineProofs`** (any versions, keys, clocks): `EngineTypeCorrect`;
  `BundlesAlwaysMarked`, the step-by-step refinement of `HighWaterMark` by each
  function, for policies and for price tables; `ActiveBundlesAlwaysNewest`, which
  follows from the abstract specification alone; `DefencesAlwaysHold`. And of
  `DsseVerification` (any envelopes, trust lists and clocks): `VerificationTypeCorrect`
  and `EnvelopesAlwaysJudged`. The invariant says of every pair of a signature and a key
  behind the loop that it did not end it, which is why the first pair that decides is the
  one the verdict is about, and that the flags the error is chosen by are true of
  the pairs behind.
  On the two receivers that share an event loop with their application (any contents,
  polls, starts and changes): `ReceiversAlwaysSafe`, the safety part of `ReceiversObey`.
  For JavaScript's (`JsInv`) the installations that await a trust list are the
  difficulty: no version that is in force or still to be installed is ahead of what was
  published (`JsHolds`, `JsPending`), and before the first `start()` nothing is cached or
  pending, so that the bootstrap makes no cache stale (`JsFresh`). For asyncio's
  (`AioInv`), the only task that can run is the one in `_task`, and there is none once
  `stop()` has returned, unless a `start()` overtook it (`AioOne`); that nothing is
  applied late but the answer of a poll under way is an action property (`AioLast`).
  `EngineTypesHold` adds the types, and `EngineAlwaysTrue` says that the theorems on the
  engine and the verification hold in the composition (`EachItsOwn`).
* **`BatchersProofs`** (any finite events, callers and bounds), on the threads' batcher:
  `BatcherTypeCorrect`, `NoneEverLostOrDoubled`, `StopAlwaysFlushes`,
  `FullBatchAlwaysWakes`, `AlwaysStoredOnce`, `CountersAlwaysHonest`. The account of
  events (buffer and batches are disjoint and hold exactly the unsettled ones) carries
  the others: stopping adds where a closing caller is, storage adds that only a batch
  whose key is known has copies, the counters add that what a thread has read is no
  more than the acknowledged events. `QueueAlwaysCounted` adds that the byte count is
  that of the buffer, each of whose events was counted when it entered.
  On the others: `JsAlwaysDelivers` and `AioAlwaysDelivers`, the step-by-step refinement
  of `Delivery`. Each step moves one set of events to the same end (`Meets`), which is a
  step of the promise and changes the counters by their number (`Moved`). For the sets to
  be those the code counts, an event must be in one place: the queue is without
  repetition and apart from the batches (`JsInv`); only a task that is attempting has a
  batch, and a worker that lives belongs to the loop that runs (`AioInv`). That `stop()`
  flushes adds where the tasks of a closing caller are.
  On the breaker they share (any threshold, window, jitter, number of attempts):
  `BreakerTyped`, `BreakerFieldsAgree`, `BreakerRefusesBriefly`, `BreakerPacesTraffic`. The
  last two follow from one strengthening (`BreakerBudget`): while the circuit is open, the
  ticks refused, the rest of the window and a window for each report still possible come to
  three at most, and what has gone out unasked and what the calls under way may still
  send to the attempts of one call. The receiver's poll weighs two windows, its own and
  that of the connection behind it. The polls beside a sleep never get ahead of the ticks of
  refusal by more than the one whose timer has run out (`PollsPaced`).
  And of the composition: `BatchersAlwaysKeepTrack`, `BatcherTypesHold`.
* **`PolicyAndFilesProofs`**, on the policy engine (any policies, requests, values, drafts):
  `GuardrailsAlwaysHold`, `GarblingNeverHelped`, `DryRunPredicted`, `PoliciesAlwaysMean`,
  `PolicyTypesHold`. The first invariant says how the policy in force
  came about (`Made`), what is evaluated (`Called`), that a dry run has skipped the
  limits and counted nothing (`DryRunSkips`), and that each answer is one `Permitted`
  justifies (`Decided`). Guardrails then follow from the lemma that a merge keeps
  every deny of either source, and garbling from the monotonicity of matching.
  The second (`CountsInv`) follows a call through its limits: nothing in a window is of
  the future (`Past`), what was let through was counted and counts as long
  (`Counted`), the limits a call has passed are those that charged it (`Charges`), each
  of which has room for it (`Within`), and so nothing goes over a limit of the policy
  it was let through under (`Budgeted`). That a merged policy counts no call twice needs
  the limits of a merge to be of different scopes: they are pushed in a fold over the map's
  entries, each of which has at most one limit (`Picks`). Hours are round the
  clock by the laws of the remainder (`ModuloMoves`, `ModuloRests`). The author's
  invariant only says that an answer is what the operators make of the draft; the
  lemmas show what that means: warnings of each kind are told apart (`WarningsAre`), two
  matchers that match one request overlap (`MatchedOverlap`), a rule equivalent to an
  earlier one of its hours never decides (`RedundantSilent`), the limits of a draft are
  ranked as the merge lists them (`ListedRanks`), so the last of the strictest of a scope
  is the one that neither drops (`WarnedLimits`), and drafts whose difference is empty
  have the same rules under the same names (`NothingChanged`). The watcher's invariant
  (`WatcherInv`) bounds what a poll holds while it awaits the file system; `Noted` says
  that no poll reads before an mtime has been noted, and until then, if no change was
  missed, the file is the one that was loaded.
  On the files (any writers, processes, versions, keys, faults and power failures):
  `FilesAlwaysKept`, `StateTypesHold`. The invariant of the state file says what a save has
  in hand at each step: what is about to replace the file is at least as new as its
  writer's last save unless it was cut short, and what has replaced it is the saver's or a
  later one's, so that every file a power failure may leave is one of those. The key
  file's adds to `OneKey` what was written short and where a key is held before it is in
  use (`Torn`, `Linkable`), and that a process that was told of a mismatch holds the pair
  that does not match (`Mismatched`); its bounds are a conjunct of their own (`KeyBounded`).
* **`ControlReceiverProofs`** (any contents, versions, faults): `ReceiverTypeCorrect` and
  `RestoredSpansRestarts`, for policies and for prices. `SpansRestartsOnceRestored` needs
  that the engine of a process refuses what is older than the file as soon as the file
  has been read (`PolicyRestored`, `PricingRestored`), also when the persisted bundle
  is too old to be installed; for that, bundles must have been signed in the order of
  their versions (`Dated`), and a process that was given its policy must have installed
  no bundle before it restores (`Fresh`).
  `StreamSaysAll` is the safety part of `ObeysControlPlane` (`HeardKill`,
  `HeardPolicy`): while a stream is
  open, the last event that speaks of the switch, or of the policy, says what the control
  plane has, or else the message in hand does, or it has been applied (`KillComes`,
  `PolicyComes`). That a policy the receiver skips is in force, or one of the stated
  reasons holds, rests on what the cache and the engine's version say of the policy in
  force at every step (`Provenance`), and on the cache being empty, and the file as new
  as the engine unless a save failed, until the file has been looked at (`Booted`).
* **`ApplicationProofs`** (any requests, bodies and budgets): `RequestsAlwaysReported` and
  `RequestsAlwaysGated`, the refinement of `Interception` by both transports. The
  invariant says, for each place a request can be in, what has been decided about it,
  sent and counted (`HttpxHeard`, `FetchTold`), and that the budget counts the captures
  that run.
  `NothingEverLeftBehind` (any threads, requests and numbers of calls) has an
  invariant for each part. Of the Python SDK it gives, of every part that runs, the
  reason (`Accounted`): its context is not installed yet, and the part is its sink; the
  part has been overtaken; the context refers to it and nobody has passed it by in
  shutting it down; or it was just started and is about to be noted, by an `init()` that
  nobody has overtaken so far. For this the invariant follows each thread in `init()`:
  what it has yet to note is not noted, and as soon as its context is not the one there
  is, or is being shut down, all of it has been overtaken (`Ordered`, `Overtaking`). Of
  the JavaScript SDK it says that every part bears the number of an `init()` that is not
  awaited any more, so that what ran when `shutdown()` was called cannot come up again
  (`JsKept`); of an isolate, that every request awaits an attempt there is, and that the
  cached one is for the last env; and of the patching, that as long as one instrumentor
  was made, the thread that holds its lock is the only one between reading the constructor
  and writing it (`Alone`), while the number of instrumentors is bounded by counting the
  threads that may yet make one (`Makes`).
  `PricesAlwaysRight` (any catalogues, rates, prices and counts): the invariant
  (`PriceInv`) only says that the table in force is a merge and that a result is what
  `settle` makes of it; the lemmas show what that means. The rows kept from the
  catalogue are numbered by rank (`PlacesNumbered`), which gives the merged table's rows
  their places (`MergedRows`); the row chosen is the last of the topmost (`RowChosen`); a
  line item is at most half a micro-dollar from its product, and grows with it
  (`RoundingClose`, `ProductGrows`); and a sum that met the largest integer is marked and
  stays so (`CostsAdd`), so a total that is not marked is near the product of all tokens
  (`TotalClose`).
  `ApplicationTypesHold` adds the types of the composition that no other invariant holds:
  of the taps, the type of a tee and of what its lines carry (`RequestInv`, in
  `RequestProofs`).

Only model-checked: all liveness (`BreakerRecovers`, `ThreadsFollow`, `ReceiversObey`,
`ObeysControlPlane`, `QueuesDrain`, `StragglersCatchUp`), which TLAPS does not treat.
The safety parts of `ThreadsFollow`, `ReceiversObey` and `ObeysControlPlane` have
operators (`ThreadsSafe`, `ReceiversSafe`, `HeardKill` and `HeardPolicy`) and theorems
of their own, and what the liveness of the file watchers rests on is proved: what either has recorded of its file is in force, so that the next
poll takes every later change for one (`NothingHidden`, `NotedInForce`). Every
invariant that a passing run checks is proved.

## 7. Disagreements between code and its words

Those with a run are listed under "findings" in `PROJECT.json`.

* `watchers.py:335` records an mtime that is not the one of the bytes it installed
  (`policy_file_mtime`).
* `__init__.py:778` bootstraps before the persisted version is restored
  (`control_rollback`); `control.py:309` restores a price version that then refuses
  its own table (`control_prices`).
* `control.ts:391` leaves the cache as it is when default-deny is installed
  (`js_default_deny`).
* `core/policy.rs:744` checks limits in list order on a shared key, while the
  analysis promises that the stricter applies first (`policy_limits`). A related
  effect: two body-field limits share `bf:__unknown__` for requests that lack their
  fields, so such a request is counted twice (`CountedOnce` leaves that key out), and
  a request a later rule refuses has already been counted by the limits before it.
* `integrations/_cloudflare.ts:160` shuts the SDK down after every response, which is
  called safe on every request, while the cached fetch goes on being used with its
  closed batcher and receiver (`isolate`).

Met while modelling, without a run of their own; the models follow the code:

**Engine, policy, prices**

* `dsse_verify.rs` says an envelope is accepted as long as at least one signature
  verifies; a malformed signature or trusted key that is met before that one ends the
  verification at once.
* `ratelimit.rs:273` speaks of per-key isolation; at `MAX_KEYS` a new key evicts
  another's live window (`OnlyOldestForgotten` says when).
* `WASM-CORE.md:113` says a reload resets the rate-limit counters;
  `interface.rs:1175` keeps them, on purpose.
* An agent's `mode: dry_run` lifts the organisation's denies, which the comment at
  `shared/policy.rs:433` calls unremovable and, two bullets later, subject to the
  agent's mode; `GuardrailsHold` speaks of policies that are enforced.
* `matchers_equivalent` (`shared/policy.rs:804`) ignores times of day, although the
  warning says both rules match the same requests; `overly_broad_allow` fires on rules
  with body, header or time conditions; rules of one name, which nothing rejects,
  collapse in `diff_policies`, which may then say nothing changed when the earlier one
  was removed; a reordering of limits, which changes what is counted, is no
  difference; `redundant_rate_limit` compares the fields of limits whose scope has none,
  which nothing rejects, while the merge's scope key ignores them, so the analysis may miss
  a limit the merge drops (`FieldsBelong`). `AnalysisTrue` and `DiffTrue` state what is
  left.
* `deprecated_after` ("should no longer be used") and a future `effective_from` are
  never looked at by `resolve_sku`; `pricing_bundle.rs:71` speaks of segments while
  `pricing.rs` matches and counts characters; an organisation's rate loses to a list row
  of another pattern that is more specific, or as specific and newer.

**Breaker and batchers**

* `_circuit_breaker.py:39` says one probe is let through; line 114 admits every
  caller while the circuit is half-open, and `Recovers` depends on it. A receiver that was
  admitted once may report two failures, of its stream (`control.py:387`) and of the poll
  behind it (399, 402; `_async_control.py:268-284`), each of which begins the window anew.
* JavaScript's breaker: a call that ends in a network error or a timeout does not
  reach it (`_retry.ts:376`), though `_runtime.ts:568-572` says the batcher trips it on a
  network failure; a poll that is answered 500 counts as a success, ends the streak and
  closes a half-open circuit (`receiver.ts:448` with 361-364); the receiver waits its own
  backoff, not the breaker's window as `receiver.ts:107-112` has it; half-open it admits
  every caller. `_circuit_breaker.ts:5` has every request fail fast while the circuit is
  open, but `pollWhileWaiting()` polls during every sleep of the receiver, the one because
  of the open circuit included, without asking it (`receiver.ts:579`, 594), as do the
  connection behind a failed poll, the retries of a call and `urgentFlush()`
  (`batcher.ts:846`). With `maxRetries: 0`, which `_runtime.ts:122-128` compares to the knob of
  other SDKs, the loop at `_retry.ts:324` sends nothing at all.
* `_events_sent` is called monotonic (`batcher.py:415`), but two threads may write it
  without the lock (line 649); `CountersHonest` claims no more than an upper bound.
  `flush()` and `stop()` lose a batch with an event that cannot be serialised to an
  exception, counted nowhere (line 390). An event accepted after `stop()` is never
  sent (line 350).
* Asyncio: `stop()` raises `CancelledError` when the worker was cancelled; events
  enqueued after it are never sent; a change of loop drops the buffer of the
  previous one uncounted, against `_async_batcher.py:199-200`.
* JavaScript: `stop()` leaves behind what was queued during a flush it joined
  (`batcher.ts:18`, `batcher.test.ts:189`); `urgentFlush()` counts any answer as sent
  (`batcher.ts:433`); a batch with an event that `JSON.stringify` throws on is lost
  uncounted.

**Receivers**

* After a failed save the cache is seeded with an older bundle's hash on the next
  start (`control.py:256` against 121), so the newest contents may not be installed
  again if the server has gone back to older ones in between. That takes a third
  publication and a bootstrap, and is the exception `Missaved` of `PolicyAgrees` and
  `HeardPolicy`. A lagging server's answer on a new stream is corrected by nothing while the stream stays open. A local policy file
  displaces the signed policy until newer contents are published (`watchers.py:336`
  with `control.py:644`).
* A clean disconnect reconnects at once, without a poll or a wait
  (`control.py:100`, 374; `THREAT-MODEL.md:68`). A rejected key never reports to the
  breaker.
* `stop()` is to "wait for it to exit" (`control.py:329`), but gives up on a thread that
  reads, connects, polls or applies for more than five seconds; a `start()` then clears
  the flag (line 189), and if the old thread has not seen it both receive. A thread that
  was told to end still applies the event it holds and the answer of one poll.
* `control.py` ignores `policy_deactivated`, although `control.ts:11-17` says the
  events are the same.
* Asyncio: `stop()` closes a client of its own, so a later `start()` never connects; a
  `start()` between the end of the task and the return of `stop()` is forgotten
  (`_async_control.py:206`), or its task cancelled if the time limit had passed (line
  201), and a further `start()` runs a second loop; it "mirrors ControlReceiver
  interface exactly" (lines 3-6) but has no prices; `start()` seeds the cache with the
  file's hash although the engine may have a newer policy (line 161); after `stop()` a
  failing connection is still followed by one poll, whose answer is applied.
* JavaScript: a late answer of `pollWhileWaiting()` sets the kill switch back while
  the stream stays open (`receiver.ts:11-14`), and it polls after `stop()` without
  another look; a `policy_deactivated` missed while disconnected is never made up for;
  `stop()` during a poll is followed by a connection nothing can abort; a `start()`
  while a `stop()` takes effect leaves two loops; a `stop()` during a sleep is logged as
  a crash; polls have no time limit of their own; after the bootstrap the cache is
  empty, so the same bundle is refused by the engine and logged as rejected once.

**Watchers and files**

* A policy file written between the engine's initialisation and the watcher's
  construction is never loaded (`watchers.py:209`); `ChangesApplied` leaves such
  writes out, as it does the one of `policy_file_mtime` and files with an older or equal
  mtime (line 312). With watchdog, worker and observer may poll at once and install the
  older contents last (`watchers.py:276`, 295). They reload (line 336) and note (348) in
  two steps without a lock, so that the mtime of a file may be noted while the policy of
  an older one is in force, and the file is not read again (`overtaken`); and between the
  two looks at `_last_mtime` in line 312 the other may set it to `None`, which is a
  `TypeError` that ends the thread (`"dead"` in the model).
* A failed `set_kill_switch` is not retried although the log says so
  (`watchers.py:480`, 493); the control receiver may switch off what the sentinel
  switched on (`watchers.py:354`).
* JavaScript: a file that changes or appears before it is first seen is noted and not
  applied; the mtime is noted before the read, so a read that fails is not repeated;
  overlapping polls may install the older contents last; `stop()` during `start()`
  leaves the timer running; a `setKillSwitch` that throws is not repeated.
* `_policy_state.py:74-77` says the file holds the highest version any writer has
  seen: with two writers it holds the slower one's until the other's is published
  anew or that writer saves again. Lines 66-70 and 279-280 promise the complete old or
  the complete new file; a short `os.write`, whose count line 325 does not look at,
  breaks that. `mkdir` and `mkstemp` are outside the `try` of a function that "never"
  raises (its callers catch), and a kill leaves a `.policy_state_*.json.tmp` behind.
* `test_identity.py:186` speaks of `O_CREAT|O_EXCL`; `identity.py:339` links a
  temporary file. Its write is not synced and its count not looked at, so a key may be
  in use that no other process will have (`OneKey` says so), and every failure before
  the link, as on a file system without hard links, ends in a `FileNotFoundError`. A
  pair that is rejected with "Corrupt identity key" (line 366) has been assigned before
  it was validated (397-400), so the next access finds a key (305) and uses it.

**Transports and taps**

* A streamed request body raises `RequestNotRead` at `_httpx.py:121`; a request that a
  dry run would deny is reported twice in both SDKs; with `strict` an engine fault denies
  even in a dry run in Python, and not in JavaScript; refusals because of engine
  faults, JavaScript refusals because of the size, and requests allowed whose send
  fails, are not reported; in JavaScript a request passed over because of a fault is not
  either, but its stream is.
* The readers of the two SDKs should agree "frame-for-frame" (`_stream_capture.py:16-17`,
  `_stream_capture.ts:435-436`), but of a `message_delta` without a `message_start`
  JavaScript reports the output tokens (line 578) and Python nothing
  (`_stream_capture.py:370`), and partial OpenAI counts are kept field by field in the
  one and replaced as a whole in the other. `FieldwiseTally` and `Tally` say so.
* `before_request` may "return the event (possibly modified)", but modifications are
  ignored; an exception of the JavaScript hook reaches the application, one of the
  Python hook does not.
* A stream that is closed after its last usage frame is still untallied in Python, and so
  may be one that was read to its natural end, if another thread's `close()` comes
  between that end and `mark_complete()` (`_stream_tap.py:242-246`). An event over 1 MiB
  is skipped (`_stream_capture.py:97`, 196), so usage that it bears is not counted.
  Two threads that finalize at once report a stream twice (`_stream_tap.py:184` says
  "exactly once"); neither the frame under construction in Python nor `dataLines` in
  JavaScript counts toward the limit; a last line without a line end is lost; the
  JavaScript reader goes on after the application cancels, and after a flood its half is
  not cancelled although its budget is given back; streams of a dry run are not read in
  JavaScript.

**Lifecycle**

* Python: `init()` starts and notes receiver and watchers outside the lock, so an
  overlapping `init()` or `shutdown()` leaves them running (`_state.py:23-24`,
  `tests/test_state.py:486-490`); after a second `init()` the patched constructors stay
  with the first context, whose receiver and sink are stopped (`_state.py:17-20` says
  one engine, one kill switch); a second `init()` with the same explicit sink gets a
  stopped one; a permissive failure of a second `init()` marks the SDK degraded while the
  old context stays; two threads may make two instrumentors of one library, and
  `uninstrument` then leaves a patch (`__init__.py:1178`).
* JavaScript: a second `init()` leaves the first batcher and receiver running until
  `shutdown()`; a `shutdown()` during an earlier one joins it and does not close what an
  `init()` registered meanwhile; an `initAsync()` that is pending at `shutdown()` sets a
  context and starts parts afterwards. `NothingLeftBehind` states what holds beside
  these.
* Client classes: Python's `Checkrd.close()` ends any global context, another client's
  too (`client.py:535-541`), and `_ensure_global_context` looks and initialises without
  a lock (line 572); in JavaScript `ready()` keeps its promise after `close()`
  (`client.ts:146`), and `wrap()` after another client's `close()` returns the unwrapped
  fetch, as if the SDK were degraded (line 236).
* Integrations: `claude_agent_sdk.py` and `integrations/mcp.py` still send events of the
  shape that `openai_agents.py:605-607` says the ingest endpoint rejects; `_langchain.ts:224`
  reports a denial it only observes as allowed.

## 8. What is not modelled, and why

* **`stop()` and the fork of the Python watchers**: their threads have the flag, the
  time limit and the reset that `ReceiverThreads` and `TelemetryBatcher` model.
* **Ed25519, HTTP message signatures, base64 and JSON**: cryptography and formats, out
  of a model checker's reach; the decisions around them are modelled.
* **`run_policy_tests`**: the first call of `PolicyEngine` with a fresh limiter, per
  case.
* **Retry hints and jitter**: they decide how long a wait lasts; any wait is a choice
  of when the next step happens.
* **`wrap()`, health reports, settings and option resolution, client class,
  responses and pagination, telemetry sinks and OTLP, GenAI field extraction, hooks and
  webhooks, server middleware and MCP, what each integration does to its library's
  objects, command line, test helpers**: adapters, formats and
  I/O around the modelled parts. What some of them keep (the buffer of the JavaScript
  OTLP sink, the tables of calls under way of the LangChain integrations) is handled
  as in the batchers and transports that are modelled. These, the generated API clients and the schemas
  make up most of the repository's lines, which is why the map covers about a
  fourteenth of them: naming their lines under definitions that do not translate them would say
  nothing about them.

Left out within the modelled components: log messages, evaluation paths and labels,
headers and TLS settings, JSON numbers and strings that print alike as a limiter's
key, hosts whose names collide with the limiter's reserved keys, a JavaScript engine
whose `setKillSwitch` throws, a directory that cannot be synced, and event counters of
diagnostics.
