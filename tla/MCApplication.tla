---------------------------- MODULE MCApplication ----------------------------
(* What an application asks of the SDKs, part by part: what its requests meet   *)
(* (the rate limiter, the wildcard matchers, the two transports, the readers of  *)
(* streamed answers, the price of a call), init() and shutdown() in both SDKs,  *)
(* an isolate that serves requests with one cached fetch, and the patching of   *)
(* libraries in Python.  They share no state but that of the JavaScript SDK, so *)
(* the behaviours explored are those in which one of the eleven moves.          *)
(*   The limiter has three keys of which the map holds two: every kind of      *)
(* eviction happens, and key a can fill its window across two of them.  The    *)
(* matchers get the patterns of up to MaxPattern segments and every text of    *)
(* up to MaxText.  Costs are out of range from 7 up, and a price is for four   *)
(* tokens; the rows tie on literals, on time, on both and on neither.          *)
(*   Two threads, two init() and one shutdown(): an init() or a shutdown() can *)
(* displace a context whose parts another init() is still starting.  Three     *)
(* sets of parts have every part in them, and a watcher with and without the   *)
(* one before it.                                                              *)
EXTENDS RateLimiter, Glob

CONSTANTS a, b, c, MaxPattern, MaxText,
          Requests, Capacities, MaxLines, TapLimit, FrameLimit, EventLimit, SecondThread,
          AppThreads, MaxInits, MaxShutdowns, Nobody, MaxJsInits, MaxJsShutdowns,
          WorkerRequests, Envs, MaxPatchCalls, None,
          Vendors, Models, ModelPatterns, Covers, Literals, TokensPerUnit, MaxInt,
          Catalogues, Usages

VARIABLES
    moving,  \* which part does
    httpx_setup, httpx_metering, httpx_async, httpx_pc, httpx_judged, httpx_outcome,
    httpx_tapped, httpx_reported,
    fetch_setup, fetch_pc, fetch_judged, fetch_outcome, fetch_capture,
    in_use, capacity, dropped_budget, fetch_reported,
    tap_provider, tap_lines, tap_line, line_buf, cur_frame, frames, retained,
    tap_complete, overflow, finalized, tap_pc, came, too_long, whole,
    ended, cut, raced, tap_reported,
    tee_provider, tee_lines, tee_line, pieces, arrived, data, usage, terminal,
    tee_complete, tee_pc, tee_reported,
    lock, context, degraded, wanted, running, noted, life_pc, mine, old,
    inits, shutdowns, overtaken,
    js_context, js_degraded, pending, js_inits, live, closing, disposables, draining,
    in_flight, call,
    plane, cached, last_env, attempts, request, started,
    singleton, made, holder, instrumented, original, constructor, at, wants, using, seen,
    calls,
    catalogue, overlays, table, settled, price_result

MCKeys == {a, b, c}
MCLimit == [k \in MCKeys |-> IF k = a THEN 2 ELSE 1]
\* The names "a" and "b" are treated alike: patterns in which "b" comes first are left out.
MCPatterns == {written \in BoundedSeq(Names \cup {One, Many}, MaxPattern) :
                  \A n \in DOMAIN written :
                      written[n] = "b" => \E m \in 1..n - 1 : written[m] = "a"}
MCTexts == BoundedSeq(Names, MaxText)

Httpx == INSTANCE HttpxTransport WITH
    setup <- httpx_setup, metering <- httpx_metering, asynchronous <- httpx_async,
    pc <- httpx_pc, judged <- httpx_judged, outcome <- httpx_outcome,
    tapped <- httpx_tapped, reported <- httpx_reported

Fetch == INSTANCE FetchTransport WITH
    setup <- fetch_setup, pc <- fetch_pc, judged <- fetch_judged, outcome <- fetch_outcome,
    capture <- fetch_capture, reported <- fetch_reported

Tap == INSTANCE StreamTap WITH
    provider <- tap_provider, lines <- tap_lines, line <- tap_line,
    complete <- tap_complete, pc <- tap_pc, reported <- tap_reported

Tee == INSTANCE StreamTee WITH
    provider <- tee_provider, lines <- tee_lines, line <- tee_line,
    complete <- tee_complete, pc <- tee_pc, reported <- tee_reported

ASSUME TapAssumed == Tap!StreamTapAssumption
ASSUME TeeAssumed == Tee!StreamTeeAssumption

httpxVars == <<httpx_setup, httpx_metering, httpx_async, httpx_pc, httpx_judged,
               httpx_outcome, httpx_tapped, httpx_reported>>
fetchVars == <<fetch_setup, fetch_pc, fetch_judged, fetch_outcome, fetch_capture,
               in_use, capacity, dropped_budget, fetch_reported>>
tapVars == <<tap_provider, tap_lines, tap_line, line_buf, cur_frame, frames, retained,
             tap_complete, overflow, finalized, tap_pc, came, too_long, whole,
             ended, cut, raced, tap_reported>>
teeVars == <<tee_provider, tee_lines, tee_line, pieces, arrived, data, usage, terminal,
             tee_complete, tee_pc, tee_reported>>
partsVars == <<vars, matchVars, httpxVars, fetchVars, tapVars, teeVars>>

Moves(part, A) == moving = part /\ A /\ UNCHANGED moving

\* What those that stay put start with makes no difference.
PartsInit ==
    /\ Init
    /\ Httpx!Init
    /\ moving # "httpx" => httpx_setup.enforce /\ httpx_setup.strict
                           /\ httpx_metering /\ httpx_async
    /\ Fetch!Init
    /\ moving # "fetch" => fetch_setup.enforce /\ fetch_setup.strict /\ capacity = 0
    /\ Tap!Init
    /\ moving # "tap" => tap_provider = "openai"
    /\ Tee!Init
    /\ moving # "tee" => tee_provider = "openai"
    /\ IF moving = "matcher" THEN MatchInit
       ELSE raw = <<One>> /\ text = <<Blank>> /\ MatchInit

PartsNext ==
    \/ Moves("limiter", Next) /\ UNCHANGED <<matchVars, httpxVars, fetchVars, tapVars, teeVars>>
    \/ Moves("matcher", MatchNext) /\ UNCHANGED <<vars, httpxVars, fetchVars, tapVars, teeVars>>
    \/ Moves("httpx", Httpx!Next) /\ UNCHANGED <<vars, matchVars, fetchVars, tapVars, teeVars>>
    \/ Moves("fetch", Fetch!Next) /\ UNCHANGED <<vars, matchVars, httpxVars, tapVars, teeVars>>
    \/ Moves("tap", Tap!Next) /\ UNCHANGED <<vars, matchVars, httpxVars, fetchVars, teeVars>>
    \/ Moves("tee", Tee!Next) /\ UNCHANGED <<vars, matchVars, httpxVars, fetchVars, tapVars>>

\* Every variable of the six parts has its type.
PartsTypeOK ==
    /\ TypeOK /\ MatchTypeOK
    /\ Httpx!TypeOK /\ Fetch!TypeOK /\ Tap!TypeOK /\ Tee!TypeOK

\* Each transport judges a request at most once and lets it out at most once, and
\* only what it was judged to be, the mode and the hook's answer decide which
\* (handle_request, handle_async_request, wrapFetch).
RequestsGated == Httpx!GateHolds /\ Fetch!GateHolds

\* The control plane hears of every judged request exactly what its module says,
\* and the capture budget counts the captures that run (_log_telemetry,
\* enqueueEvalEvent, StreamCaptureBudget).
RequestsReported == Httpx!Reports /\ Fetch!Reports

\* The token usage reported of a streamed answer is that of the whole stream, but for
\* events too large to parse, wherever its chunks end, and is reported once, with the
\* exceptions for a close() in another thread that StreamTap states; what is kept of
\* the stream meanwhile is bounded (StreamUsageTap, captureStreamTokens).
TapsHonest == Tap!TapHonest /\ Tap!TapBounded /\ Tee!TeeHonest

Row(model_match, per_input, cache_read, effective_from) ==
    [provider |-> "p", model_match |-> model_match, input |-> per_input, output |-> 3,
     cache_read |-> cache_read, cache_write |-> 5, effective_from |-> effective_from]
ListRows == {Row("m*", 2, None, 1), Row("m*", 6, 1, 2), Row("*1", 4, 1, 1), Row("m1", 1, None, 0)}
OrgRows == {Row("m*", 3, 1, 1), Row("*1", 5, None, 2)}
MCCovers == [m \in ModelPatterns |-> IF m = "m*" THEN Models ELSE {"m1"}]
MCLiterals == [m \in ModelPatterns |-> IF m = "m1" THEN 2 ELSE 1]
MCCatalogues == BoundedSeq(ListRows, 2) \X BoundedSeq(OrgRows, 1)
MCUsages == [provider : {"p"}, model : Models, input : {-1, 3, 6}, output : {0, 9},
             cache_read : {0, 2, 6}, cache_creation : {0, 2}]
                \cup [provider : {"q"}, model : Models, input : {3}, output : {1},
                      cache_read : {0}, cache_creation : {0}]

Prices == INSTANCE Settlement WITH Patterns <- ModelPatterns, result <- price_result

ASSUME PricesAssumed == Prices!SettlementAssumption

Settings == {{}, {"sink", "policy_watcher", "switch_watcher"},
             {"sink", "receiver", "switch_watcher"}}

PyLife == INSTANCE Lifecycle WITH Threads <- AppThreads, pc <- life_pc

\* The isolate, and by itself the JavaScript SDK that it uses.
Isolate == INSTANCE WorkerIsolate WITH
    MaxInits <- MaxJsInits, MaxCalls <- MaxJsShutdowns,
    context <- js_context, degraded <- js_degraded, inits <- js_inits

Patching == INSTANCE Instrumentation WITH Threads <- AppThreads, MaxCalls <- MaxPatchCalls

ASSUME PyLifeAssumed == PyLife!LifecycleAssumption
ASSUME IsolateAssumed == Isolate!WorkerIsolateAssumption
ASSUME PatchingAssumed == Patching!InstrumentationAssumption

pyLifeVars == <<lock, context, degraded, wanted, running, noted, life_pc, mine, old,
                inits, shutdowns, overtaken>>
jsLifeVars == <<js_context, js_degraded, pending, js_inits, live, closing, disposables,
                draining, in_flight, call>>
isolateVars == <<plane, cached, last_env, attempts, request, started>>
patchVars == <<singleton, made, holder, instrumented, original, constructor, at, wants,
               using, seen, calls>>
priceVars == <<catalogue, overlays, table, settled, price_result>>
allVars == <<moving, partsVars, pyLifeVars, jsLifeVars, isolateVars, patchVars, priceVars>>

InitWith(movers) ==
    /\ moving \in movers
    /\ PartsInit
    /\ PyLife!LifeInit /\ Isolate!IsolateInit /\ Patching!InstrInit
    /\ moving # "isolate" => plane
    /\ IF moving = "prices" THEN Prices!SettleInit
       ELSE catalogue = <<>> /\ overlays = <<>> /\ Prices!SettleInit

AllInit == InitWith({"limiter", "matcher", "httpx", "fetch", "tap", "tee", "prices",
                     "python", "javascript", "isolate", "libraries"})

AllNext ==
    \/ /\ PartsNext
       /\ UNCHANGED <<pyLifeVars, jsLifeVars, isolateVars, patchVars, priceVars>>
    \/ /\ Moves("python", PyLife!LifeNext)
       /\ UNCHANGED <<partsVars, jsLifeVars, isolateVars, patchVars, priceVars>>
    \/ /\ Moves("javascript", Isolate!JsLifeNext)
       /\ UNCHANGED <<partsVars, pyLifeVars, isolateVars, patchVars, priceVars>>
    \/ /\ Moves("isolate", Isolate!IsolateNext)
       /\ UNCHANGED <<partsVars, pyLifeVars, patchVars, priceVars>>
    \/ /\ Moves("libraries", Patching!InstrNext)
       /\ UNCHANGED <<partsVars, pyLifeVars, jsLifeVars, isolateVars, priceVars>>
    \/ /\ Moves("prices", Prices!SettleNext)
       /\ UNCHANGED <<partsVars, pyLifeVars, jsLifeVars, isolateVars, patchVars>>

AllSpec == AllInit /\ [][AllNext]_allVars

\* The isolate alone.
ServingSpec == InitWith({"isolate"}) /\ [][AllNext]_allVars

\* A request that is served alone finds the parts of the SDK that its fetch uses running,
\* whatever requests came before it: shutdown() is "safe to call from waitUntil on
\* every request" (_cloudflare.ts:172-173).
RequestsServed == Isolate!WarmRequestsServed

\* Every variable of the eleven parts has its type.
AllTypeOK ==
    /\ PartsTypeOK
    /\ PyLife!LifeTypeOK /\ Isolate!JsLifeTypeOK /\ Isolate!IsolateTypeOK /\ Patching!InstrTypeOK
    /\ Prices!SettleTypeOK

\* A call costs what its tokens come to at the price that is its organisation's for that
\* model, up to rounding or marked as out of range, and never less for more tokens
\* (merge_pricing, resolve_sku, settle).
PricedRight == [](Prices!CostExact /\ Prices!RowRight) /\ Prices!MoreCostsMore

\* However init() and shutdown() overlap, what runs is what the global context or the
\* registry of disposables refers to, or an exception that the modules state, and a
\* shutdown() has stopped what it promised to (_GlobalContext.shutdown, shutdownAll);
\* what an isolate has cached is its newest attempt that did not fail (withCheckrd);
\* and a library is patched once, when its instrumentor says so (Instrumentor).
NothingLeftBehind ==
    /\ PyLife!NothingLeaks /\ PyLife!ContextServes
    /\ Isolate!AllReachable /\ Isolate!ShutdownStops /\ Isolate!IsolateCaches
    /\ Patching!PatchedAsSaid
===============================================================================
