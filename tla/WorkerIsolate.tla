----------------------------- MODULE WorkerIsolate -----------------------------
(***************************************************************************)
(* init(), initAsync() and shutdown() of the JavaScript SDK (_runtime.ts), *)
(* and the registry of what is to be closed (_shutdown.ts); and an isolate *)
(* that serves one request after another with one wrapped fetch            *)
(* (withCheckrd in integrations/_cloudflare.ts; initCheckrd in _next.ts    *)
(* caches in the same way): each request awaits the cached attempt to      *)
(* initialise, which is initAsync() and then wrapAsync() of _runtime.ts,   *)
(* and asks for shutdown() once its response is made.                      *)
(*                                                                         *)
(* Code between two awaits is one action.  A second init() leaves the      *)
(* parts of the first to run; they stay in the registry.  A part is the    *)
(* batcher or the receiver of one init(); close() of a part is its stop(), *)
(* whose steps are in JsBatcher and JsReceiver.  An env is a reference.    *)
(***************************************************************************)
EXTENDS Naturals, Sequences, FiniteSets

CONSTANTS MaxInits, MaxCalls

WorkerIsolateAssumption == MaxInits \in Nat /\ MaxCalls \in Nat

Inits == 1..MaxInits
Calls == 1..MaxCalls
Parts == {"batcher", "receiver"} \X Inits

VARIABLES
    context,      \* _context: the init() that made it, or 0
    degraded,     \* _degraded
    pending,      \* the initAsync() calls that await the engine or the bootstrap
    inits,
    live,         \* the parts that run and have not been asked to stop
    closing,      \* the parts whose close() is in progress
    disposables,  \* the registry
    draining,     \* the parts that drain() awaits; they close with a deadline
    in_flight,    \* inFlightShutdown is a promise
    call          \* each shutdown(): where it is, what ran when it was called, and what
                  \* was registered since the shutdown began that it joined
registry == <<live, closing, disposables, draining, in_flight>>
js == <<context, degraded, pending, inits, registry, call>>

NoCall == [at |-> "none", ran |-> {}, newer |-> {}]

JsLifeInit ==
    /\ context = 0 /\ degraded = FALSE
    /\ pending = {} /\ inits = 0
    /\ live = {} /\ closing = {} /\ disposables = {} /\ draining = {} /\ in_flight = FALSE
    /\ call = [k \in Calls |-> NoCall]

-------------------------------------------------------------------------------
\* The parts start and are registered, then the context is set.
CompleteInit(i) ==
    \E made \in {{}, {<<"batcher", i>>}, {<<"receiver", i>>}, {<<"batcher", i>>, <<"receiver", i>>}} :
        /\ live' = live \cup made
        /\ disposables' = disposables \cup made
        /\ context' = i
        /\ UNCHANGED <<closing, draining, in_flight, call>>

init ==
    /\ inits < MaxInits /\ inits' = inits + 1
    /\ UNCHANGED pending
    /\ \/ CompleteInit(inits') /\ degraded' = FALSE
       \* No engine: init() throws, or in permissive mode degrades.
       \/ degraded' \in BOOLEAN /\ UNCHANGED <<context, registry, call>>

initAsync ==
    /\ inits < MaxInits /\ inits' = inits + 1
    /\ degraded' = FALSE
    /\ pending' = pending \cup {inits'}
    /\ UNCHANGED <<context, registry, call>>

InitResumes ==
    /\ \E i \in pending :
          /\ pending' = pending \ {i}
          /\ \/ CompleteInit(i) /\ UNCHANGED degraded
             \/ degraded' \in {degraded, TRUE} /\ UNCHANGED <<context, registry, call>>
    /\ UNCHANGED inits

-------------------------------------------------------------------------------
\* Mutant of Drain: a close() that throws at once ends the loop over the registry.
DrainSome ==
    /\ \E asked \in SUBSET disposables :
          /\ draining' = asked
          /\ closing' = closing \cup asked /\ live' = live \ asked
    /\ disposables' = {}
    /\ in_flight' = TRUE

\* drain() takes the whole registry and asks every part to stop at once.
Drain ==
    /\ draining' = disposables
    /\ closing' = closing \cup disposables
    /\ live' = live \ disposables
    /\ disposables' = {}
    /\ in_flight' = TRUE

\* Calls coalesce onto the shutdown in flight.
shutdownAll == IF in_flight THEN UNCHANGED registry ELSE Drain

Newer == IF in_flight THEN disposables ELSE {}

shutdown ==
    \E k \in Calls :
        /\ call[k].at = "none" /\ \A earlier \in 1..(k - 1) : call[earlier].at # "none"
        /\ call' = [call EXCEPT ![k] = [at |-> "waits", ran |-> live, newer |-> Newer]]
        /\ context' = 0 /\ degraded' = FALSE
        /\ shutdownAll
        /\ UNCHANGED <<pending, inits>>

\* SIGTERM, SIGINT and beforeExit drain the registry and leave the context.
ProcessHandler ==
    /\ inits # 0
    /\ shutdownAll
    /\ UNCHANGED <<context, degraded, pending, inits, call>>

Closed ==
    /\ \E p \in closing : closing' = closing \ {p} /\ draining' = draining \ {p}
    /\ UNCHANGED <<context, degraded, pending, inits, live, disposables, in_flight, call>>

\* withTimeout gives up on a close() that goes on by itself.
GiveUp ==
    /\ \E p \in draining : draining' = draining \ {p}
    /\ UNCHANGED <<context, degraded, pending, inits, live, closing, disposables, in_flight, call>>

\* Mutant of Drained: the registry is emptied when the drain is over.
DrainedClears ==
    /\ in_flight /\ draining = {}
    /\ in_flight' = FALSE /\ disposables' = {}
    /\ call' = [k \in Calls |-> IF call[k].at = "waits" THEN [call[k] EXCEPT !.at = "back"]
                                ELSE call[k]]
    /\ UNCHANGED <<context, degraded, pending, inits, live, closing, draining>>

\* The promise settles, and everybody who awaits it goes on.
Drained ==
    /\ in_flight /\ draining = {}
    /\ in_flight' = FALSE
    /\ call' = [k \in Calls |-> IF call[k].at = "waits" THEN [call[k] EXCEPT !.at = "back"]
                                ELSE call[k]]
    /\ UNCHANGED <<context, degraded, pending, inits, live, closing, disposables, draining>>

JsLifeNext ==
    \/ init \/ initAsync \/ InitResumes
    \/ shutdown \/ ProcessHandler \/ Closed \/ GiveUp \/ Drained

JsLife == JsLifeInit /\ [][JsLifeNext]_js

JsLifeTypeOK ==
    /\ context \in 0..MaxInits /\ degraded \in BOOLEAN
    /\ pending \subseteq Inits /\ inits \in 0..MaxInits
    /\ live \subseteq Parts /\ closing \subseteq Parts /\ disposables \subseteq Parts
    /\ draining \subseteq closing /\ in_flight \in BOOLEAN
    /\ call \in [Calls -> [at : {"none", "waits", "back"}, ran : SUBSET Parts,
                           newer : SUBSET Parts]]

-------------------------------------------------------------------------------
\* Whatever init() has started and nobody has asked to stop is in the registry, where
\* the next shutdown finds it (registerDisposable, drain).
AllReachable == live \subseteq disposables

\* What ran when shutdown() was called no longer does when it returns, but for what
\* was started while the shutdown that it joined was already in flight
\* (shutdownAll).
ShutdownStops ==
    \A k \in Calls : call[k].at = "back" => call[k].ran \cap live \subseteq call[k].newer

-------------------------------------------------------------------------------
(* The isolate. *)

CONSTANTS WorkerRequests, Envs

VARIABLES
    plane,      \* the options name a control plane
    cached,     \* initPromise: the attempt, or 0
    last_env,   \* lastEnv: an env, or "none"
    attempts,   \* each attempt: where it is, its initAsync(), and the init() whose
                \* engine and batcher its fetch uses (0: an engine of its own)
    request,    \* each request: where it is, its env and the attempt it awaits
    started     \* history: the parts each init() started

isolate == <<js, plane, cached, last_env, attempts, request, started>>

Idle == [at |-> "none", env |-> "none", awaits |-> 0]

IsolateInit ==
    /\ JsLifeInit
    /\ plane \in BOOLEAN
    /\ cached = 0 /\ last_env = "none" /\ attempts = <<>>
    /\ request = [r \in WorkerRequests |-> Idle]
    /\ started = [i \in Inits |-> {}]

-------------------------------------------------------------------------------
(* The requests. *)

Arrives(r, env, n) ==
    request' = [request EXCEPT ![r] = [at |-> "awaits", env |-> env, awaits |-> n]]

\* Mutant of Stale: the env is not compared.
StaleOnlyEmpty(env) == cached = 0

Stale(env) == cached = 0 \/ env # last_env

\* The first request, the first one after a failure, or one with another env.
ArriveCold(r, env) ==
    /\ request[r].at = "none" /\ Stale(env)
    /\ initAsync
    /\ attempts' = Append(attempts, [at |-> "init", env |-> env, init |-> inits', serves |-> 0])
    /\ cached' = Len(attempts') /\ last_env' = env
    /\ Arrives(r, env, cached')
    /\ UNCHANGED <<plane, started>>

ArriveWarm(r, env) ==
    /\ request[r].at = "none" /\ ~Stale(env)
    /\ Arrives(r, env, cached)
    /\ UNCHANGED <<js, plane, cached, last_env, attempts, started>>

To(r, place) == request' = [request EXCEPT ![r].at = place]
Awaited(r) == attempts[request[r].awaits]

Handle(r) ==
    /\ request[r].at = "awaits"
    /\ Awaited(r).at = "ready" /\ To(r, "handles")
    /\ UNCHANGED <<js, plane, cached, last_env, attempts, started>>

AttemptFailed(r) ==
    /\ request[r].at = "awaits"
    /\ Awaited(r).at = "failed" /\ To(r, "done")
    /\ UNCHANGED <<js, plane, cached, last_env, attempts, started>>

\* Answered, or denied by policy and answered 403; waitUntil() has begun the shutdown.
Respond(r) ==
    /\ request[r].at = "handles" /\ To(r, "done")
    /\ shutdown
    /\ UNCHANGED <<plane, cached, last_env, attempts, started>>

HandlerThrows(r) ==
    /\ request[r].at = "handles" /\ To(r, "done")
    /\ UNCHANGED <<js, plane, cached, last_env, attempts, started>>

-------------------------------------------------------------------------------
(* An attempt. *)

\* Mutant of Forget: whichever attempt is cached is forgotten.
ForgetAny(n) == cached' = 0 /\ last_env' = "none"

Forget(n) ==
    IF cached = n THEN cached' = 0 /\ last_env' = "none" ELSE UNCHANGED <<cached, last_env>>

\* The handler of the rejection is the first to run.
Fails(n) == attempts' = [attempts EXCEPT ![n].at = "failed"] /\ Forget(n)

Goes(n, place) ==
    attempts' = [attempts EXCEPT ![n].at = place] /\ UNCHANGED <<cached, last_env>>

Serves(n, i) ==
    /\ attempts' = [attempts EXCEPT ![n].at = "ready", ![n].serves = i]
    /\ UNCHANGED <<cached, last_env>>

\* Without an engine initAsync() throws, or it returns and the SDK is degraded.
Initialised(n) ==
    LET i == attempts[n].init IN
    /\ attempts[n].at \in {"init", "init_again"}
    /\ InitResumes /\ pending' = pending \ {i}
    /\ plane \/ live' = live
    /\ started' = [started EXCEPT ![i] = live' \ live]
    /\ \/ /\ context' = i \/ degraded'
          /\ Goes(n, IF attempts[n].at = "init" THEN "wrap" ELSE "wrap_again")
       \/ context' # i /\ Fails(n)
    /\ UNCHANGED <<plane, request>>

\* wrapAsync() takes what the context is by now.
WrapContext(n) ==
    /\ attempts[n].at \in {"wrap", "wrap_again"} /\ context # 0
    /\ Serves(n, context)
    /\ UNCHANGED <<js, plane, request, started>>

WrapInitialises(n) ==
    /\ attempts[n].at = "wrap" /\ context = 0 /\ plane
    /\ initAsync
    /\ attempts' = [attempts EXCEPT ![n].at = "init_again", ![n].init = inits']
    /\ UNCHANGED <<plane, cached, last_env, request, started>>

\* An engine of its own, and no batcher.
WrapLocal(n) ==
    /\ attempts[n].at = "wrap_again" \/ (attempts[n].at = "wrap" /\ ~plane)
    /\ context = 0
    /\ Serves(n, 0) \/ Fails(n)
    /\ UNCHANGED <<js, plane, request, started>>

-------------------------------------------------------------------------------

Shutdowns ==
    /\ Closed \/ GiveUp \/ Drained
    /\ UNCHANGED <<plane, cached, last_env, attempts, request, started>>

IsolateNext ==
    \/ \E r \in WorkerRequests :
          \/ \E env \in Envs : ArriveCold(r, env) \/ ArriveWarm(r, env)
          \/ Handle(r) \/ AttemptFailed(r) \/ Respond(r) \/ HandlerThrows(r)
    \/ \E n \in DOMAIN attempts :
          Initialised(n) \/ WrapContext(n) \/ WrapInitialises(n) \/ WrapLocal(n)
    \/ Shutdowns

IsolateSpec == IsolateInit /\ [][IsolateNext]_isolate

IsolateTypeOK ==
    /\ plane \in BOOLEAN /\ cached \in 0..Len(attempts) /\ last_env \in Envs \cup {"none"}
    /\ \A n \in DOMAIN attempts :
          attempts[n] \in [at : {"init", "wrap", "init_again", "wrap_again", "ready", "failed"},
                           env : Envs, init : Inits, serves : 0..MaxInits]
    /\ request \in [WorkerRequests -> [at : {"none", "awaits", "handles", "done"},
                                       env : Envs \cup {"none"}, awaits : 0..MaxInits]]
    /\ started \in [Inits -> SUBSET Parts]

-------------------------------------------------------------------------------
\* What is cached is the newest attempt, unless that has failed: then nothing is, and
\* the next request tries again; and a request awaits an attempt that was made for
\* its own env (withCheckrd).
IsolateCaches ==
    /\ cached = IF attempts = <<>> \/ attempts[Len(attempts)].at = "failed" THEN 0
                ELSE Len(attempts)
    /\ \A r \in WorkerRequests : request[r].at # "none" => Awaited(r).env = request[r].env

\* A request that is served alone, by the parts that an earlier one had started, finds
\* them running: shutdown() is "safe to call from waitUntil on every request"
\* (shutdownGracefully).
WarmRequestsServed ==
    \A r \in WorkerRequests :
        LET i == Awaited(r).serves IN
        request[r].at = "handles" /\ ~in_flight /\ i # 0
            /\ (\A other \in WorkerRequests \ {r} : request[other].at \in {"none", "done"})
                => started[i] \subseteq live
================================================================================
