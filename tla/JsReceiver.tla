------------------------------- MODULE JsReceiver -------------------------------
(***************************************************************************)
(* The JavaScript control receiver: receiver.ts, its dispatcher control.ts *)
(* and the bootstrap fetch _policy_bootstrap.ts.  Its tasks share one      *)
(* event loop: the loop() of each start(), and the pollWhileWaiting() that *)
(* every sleep() leaves running.  An action goes from one await to the     *)
(* next.  Unlike control.py, loops and polls overlap, and a stopped        *)
(* receiver is abortable only as far as the signals its requests hold.     *)
(*                                                                         *)
(* The n-th setting of the kill switch is n, odd ones switch it on.  A     *)
(* bundle is its kind and version; its contents stand for its hash.        *)
(* Bundles are well-formed, fresh and signed.  The breaker is a choice.    *)
(***************************************************************************)
EXTENDS Naturals, Integers, SequencesExt

CONSTANTS Contents,     \* of bundles, numbered as they first appear
          Loaders,      \* of the trust list: "sync" (default) or "async"
          MaxStarts, MaxPolls, MaxMoves, \* bounds: start() calls,
                        \* pollWhileWaiting() calls at a time, start() calls
                        \* and changes at the control plane together
          None

JsReceiverAssumption ==
    /\ Loaders \subseteq {"sync", "async"} /\ Contents \subseteq Nat /\ None \notin Contents
    /\ {MaxStarts, MaxPolls, MaxMoves} \subseteq Nat

BundleKinds == {"policy", "pricing"}
Loops == 1..MaxStarts
Polls == -MaxPolls..-1
Tasks == Loops \cup Polls

VARIABLES
    \* the control plane (external)
    kills, published, active, changes,
    \* the receiver
    running,
    abort,       \* the number of the AbortController, or 0
    starts,      \* how often start() ran; its number is its loop's
    task,        \* what each loop and each pollWhileWaiting() awaits
    cache,       \* lastInstalledHash, lastInstalledPricingHash
    loader,      \* which kind of loadTrustedKeys it has (input)
    pending,     \* installs that await an async loader
    \* the engine
    kill_switch, \* the setting it holds
    version,     \* the bundles' high-water marks, which are in force ...
    denied,      \* ... unless default-deny was installed over the policy
    seen         \* history: the newest setting it ever held

server == <<kills, published, active, changes>>
engine == <<kill_switch, version, denied, seen>>
installs == <<cache, pending, engine>>
vars == <<server, running, abort, starts, task, loader, installs>>

Idle == [at |-> "off", signal |-> 0, news |-> <<>>]

Init ==
    /\ kills = 0 /\ active = FALSE /\ changes = 0
    /\ published = [k \in BundleKinds |-> <<>>]
    /\ running = FALSE /\ abort = 0 /\ starts = 0
    /\ task = [p \in Tasks |-> Idle]
    /\ cache = [k \in BundleKinds |-> None] /\ pending = {}
    /\ loader \in Loaders
    /\ kill_switch = 0 /\ seen = 0 /\ denied = FALSE
    /\ version = [k \in BundleKinds |-> 0]

\* A request, stream or sleep is aborted by the stop() of its own start().
Aborted(p) == task[p].signal \notin {0, abort}

-------------------------------------------------------------------------------
(* The control plane changes, and tells the streams that are open. *)

\* What a message says; a field may be absent.
Message(kill, policy, pricing, deactivated) ==
    [kill |-> kill, policy |-> policy, pricing |-> pricing, deactivated |-> deactivated]
Absent == -1

\* The state the server answers with, and opens each stream with.
Current == Message(kills, IF active THEN Len(published["policy"]) ELSE 0,
                   Len(published["pricing"]), FALSE)

Tell(m) ==
    /\ changes + starts < MaxMoves /\ changes' = changes + 1
    /\ task' = [p \in Tasks |-> IF task[p].at = "listening"
                                THEN [task[p] EXCEPT !.news = Append(@, m)] ELSE task[p]]
    /\ UNCHANGED <<running, abort, starts, loader, installs>>

SetKill ==
    /\ kills' = kills + 1
    /\ Tell(Message(kills', Absent, Absent, FALSE))
    /\ UNCHANGED <<published, active>>

Publish(k, c) ==
    /\ \A d \in Contents : d < c => d \in ToSet(published[k])
    /\ published' = [published EXCEPT ![k] = Append(@, c)]
    /\ active' = (active \/ k = "policy")
    /\ LET v == Len(published'[k]) IN
       Tell(IF k = "policy" THEN Message(Absent, v, Absent, FALSE)
            ELSE Message(Absent, Absent, v, FALSE))
    /\ UNCHANGED kills

Deactivate ==
    /\ active /\ active' = FALSE
    /\ Tell(Message(Absent, Absent, Absent, TRUE))
    /\ UNCHANGED <<kills, published>>

-------------------------------------------------------------------------------
(* handleControlEvent() *)

\* installSignedPolicy and installSignedPricing skip contents they have cached.
Wanted(m) == {k \in BundleKinds : m[k] > 0 /\ cache[k] # published[k][m[k]]}

Hold(kill) ==
    /\ kill_switch' = IF kill = Absent THEN kill_switch ELSE kill
    /\ seen' = IF kill > seen THEN kill ELSE seen

\* Mutant of Install: also bundles that are not newer.
InstallAny(vs, deny) ==
    /\ version' = [k \in BundleKinds |-> IF k \in DOMAIN vs THEN vs[k] ELSE version[k]]
    /\ denied' = (deny \/ (denied /\ "policy" \notin DOMAIN vs))

\* The engine takes only newer versions; with them goes the cache.
Newer(vs) == {k \in DOMAIN vs : vs[k] > version[k]}
Install(vs, deny) ==
    /\ version' = [k \in BundleKinds |-> IF k \in Newer(vs) THEN vs[k] ELSE version[k]]
    /\ denied' = (deny \/ (denied /\ "policy" \notin Newer(vs)))

\* Mutant of Remember: the hash is cached as the bundle arrives, not as the
\* engine takes it.
RememberEarly(vs) ==
    cache' = [k \in BundleKinds |-> IF k \in DOMAIN vs THEN published[k][vs[k]] ELSE cache[k]]

Remember(vs) ==
    cache' = [k \in BundleKinds |-> IF k \in Newer(vs) THEN published[k][vs[k]] ELSE cache[k]]

\* One event, or the events a poll's answer is turned into: with a synchronous
\* loader the installs are over before anything else runs.
Handle(m) ==
    /\ Hold(m.kill)
    /\ IF loader = "sync"
       THEN /\ LET vs == [k \in Wanted(m) |-> m[k]] IN Install(vs, m.deactivated) /\ Remember(vs)
            /\ UNCHANGED pending
       ELSE /\ pending' = pending \cup {[kind |-> k, version |-> m[k]] : k \in Wanted(m)}
            /\ denied' = (denied \/ m.deactivated)
            /\ UNCHANGED <<version, cache>>

\* An asynchronous loader has answered.
Loaded(b) ==
    /\ b \in pending /\ pending' = pending \ {b}
    /\ LET vs == [k \in {b.kind} |-> b.version] IN Install(vs, FALSE) /\ Remember(vs)
    /\ UNCHANGED <<server, running, abort, starts, task, loader, kill_switch, seen>>

\* bootstrapPolicy, which initAsync awaits before there is a receiver: it has
\* no cache to fill, and takes no prices.
Bootstrap ==
    /\ starts = 0
    /\ Hold(kills) /\ Install([k \in {"policy"} |-> Current.policy], FALSE)
    /\ UNCHANGED <<server, running, abort, starts, task, loader, cache, pending>>

-------------------------------------------------------------------------------
(* loop(), connect(), pollStateOnce(), sleep(), pollWhileWaiting() *)

\* What a task awaits next, with the signal of that moment.
Awaits(at) == [at |-> at, signal |-> abort', news |-> <<>>]

\* sleep(): a pollWhileWaiting() goes along while the receiver runs.
Sleeps(l) ==
    LET free == {f \in Polls : task[f].at = "off"}
    IN task' = [p \in Tasks |-> IF p = l THEN Awaits("sleeping")
                                ELSE IF running' /\ free # {} /\ p = Min(free)
                                THEN Awaits("waiting") ELSE task[p]]

Becomes(p, t) == task' = [task EXCEPT ![p] = t]

\* Mutant of Round: the loop does not look whether the receiver still runs.
RoundAnyway(l) == Becomes(l, Awaits("polling")) \/ Sleeps(l)

\* The next round of loop(): over if stopped; a poll; or, if the breaker
\* refuses, another sleep.
Round(l) ==
    IF running' THEN Becomes(l, Awaits("polling")) \/ Sleeps(l) ELSE Becomes(l, Idle)

quiet == <<server, running, abort, starts, loader, installs>>

Answered(p) ==
    /\ task[p].at = "polling" /\ task[p].news = <<>> /\ ~Aborted(p)
    /\ Becomes(p, [task[p] EXCEPT !.news = <<Current>>])
    /\ UNCHANGED quiet

\* pollStateOnce() is over, with an answer or without one.  The loop goes on to
\* connect even if it was stopped; pollWhileWaiting() to its next wait, until
\* its time is up or the receiver has stopped.
PollOver(p) ==
    /\ task[p].at = "polling"
    /\ \/ task[p].news # <<>> /\ ~Aborted(p) /\ Handle(Head(task[p].news))
       \/ UNCHANGED installs
    /\ UNCHANGED <<server, running, abort, starts, loader>>
    /\ IF p \in Loops THEN Becomes(p, Awaits("connecting"))
       ELSE \/ Becomes(p, Idle)
            \/ running /\ Becomes(p, Awaits("waiting"))

\* The timer of pollWhileWaiting(); whether the receiver still runs is not
\* looked at again.
Waited(f) ==
    /\ task[f].at = "waiting"
    /\ UNCHANGED quiet
    /\ Becomes(f, Awaits("polling"))

Connected(l) ==
    /\ task[l].at = "connecting" /\ ~Aborted(l)
    /\ Becomes(l, [task[l] EXCEPT !.at = "listening", !.news = <<Current>>])
    /\ UNCHANGED quiet

\* An error ends the loop if the receiver stopped, and is slept over otherwise.
Fails(l) ==
    /\ UNCHANGED quiet
    /\ IF Aborted(l) \/ ~running THEN Becomes(l, Idle) ELSE Sleeps(l)

ConnectFails(l) == task[l].at = "connecting" /\ Fails(l)

\* A read error, the read timeout, an abort: what is on its way is lost.
Broken(l) == task[l].at = "listening" /\ Fails(l)

\* Mutant of Receive: what a stream begins with is not for the kill switch.
ReceiveNoKill(l) ==
    /\ task[l].at = "listening" /\ task[l].news # <<>> /\ running
    /\ LET m == Head(task[l].news) IN
       Handle(IF m.policy # Absent THEN [m EXCEPT !.kill = Absent] ELSE m)
    /\ Becomes(l, [task[l] EXCEPT !.news = Tail(@)])
    /\ UNCHANGED <<server, running, abort, starts, loader>>

Receive(l) ==
    /\ task[l].at = "listening" /\ task[l].news # <<>> /\ running
    /\ Handle(Head(task[l].news))
    /\ Becomes(l, [task[l] EXCEPT !.news = Tail(@)])
    /\ UNCHANGED <<server, running, abort, starts, loader>>

\* connect() returns: the server closed the stream, or an event came after
\* stop(), which is left alone.
Closed(l) ==
    /\ task[l].at = "listening"
    /\ IF task[l].news = <<>> THEN ~Aborted(l) ELSE ~running
    /\ UNCHANGED quiet
    /\ Sleeps(l)

Woken(l) ==
    /\ task[l].at = "sleeping" /\ ~Aborted(l)
    /\ UNCHANGED quiet
    /\ Round(l)

\* The breaker lets a woken loop try.
Admitted(l) == Woken(l) /\ task'[l].at # "sleeping"

\* sleep() rejects outside the try blocks: loop() rejects, and the receiver is
\* logged as crashed.
SleepAborted(l) ==
    /\ task[l].at = "sleeping" /\ Aborted(l)
    /\ UNCHANGED quiet
    /\ Becomes(l, Idle)

-------------------------------------------------------------------------------
(* start() and stop(); stop() awaits the loop of the last start(). *)

start ==
    /\ ~running /\ starts < MaxStarts /\ changes + starts < MaxMoves
    /\ running' = TRUE /\ starts' = starts + 1 /\ abort' = starts'
    /\ UNCHANGED <<server, loader, installs>>
    /\ Round(starts')

stop ==
    /\ running
    /\ running' = FALSE /\ abort' = 0
    /\ UNCHANGED <<server, starts, task, loader, installs>>

-------------------------------------------------------------------------------
Changes == SetKill \/ Deactivate \/ \E k \in BundleKinds, c \in Contents : Publish(k, c)

LoopStep(l) ==
    \/ Connected(l) \/ ConnectFails(l) \/ Receive(l) \/ Broken(l) \/ Closed(l)
    \/ Woken(l) \/ SleepAborted(l)

Next ==
    \/ Changes \/ Bootstrap \/ start \/ stop
    \/ \E b \in pending : Loaded(b)
    \/ \E p \in Tasks : Answered(p) \/ PollOver(p)
    \/ \E f \in Polls : Waited(f)
    \/ \E l \in Loops : LoopStep(l)

Spec == Init /\ [][Next]_vars

\* Steps that are taken because timers fire, requests end and aborts are noticed.
Obliged(p) ==
    \/ Answered(p) \/ PollOver(p)
    \/ p \in Polls /\ Waited(p)
    \/ p \in Loops /\ (Woken(p) \/ ((~running \/ Aborted(p)) /\ LoopStep(p)))

\* A server that is asked again and again is reached in the end, the breaker lets it
\* be asked, and what it sends is read.
FairSpec ==
    /\ Spec
    /\ \A p \in Tasks : WF_vars(Obliged(p))
    /\ \A l \in Loops : SF_vars(Admitted(l)) /\ SF_vars(Connected(l)) /\ SF_vars(Receive(l))

-------------------------------------------------------------------------------
\* Every variable has its type (class ControlReceiver).
TypeOK ==
    /\ kills \in 0..MaxMoves /\ changes \in 0..MaxMoves /\ active \in BOOLEAN
    /\ published \in [BundleKinds -> Seq(Contents)]
    /\ running \in BOOLEAN /\ abort \in 0..MaxStarts /\ starts \in 0..MaxStarts
    /\ \A p \in Tasks : task[p].at \in {"off", "polling", "connecting", "listening",
                                        "sleeping", "waiting"}
    /\ cache \in [BundleKinds -> Contents \cup {None}] /\ loader \in Loaders
    /\ kill_switch \in 0..kills /\ seen \in 0..kills /\ denied \in BOOLEAN
    /\ \A k \in BundleKinds : version[k] \in 0..Len(published[k])

\* The cache is empty or holds the hash of the bundle in force, whatever came
\* in between: it never makes the receiver skip contents the engine lacks,
\* except where default-deny was installed over them (getLastHash, onInstalled).
CacheOfVersion ==
    \A k \in BundleKinds : cache[k] # None => version[k] > 0 /\ cache[k] = published[k][version[k]]

Newest(k) == Last(published[k])
Installed(k) == version[k] > 0 /\ published[k][version[k]] = Newest(k)

KillFollows == kill_switch = kills \/ kill_switch < seen
PolicyFollows == active => Installed("policy") /\ (denied => cache["policy"] = Newest("policy"))
PricingFollows == published["pricing"] # <<>> => Installed("pricing")

\* A receiver that runs ends up with what the control plane last said, however
\* connections break and tasks overlap; except that a poll answered early and
\* applied late sets the kill switch back, and that default-deny outlasts a
\* bundle of cached contents (loop, pollWhileWaiting, handleControlEvent).
Agrees == ~running \/ loader = "async" \/ (KillFollows /\ PolicyFollows /\ PricingFollows)

\* After stop() the loops and polls come to an end, also those whose requests
\* no signal can abort any more (stop, loop, pollWhileWaiting).
Unwound == running \/ \A p \in Tasks : task[p].at = "off"

\* The next signed bundle supersedes the default-deny fallback (control.ts:56-57).
DenySuperseded == []<>(~running \/ loader = "async" \/ ~(denied /\ active))
=================================================================================
