------------------------------- MODULE Lifecycle -------------------------------
(***************************************************************************)
(* init() and shutdown() of the Python SDK (__init__.py, _state.py), called *)
(* by several threads of an application.  A lock guards the exchange of    *)
(* the global context; what a context owns (a control receiver, the        *)
(* watchers, a telemetry sink) is started outside it, and each part is     *)
(* first started and then noted in the context.                            *)
(*                                                                         *)
(* A context is the number of the init() that made it, 0 is None.  Every    *)
(* init() has a sink of its own.  Parts stop when they are told to; what    *)
(* their stop() does is in their modules.                                  *)
(***************************************************************************)
EXTENDS Naturals, FiniteSets

CONSTANTS Threads, MaxInits, MaxShutdowns, Nobody,
          Settings  \* the sets of parts that an init() may be asked for

Watchers == {"policy_watcher", "switch_watcher"}
Parts == {"sink", "receiver"} \cup Watchers

LifecycleAssumption ==
    /\ Nobody \notin Threads
    /\ MaxInits \in Nat /\ MaxShutdowns \in Nat
    /\ \A asked \in Settings : asked \subseteq Parts /\ ("receiver" \in asked => "sink" \in asked)

Contexts == 1..MaxInits

VARIABLES
    lock,      \* who holds _LOCK
    context,   \* _GLOBAL_CONTEXT
    degraded,  \* _DEGRADED
    running,   \* the parts of each context that run
    noted,     \* the parts of each context that its fields refer to
    pc, mine, old,  \* per thread: where it is, the context it makes, the one it shuts down
    wanted,         \* and the parts its init() was asked for
    inits, shutdowns,
    overtaken  \* history: the parts, with their context, that were not noted yet when
               \* the context was displaced
shared == <<lock, context, degraded>>
life == <<shared, wanted, running, noted, pc, mine, old, inits, shutdowns, overtaken>>

LifeInit ==
    /\ lock = Nobody /\ context = 0 /\ degraded = FALSE
    /\ wanted = [t \in Threads |-> {}]
    /\ running = [c \in Contexts |-> {}]
    /\ noted = [c \in Contexts |-> {}]
    /\ pc = [t \in Threads |-> "outside"]
    /\ mine = [t \in Threads |-> 0] /\ old = [t \in Threads |-> 0]
    /\ inits = 0 /\ shutdowns = 0
    /\ overtaken = {}

Go(t, to) == pc' = [pc EXCEPT ![t] = to]

-------------------------------------------------------------------------------
(* init() up to the lock. *)

BeginInit(t) ==
    /\ pc[t] = "outside"
    /\ inits < MaxInits
    /\ inits' = inits + 1
    /\ mine' = [mine EXCEPT ![t] = inits']
    /\ degraded' = FALSE
    /\ Go(t, "build")
    /\ UNCHANGED <<lock, context, wanted, running, noted, old, shutdowns, overtaken>>

\* The SDK is disabled, or the engine does not load and the mode is strict.
NoRuntime(t) ==
    /\ pc[t] = "build"
    /\ Go(t, "outside")
    /\ mine' = [mine EXCEPT ![t] = 0]
    /\ UNCHANGED <<shared, wanted, running, noted, old, inits, shutdowns, overtaken>>

\* The engine does not load and the mode is permissive.
Degrade(t) ==
    /\ pc[t] = "build"
    /\ Go(t, "outside")
    /\ mine' = [mine EXCEPT ![t] = 0]
    /\ degraded' = TRUE
    /\ UNCHANGED <<lock, context, wanted, running, noted, old, inits, shutdowns, overtaken>>

\* The runtime is built; a sink runs from its construction.
BuildRuntime(t) ==
    /\ pc[t] = "build"
    /\ \E asked \in Settings :
          /\ wanted' = [wanted EXCEPT ![t] = asked]
          /\ running' = [running EXCEPT ![mine[t]] = asked \cap {"sink"}]
    /\ Go(t, "lock")
    /\ UNCHANGED <<shared, noted, mine, old, inits, shutdowns, overtaken>>

BeginShutdown(t) ==
    /\ pc[t] = "outside"
    /\ shutdowns < MaxShutdowns
    /\ shutdowns' = shutdowns + 1
    /\ Go(t, "lock")
    /\ UNCHANGED <<shared, wanted, running, noted, mine, old, inits, overtaken>>

-------------------------------------------------------------------------------
(* Under the lock: the context there is, if any, is shut down. *)

\* Mutant of Acquire: the exchange is not serialised.
AcquireAnyhow(t) == pc[t] = "lock" /\ lock' = t

Acquire(t) == pc[t] = "lock" /\ lock = Nobody /\ lock' = t

Starting(c) == \E t \in Threads : mine[t] = c /\ pc[t] \notin {"build", "lock"}

ShutDownPrevious(t) ==
    /\ Acquire(t) /\ context # 0
    /\ old' = [old EXCEPT ![t] = context]
    /\ overtaken' = overtaken \cup
          {<<context, p>> : p \in {p \in Parts : Starting(context) /\ p \notin noted[context]}}
    /\ Go(t, "stop_receiver")
    /\ UNCHANGED <<context, degraded, wanted, running, noted, mine, inits, shutdowns>>

NothingToShutDown(t) ==
    /\ Acquire(t) /\ context = 0
    /\ Go(t, "install")
    /\ UNCHANGED <<context, degraded, wanted, running, noted, mine, old, inits, shutdowns,
                   overtaken>>

\* A thread stops part p of the context it shuts down, and forgets it.
Stop(t, p) ==
    /\ running' = [running EXCEPT ![old[t]] = @ \ {p}]
    /\ UNCHANGED <<shared, wanted, mine, old, inits, shutdowns, overtaken>>

StopReceiver(t) ==
    /\ pc[t] = "stop_receiver"
    /\ IF "receiver" \in noted[old[t]]
       THEN Stop(t, "receiver") /\ noted' = [noted EXCEPT ![old[t]] = @ \ {"receiver"}]
       ELSE UNCHANGED <<shared, wanted, running, noted, mine, old, inits, shutdowns, overtaken>>
    /\ Go(t, "stop_watchers")

\* The list is read as it grows, and emptied after its end was reached.
StopWatcher(t) ==
    /\ pc[t] = "stop_watchers"
    /\ \E w \in Watchers \cap noted[old[t]] \cap running[old[t]] : Stop(t, w)
    /\ UNCHANGED <<noted, pc>>

\* Mutant of NoMoreWatchers: the loop ends early.
NoMoreWatchersWanted(t) ==
    /\ pc[t] = "stop_watchers"
    /\ Go(t, "clear_watchers")
    /\ UNCHANGED <<shared, wanted, running, noted, mine, old, inits, shutdowns, overtaken>>

NoMoreWatchers(t) ==
    /\ pc[t] = "stop_watchers"
    /\ Watchers \cap noted[old[t]] \cap running[old[t]] = {}
    /\ Go(t, "clear_watchers")
    /\ UNCHANGED <<shared, wanted, running, noted, mine, old, inits, shutdowns, overtaken>>

ClearWatchers(t) ==
    /\ pc[t] = "clear_watchers"
    /\ noted' = [noted EXCEPT ![old[t]] = @ \ Watchers]
    /\ Go(t, "stop_sink")
    /\ UNCHANGED <<shared, wanted, running, mine, old, inits, shutdowns, overtaken>>

\* Mutant of StopSink: the sink is forgotten and goes on.
StopSinkForgets(t) ==
    /\ pc[t] = "stop_sink"
    /\ noted' = [noted EXCEPT ![old[t]] = @ \ {"sink"}]
    /\ old' = [old EXCEPT ![t] = 0]
    /\ Go(t, "install")
    /\ UNCHANGED <<shared, wanted, running, mine, inits, shutdowns, overtaken>>

StopSink(t) ==
    /\ pc[t] = "stop_sink"
    /\ noted' = [noted EXCEPT ![old[t]] = @ \ {"sink"}]
    /\ running' = [running EXCEPT ![old[t]] = @ \ (noted[old[t]] \cap {"sink"})]
    /\ old' = [old EXCEPT ![t] = 0]
    /\ Go(t, "install")
    /\ UNCHANGED <<shared, wanted, mine, inits, shutdowns, overtaken>>

\* init() installs its context with its sink, shutdown() none.
Install(t) ==
    /\ pc[t] = "install"
    /\ context' = mine[t]
    /\ lock' = Nobody
    /\ IF mine[t] # 0
       THEN /\ noted' = [noted EXCEPT ![mine[t]] = running[mine[t]]]
            /\ Go(t, "start_receiver") /\ UNCHANGED degraded
       ELSE degraded' = FALSE /\ Go(t, "outside") /\ UNCHANGED noted
    /\ UNCHANGED <<wanted, running, mine, old, inits, shutdowns, overtaken>>

-------------------------------------------------------------------------------
(* init() after the lock: each part wanted is started, then noted. *)

Start(t, p) ==
    /\ running' = [running EXCEPT ![mine[t]] = @ \cup {p}]
    /\ UNCHANGED <<shared, wanted, noted, mine, old, inits, shutdowns, overtaken>>

Note(t, p) ==
    /\ noted' = [noted EXCEPT ![mine[t]] = @ \cup {p}]
    /\ UNCHANGED <<shared, wanted, running, mine, old, inits, shutdowns, overtaken>>

StartReceiver(t) ==
    /\ pc[t] = "start_receiver" /\ "receiver" \in wanted[t]
    /\ Start(t, "receiver") /\ Go(t, "note_receiver")

NoteReceiver(t) ==
    /\ pc[t] = "note_receiver"
    /\ Note(t, "receiver") /\ Go(t, "start_policy_watcher")

StartWatcher(t) ==
    \/ /\ pc[t] = "start_policy_watcher" /\ "policy_watcher" \in wanted[t]
       /\ Start(t, "policy_watcher") /\ Go(t, "note_policy_watcher")
    \/ /\ pc[t] = "start_switch_watcher" /\ "switch_watcher" \in wanted[t]
       /\ Start(t, "switch_watcher") /\ Go(t, "note_switch_watcher")

NoteWatcher(t) ==
    \/ /\ pc[t] = "note_policy_watcher"
       /\ Note(t, "policy_watcher") /\ Go(t, "start_switch_watcher")
    \/ /\ pc[t] = "note_switch_watcher"
       /\ Note(t, "switch_watcher") /\ Go(t, "return")

\* A part that nobody asked for, or whose watcher cannot be started.
SkipPart(t) ==
    /\ \/ /\ pc[t] = "start_receiver" /\ "receiver" \notin wanted[t]
          /\ Go(t, "start_policy_watcher")
       \/ pc[t] = "start_policy_watcher" /\ Go(t, "start_switch_watcher")
       \/ pc[t] = "start_switch_watcher" /\ Go(t, "return")
    /\ UNCHANGED <<shared, wanted, running, noted, mine, old, inits, shutdowns, overtaken>>

ReturnFromInit(t) ==
    /\ pc[t] = "return"
    /\ mine' = [mine EXCEPT ![t] = 0] /\ wanted' = [wanted EXCEPT ![t] = {}]
    /\ Go(t, "outside")
    /\ UNCHANGED <<shared, running, noted, old, inits, shutdowns, overtaken>>

Enter(t) == BeginInit(t) \/ NoRuntime(t) \/ Degrade(t) \/ BuildRuntime(t) \/ BeginShutdown(t)
Exchange(t) ==
    \/ ShutDownPrevious(t) \/ NothingToShutDown(t) \/ StopReceiver(t) \/ StopWatcher(t)
    \/ NoMoreWatchers(t) \/ ClearWatchers(t) \/ StopSink(t) \/ Install(t)
StartParts(t) ==
    \/ StartReceiver(t) \/ NoteReceiver(t) \/ StartWatcher(t) \/ NoteWatcher(t)
    \/ SkipPart(t) \/ ReturnFromInit(t)

LifeNext == \E t \in Threads : Enter(t) \/ Exchange(t) \/ StartParts(t)

Life == LifeInit /\ [][LifeNext]_life

LifeTypeOK ==
    /\ lock \in Threads \cup {Nobody}
    /\ context \in 0..MaxInits /\ degraded \in BOOLEAN
    /\ wanted \in [Threads -> SUBSET Parts] /\ running \in [Contexts -> SUBSET Parts]
    /\ noted \in [Contexts -> SUBSET Parts]
    /\ mine \in [Threads -> 0..MaxInits] /\ old \in [Threads -> 0..MaxInits]
    /\ DOMAIN pc = Threads
    /\ inits \in 0..MaxInits /\ shutdowns \in 0..MaxShutdowns
    /\ overtaken \subseteq Contexts \X Parts

-------------------------------------------------------------------------------
OnItsWay(c) == \E t \in Threads : mine[t] = c \/ old[t] = c

\* Whatever init() and shutdown() leave running belongs to the global context, but
\* for a receiver or a watcher that init() started or noted after another thread had
\* begun to shut its context down (TestInitShutdownPreviousContextCleanup).
NothingLeaks ==
    \A c \in Contexts : \A p \in running[c] :
        c = context \/ OnItsWay(c) \/ (<<c, p>> \in overtaken /\ p # "sink")

\* And all that the global context refers to runs, until it is shut down
\* (_GlobalContext.shutdown).
ContextServes == context # 0 /\ ~(\E t \in Threads : old[t] = context)
                     => noted[context] \subseteq running[context]
===============================================================================
