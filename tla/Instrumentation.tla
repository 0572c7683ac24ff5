---------------------------- MODULE Instrumentation ----------------------------
(***************************************************************************)
(* instrument_<library>() and uninstrument_<library>() of the Python SDK   *)
(* (__init__.py, integrations/_base.py), called by several threads: the    *)
(* instrumentor of a library is made on the first call, without a lock;    *)
(* its own lock then guards the exchange of the library's constructor.     *)
(*                                                                         *)
(* The constructor is the sequence of the instrumentors whose patches are  *)
(* around it, the innermost first.  There is a global context throughout,  *)
(* and the library is installed.                                           *)
(***************************************************************************)
EXTENDS Naturals, Sequences

CONSTANTS Threads, MaxCalls, Nobody

InstrumentationAssumption == Nobody \notin Threads /\ MaxCalls \in Nat

\* At most one is made per thread that looks before the first is made.
Instrumentors == 1..MaxCalls

VARIABLES
    singleton,     \* the global that holds the instrumentor, or 0
    made,          \* instrumentors made
    holder,        \* who holds each instrumentor's _lock
    instrumented,  \* its _instrumented
    original,      \* its _originals: the constructor it replaced
    constructor,   \* the library's __init__
    at, wants, using, seen,  \* per thread: where it is, for what, with which
                             \* instrumentor, and the constructor it has read
    calls
local == <<at, wants, using, seen>>
instr == <<singleton, made, holder, instrumented, original, constructor, local, calls>>

InstrInit ==
    /\ singleton = 0 /\ made = 0
    /\ holder = [i \in Instrumentors |-> Nobody]
    /\ instrumented = [i \in Instrumentors |-> FALSE]
    /\ original = [i \in Instrumentors |-> <<>>]
    /\ constructor = <<>>
    /\ at = [t \in Threads |-> "outside"] /\ wants = [t \in Threads |-> "instrument"]
    /\ using = [t \in Threads |-> 0] /\ seen = [t \in Threads |-> <<>>]
    /\ calls = 0

Step(t, from, to) == at[t] = from /\ at' = [at EXCEPT ![t] = to]

Call(t) ==
    /\ calls < MaxCalls /\ calls' = calls + 1
    /\ Step(t, "outside", "look_up")
    /\ \E w \in {"instrument", "uninstrument"} : wants' = [wants EXCEPT ![t] = w]
    /\ UNCHANGED <<singleton, made, holder, instrumented, original, constructor, using, seen>>

-------------------------------------------------------------------------------
(* _get: looks, makes, and reads the global again. *)

FindsNone(t) ==
    /\ singleton = 0 /\ Step(t, "look_up", "make")
    /\ UNCHANGED <<singleton, made, holder, instrumented, original, constructor, wants, using,
                   seen, calls>>

Make(t) ==
    /\ Step(t, "make", "read")
    /\ made' = made + 1 /\ singleton' = made'
    /\ UNCHANGED <<holder, instrumented, original, constructor, wants, using, seen, calls>>

Found(t) ==
    /\ \/ singleton # 0 /\ Step(t, "look_up", "enter")
       \/ Step(t, "read", "enter")
    /\ using' = [using EXCEPT ![t] = singleton]
    /\ UNCHANGED <<singleton, made, holder, instrumented, original, constructor, wants, seen,
                   calls>>

-------------------------------------------------------------------------------
(* Instrumentor.instrument and uninstrument, under the instrumentor's lock. *)

\* Mutant of Acquire: setups are not serialised.
AcquireAnyhow(t) == holder' = [holder EXCEPT ![using[t]] = t]

Acquire(t) == holder[using[t]] = Nobody /\ holder' = [holder EXCEPT ![using[t]] = t]
Release(t) == holder' = [holder EXCEPT ![using[t]] = Nobody]

\* Already as wanted: the lock is released at once.
NothingToDo(t) ==
    /\ Step(t, "enter", "outside")
    /\ holder[using[t]] = Nobody
    /\ instrumented[using[t]] <=> (wants[t] = "instrument")
    /\ using' = [using EXCEPT ![t] = 0]
    /\ UNCHANGED <<singleton, made, holder, instrumented, original, constructor, wants, seen,
                   calls>>

ReadConstructor(t) ==
    /\ Step(t, "enter", "patch") /\ wants[t] = "instrument" /\ ~instrumented[using[t]]
    /\ Acquire(t)
    /\ seen' = [seen EXCEPT ![t] = constructor]
    /\ original' = [original EXCEPT ![using[t]] = constructor]
    /\ UNCHANGED <<singleton, made, instrumented, constructor, wants, using, calls>>

Patch(t) ==
    /\ Step(t, "patch", "done")
    /\ constructor' = Append(seen[t], using[t])
    /\ UNCHANGED <<singleton, made, holder, instrumented, original, wants, using, seen, calls>>

Restore(t) ==
    /\ Step(t, "enter", "done") /\ wants[t] = "uninstrument" /\ instrumented[using[t]]
    /\ Acquire(t)
    /\ constructor' = original[using[t]]
    /\ UNCHANGED <<singleton, made, instrumented, original, wants, using, seen, calls>>

\* Mutant of Done: a removed patch is still taken for installed.
DoneForgets(t) ==
    /\ Step(t, "done", "outside")
    /\ instrumented' = [instrumented EXCEPT ![using[t]] = @ \/ wants[t] = "instrument"]
    /\ original' = [original EXCEPT ![using[t]] = IF wants[t] = "instrument" THEN @ ELSE <<>>]
    /\ Release(t)
    /\ seen' = [seen EXCEPT ![t] = <<>>] /\ using' = [using EXCEPT ![t] = 0]
    /\ UNCHANGED <<singleton, made, constructor, wants, calls>>

Done(t) ==
    /\ Step(t, "done", "outside")
    /\ instrumented' = [instrumented EXCEPT ![using[t]] = wants[t] = "instrument"]
    /\ original' = [original EXCEPT ![using[t]] = IF wants[t] = "instrument" THEN @ ELSE <<>>]
    /\ Release(t)
    /\ seen' = [seen EXCEPT ![t] = <<>>] /\ using' = [using EXCEPT ![t] = 0]
    /\ UNCHANGED <<singleton, made, constructor, wants, calls>>

InstrNext == \E t \in Threads :
    \/ Call(t) \/ FindsNone(t) \/ Make(t) \/ Found(t)
    \/ NothingToDo(t) \/ ReadConstructor(t) \/ Patch(t) \/ Restore(t) \/ Done(t)

Instr == InstrInit /\ [][InstrNext]_instr

InstrTypeOK ==
    /\ singleton \in 0..MaxCalls /\ made \in 0..MaxCalls
    /\ holder \in [Instrumentors -> Threads \cup {Nobody}]
    /\ instrumented \in [Instrumentors -> BOOLEAN]
    /\ using \in [Threads -> 0..MaxCalls]
    /\ constructor \in Seq(Instrumentors)
    /\ calls \in 0..MaxCalls

-------------------------------------------------------------------------------
\* With nobody inside, the constructor has the patches of just the instrumentors that
\* say they are installed, each once, unless two were made at once (Instrumentor.instrument,
\* uninstrument).
PatchedAsSaid ==
    made <= 1 /\ (\A t \in Threads : at[t] = "outside") =>
        constructor = IF singleton # 0 /\ instrumented[singleton] THEN <<singleton>> ELSE <<>>
===============================================================================
