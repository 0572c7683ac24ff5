---------------------------- MODULE CircuitBreaker ----------------------------
(***************************************************************************)
(* The circuit breaker that the telemetry batcher and the control receiver *)
(* of one SDK runtime share (wrappers/python/src/checkrd/                  *)
(* _circuit_breaker.py).  Every method runs under the breaker's lock, so   *)
(* each is one action; what interleaves are the attempts of the clients,   *)
(* which begin with allow() and end, some time later, with a report.  A    *)
(* control receiver whose stream fails reports that, polls once without    *)
(* asking again, and reports how that went (control.py, _async_control.py: *)
(* _run_loop).                                                             *)
(*                                                                         *)
(* Two quantities are abstracted.  consecutive_failures is only compared   *)
(* with the threshold, so it saturates there.  opened_at is only used in   *)
(* now() - opened_at >= reset_after_secs, so the model keeps that age, and *)
(* saturates it at ResetAfter.                                             *)
(***************************************************************************)
EXTENDS Naturals, FiniteSets

CONSTANTS Clients,           \* the threads that call the breaker
          Receivers,         \* those of them that are control receivers
          FailureThreshold,  \* failure_threshold
          ResetAfter         \* reset_after_secs, in clock ticks

ASSUME BreakerAssumption ==
    /\ IsFiniteSet(Clients) /\ Receivers \subseteq Clients
    /\ FailureThreshold \in Nat \ {0}
    /\ ResetAfter \in Nat

VARIABLES
    state,                 \* _state
    consecutive_failures,  \* _consecutive_failures, saturated
    age,                   \* now() - _opened_at, saturated
    opened_at,             \* whether _opened_at is "None" or "set"
    pc,                    \* what each client is doing
    reachable,             \* whether a client's endpoint answers (environment)
    refusedFor             \* history: ticks of refusal since the circuit opened

vars == <<state, consecutive_failures, age, opened_at, pc, reachable, refusedFor>>

\* A client admitted by a closed circuit is "attempting"; one admitted by a
\* half-open circuit is "probing"; a receiver whose stream has failed is "polling";
\* one whose attempt was cut short for good (AuthError, a cancelled task) is "gone".
InFlight == {c \in Clients : pc[c] \in {"attempting", "probing", "polling"}}

\* The receivers that may still report a failed stream, and a failed poll after it.
Streaming == {c \in Receivers : pc[c] \in {"attempting", "probing"}}

\* allow() would return False now.
Refusing == state = "open" /\ ~(opened_at = "set" /\ age >= ResetAfter)

-------------------------------------------------------------------------------
Init ==
    /\ state = "closed"
    /\ consecutive_failures = 0
    /\ age = 0
    /\ opened_at = "None"
    /\ pc = [c \in Clients |-> "idle"]
    /\ reachable \in [Clients -> BOOLEAN]
    /\ refusedFor = 0

\* Mutant of AllowClosed: an open circuit admits callers too.
AllowClosedOrOpen(c) ==
    /\ pc[c] = "idle"
    /\ state # "half_open"
    /\ pc' = [pc EXCEPT ![c] = "attempting"]
    /\ UNCHANGED <<state, consecutive_failures, age, opened_at, reachable, refusedFor>>

\* allow() on a closed circuit.
AllowClosed(c) ==
    /\ pc[c] = "idle"
    /\ state = "closed"
    /\ pc' = [pc EXCEPT ![c] = "attempting"]
    /\ UNCHANGED <<state, consecutive_failures, age, opened_at, reachable, refusedFor>>

\* allow() on a half-open circuit: every caller is admitted.
AllowHalfOpen(c) ==
    /\ pc[c] = "idle"
    /\ state = "half_open"
    /\ pc' = [pc EXCEPT ![c] = "probing"]
    /\ UNCHANGED <<state, consecutive_failures, age, opened_at, reachable, refusedFor>>

\* Mutant of AllowElapsed: a state name that is none of the three.
AllowElapsedMisspelt(c) ==
    /\ pc[c] = "idle"
    /\ state = "open"
    /\ opened_at = "set" /\ age >= ResetAfter
    /\ state' = "half-open"
    /\ pc' = [pc EXCEPT ![c] = "probing"]
    /\ refusedFor' = 0
    /\ UNCHANGED <<consecutive_failures, age, opened_at, reachable>>

\* allow() on an open circuit whose reset window has elapsed.
AllowElapsed(c) ==
    /\ pc[c] = "idle"
    /\ state = "open"
    /\ opened_at = "set" /\ age >= ResetAfter
    /\ state' = "half_open"
    /\ pc' = [pc EXCEPT ![c] = "probing"]
    /\ refusedFor' = 0
    /\ UNCHANGED <<consecutive_failures, age, opened_at, reachable>>

\* A refused allow() changes nothing: the caller comes back later.
Allow(c) == AllowClosed(c) \/ AllowHalfOpen(c) \/ AllowElapsed(c)

\* Mutant of record_success: the failure streak survives a success.
record_success_keeps_streak(c) ==
    /\ c \in InFlight
    /\ reachable[c]
    /\ state' = "closed"
    /\ opened_at' = "None"
    /\ age' = 0
    /\ pc' = [pc EXCEPT ![c] = "idle"]
    /\ refusedFor' = 0
    /\ UNCHANGED <<reachable, consecutive_failures>>

\* Mutant of record_success: only the streak is reset, not the state.
record_success_keeps_state(c) ==
    /\ c \in InFlight
    /\ reachable[c]
    /\ consecutive_failures' = 0
    /\ pc' = [pc EXCEPT ![c] = "idle"]
    /\ UNCHANGED <<reachable, state, opened_at, age, refusedFor>>

record_success(c) ==
    /\ c \in InFlight
    /\ reachable[c]
    /\ consecutive_failures' = 0
    /\ state' = "closed"
    /\ opened_at' = "None"
    /\ age' = 0
    /\ pc' = [pc EXCEPT ![c] = "idle"]
    /\ refusedFor' = 0
    /\ UNCHANGED reachable

\* One more failure, saturated at the threshold it is compared with.
Bump(n) == IF n < FailureThreshold THEN n + 1 ELSE n

\* A failed probe, or a streak that reaches the threshold, opens the circuit.
Opens == state = "half_open" \/ Bump(consecutive_failures) >= FailureThreshold

\* A failure reported by an attempt that began before the circuit opened
\* finds it open with the streak at the threshold, and re-arms the window.  A
\* receiver's failed stream is followed by a poll.
record_failure(c) ==
    /\ c \in InFlight
    /\ ~reachable[c]
    /\ consecutive_failures' = Bump(consecutive_failures)
    /\ IF Opens
       THEN state' = "open" /\ opened_at' = "set" /\ age' = 0
       ELSE UNCHANGED <<state, opened_at, age>>
    /\ pc' = [pc EXCEPT ![c] = IF c \in Streaming THEN "polling" ELSE "idle"]
    /\ UNCHANGED <<reachable, refusedFor>>

\* An admitted attempt that ends without a report, and its client with it.
Abandon(c) ==
    /\ c \in InFlight
    /\ pc' = [pc EXCEPT ![c] = "gone"]
    /\ UNCHANGED <<state, consecutive_failures, age, opened_at, reachable, refusedFor>>

\* The monotonic clock advances.
Tick ==
    /\ opened_at = "set"
    /\ age < ResetAfter
    /\ age' = age + 1
    /\ refusedFor' = IF Refusing THEN refusedFor + 1 ELSE refusedFor
    /\ UNCHANGED <<state, consecutive_failures, opened_at, pc, reachable>>

\* A client's endpoint goes down or comes back.
Flip(c) ==
    /\ reachable' = [reachable EXCEPT ![c] = ~@]
    /\ UNCHANGED <<state, consecutive_failures, age, opened_at, pc, refusedFor>>

Report(c) == record_success(c) \/ record_failure(c)

Next ==
    \/ Tick
    \/ \E c \in Clients :
          \/ Allow(c)
          \/ Report(c)
          \/ Abandon(c)
          \/ Flip(c)

Spec == Init /\ [][Next]_vars

\* Clocks advance, clients come back (the batcher's flush interval, the
\* receiver's backoff) and an attempt that is not abandoned reports.
Fairness ==
    /\ WF_vars(Tick)
    /\ \A c \in Clients : WF_vars(Allow(c)) /\ WF_vars(Report(c))

FairSpec == Spec /\ Fairness
-------------------------------------------------------------------------------
\* Every variable has its type; the circuit has three states
\* (_circuit_breaker.py, CircuitState).
TypeOK ==
    /\ state \in {"closed", "open", "half_open"}
    /\ consecutive_failures \in 0..FailureThreshold
    /\ age \in 0..ResetAfter
    /\ opened_at \in {"None", "set"}
    /\ pc \in [Clients -> {"idle", "attempting", "probing", "polling", "gone"}]
    /\ \A c \in Clients : pc[c] = "polling" => c \in Receivers
    /\ reachable \in [Clients -> BOOLEAN]
    /\ refusedFor \in Nat

\* The three fields of the breaker agree whatever reports arrive late: the
\* circuit is closed exactly when no opening time is recorded, a closed
\* circuit has fewer failures on record than the threshold and any other at
\* least the threshold (so the half-open test of record_failure never decides
\* alone), and a half-open one has waited out its whole window (allow,
\* record_success and record_failure each update two or three of the fields).
FieldsAgree ==
    /\ state = "closed" <=> opened_at = "None"
    /\ state = "closed" => consecutive_failures < FailureThreshold
    /\ state = "half_open" => age >= ResetAfter
    /\ state # "closed" => consecutive_failures = FailureThreshold

\* However many attempts that began before the circuit opened fail while it
\* is open, each re-arming the reset window in record_failure, callers are
\* refused for at most one window per report that was still to come: one per client,
\* and two per control receiver (_run_loop).
RefusalBounded ==
    refusedFor <= ResetAfter * (Cardinality(Clients) + Cardinality(Receivers))

\* Once every endpoint stays reachable, the circuit closes for good, unless
\* every client is gone: a late failure cannot leave it open and an abandoned
\* probe cannot leave it half-open.
Recovers ==
    <>[](\A c \in Clients : reachable[c])
        => <>[](state = "closed" \/ \A c \in Clients : pc[c] = "gone")
===============================================================================
