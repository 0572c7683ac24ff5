----------------------------- MODULE SharedBreaker -----------------------------
(***************************************************************************)
(* The circuit breaker of the JavaScript SDK (_circuit_breaker.ts) and the *)
(* two that share it: the batcher's fetchWithRetry() (_retry.ts), at most  *)
(* one at a time, and the receiver's loop() (receiver.ts).  An action goes *)
(* from one await to the next.  While the receiver sleeps,                 *)
(* pollWhileWaiting() runs beside the loop: it polls at intervals, never   *)
(* asks the breaker and reports nothing to it.  Nor does urgentFlush(),    *)
(* which is part of JsBatcher and has no place here.                       *)
(*                                                                         *)
(* As in CircuitBreaker, the failures saturate at the threshold, and now - *)
(* openedAt is an age that saturates at the longest window.  The batcher   *)
(* gives fetchWithRetry() no signal, so nothing aborts it; how long a call *)
(* waits between its attempts is left out.  A tick is no longer than a     *)
(* step of pollWhileWaiting().                                             *)
(***************************************************************************)
EXTENDS Integers

CONSTANTS FailureThreshold, ResetAfter, ResetJitter, MaxAttempts

SharedBreakerAssumption ==
    /\ {FailureThreshold, MaxAttempts, ResetAfter} \subseteq Nat \ {0}
    /\ ResetJitter \in Nat

VARIABLES
    state, failures,  \* consecutiveFailures, saturated
    age,              \* now() - openedAt, saturated; 0 while openedAt is null
    window,            \* currentResetMs; 0 while it is null
    post, attempt,   \* the batcher's call: "idle", "sends" or "waits", and which try
    loop,             \* the receiver's: "top", "polls", "connects", "sleeps" or "ended"
    running,          \* the receiver's flag
    timer,            \* pollWhileWaiting()'s: "none", "runs" or "out"
    refused_for,      \* history: ticks of refusal since the circuit last admitted a call
    leaked,           \* history: requests of the two that went out meanwhile, unasked
    beside            \* history: and polls of pollWhileWaiting()

breaker == <<state, failures, age, window>>
sender == <<post, attempt>>
receiver == <<loop, running>>
counts == <<refused_for, leaked, beside>>
vars == <<breaker, sender, receiver, timer, counts>>

\* The jitter is the floor of a random part of ResetJitter.
Longest == ResetAfter + (IF ResetJitter = 0 THEN 0 ELSE ResetJitter - 1)
Windows == ResetAfter..Longest

Init ==
    /\ state = "closed" /\ failures = 0 /\ age = 0 /\ window = 0
    /\ post = "idle" /\ attempt = 0
    /\ loop = "top" /\ running = TRUE /\ timer = "none"
    /\ refused_for = 0 /\ leaked = 0 /\ beside = 0

-------------------------------------------------------------------------------
(* The breaker. *)

Refusing == state = "open" /\ age < window

\* The circuit admits a call: what was counted meanwhile begins anew.
CountsAnew == refused_for' = 0 /\ leaked' = 0 /\ beside' = 0

\* Mutant of Admitted: the window is not waited out.
AdmittedEarly ==
    /\ IF state = "open" THEN state' = "half_open" /\ CountsAnew ELSE UNCHANGED <<state, counts>>
    /\ UNCHANGED <<failures, age, window>>

\* allow() has returned true.
Admitted ==
    /\ ~Refusing
    /\ IF state = "open" THEN state' = "half_open" /\ CountsAnew ELSE UNCHANGED <<state, counts>>
    /\ UNCHANGED <<failures, age, window>>

\* Mutant of recordSuccess: the streak of failures survives.
recordSuccessKeepsStreak ==
    /\ state' = "closed" /\ age' = 0 /\ window' = 0 /\ UNCHANGED failures
    /\ CountsAnew

recordSuccess ==
    /\ state' = "closed" /\ failures' = 0 /\ age' = 0 /\ window' = 0
    /\ CountsAnew

Bump == IF failures < FailureThreshold THEN failures + 1 ELSE failures
Opens == state = "half_open" \/ Bump >= FailureThreshold

\* A circuit that is open already opens anew, with another window.
recordFailure ==
    /\ failures' = Bump
    /\ IF Opens THEN state' = "open" /\ age' = 0 /\ window' \in Windows
                ELSE UNCHANGED <<state, age, window>>

\* A request goes out that the breaker is not asked about.
GoesOut ==
    /\ leaked' = IF Refusing' THEN leaked + 1 ELSE leaked
    /\ UNCHANGED <<refused_for, beside>>

\* A timer that has run out is served before the next tick.
Tick ==
    /\ timer # "out"
    /\ age' = IF state # "closed" /\ age < Longest THEN age + 1 ELSE age
    /\ refused_for' = IF Refusing THEN refused_for + 1 ELSE refused_for
    /\ timer' \in IF timer = "runs" THEN {"runs", "out"} ELSE {timer}
    /\ UNCHANGED <<state, failures, window, sender, receiver, leaked, beside>>

-------------------------------------------------------------------------------
(* fetchWithRetry(), called by the batcher. *)

\* A refused call throws and its batch is dropped: nothing here changes.
Call ==
    /\ post = "idle" /\ Admitted
    /\ post' = "sends" /\ attempt' = 1
    /\ UNCHANGED <<receiver, timer>>

Over == post' = "idle" /\ attempt' = 0 /\ UNCHANGED <<receiver, timer>>

AnsweredOk == post = "sends" /\ recordSuccess /\ Over

\* A status that is not retried, or the last attempt's.
Rejected ==
    /\ post = "sends" /\ Over
    /\ recordFailure /\ UNCHANGED counts

\* A network error or a timeout of the last attempt: the breaker does not hear of it.
NoAnswer ==
    /\ post = "sends" /\ attempt = MaxAttempts /\ Over
    /\ UNCHANGED <<breaker, counts>>

\* A retryable status, a network error or a timeout.
BackOff ==
    /\ post = "sends" /\ attempt < MaxAttempts
    /\ post' = "waits"
    /\ UNCHANGED <<breaker, attempt, receiver, timer, counts>>

\* Mutant of Again: the attempts are not counted.
AgainUncounted ==
    /\ post = "waits" /\ post' = "sends"
    /\ UNCHANGED <<breaker, attempt, receiver, timer>> /\ GoesOut

Again ==
    /\ post = "waits" /\ post' = "sends" /\ attempt' = attempt + 1
    /\ UNCHANGED <<breaker, receiver, timer>> /\ GoesOut

-------------------------------------------------------------------------------
(* The receiver. *)

\* Mutant of Poll: the receiver polls whatever the breaker says.
PollAnyhow ==
    /\ loop = "top" /\ running
    /\ loop' = "polls"
    /\ UNCHANGED <<breaker, sender, running, timer>> /\ GoesOut

Poll ==
    /\ loop = "top" /\ running /\ Admitted
    /\ loop' = "polls"
    /\ UNCHANGED <<sender, running, timer>>

\* sleep() starts pollWhileWaiting(); what an earlier one has left runs on.
Sleeps ==
    /\ loop' = "sleeps"
    /\ timer' = IF timer = "none" THEN "runs" ELSE timer
    /\ UNCHANGED <<sender, running>>

Held ==
    /\ loop = "top" /\ running /\ Refusing /\ Sleeps
    /\ UNCHANGED <<breaker, counts>>

\* pollStateOnce() returns on any status; connect() follows unasked.
PollAnswered ==
    /\ loop = "polls" /\ recordSuccess
    /\ loop' = "connects" /\ UNCHANGED <<sender, running, timer>>

PollFails ==
    /\ loop = "polls" /\ recordFailure
    /\ loop' = "connects" /\ GoesOut
    /\ UNCHANGED <<sender, running, timer>>

\* The server ends the stream, or an event arrives after stop().
StreamEnds == loop = "connects" /\ recordSuccess /\ Sleeps

ConnectFails ==
    /\ loop = "connects" /\ running /\ recordFailure /\ Sleeps
    /\ UNCHANGED counts

\* Mutant of PollBeside: the next poll does not wait for its step.
PollBesideAtOnce ==
    /\ timer = "out"
    /\ UNCHANGED timer
    /\ beside' = IF Refusing THEN beside + 1 ELSE beside
    /\ UNCHANGED <<breaker, sender, receiver, refused_for, leaked>>

\* pollWhileWaiting() polls, also when stop() came since it set its timer, and goes on or
\* finds its time over; whatever the poll ends with, the breaker does not hear of it.
PollBeside ==
    /\ timer = "out"
    /\ timer' \in IF running THEN {"none", "runs"} ELSE {"none"}
    /\ beside' = IF Refusing THEN beside + 1 ELSE beside
    /\ UNCHANGED <<breaker, sender, receiver, refused_for, leaked>>

\* The loop comes back to its condition, or leaves when its requests are aborted.
Wakes ==
    /\ loop = "sleeps" \/ (loop \in {"top", "connects"} /\ ~running)
    /\ loop' = IF running THEN "top" ELSE "ended"
    /\ UNCHANGED <<breaker, sender, running, timer, counts>>

Stop ==
    /\ running /\ running' = FALSE
    /\ UNCHANGED <<breaker, sender, loop, timer, counts>>

Next ==
    \/ Tick
    \/ Call \/ AnsweredOk \/ Rejected \/ NoAnswer \/ BackOff \/ Again
    \/ Poll \/ Held \/ PollAnswered \/ PollFails \/ StreamEnds \/ ConnectFails
    \/ PollBeside \/ Wakes \/ Stop

Spec == Init /\ [][Next]_vars

-------------------------------------------------------------------------------
TypeOK ==
    /\ state \in {"closed", "open", "half_open"} /\ failures \in 0..FailureThreshold
    /\ age \in 0..Longest /\ window \in Windows \cup {0}
    /\ post \in {"idle", "sends", "waits"} /\ attempt \in 0..MaxAttempts
    /\ loop \in {"top", "polls", "connects", "sleeps", "ended"} /\ running \in BOOLEAN
    /\ timer \in {"none", "runs", "out"}
    /\ {refused_for, leaked, beside} \subseteq Nat

\* A closed circuit has fewer failures on record than the threshold and no window, any
\* other has them all, and a half-open one has waited out the window that was drawn for
\* its last opening (allow, recordSuccess, recordFailure).
FieldsAgree ==
    /\ state = "closed" => failures < FailureThreshold /\ age = 0 /\ window = 0
    /\ state # "closed" => failures = FailureThreshold
    /\ state = "half_open" => age >= window

\* However many calls that were under way when the circuit opened fail later, each with
\* a window of its own, it refuses for at most three of the longest: the batcher's call,
\* the poll and the connection that follows it.
RefusalBounded == refused_for <= 3 * Longest

\* While the circuit is open, what goes out for all that are the retries of one call and
\* one connection that follows a poll (fetchWithRetry and loop ask only at their start),
\* and, as the receiver sleeps, a poll per step (pollWhileWaiting asks nobody): one for
\* each tick of refusal, however often the circuit opens again meanwhile, and one more,
\* whose timer had run out when it opened.
TrafficPaced == leaked <= MaxAttempts /\ beside <= refused_for + 1

\* What a call has left: it is on an attempt exactly while it is under way, and waits
\* only for one that there is (fetchWithRetry).
Typed ==
    /\ TypeOK
    /\ post = "idle" <=> attempt = 0
    /\ post = "waits" => attempt < MaxAttempts
===============================================================================
