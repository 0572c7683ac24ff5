---------------------------- MODULE ReceiverThreads ----------------------------
(***************************************************************************)
(* The threads of one control receiver (wrappers/python/src/checkrd/       *)
(* control.py): start(), stop(), the loop and a fork.  What the threads    *)
(* apply is ControlReceiver's.  The application calls start() and stop()   *)
(* one after the other; the breaker, the server and the network are        *)
(* choices.                                                                *)
(***************************************************************************)
EXTENDS Naturals

CONSTANTS MaxStarts,         \* bound on the threads that start() makes
          MaxStops, MaxForks

ReceiverThreadsAssumption == {MaxStarts, MaxStops, MaxForks} \subseteq Nat

Threads == 1..MaxStarts
None == 0

\* What a thread that stop() waits for can be busy with for more than five seconds.
Busy == {"connecting", "reading", "handling", "polling"}
Dead == {"unborn", "ended", "rejected"}

VARIABLES
    stop_flag,  \* _stop
    thread,     \* _thread
    at,         \* per thread: what its loop is doing
    joining,    \* the thread that stop() waits for
    starts, stops, forks,
    \* history: those that a stop() gave up on; what each thread has applied
    \* since the flag was set
    outlived, late

counts == <<starts, stops, forks>>
vars == <<stop_flag, thread, at, joining, counts, outlived, late>>

Init ==
    /\ stop_flag = FALSE /\ thread = None /\ joining = None
    /\ at = [t \in Threads |-> "unborn"] /\ late = [t \in Threads |-> {}]
    /\ starts = 0 /\ stops = 0 /\ forks = 0
    /\ outlived = {}

Alive(t) == at[t] \notin Dead
Live == {t \in Threads : Alive(t)}

-------------------------------------------------------------------------------
(* start(), stop() and _reinit_after_fork(). *)

Startable ==
    /\ joining = None /\ starts < MaxStarts
    /\ thread # None => ~Alive(thread)

Spawn(flag) ==
    /\ starts' = starts + 1 /\ thread' = starts'
    /\ at' = [at EXCEPT ![starts'] = "looping"]
    /\ stop_flag' = flag
    /\ late' = [t \in Threads |-> {}]
    /\ UNCHANGED <<joining, stops, forks, outlived>>

\* Mutant of start: the flag of the last stop() stays.
start_flagged == Startable /\ Spawn(stop_flag)

\* Clearing the flag revives the threads that have not seen it.
start == Startable /\ Spawn(FALSE)

\* A thread that waits is woken for good, even if the flag is cleared again before
\* it runs.
stop ==
    /\ joining = None /\ stops < MaxStops
    /\ stops' = stops + 1
    /\ stop_flag' = TRUE
    /\ joining' = thread
    /\ at' = [t \in Threads |-> IF at[t] = "waiting" THEN "woken" ELSE at[t]]
    /\ UNCHANGED <<thread, starts, forks, outlived, late>>

Returns == joining' = None /\ thread' = None /\ UNCHANGED <<stop_flag, at, counts, late>>

Joined ==
    /\ joining # None /\ ~Alive(joining)
    /\ Returns
    /\ UNCHANGED outlived

\* Mutant of JoinTimesOut: the thread is thought to have ended.
JoinSkipped ==
    /\ joining # None /\ Alive(joining)
    /\ Returns
    /\ UNCHANGED outlived

\* join(timeout=5)
JoinTimesOut ==
    /\ joining # None /\ at[joining] \in Busy
    /\ Returns
    /\ outlived' = outlived \cup {joining}

\* Mutant of Fork: the child inherits what the parent had.
ForkInherits ==
    /\ forks < MaxForks /\ forks' = forks + 1
    /\ at' = [t \in Threads |-> IF Alive(t) THEN "ended" ELSE at[t]]
    /\ joining' = None
    /\ UNCHANGED <<stop_flag, thread, starts, stops, outlived, late>>

\* In the child no thread exists but the one that forked, whoever that was.  The
\* parent is not followed any further.
Fork ==
    /\ forks < MaxForks /\ forks' = forks + 1
    /\ at' = [t \in Threads |-> IF Alive(t) THEN "ended" ELSE at[t]]
    /\ stop_flag' = FALSE /\ thread' = None /\ joining' = None
    /\ late' = [t \in Threads |-> {}]
    /\ UNCHANGED <<starts, stops, outlived>>

-------------------------------------------------------------------------------
(* _run_loop() and _run_sse() *)

Moves(t, from, to) ==
    /\ at[t] = from
    /\ at' = [at EXCEPT ![t] = to]
    /\ UNCHANGED <<stop_flag, thread, joining, counts, outlived>>

Applies(t, what) == late' = IF stop_flag THEN [late EXCEPT ![t] = @ \cup {what}] ELSE late

\* The condition of the loop; then the breaker admits the thread, or has it wait.
Turn(t) ==
    /\ \/ stop_flag /\ Moves(t, "looping", "ended")
       \/ ~stop_flag /\ \E next \in {"connecting", "waiting"} : Moves(t, "looping", next)
    /\ UNCHANGED late

Connected(t) == Moves(t, "connecting", "reading") /\ UNCHANGED late

\* 401 or 403 ends the loop for good.
AuthRejected(t) == Moves(t, "connecting", "rejected") /\ UNCHANGED late

\* Mutant of Event: the flag is not looked at.
EventAnyway(t) == Moves(t, "reading", "handling") /\ UNCHANGED late

\* An event, or a heartbeat.  The flag is looked at before it is handled.
Event(t) ==
    /\ \/ stop_flag /\ Moves(t, "reading", "looping")
       \/ ~stop_flag /\ Moves(t, "reading", "handling")
    /\ UNCHANGED late

Handled(t) == Moves(t, "handling", "reading") /\ Applies(t, "event")

Closed(t) == Moves(t, "reading", "looping") /\ UNCHANGED late

\* No connection, or a stream that breaks or is silent for 90 seconds: a poll follows,
\* the flag set or not.
Fails(t) ==
    /\ \E from \in {"connecting", "reading"} : Moves(t, from, "polling")
    /\ UNCHANGED late

\* Mutant of Polled: after a poll the loop goes on without a wait.
PolledAnyway(t) == Moves(t, "polling", "connecting") /\ (Applies(t, "poll") \/ UNCHANGED late)

\* The poll is answered or fails; the wait that follows returns at once if the flag is
\* set.
Polled(t) ==
    /\ Moves(t, "polling", IF stop_flag THEN "woken" ELSE "waiting")
    /\ Applies(t, "poll") \/ UNCHANGED late

Waited(t) ==
    /\ Moves(t, "waiting", "looping") \/ Moves(t, "woken", "ended")
    /\ UNCHANGED late

\* Every request is given up after a while.
Step(t) ==
    \/ Turn(t) \/ Connected(t) \/ AuthRejected(t) \/ Event(t) \/ Handled(t) \/ Closed(t)
    \/ Fails(t) \/ Polled(t) \/ Waited(t)

Next ==
    \/ start \/ stop \/ Joined \/ JoinTimesOut \/ Fork
    \/ \E t \in Threads : Step(t)

Spec == Init /\ [][Next]_vars

-------------------------------------------------------------------------------
\* Every variable has its type (class ControlReceiver).
TypeOK ==
    /\ stop_flag \in BOOLEAN
    /\ {thread, joining} \subseteq 0..starts
    /\ at \in [Threads -> Busy \cup Dead \cup {"looping", "waiting", "woken"}]
    /\ starts \in 0..MaxStarts /\ stops \in 0..MaxStops /\ forks \in 0..MaxForks
    /\ outlived \subseteq Threads /\ late \in [Threads -> SUBSET {"event", "poll"}]

\* A receiver that was started and not stopped since has a thread that serves it, or
\* that the server rejected: no flag of an earlier stop(), and no thread of another
\* process, is taken for it (start, _reinit_after_fork).
Served == thread # None /\ joining = None => at[thread] # "ended"

\* Beside that thread none lives but those a stop() gave up on: where start() clears
\* the flag before such a one has seen it, both receive (start, stop).
OneServes == Live \ {thread} \subseteq outlived

\* After the flag was set, a thread applies at most the event that it holds already and
\* the answer of one poll (_run_sse, _run_loop).
LateOnce ==
    \A t \in Threads : /\ at[t] = "handling" => "event" \notin late[t]
                       /\ at[t] = "polling" => "poll" \notin late[t]

\* Threads end after stop(), those it gave up on too, and so does stop() (stop, _run_loop).
StoppedEnd == ~stop_flag \/ (Live = {} /\ joining = None)
================================================================================
