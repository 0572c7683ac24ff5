------------------------------ MODULE AsyncBatcher ------------------------------
(***************************************************************************)
(* The asyncio telemetry batcher (_async_batcher.py).  Everything runs on  *)
(* the thread of an event loop, and an action is what happens between two  *)
(* awaits.  Unlike the threads of TelemetryBatcher, a task can be          *)
(* cancelled wherever it awaits, and the loop itself may end and another   *)
(* begin (a second asyncio.run, a forked child): the worker task and the   *)
(* primitives belong to the loop on which enqueue() created them.          *)
(*                                                                         *)
(* Abstracted as in TelemetryBatcher: the kind of an event stands for its  *)
(* size and for whether json.dumps accepts it, the buffer is a set, the    *)
(* circuit breaker and the signer are choices.                             *)
(***************************************************************************)
EXTENDS Naturals, FiniteSets

CONSTANTS Events, Kinds, ApproxBytes, Poison,
          Callers,                 \* coroutines that await flush() or stop()
          Worker,                  \* the task of _run
          BatchSize, MaxQueueSize, MaxQueueBytes, MaxAttempts,
          MaxLoops, MaxCancels     \* bounds on loops and on cancelled workers

AsyncBatcherAssumption ==
    /\ Events \subseteq Nat /\ IsFiniteSet(Events)
    /\ ApproxBytes \in [Kinds -> Nat] /\ Poison \subseteq Kinds
    /\ Worker \notin Callers
    /\ {BatchSize, MaxAttempts} \subseteq Nat \ {0}
    /\ {MaxQueueSize, MaxQueueBytes, MaxLoops, MaxCancels} \subseteq Nat

Tasks == Callers \cup {Worker}

VARIABLES
    buffer, queue_bytes, flush_event, stopped,
    loop,         \* how many loops have begun; the last one is current
    in_loop,      \* it is running
    bound,        \* _loop: the loop the worker belongs to, 0 if none
    pc, batch, attempt,
    closing,      \* callers inside stop()
    events_sent, dropped,
    kind,         \* what each event is (input)
    status,       \* history: what became of each event
    owed,         \* history: held events queued before stop() was called
    closed,       \* history: a stop() has returned
    cancels       \* bound

loopVars == <<loop, in_loop, bound>>
vars == <<buffer, queue_bytes, flush_event, stopped, loopVars, pc, batch, attempt,
          closing, events_sent, dropped, kind, status, owed, closed, cancels>>

Init ==
    /\ buffer = {} /\ queue_bytes = 0 /\ flush_event = FALSE /\ stopped = FALSE
    /\ loop = 0 /\ in_loop = FALSE /\ bound = 0
    /\ pc = [t \in Tasks |-> IF t = Worker THEN "none" ELSE "idle"]
    /\ batch = [t \in Tasks |-> {}] /\ attempt = [t \in Tasks |-> 0]
    /\ closing = {} /\ events_sent = 0 /\ dropped = 0
    /\ kind \in [Events -> Kinds]
    /\ status = [e \in Events |-> "new"]
    /\ owed = {} /\ closed = FALSE /\ cancels = 0

Mark(S, s) == [e \in Events |-> IF e \in S THEN s ELSE status[e]]
Goto(t, label) == pc' = [pc EXCEPT ![t] = label]

-------------------------------------------------------------------------------
(* enqueue(), with the lazy start() it begins with. *)

\* start() finds that the worker has to be made.
Spawns == ~stopped /\ in_loop /\ (bound # loop \/ pc[Worker] \in {"none", "done", "cancelled"})
\* The loop changed under the buffer, which is dropped.
Rebinds == Spawns /\ bound # 0 /\ bound # loop

Emits(e) == status[e] = "new" /\ \A d \in Events : d < e => status[d] # "new"

\* The buffer and its size as start() leaves them.
Kept == IF Rebinds THEN {} ELSE buffer
KeptBytes == IF Rebinds THEN 0 ELSE queue_bytes

start ==
    /\ IF Spawns THEN Goto(Worker, "created") /\ bound' = loop ELSE UNCHANGED <<pc, bound>>
    /\ batch' = IF Spawns THEN [batch EXCEPT ![Worker] = {}] ELSE batch
    /\ attempt' = IF Spawns THEN [attempt EXCEPT ![Worker] = 0] ELSE attempt
    /\ UNCHANGED <<loop, in_loop>>

Full(e) ==
    \/ Cardinality(Kept) >= MaxQueueSize
    \/ KeptBytes + ApproxBytes[kind[e]] > MaxQueueBytes

\* What an enqueue() leaves of the buffer that start() dropped.
Dropping(e, s) == [d \in Events |-> IF d = e THEN s
                                    ELSE IF d \in buffer \ Kept THEN "lost" ELSE status[d]]

\* before_send returns None or raises.
Filter(e) ==
    /\ Emits(e) /\ start
    /\ buffer' = Kept /\ queue_bytes' = KeptBytes
    /\ flush_event' = (flush_event /\ ~Rebinds)
    /\ status' = Dropping(e, "filtered")
    /\ owed' = owed \cap Kept
    /\ UNCHANGED <<stopped, closing, events_sent, dropped, kind, closed, cancels>>

Refuse(e) ==
    /\ Emits(e) /\ Full(e) /\ start
    /\ buffer' = Kept /\ queue_bytes' = KeptBytes
    /\ flush_event' = (flush_event /\ ~Rebinds)
    /\ dropped' = dropped + 1
    /\ status' = Dropping(e, "refused")
    /\ owed' = owed \cap Kept
    /\ UNCHANGED <<stopped, closing, events_sent, kind, closed, cancels>>

Accept(e) ==
    /\ Emits(e) /\ ~Full(e) /\ start
    /\ buffer' = Kept \cup {e}
    /\ queue_bytes' = KeptBytes + ApproxBytes[kind[e]]
    /\ flush_event' = ((flush_event /\ ~Rebinds) \/ Cardinality(Kept) + 1 >= BatchSize)
    /\ status' = Dropping(e, "held")
    /\ owed' = IF stopped THEN owed ELSE (owed \cap Kept) \cup {e}
    /\ UNCHANGED <<stopped, closing, events_sent, dropped, kind, closed, cancels>>

enqueue(e) == Filter(e) \/ Refuse(e) \/ Accept(e)

-------------------------------------------------------------------------------
(* _drain_and_send(), in any task. *)

\* Where task t goes when its send is over: the worker to its loop's test, a
\* caller out of flush() or stop().
AfterSend(t) == IF t # Worker THEN "idle" ELSE IF stopped THEN "done" ELSE "waiting"
Leaves(t) == closing' = closing \ {t} /\ closed' = (closed \/ t \in closing)

\* Up to the first await: an empty buffer is nothing to do; a batch that cannot
\* be serialised is counted by the guard, one that is not signed or that the
\* breaker refuses by _send; otherwise the first request goes out.
DrainAndSend(t) ==
    /\ buffer' = {} /\ queue_bytes' = 0
    /\ owed' = owed \ buffer
    /\ \/ /\ buffer = {}
          /\ Goto(t, AfterSend(t)) /\ Leaves(t)
          /\ UNCHANGED <<batch, attempt, dropped, status>>
       \/ /\ buffer # {}
          /\ dropped' = dropped + Cardinality(buffer)
          /\ status' = Mark(buffer, "dropped")
          /\ Goto(t, AfterSend(t)) /\ Leaves(t)
          /\ UNCHANGED <<batch, attempt>>
       \/ /\ buffer # {} /\ \A e \in buffer : kind[e] \notin Poison
          /\ batch' = [batch EXCEPT ![t] = buffer]
          /\ attempt' = [attempt EXCEPT ![t] = 1]
          /\ Goto(t, "attempting")
          /\ UNCHANGED <<dropped, status, closing, closed>>

\* The batch has met its end.
EndSend(t, s) ==
    /\ status' = Mark(batch[t], s)
    /\ batch' = [batch EXCEPT ![t] = {}]
    /\ attempt' = [attempt EXCEPT ![t] = 0]
    /\ Goto(t, AfterSend(t)) /\ Leaves(t)
    /\ UNCHANGED <<buffer, queue_bytes, flush_event, stopped, loopVars, kind, owed, cancels>>

Sent(t) ==
    /\ pc[t] = "attempting" /\ in_loop
    /\ events_sent' = events_sent + Cardinality(batch[t])
    /\ EndSend(t, "sent") /\ UNCHANGED dropped

Retry(t) ==
    /\ pc[t] = "attempting" /\ in_loop /\ attempt[t] < MaxAttempts
    /\ attempt' = [attempt EXCEPT ![t] = @ + 1]
    /\ UNCHANGED <<buffer, queue_bytes, flush_event, stopped, loopVars, pc, batch, closing,
                   events_sent, dropped, kind, status, owed, closed, cancels>>

\* Mutant of GivenUp: the last failure is logged and not counted.
GivenUpUncounted(t) ==
    /\ pc[t] = "attempting" /\ in_loop
    /\ EndSend(t, "dropped") /\ UNCHANGED <<events_sent, dropped>>

GivenUp(t) ==
    /\ pc[t] = "attempting" /\ in_loop
    /\ dropped' = dropped + Cardinality(batch[t])
    /\ EndSend(t, "dropped") /\ UNCHANGED events_sent

Answer(t) == Sent(t) \/ Retry(t) \/ GivenUp(t)

-------------------------------------------------------------------------------
(* _run() *)

\* The task runs for the first time.
Begin ==
    /\ pc[Worker] = "created" /\ in_loop
    /\ Goto(Worker, IF stopped THEN "done" ELSE "waiting")
    /\ UNCHANGED <<buffer, queue_bytes, flush_event, stopped, loopVars, batch, attempt, closing,
                   events_sent, dropped, kind, status, owed, closed, cancels>>

\* The event is set or the interval has elapsed.
Wake ==
    /\ pc[Worker] = "waiting" /\ in_loop
    /\ flush_event' = FALSE
    /\ DrainAndSend(Worker)
    /\ UNCHANGED <<stopped, loopVars, events_sent, kind, cancels>>

-------------------------------------------------------------------------------
(* flush() and stop() *)

flush(c) ==
    /\ pc[c] = "idle" /\ in_loop /\ buffer # {}
    /\ DrainAndSend(c)
    /\ UNCHANGED <<flush_event, stopped, loopVars, events_sent, kind, cancels>>

stop(c) ==
    /\ pc[c] = "idle" /\ in_loop /\ ~stopped
    /\ stopped' = TRUE /\ flush_event' = TRUE
    /\ closing' = closing \cup {c}
    /\ Goto(c, "joining")
    /\ UNCHANGED <<buffer, queue_bytes, loopVars, batch, attempt, events_sent, dropped, kind,
                   status, owed, closed, cancels>>

\* Mutant of Joined: stop() leaves the rest to the worker.
JoinedOnly(c) ==
    /\ pc[c] = "joining" /\ in_loop /\ pc[Worker] \in {"none", "done"}
    /\ Goto(c, "idle") /\ Leaves(c)
    /\ UNCHANGED <<buffer, queue_bytes, batch, attempt, owed, status, dropped, flush_event, stopped,
                   loopVars, events_sent, kind, cancels>>

\* The worker has ended, or there never was one: the final flush.
Joined(c) ==
    /\ pc[c] = "joining" /\ in_loop /\ pc[Worker] \in {"none", "done"}
    /\ DrainAndSend(c)
    /\ UNCHANGED <<flush_event, stopped, loopVars, events_sent, kind, cancels>>

\* Five seconds have passed: the worker is cancelled where it awaits, and
\* CancelledError is no Exception that the guard would count.
JoinTimesOut(c) ==
    /\ pc[c] = "joining" /\ in_loop /\ pc[Worker] \in {"created", "waiting", "attempting"}
    /\ bound = loop
    /\ pc' = [pc EXCEPT ![Worker] = "done"]
    /\ batch' = [batch EXCEPT ![Worker] = {}]
    /\ attempt' = [attempt EXCEPT ![Worker] = 0]
    /\ status' = Mark(batch[Worker], "lost")
    /\ UNCHANGED <<buffer, queue_bytes, flush_event, stopped, loopVars, closing, events_sent,
                   dropped, kind, owed, closed, cancels>>

\* Awaiting a task that was cancelled raises CancelledError out of stop():
\* there is no final flush.
StopRaises(c) ==
    /\ pc[c] = "joining" /\ in_loop /\ pc[Worker] = "cancelled"
    /\ Goto(c, "idle") /\ closing' = closing \ {c}
    /\ UNCHANGED <<buffer, queue_bytes, flush_event, stopped, loopVars, batch, attempt,
                   events_sent, dropped, kind, status, owed, closed, cancels>>

-------------------------------------------------------------------------------
(* The program around it. *)

LoopBegins ==
    /\ ~in_loop /\ loop < MaxLoops
    /\ loop' = loop + 1 /\ in_loop' = TRUE
    /\ UNCHANGED <<buffer, queue_bytes, flush_event, stopped, bound, pc, batch, attempt, closing,
                   events_sent, dropped, kind, status, owed, closed, cancels>>

Cancelled(t) == IF t # Worker THEN "idle" ELSE IF pc[t] \in {"none", "done"} THEN pc[t] ELSE "cancelled"

\* asyncio.run() cancels every task that is left when its coroutine is done.
LoopEnds ==
    /\ in_loop /\ in_loop' = FALSE
    /\ pc' = [t \in Tasks |-> Cancelled(t)]
    /\ status' = Mark(UNION {batch[t] : t \in Tasks}, "lost")
    /\ batch' = [t \in Tasks |-> {}] /\ attempt' = [t \in Tasks |-> 0]
    /\ closing' = {}
    /\ UNCHANGED <<buffer, queue_bytes, flush_event, stopped, loop, bound, events_sent, dropped,
                   kind, owed, closed, cancels>>

\* The program cancels the tasks of its loop but goes on.
CancelWorker ==
    /\ in_loop /\ cancels < MaxCancels
    /\ pc[Worker] \in {"created", "waiting", "attempting"}
    /\ cancels' = cancels + 1
    /\ Goto(Worker, "cancelled")
    /\ status' = Mark(batch[Worker], "lost")
    /\ batch' = [batch EXCEPT ![Worker] = {}]
    /\ attempt' = [attempt EXCEPT ![Worker] = 0]
    /\ UNCHANGED <<buffer, queue_bytes, flush_event, stopped, loopVars, closing, events_sent,
                   dropped, kind, owed, closed>>

-------------------------------------------------------------------------------
WorkerStep == Begin \/ Wake \/ Answer(Worker)
CallerStep(c) == Joined(c) \/ JoinTimesOut(c) \/ StopRaises(c) \/ Answer(c)

Next ==
    \/ \E e \in Events : enqueue(e)
    \/ WorkerStep
    \/ \E c \in Callers : flush(c) \/ stop(c) \/ CallerStep(c)
    \/ LoopBegins \/ LoopEnds \/ CancelWorker

Spec == Init /\ [][Next]_vars

-------------------------------------------------------------------------------
Promise == INSTANCE Delivery WITH sent <- events_sent

InHand == UNION {batch[t] : t \in Tasks}
Labels == {"none", "created", "waiting", "attempting", "done", "cancelled", "idle", "joining"}

\* Every variable has its type (class AsyncTelemetryBatcher).
TypeOK ==
    /\ buffer \subseteq Events /\ owed \subseteq Events /\ closing \subseteq Callers
    /\ {queue_bytes, events_sent, dropped, loop, bound, cancels} \subseteq Nat
    /\ {flush_event, stopped, in_loop, closed} \subseteq BOOLEAN
    /\ pc \in [Tasks -> Labels] /\ batch \in [Tasks -> SUBSET Events]
    /\ attempt \in [Tasks -> 0..MaxAttempts]
    /\ kind \in [Events -> Kinds] /\ status \in [Events -> Promise!Statuses]

\* What is held is in the buffer or in exactly one task's batch, whichever
\* tasks are cancelled and loops end (_drain, start).
HeldOnce ==
    /\ buffer \cup InHand = {e \in Events : status[e] = "held"}
    /\ buffer \cap InHand = {}
    /\ \A t, u \in Tasks : t # u => batch[t] \cap batch[u] = {}

\* A stop() that returns leaves nothing in the buffer that was queued before
\* it was called, whether the worker ended or was cancelled.
StopFlushes == closed => buffer \cap owed = {}

\* While the worker lives, the buffer is emptied again and again, unless the
\* loop ends or the worker is cancelled first (_run).
Drains ==
    pc[Worker] \in {"created", "waiting"}
        ~> buffer = {} \/ ~in_loop \/ pc[Worker] \in {"cancelled", "done"}
===============================================================================
