------------------------------- MODULE MCBatchers -------------------------------
(* The three telemetry batchers: the threads' (TelemetryBatcher), asyncio's      *)
(* and JavaScript's, and the circuit breaker that the last shares with its        *)
(* receiver.  They share no state (JsBatcher takes a refusal as a choice), so in  *)
(* each behaviour one moves.  The asyncio and the JavaScript batcher implement    *)
(* the same promise, Delivery.                                                   *)
EXTENDS TelemetryBatcher, TLC

CONSTANTS caller, UrgentLimit, MaxRestarts, MaxLoops, MaxCancels,
          FailureThreshold, ResetAfter, ResetJitter

VARIABLES
    moving,
    js_queue, js_flight, js_attempt, js_urgent, js_timer, js_running, js_stopping,
    js_waiting, js_sent, js_backpressure, js_send_error, js_sampled, js_kind,
    js_status, js_stored, js_restarts,
    aio_buffer, aio_bytes, aio_event, aio_stopped, aio_loop, aio_in_loop, aio_bound,
    aio_pc, aio_batch, aio_attempt, aio_closing, aio_sent, aio_dropped, aio_kind,
    aio_status, aio_owed, aio_closed, aio_cancels,
    cb_state, cb_failures, cb_age, cb_window, cb_post, cb_attempt, cb_loop, cb_running,
    cb_timer, cb_refused, cb_leaked, cb_beside

MCEvents == 1..3
MCCallers == {caller}
MCKinds == {"small", "poison"}
MCApproxBytes == [small |-> 1, poison |-> 3]
MCPoison == {"poison"}

Js == INSTANCE JsBatcher WITH
    Size <- ApproxBytes,
    queue <- js_queue, flight <- js_flight, attempt <- js_attempt, urgent <- js_urgent,
    timer <- js_timer, running <- js_running, stopping <- js_stopping, waiting <- js_waiting,
    sent <- js_sent, droppedBackpressure <- js_backpressure, droppedSendError <- js_send_error,
    droppedSampled <- js_sampled, kind <- js_kind, status <- js_status, stored <- js_stored,
    restarts <- js_restarts

Aio == INSTANCE AsyncBatcher WITH
    buffer <- aio_buffer, queue_bytes <- aio_bytes, flush_event <- aio_event,
    stopped <- aio_stopped, loop <- aio_loop, in_loop <- aio_in_loop, bound <- aio_bound,
    pc <- aio_pc, batch <- aio_batch, attempt <- aio_attempt, closing <- aio_closing,
    events_sent <- aio_sent, dropped <- aio_dropped, kind <- aio_kind, status <- aio_status,
    owed <- aio_owed, closed <- aio_closed, cancels <- aio_cancels

Shared == INSTANCE SharedBreaker WITH
    state <- cb_state, failures <- cb_failures, age <- cb_age, window <- cb_window,
    post <- cb_post, attempt <- cb_attempt, loop <- cb_loop, running <- cb_running,
    timer <- cb_timer, refused_for <- cb_refused, leaked <- cb_leaked, beside <- cb_beside

ASSUME JsAssumed == Js!JsBatcherAssumption
ASSUME AioAssumed == Aio!AsyncBatcherAssumption
ASSUME SharedAssumed == Shared!SharedBreakerAssumption

jsVars == <<js_queue, js_flight, js_attempt, js_urgent, js_timer, js_running, js_stopping,
            js_waiting, js_sent, js_backpressure, js_send_error, js_sampled, js_kind,
            js_status, js_stored, js_restarts>>
aioVars == <<aio_buffer, aio_bytes, aio_event, aio_stopped, aio_loop, aio_in_loop, aio_bound,
             aio_pc, aio_batch, aio_attempt, aio_closing, aio_sent, aio_dropped, aio_kind,
             aio_status, aio_owed, aio_closed, aio_cancels>>
cbVars == <<cb_state, cb_failures, cb_age, cb_window, cb_post, cb_attempt, cb_loop,
            cb_running, cb_timer, cb_refused, cb_leaked, cb_beside>>
allVars == <<moving, vars, jsVars, aioVars, cbVars>>

ThreadsMove(A) == moving = "threads" /\ A /\ UNCHANGED <<moving, jsVars, aioVars, cbVars>>
JsMoves(A) == moving = "js" /\ A /\ UNCHANGED <<moving, vars, aioVars, cbVars>>
AioMoves(A) == moving = "asyncio" /\ A /\ UNCHANGED <<moving, vars, jsVars, cbVars>>
BreakerMoves(A) == moving = "breaker" /\ A /\ UNCHANGED <<moving, vars, jsVars, aioVars>>

\* The batchers that stay put are given events of one kind.
AllInit ==
    /\ moving \in {"threads", "js", "asyncio", "breaker"}
    /\ Init /\ Js!Init /\ Aio!Init /\ Shared!Init
    /\ moving # "threads" => kind = [e \in Events |-> "small"]
    /\ moving # "js" => js_kind = [e \in Events |-> "small"]
    /\ moving # "asyncio" => aio_kind = [e \in Events |-> "small"]

AllNext ==
    \/ ThreadsMove(Next) \/ JsMoves(Js!Next) \/ AioMoves(Aio!Next)
    \/ BreakerMoves(Shared!Next)

\* Threads and tasks run, timers fire, requests are answered or time out; nobody
\* need emit an event, flush or stop, and no loop need begin or go on.
AllFairness ==
    /\ WF_allVars(ThreadsMove(WorkerStep))
    /\ \A c \in Callers : WF_allVars(ThreadsMove(CallerStep(c)))
    /\ WF_allVars(JsMoves(Js!Tick)) /\ WF_allVars(JsMoves(Js!Answer))
    /\ WF_allVars(AioMoves(Aio!WorkerStep))
    /\ \A c \in Callers : WF_allVars(AioMoves(Aio!CallerStep(c)))

AllSpec == AllInit /\ [][AllNext]_allVars /\ AllFairness

\* Every variable of the three batchers and of the breaker has its type.
AllTypeOK == TypeOK /\ Js!TypeOK /\ Aio!TypeOK /\ Shared!Typed

\* No queue grows stale: an event leaves the threads' queue for good unless stop() came
\* before it, as nothing a batch contains can end the thread (_run); what is in
\* the others is sent while the timer or the worker lives, even if the flush that
\* a full batch asked for joined one in flight (start).
QueuesDrain == Settled /\ Js!Drains /\ Aio!Drains

\* The event loops' batchers hold each event in one place, an asyncio stop()
\* that returns has left nothing queued before it in the buffer, and the
\* threads' queue keeps both its bounds across drains and forks (flush,
\* urgentFlush, stop, start, _reinit_after_fork).  Both keep the promise of Delivery: an
\* event is settled once and for all, and the counters are exact, whatever tasks are
\* cancelled, flushes overlap and answers are lost (diagnostics).  And the breaker that
\* the JavaScript batcher shares with its receiver keeps its fields in step, refuses for
\* at most three of its windows at a time, and lets no more out meanwhile than one call's
\* attempts and one poll per step of a sleep (allow, recordFailure, fetchWithRetry, loop,
\* pollWhileWaiting).
BatchersKeepTrack ==
    /\ [](Js!HeldOnce /\ Aio!HeldOnce /\ Aio!StopFlushes /\ QueueBounded)
    /\ Js!Promise!Spec /\ Aio!Promise!Spec
    /\ [](Shared!FieldsAgree /\ Shared!RefusalBounded /\ Shared!TrafficPaced)
=================================================================================
