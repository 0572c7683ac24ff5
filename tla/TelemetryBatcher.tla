--------------------------- MODULE TelemetryBatcher ---------------------------
(***************************************************************************)
(* The telemetry batcher (wrappers/python/src/checkrd/batcher.py):         *)
(* request threads enqueue events into a bounded buffer, a daemon thread   *)
(* drains it when woken or when the flush interval elapses, and any thread *)
(* may call flush() or stop(), which drain and send on the caller.  The    *)
(* buffer and its byte count are guarded by a lock; the batch a thread     *)
(* drained, the retries of its request and the counters are not.           *)
(*                                                                         *)
(* Abstracted: an event is an identity with a kind, which stands for its   *)
(* size and for whether it can be serialised; nothing depends on the order *)
(* of the buffer, so it is a set; an idempotency key is one per batch, so  *)
(* what matters of it is whether the control plane has seen it; what       *)
(* CircuitBreaker models is here a choice of allow() to refuse.  The hook  *)
(* before_send is part of what chooses an event's kind; an event it        *)
(* discards never reaches the batcher's state.                             *)
(***************************************************************************)
EXTENDS Integers, FiniteSets

CONSTANTS Events,         \* the events the program may emit, numbered
          Callers,        \* the threads that call flush() and stop()
          Worker,         \* the daemon thread
          BatchSize,      \* batch_size
          MaxQueueSize,   \* max_queue_size
          MaxQueueBytes,  \* max_queue_bytes
          MaxAttempts,    \* max_attempts
          Kinds,          \* what events there are
          ApproxBytes,    \* _approx_event_bytes of each kind
          Poison,         \* the kinds on which json.dumps or the signer raises
          MaxForks        \* bound: how often the process forks

ASSUME BatcherAssumption ==
    /\ Events \subseteq Nat /\ IsFiniteSet(Events)
    /\ Worker \notin Callers
    /\ BatchSize \in Nat \ {0}
    /\ MaxQueueSize \in Nat
    /\ MaxQueueBytes \in Nat
    /\ MaxAttempts \in Nat \ {0}
    /\ ApproxBytes \in [Kinds -> Nat]
    /\ Poison \subseteq Kinds
    /\ MaxForks \in Nat

Threads == Callers \cup {Worker}
DropReasons == {"backpressure", "signing_error", "send_error"}

VARIABLES
    buffer,       \* _buffer
    queue_bytes,  \* _queue_bytes
    flush_event,  \* _flush_event
    stopped,      \* _stopped
    sent,         \* _events_sent
    dropped,      \* the three _events_dropped_* counters
    pc,           \* where each thread is
    batch,        \* the events a thread has drained and is sending
    attempt,      \* the retry loop's counter
    seen,         \* the value of _events_sent a thread has read
    closing,      \* callers inside stop()
    known,        \* threads whose batch's idempotency key the control plane
                  \* has seen (external)
    copies,       \* how often it stored an event (external)
    kind,         \* what each event is (input)
    fate,         \* history: what became of each event
    owed,         \* history: unsettled events queued before stop() was called
    closed,       \* history: a stop() has run its final flush
    forks         \* bound

queueVars == <<buffer, queue_bytes>>
sendVars  == <<batch, attempt, seen, known, copies>>
histVars  == <<kind, owed, forks>>
vars == <<buffer, queue_bytes, flush_event, stopped, sent, dropped, pc, batch,
          attempt, seen, closing, known, copies, kind, fate, owed, closed, forks>>

\* The sum of _approx_event_bytes over S: its bytes, each told by its event, are counted.
Octets(S) == UNION {{e} \X (1..ApproxBytes[kind[e]]) : e \in S}
Bytes(S) == Cardinality(Octets(S))
-------------------------------------------------------------------------------
Init ==
    /\ buffer = {}
    /\ queue_bytes = 0
    /\ flush_event = FALSE
    /\ stopped = FALSE
    /\ sent = 0
    /\ dropped = [r \in DropReasons |-> 0]
    /\ pc = [t \in Threads |-> IF t = Worker THEN "top" ELSE "idle"]
    /\ batch = [t \in Threads |-> {}]
    /\ attempt = [t \in Threads |-> 0]
    /\ seen = [t \in Threads |-> 0]
    /\ closing = {}
    /\ known = {}
    /\ copies = [e \in Events |-> 0]
    /\ kind \in [Events -> Kinds]
    /\ fate = [e \in Events |-> "new"]
    /\ owed = {}
    /\ closed = FALSE
    /\ forks = 0

-------------------------------------------------------------------------------
(* enqueue, on the threads that make requests: it never looks at _stopped. *)

\* The events come in order.
Emits(e) ==
    /\ fate[e] = "new"
    /\ \A d \in Events : d < e => fate[d] # "new"

\* The count is bounded first, then the bytes.
Full(e) ==
    \/ Cardinality(buffer) >= MaxQueueSize
    \/ queue_bytes + ApproxBytes[kind[e]] > MaxQueueBytes

Refuse(e) ==
    /\ Emits(e)
    /\ Full(e)
    /\ dropped' = [dropped EXCEPT !["backpressure"] = @ + 1]
    /\ fate' = [fate EXCEPT ![e] = "backpressure"]
    /\ UNCHANGED <<queueVars, flush_event, stopped, sent, pc, sendVars, closing,
                   histVars, closed>>

Accept(e) ==
    /\ Emits(e)
    /\ ~Full(e)
    /\ buffer' = buffer \cup {e}
    /\ queue_bytes' = queue_bytes + ApproxBytes[kind[e]]
    /\ flush_event' = (flush_event \/ Cardinality(buffer) + 1 >= BatchSize)
    /\ fate' = [fate EXCEPT ![e] = "accepted"]
    /\ owed' = IF stopped THEN owed ELSE owed \cup {e}
    /\ UNCHANGED <<stopped, sent, dropped, pc, sendVars, closing, kind, closed,
                   forks>>

enqueue(e) == Refuse(e) \/ Accept(e)

-------------------------------------------------------------------------------
(* The daemon thread, _run. *)

Goto(t, label) == pc' = [pc EXCEPT ![t] = label]

\* while not self._stopped
CheckStopped ==
    /\ pc[Worker] = "top"
    /\ Goto(Worker, IF stopped THEN "done" ELSE "waiting")
    /\ UNCHANGED <<queueVars, flush_event, stopped, sent, dropped, sendVars,
                   closing, histVars, fate, closed>>

\* wait() returns: the event is set, or the flush interval elapsed.
Wait ==
    /\ pc[Worker] = "waiting"
    /\ \/ flush_event /\ Goto(Worker, "woken")
       \/ Goto(Worker, "draining")
    /\ UNCHANGED <<queueVars, flush_event, stopped, sent, dropped, sendVars,
                   closing, histVars, fate, closed>>

\* Mutant of Clear: the event is cleared after the drain instead of before it.
ClearAfterDrain ==
    /\ \/ pc[Worker] = "woken" /\ Goto(Worker, "draining") /\ UNCHANGED flush_event
       \/ pc[Worker] = "sending" /\ flush_event' = FALSE /\ UNCHANGED pc
    /\ UNCHANGED <<queueVars, stopped, sent, dropped, sendVars, closing,
                   histVars, fate, closed>>

Clear ==
    /\ pc[Worker] = "woken"
    /\ flush_event' = FALSE
    /\ Goto(Worker, "draining")
    /\ UNCHANGED <<queueVars, stopped, sent, dropped, sendVars, closing,
                   histVars, fate, closed>>

\* Mutant of Drain: the copy is sent and the buffer is not cleared.
DrainKeeps(t) ==
    /\ buffer # {}
    /\ batch' = [batch EXCEPT ![t] = buffer]
    /\ queue_bytes' = 0
    /\ UNCHANGED buffer

\* _drain: the lock is held from the copy to the reset of the byte count.
Drain(t) ==
    /\ buffer # {}
    /\ batch' = [batch EXCEPT ![t] = buffer]
    /\ buffer' = {}
    /\ queue_bytes' = 0

WorkerDrains ==
    /\ pc[Worker] = "draining"
    /\ IF buffer = {}
       THEN Goto(Worker, "top") /\ UNCHANGED <<queueVars, batch>>
       ELSE Drain(Worker) /\ Goto(Worker, "sending")
    /\ UNCHANGED <<flush_event, stopped, sent, dropped, attempt, seen, known,
                   copies, closing, histVars, fate, closed>>

-------------------------------------------------------------------------------
(* The callers: flush() and stop(). *)

\* flush(); on an empty buffer it does nothing.
flush(c) ==
    /\ pc[c] = "idle"
    /\ Drain(c)
    /\ Goto(c, "sending")
    /\ UNCHANGED <<flush_event, stopped, sent, dropped, attempt, seen, known,
                   copies, closing, histVars, fate, closed>>

\* stop() returns at once when it finds _stopped set; the test and the
\* assignment that follows it are two steps.
stop(c) ==
    /\ pc[c] = "idle"
    /\ ~stopped
    /\ Goto(c, "stopping")
    /\ closing' = closing \cup {c}
    /\ UNCHANGED <<queueVars, flush_event, stopped, sent, dropped, sendVars,
                   histVars, fate, closed>>

SetStopped(c) ==
    /\ pc[c] = "stopping"
    /\ stopped' = TRUE
    /\ flush_event' = TRUE
    /\ Goto(c, "joining")
    /\ UNCHANGED <<queueVars, sent, dropped, sendVars, closing, histVars,
                   fate, closed>>

\* Mutant of FinalFlush: what the thread left behind is not flushed.
NoFinalFlush(c) ==
    /\ pc[c] = "joining"
    /\ Goto(c, "idle") /\ closing' = closing \ {c} /\ closed' = TRUE
    /\ UNCHANGED <<queueVars, flush_event, stopped, sent, dropped, sendVars,
                   histVars, fate>>

\* join(timeout=5.0) returns whether or not the thread has ended; then flush.
FinalFlush(c) ==
    /\ pc[c] = "joining"
    /\ IF buffer = {}
       THEN Goto(c, "idle") /\ closing' = closing \ {c} /\ closed' = TRUE
            /\ UNCHANGED <<queueVars, batch>>
       ELSE Drain(c) /\ Goto(c, "sending") /\ UNCHANGED <<closing, closed>>
    /\ UNCHANGED <<flush_event, stopped, sent, dropped, attempt, seen, known,
                   copies, histVars, fate>>

-------------------------------------------------------------------------------
(* _send, on the daemon thread or on a caller. *)

\* The batch has met its end: _send returns or raises, and with it flush()
\* or stop(); the daemon thread goes back to the top of its loop.
Settle(t, f) ==
    /\ fate' = [e \in Events |-> IF e \in batch[t] THEN f ELSE fate[e]]
    /\ batch' = [batch EXCEPT ![t] = {}]
    /\ attempt' = [attempt EXCEPT ![t] = 0]
    /\ Goto(t, IF t = Worker THEN "top" ELSE "idle")
    /\ closing' = closing \ {t}
    /\ closed' = (closed \/ t \in closing)
    /\ known' = known \ {t}
    /\ owed' = owed \ batch[t]

Drop(t, reason) ==
    /\ dropped' = [dropped EXCEPT ![reason] = @ + Cardinality(batch[t])]
    /\ Settle(t, reason)

Serialisable(S) == \A e \in S : kind[e] \notin Poison

\* Mutant of RunGuard: the exception ends the daemon thread.
RunUnguarded ==
    /\ pc[Worker] = "sending"
    /\ ~Serialisable(batch[Worker])
    /\ Goto(Worker, "done")
    /\ UNCHANGED <<queueVars, flush_event, stopped, sent, dropped, sendVars,
                   closing, histVars, fate, closed>>

\* Mutant of RunGuard: the drop is counted under another reason.
RunGuardCountsAsSigning ==
    /\ pc[Worker] = "sending"
    /\ ~Serialisable(batch[Worker])
    /\ dropped' = [dropped EXCEPT !["signing_error"] = @ + Cardinality(batch[Worker])]
    /\ Settle(Worker, "send_error")
    /\ UNCHANGED <<queueVars, flush_event, stopped, sent, seen, copies, kind, forks>>

\* json.dumps or the signer raises: _run counts the batch as dropped.
RunGuard ==
    /\ pc[Worker] = "sending"
    /\ ~Serialisable(batch[Worker])
    /\ Drop(Worker, "send_error")
    /\ UNCHANGED <<queueVars, flush_event, stopped, sent, seen, copies,
                   kind, forks>>

\* The same on a caller leaves flush() or stop(), and nothing counts it.
Raise(c) ==
    /\ pc[c] = "sending"
    /\ ~Serialisable(batch[c])
    /\ Settle(c, "raised")
    /\ UNCHANGED <<queueVars, flush_event, stopped, sent, dropped, seen, copies, kind, forks>>

\* No signing key, or the circuit is open.
Unsent(t) ==
    /\ pc[t] = "sending"
    /\ Serialisable(batch[t])
    /\ \E reason \in {"signing_error", "send_error"} : Drop(t, reason)
    /\ UNCHANGED <<queueVars, flush_event, stopped, sent, seen, copies,
                   kind, forks>>

BeginAttempts(t) ==
    /\ pc[t] = "sending"
    /\ Serialisable(batch[t])
    /\ Goto(t, "attempting")
    /\ UNCHANGED <<queueVars, flush_event, stopped, sent, dropped, sendVars,
                   closing, histVars, fate, closed>>

\* The control plane stores a batch unless it has seen its key (external).
AfterStore(t) ==
    IF t \in known THEN copies
    ELSE [e \in Events |-> IF e \in batch[t] THEN copies[e] + 1 ELSE copies[e]]

Store(t) == known' = known \cup {t} /\ copies' = AfterStore(t)

\* What happens to an attempt's request: it may be stored and its answer lost.
ReachesStore(t) == Store(t) \/ UNCHANGED <<known, copies>>

\* Mutant of LastAttempt: one attempt too many.
LastAttemptOffByOne(t) == attempt[t] >= MaxAttempts

LastAttempt(t) == attempt[t] + 1 >= MaxAttempts

\* status < 400: _events_sent is read here, and written in the next step.
AttemptSucceeds(t) ==
    /\ pc[t] = "attempting"
    /\ Store(t)
    /\ seen' = [seen EXCEPT ![t] = sent]
    /\ Goto(t, "counting")
    /\ UNCHANGED <<queueVars, flush_event, stopped, sent, dropped, batch,
                   attempt, closing, histVars, fate, closed>>

\* self._events_sent += len(events): the call to len() lets threads switch
\* between the read and the write.
CountSent(t) ==
    /\ pc[t] = "counting"
    /\ sent' = seen[t] + Cardinality(batch[t])
    /\ seen' = [seen EXCEPT ![t] = 0]
    /\ Settle(t, "sent")
    /\ UNCHANGED <<queueVars, flush_event, stopped, dropped, copies,
                   kind, forks>>

\* Mutant of Retry: every attempt has a key of its own.
RetryWithFreshKey(t) ==
    /\ pc[t] = "attempting"
    /\ ~LastAttempt(t)
    /\ copies' \in {AfterStore(t), copies}
    /\ known' = known \ {t}
    /\ attempt' = [attempt EXCEPT ![t] = @ + 1]
    /\ UNCHANGED <<queueVars, flush_event, stopped, sent, dropped, pc, batch,
                   seen, closing, histVars, fate, closed>>

\* A retryable status or a network failure, with attempts left; the key stays.
Retry(t) ==
    /\ pc[t] = "attempting"
    /\ ~LastAttempt(t)
    /\ ReachesStore(t)
    /\ attempt' = [attempt EXCEPT ![t] = @ + 1]
    /\ UNCHANGED <<queueVars, flush_event, stopped, sent, dropped, pc, batch,
                   seen, closing, histVars, fate, closed>>

\* The last attempt failed, or a status that is not retried: the batch counts
\* as dropped, stored or not.
GiveUp(t) ==
    /\ pc[t] = "attempting"
    /\ \/ LastAttempt(t) /\ copies' = AfterStore(t)
       \/ UNCHANGED copies
    /\ Drop(t, "send_error")
    /\ UNCHANGED <<queueVars, flush_event, stopped, sent, seen, kind, forks>>

\* Mutant of Reinit: the byte count is inherited.
ReinitKeepsBytes ==
    /\ flush_event' = FALSE
    /\ buffer' = {}
    /\ stopped' = FALSE
    /\ sent' = 0
    /\ dropped' = [r \in DropReasons |-> 0]
    /\ UNCHANGED queue_bytes

-------------------------------------------------------------------------------
\* _reinit_after_fork, on a thread that was in no call of the batcher: the
\* model follows the child; the events and the requests stay the parent's.
Reinit ==
    /\ flush_event' = FALSE
    /\ buffer' = {}
    /\ queue_bytes' = 0
    /\ stopped' = FALSE
    /\ sent' = 0
    /\ dropped' = [r \in DropReasons |-> 0]

Fork ==
    /\ forks < MaxForks
    /\ forks' = forks + 1
    /\ Reinit
    /\ pc' = [t \in Threads |-> IF t = Worker THEN "top" ELSE "idle"]
    /\ batch' = [t \in Threads |-> {}]
    /\ attempt' = [t \in Threads |-> 0]
    /\ seen' = [t \in Threads |-> 0]
    /\ closing' = {}
    /\ closed' = FALSE
    /\ fate' = [e \in Events |-> IF fate[e] = "new" THEN "new" ELSE "parent"]
    /\ owed' = {}
    /\ known' = {}
    /\ copies' = [e \in Events |-> 0]
    /\ UNCHANGED kind

Sends(t) == \/ Unsent(t) \/ BeginAttempts(t) \/ AttemptSucceeds(t)
            \/ CountSent(t) \/ Retry(t) \/ GiveUp(t)

WorkerStep == CheckStopped \/ Wait \/ Clear \/ WorkerDrains \/ RunGuard \/ Sends(Worker)
CallerStep(c) == SetStopped(c) \/ FinalFlush(c) \/ Raise(c) \/ Sends(c)

Next ==
    \/ \E e \in Events : enqueue(e)
    \/ WorkerStep
    \/ \E c \in Callers : flush(c) \/ stop(c) \/ CallerStep(c)
    \/ Fork

Spec == Init /\ [][Next]_vars

\* Threads run, the flush interval elapses, a join and a request time out; no
\* event need be emitted, and nobody need flush or stop.
Fairness == WF_vars(WorkerStep) /\ \A c \in Callers : WF_vars(CallerStep(c))

FairSpec == Spec /\ Fairness
-------------------------------------------------------------------------------
InHand == UNION {batch[t] : t \in Threads}
Fated(f) == {e \in Events : fate[e] = f}

Labels == {"top", "waiting", "woken", "draining", "done", "idle", "stopping",
           "joining", "sending", "attempting", "counting"}
Fates == DropReasons \cup {"new", "accepted", "sent", "raised", "parent"}

\* Every variable has its type (TelemetryBatcher.__init__ and _run).
TypeOK ==
    /\ buffer \subseteq Events
    /\ queue_bytes \in Int
    /\ flush_event \in BOOLEAN /\ stopped \in BOOLEAN /\ closed \in BOOLEAN
    /\ sent \in Nat
    /\ dropped \in [DropReasons -> Nat]
    /\ pc \in [Threads -> Labels]
    /\ batch \in [Threads -> SUBSET Events]
    /\ attempt \in [Threads -> 0..MaxAttempts-1]
    /\ seen \in [Threads -> Nat]
    /\ closing \subseteq Callers
    /\ known \subseteq Threads
    /\ copies \in [Events -> Nat]
    /\ kind \in [Events -> Kinds]
    /\ fate \in [Events -> Fates]
    /\ owed \subseteq Fated("accepted")
    /\ forks \in 0..MaxForks

\* The byte count is that of the buffer, and both bounds of enqueue hold,
\* however enqueue, the drains of several threads and a fork interleave.
QueueBounded ==
    /\ queue_bytes = Bytes(buffer)
    /\ queue_bytes <= MaxQueueBytes
    /\ Cardinality(buffer) <= MaxQueueSize

\* No event is lost and none is sent by two threads: what enqueue accepted
\* and no counter or exception has settled is in the buffer or in exactly one
\* thread's batch (_drain, _send, _run's guard).
NoneLostNoneTwice ==
    /\ buffer \cup InHand = Fated("accepted")
    /\ \A t \in Threads : batch[t] \cap buffer = {}
    /\ \A t, u \in Threads : t # u => batch[t] \cap batch[u] = {}

\* The counters never promise too much: each drop is counted once, under its
\* reason, and events_sent is at most what was acknowledged; threads whose
\* unlocked updates overlap make it less (diagnostics).
CountersHonest ==
    /\ \A r \in DropReasons : dropped[r] = Cardinality(Fated(r))
    /\ sent <= Cardinality(Fated("sent"))

\* What counts as sent is stored by the control plane, and whatever answers
\* are lost and attempts repeated, nothing is stored twice, because the
\* attempts of a batch share one key (_send).
StoredOnce ==
    /\ \A e \in Events : copies[e] <= 1
    /\ \A e \in Fated("sent") : copies[e] = 1

\* A full batch never waits for the flush interval: the event is set, or the
\* thread that will drain has cleared it but not drained yet (enqueue sets it
\* under the lock, _run clears it before it drains).
FullBatchWakes ==
    Cardinality(buffer) >= BatchSize =>
        flush_event \/ pc[Worker] = "draining"

\* When a stop() has run its course, no event queued before it set _stopped
\* is still in the buffer, whether or not the thread ended within the join.
StopFlushes == closed => buffer \cap owed = {}

\* A queued event leaves the queue for good, sent, counted as dropped or lost
\* to a caller's exception, unless stop() came before it: nothing a batch
\* contains can end the thread that drains the queue.
Settled == \A e \in Events : e \in owed ~> e \notin owed
===============================================================================
