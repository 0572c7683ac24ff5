------------------------------- MODULE JsBatcher -------------------------------
(***************************************************************************)
(* The JavaScript telemetry batcher (wrappers/javascript/src/batcher.ts).  *)
(* It runs on one event loop: between two awaits a call is not             *)
(* interrupted, so an action is a whole call up to its first await, or     *)
(* what follows an await.  At most one flush is in flight, however many    *)
(* ask for one; the unload handlers' urgentFlush() sends beside it.        *)
(*                                                                         *)
(* An event is an identity with a kind, which stands for its size and for  *)
(* whether JSON.stringify accepts it.  The circuit breaker is a choice to  *)
(* refuse; signing either works or does not.  The pid never changes while  *)
(* a JavaScript program runs, so maybeResetAfterFork does nothing.         *)
(***************************************************************************)
EXTENDS Naturals, SequencesExt

CONSTANTS Events,        \* the events the program may emit, numbered
          Kinds, Size,   \* their kinds, and the size of each
          Poison,        \* the kinds JSON.stringify throws on
          BatchSize, MaxQueueSize, MaxAttempts,
          UrgentLimit,   \* URGENT_FLUSH_BODY_LIMIT_BYTES
          MaxRestarts    \* bound: how often start() follows stop()

JsBatcherAssumption ==
    /\ Events \subseteq Nat /\ IsFiniteSet(Events)
    /\ Size \in [Kinds -> Nat] /\ Poison \subseteq Kinds
    /\ {BatchSize, MaxAttempts} \subseteq Nat \ {0}
    /\ {MaxQueueSize, UrgentLimit, MaxRestarts} \subseteq Nat

VARIABLES
    queue,                \* a sequence of events, oldest first
    flight,               \* the batch of flushInFlight; {} if there is none
    attempt,              \* the number of its request
    urgent,               \* batches of urgentFlush() still under way
    timer,                \* setInterval is armed
    running, stopping,
    waiting,              \* stop() awaits the flush
    sent, droppedBackpressure, droppedSendError, droppedSampled,
    kind,                 \* what each event is (input)
    status,               \* history: what became of each event
    stored,               \* events the control plane accepted (external)
    restarts              \* bound

lifeVars == <<timer, running, stopping, waiting, restarts>>
vars == <<queue, flight, attempt, urgent, lifeVars, sent, droppedBackpressure,
          droppedSendError, droppedSampled, kind, status, stored>>

Init ==
    /\ queue = <<>> /\ flight = {} /\ attempt = 0 /\ urgent = {}
    /\ timer = FALSE /\ running = FALSE /\ stopping = FALSE /\ waiting = FALSE
    /\ sent = 0 /\ droppedBackpressure = 0 /\ droppedSendError = 0 /\ droppedSampled = 0
    /\ kind \in [Events -> Kinds]
    /\ status = [e \in Events |-> "new"]
    /\ stored = {} /\ restarts = 0

Mark(S, s) == [e \in Events |-> IF e \in S THEN s ELSE status[e]]
Poisoned(S) == \E e \in S : kind[e] \in Poison

-------------------------------------------------------------------------------
(* flush() and sendBatch(). *)

\* The part of sendBatch() before its first await, on the events of q: the
\* body cannot be written and the promise rejects; or it is not signed, or the
\* breaker refuses; or the first request goes out.  What becomes of events
\* that are not sent is in status.
SendBatch(q, before) ==
    LET batch == ToSet(q) IN
    \/ /\ Poisoned(batch)
       /\ status' = [e \in Events |-> IF e \in batch THEN "lost" ELSE before[e]]
       /\ UNCHANGED <<flight, attempt, droppedSendError>>
    \/ /\ ~Poisoned(batch)
       /\ status' = [e \in Events |-> IF e \in batch THEN "dropped" ELSE before[e]]
       /\ droppedSendError' = droppedSendError + Len(q)
       /\ UNCHANGED <<flight, attempt>>
    \/ /\ ~Poisoned(batch)
       /\ flight' = batch /\ attempt' = 1
       /\ status' = before
       /\ UNCHANGED droppedSendError

\* Mutant of Flush: a flush does not look whether another is in flight.
FlushOverlaps(q, before) ==
    IF q = <<>> THEN queue' = q /\ status' = before /\ UNCHANGED <<flight, attempt, droppedSendError>>
    ELSE queue' = <<>> /\ SendBatch(q, before)

\* flush() on the queue q: a flush in flight is joined, an empty queue is
\* nothing to send.
Flush(q, before) ==
    IF flight # {} \/ q = <<>>
    THEN queue' = q /\ status' = before /\ UNCHANGED <<flight, attempt, droppedSendError>>
    ELSE queue' = <<>> /\ SendBatch(q, before)

\* Mutant of Tick: the timer leaves it to full batches to be sent.
TickFull ==
    /\ timer /\ Len(queue) >= BatchSize
    /\ Flush(queue, status)
    /\ UNCHANGED <<urgent, lifeVars, sent, droppedBackpressure, droppedSampled, kind, stored>>

\* The interval elapses.
Tick ==
    /\ timer /\ queue # <<>>
    /\ Flush(queue, status)
    /\ UNCHANGED <<urgent, lifeVars, sent, droppedBackpressure, droppedSampled, kind, stored>>

\* The program calls flush().
CallFlush ==
    /\ queue # <<>> /\ flight = {}
    /\ Flush(queue, status)
    /\ UNCHANGED <<urgent, lifeVars, sent, droppedBackpressure, droppedSampled, kind, stored>>

\* fetchWithRetry has an answer, a network error or a timeout, and tries
\* again; the request may have been accepted nonetheless, and its repetition
\* carries the same Idempotency-Key.
Retry ==
    /\ flight # {} /\ attempt < MaxAttempts
    /\ attempt' = attempt + 1
    /\ stored' \in {stored, stored \cup flight}
    /\ UNCHANGED <<queue, flight, urgent, lifeVars, sent, droppedBackpressure,
                   droppedSendError, droppedSampled, kind, status>>

\* The flush is over: whoever awaits it goes on, stop() among them.
Landed ==
    /\ flight' = {} /\ attempt' = 0
    /\ waiting' = FALSE
    /\ running' = (running /\ ~waiting)
    /\ UNCHANGED <<queue, urgent, timer, stopping, restarts, droppedBackpressure,
                   droppedSampled, kind>>

Delivered ==
    /\ flight # {}
    /\ sent' = sent + Cardinality(flight)
    /\ status' = Mark(flight, "sent") /\ stored' = stored \cup flight
    /\ Landed /\ UNCHANGED droppedSendError

\* A status that is not retried, or no attempts left.
GivenUp ==
    /\ flight # {}
    /\ droppedSendError' = droppedSendError + Cardinality(flight)
    /\ status' = Mark(flight, "dropped")
    /\ stored' \in {stored, stored \cup flight}
    /\ Landed /\ UNCHANGED sent

-------------------------------------------------------------------------------
(* enqueue() *)

Emits(e) == status[e] = "new" /\ \A d \in Events : d < e => status[d] # "new"

\* Stopped, or no room.
Refuse(e) ==
    /\ Emits(e)
    /\ stopping \/ Len(queue) >= MaxQueueSize
    /\ droppedBackpressure' = droppedBackpressure + 1
    /\ status' = Mark({e}, "refused")
    /\ UNCHANGED <<queue, flight, attempt, urgent, lifeVars, sent, droppedSendError,
                   droppedSampled, kind, stored>>

\* beforeSend returns null or throws, which nothing counts, or sampling
\* leaves the event out, which droppedSampled does; both look before the
\* queue's room does.
Filter(e) ==
    /\ Emits(e) /\ ~stopping
    /\ droppedSampled' \in {droppedSampled, droppedSampled + 1}
    /\ status' = Mark({e}, "filtered")
    /\ UNCHANGED <<queue, flight, attempt, urgent, lifeVars, sent, droppedBackpressure,
                   droppedSendError, kind, stored>>

\* The event is queued; a full batch asks for a flush.
Accept(e) ==
    /\ Emits(e) /\ ~stopping /\ Len(queue) < MaxQueueSize
    /\ LET q == Append(queue, e) held == Mark({e}, "held") IN
       IF Len(q) >= BatchSize THEN Flush(q, held)
       ELSE queue' = q /\ status' = held /\ UNCHANGED <<flight, attempt, droppedSendError>>
    /\ UNCHANGED <<urgent, lifeVars, sent, droppedBackpressure, droppedSampled, kind, stored>>

enqueue(e) == Refuse(e) \/ Filter(e) \/ Accept(e)

-------------------------------------------------------------------------------
(* urgentFlush(), from pagehide and beforeunload. *)

Bytes(q) == FoldSeq(LAMBDA e, sum : Size[kind[e]] + sum, 0, q)

\* The oldest events are given up until the rest fits or one is left: what is kept is
\* the last event, and each that fits together with those behind it.
Trimmed(q) ==
    {q[n] : n \in {m \in 1..Len(q) : m = Len(q) \/ Bytes(SubSeq(q, m, Len(q))) <= UrgentLimit}}

urgentFlush ==
    /\ queue # <<>> /\ ~stopping
    /\ queue' = <<>>
    /\ LET all == ToSet(queue) kept == Trimmed(queue) IN
       \/ /\ Poisoned(all)                  \* the first serialize() throws
          /\ status' = Mark(all, "lost")
          /\ UNCHANGED <<urgent, droppedSendError>>
       \/ /\ ~Poisoned(all)                 \* not signed, or fetch() throws
          /\ status' = Mark(all, "dropped")
          /\ droppedSendError' = droppedSendError + Cardinality(all)
          /\ UNCHANGED urgent
       \/ /\ ~Poisoned(all)
          /\ status' = Mark(all \ kept, "dropped")
          /\ droppedSendError' = droppedSendError + Cardinality(all \ kept)
          /\ urgent' = urgent \cup {kept}
    /\ UNCHANGED <<flight, attempt, lifeVars, sent, droppedBackpressure, droppedSampled, kind, stored>>

\* Any answer counts as delivered, whatever its status.
UrgentAnswered(b) ==
    /\ b \in urgent /\ urgent' = urgent \ {b}
    /\ sent' = sent + Cardinality(b)
    /\ status' = Mark(b, "sent")
    /\ stored' \in {stored, stored \cup b}
    /\ UNCHANGED <<queue, flight, attempt, lifeVars, droppedBackpressure, droppedSendError,
                   droppedSampled, kind>>

UrgentFailed(b) ==
    /\ b \in urgent /\ urgent' = urgent \ {b}
    /\ droppedSendError' = droppedSendError + Cardinality(b)
    /\ status' = Mark(b, "dropped")
    /\ stored' \in {stored, stored \cup b}
    /\ UNCHANGED <<queue, flight, attempt, lifeVars, sent, droppedBackpressure, droppedSampled, kind>>

-------------------------------------------------------------------------------
(* start() and stop() *)

start ==
    /\ ~running
    /\ stopping => restarts < MaxRestarts
    /\ restarts' = restarts + (IF stopping THEN 1 ELSE 0)
    /\ running' = TRUE /\ stopping' = FALSE /\ timer' = TRUE
    /\ UNCHANGED <<queue, flight, attempt, urgent, waiting, sent, droppedBackpressure,
                   droppedSendError, droppedSampled, kind, status, stored>>

\* The timer is cleared and one flush started or joined; stop() awaits it.
\* If the flush rejects, what is queued counts as dropped, but the flush has
\* just emptied the queue.
stop ==
    /\ ~stopping
    /\ stopping' = TRUE /\ timer' = FALSE
    /\ Flush(queue, status)
    /\ waiting' = (flight' # {})
    /\ running' = (running /\ flight' # {})
    /\ UNCHANGED <<urgent, sent, droppedBackpressure, droppedSampled, kind, stored, restarts>>

\* shutdownTimeoutMs elapses: what is queued counts as dropped, and the flush
\* goes on by itself.
StopTimesOut ==
    /\ waiting
    /\ waiting' = FALSE /\ running' = FALSE
    /\ droppedSendError' = droppedSendError + Len(queue)
    /\ status' = Mark(ToSet(queue), "dropped")
    /\ queue' = <<>>
    /\ UNCHANGED <<flight, attempt, urgent, timer, stopping, restarts, sent,
                   droppedBackpressure, droppedSampled, kind, stored>>

-------------------------------------------------------------------------------
Answer == Retry \/ Delivered \/ GivenUp

Next ==
    \/ \E e \in Events : enqueue(e)
    \/ Tick \/ CallFlush \/ Answer
    \/ urgentFlush \/ \E b \in urgent : UrgentAnswered(b) \/ UrgentFailed(b)
    \/ start \/ stop \/ StopTimesOut

Spec == Init /\ [][Next]_vars

-------------------------------------------------------------------------------
Promise == INSTANCE Delivery WITH dropped <- droppedBackpressure + droppedSendError

\* Every variable has its type (class TelemetryBatcher).
TypeOK ==
    /\ queue \in Seq(Events) /\ flight \subseteq Events /\ urgent \subseteq SUBSET Events
    /\ attempt \in 0..MaxAttempts
    /\ {timer, running, stopping, waiting} \subseteq BOOLEAN
    /\ {sent, droppedBackpressure, droppedSendError, droppedSampled} \subseteq Nat
    /\ kind \in [Events -> Kinds] /\ status \in [Events -> Promise!Statuses]
    /\ stored \subseteq Events /\ restarts \in 0..MaxRestarts

\* An event the batcher holds is in the queue or in exactly one request, a
\* flush's or an urgent one's: none is sent twice or forgotten (flush,
\* urgentFlush, stop).
HeldOnce ==
    /\ (UNION urgent) \cup flight \cup ToSet(queue) = {e \in Events : status[e] = "held"}
    /\ IsInjective(queue)
    /\ \A b \in urgent : b \cap (flight \cup ToSet(queue)) = {}
    /\ \A b, c \in urgent : b # c => b \cap c = {}
    /\ flight \cap ToSet(queue) = {}

\* While the timer runs, the queue is emptied again and again, even if the
\* flush a full batch asked for only joined one in flight (enqueue, start).
Drains == timer ~> queue = <<>> \/ ~timer
================================================================================
