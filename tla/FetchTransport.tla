----------------------------- MODULE FetchTransport -----------------------------
(***************************************************************************)
(* The wrapped fetch of the JavaScript SDK (wrapFetch in                   *)
(* transports/fetch.ts) and the budget for the readers of streamed answers *)
(* (teeResponseForTokens and StreamCaptureBudget in _stream_capture.ts).   *)
(* Requests interleave where fetch awaits: the body, the answer, and each  *)
(* capture, which runs beside them.                                        *)
(*                                                                         *)
(* The engine's answer is a choice, its own module says which it gives; a  *)
(* sink is there.  What onAllow and onDeny raise is caught.  A capture     *)
(* (StreamTee) takes one unit of the budget, MAX_STREAM_EVENT_BYTES.       *)
(***************************************************************************)
EXTENDS Naturals, Sequences, FiniteSets

CONSTANTS Requests, Capacities  \* what an operator may set the budget to

VARIABLES
    setup,       \* the options enforce and securityMode
    pc,          \* where each request is: "body", "sent" or "over"
    judged, outcome,
    capture,     \* of each request's answer: "none", "reading", "read" or "over"
    in_use, capacity, dropped_budget,  \* of the budget
    reported     \* history: the events enqueued for each request

budget == <<in_use, capacity, dropped_budget>>
vars == <<setup, pc, judged, outcome, capture, budget, reported>>

Init ==
    /\ setup \in [enforce : BOOLEAN, strict : BOOLEAN]
    /\ pc = [r \in Requests |-> "body"]
    /\ judged = [r \in Requests |-> "none"]
    /\ outcome = [r \in Requests |-> "open"]
    /\ capture = [r \in Requests |-> "none"]
    /\ in_use = 0 /\ capacity \in Capacities /\ dropped_budget = 0
    /\ reported = [r \in Requests |-> <<>>]

Settle(r, v) == judged' = [judged EXCEPT ![r] = v]
Enqueue(r, kind) == reported' = [reported EXCEPT ![r] = Append(@, kind)]
Send(r) ==
    /\ pc' = [pc EXCEPT ![r] = "sent"]
    /\ outcome' = [outcome EXCEPT ![r] = "sent"]
Finish(r, o) ==
    /\ pc' = [pc EXCEPT ![r] = "over"]
    /\ outcome' = [outcome EXCEPT ![r] = o]

FailsClosed == setup.strict /\ setup.enforce

-------------------------------------------------------------------------------
(* From extractBody to the send without an await. *)

\* The request cannot be built or cloned, or beforeRequest throws.
Throws(r) ==
    /\ pc[r] = "body" /\ Finish(r, "failed")
    /\ UNCHANGED <<setup, judged, capture, budget, reported>>

\* No event is enqueued.
Oversized(r) ==
    /\ pc[r] = "body" /\ FailsClosed
    /\ Settle(r, "oversized") /\ Finish(r, "refused")
    /\ UNCHANGED <<setup, capture, budget, reported>>

Stopped(r) ==
    /\ pc[r] = "body"
    /\ Settle(r, "stopped") /\ Finish(r, "refused")
    /\ UNCHANGED <<setup, capture, budget, reported>>

\* Mutant of EngineFaults: strict is taken for the opposite.
EngineFaultsInverted(r) ==
    /\ pc[r] = "body"
    /\ Settle(r, "fault")
    /\ IF setup.enforce /\ ~setup.strict THEN Finish(r, "refused") ELSE Send(r)
    /\ UNCHANGED <<setup, capture, budget, reported>>

\* A fault that is passed over goes on as if it were allowed, without an event.
EngineFaults(r) ==
    /\ pc[r] = "body"
    /\ Settle(r, "fault")
    /\ IF FailsClosed THEN Finish(r, "refused") ELSE Send(r)
    /\ UNCHANGED <<setup, capture, budget, reported>>

Allowed(r) ==
    /\ pc[r] = "body"
    /\ Settle(r, "allow") /\ Send(r)
    /\ UNCHANGED <<setup, capture, budget, reported>>

\* The event goes out before the refusal, and before a dry run goes on.
Denied(r) ==
    /\ pc[r] = "body"
    /\ Settle(r, "deny") /\ Enqueue(r, "denied")
    /\ IF setup.enforce THEN Finish(r, "refused") ELSE Send(r)
    /\ UNCHANGED <<setup, capture, budget>>

-------------------------------------------------------------------------------
(* After the await of baseFetch. *)

FetchRejects(r) ==
    /\ pc[r] = "sent" /\ Finish(r, "failed")
    /\ UNCHANGED <<setup, judged, capture, budget, reported>>

\* Only an event of the engine can be enqueued.
ReportAnswer(r) ==
    IF judged[r] = "fault" THEN UNCHANGED reported ELSE Enqueue(r, "answered")

AnsweredPlain(r) ==
    /\ pc[r] = "sent" /\ Finish(r, "answered") /\ ReportAnswer(r)
    /\ UNCHANGED <<setup, judged, capture, budget>>

\* A stream of events of a known vendor, on the path of an allowed request.
AnsweredStream(r) ==
    /\ pc[r] = "sent" /\ judged[r] # "deny"
    /\ Finish(r, "answered") /\ ReportAnswer(r)
    /\ IF in_use + 1 > capacity
       THEN dropped_budget' = dropped_budget + 1 /\ UNCHANGED <<in_use, capture>>
       ELSE /\ in_use' = in_use + 1
            /\ capture' = [capture EXCEPT ![r] = "reading"]
            /\ UNCHANGED dropped_budget
    /\ UNCHANGED <<setup, judged, capacity>>

\* The capture's half of the answer ends, breaks off or grows too long.
CaptureReports(r) ==
    /\ capture[r] = "reading"
    /\ capture' = [capture EXCEPT ![r] = "read"]
    /\ Enqueue(r, "stream")
    /\ UNCHANGED <<setup, pc, judged, outcome, budget>>

\* Mutant of Release: a lowered capacity is taken for the amount in use.
ReleaseCapped(r) ==
    /\ capture[r] = "read"
    /\ capture' = [capture EXCEPT ![r] = "over"]
    /\ in_use' = IF in_use > capacity THEN capacity ELSE in_use - 1
    /\ UNCHANGED <<setup, pc, judged, outcome, capacity, dropped_budget, reported>>

\* finally: the budget is released.
Release(r) ==
    /\ capture[r] = "read"
    /\ capture' = [capture EXCEPT ![r] = "over"]
    /\ in_use' = IF in_use = 0 THEN 0 ELSE in_use - 1
    /\ UNCHANGED <<setup, pc, judged, outcome, capacity, dropped_budget, reported>>

SetCapacity ==
    /\ capacity' \in Capacities
    /\ UNCHANGED <<setup, pc, judged, outcome, capture, in_use, dropped_budget, reported>>

Next ==
    \/ \E r \in Requests :
          \/ Throws(r) \/ Oversized(r) \/ Stopped(r) \/ EngineFaults(r) \/ Allowed(r) \/ Denied(r)
          \/ FetchRejects(r) \/ AnsweredPlain(r) \/ AnsweredStream(r)
          \/ CaptureReports(r) \/ Release(r)
    \/ SetCapacity

Spec == Init /\ [][Next]_vars

-------------------------------------------------------------------------------

TypeOK ==
    /\ setup \in [enforce : BOOLEAN, strict : BOOLEAN]
    /\ pc \in [Requests -> {"body", "sent", "over"}]
    /\ capture \in [Requests -> {"none", "reading", "read", "over"}]
    /\ capacity \in Capacities /\ {in_use, dropped_budget} \subseteq Nat
    /\ \A r \in Requests : reported[r] \in Seq({"denied", "answered", "stream"})

\* The promise of Interception.
Gate == INSTANCE Interception
GateHolds == Gate!Spec

Times(r, kind) == Cardinality({n \in DOMAIN reported[r] : reported[r][n] = kind})

\* What the control plane hears of a request: a refusal by policy once, an answer
\* once, a dry run's request both, in this order, and a streamed answer once more;
\* nothing of a request that was too large, stopped or failed on, but for the
\* stream of the latter (enqueueEvalEvent, captureStreamTokens).  And the budget
\* counts the captures that run, however an operator moves its limit meanwhile.
Reports ==
    /\ \A r \in Requests :
          /\ Times(r, "denied") = IF judged[r] = "deny" THEN 1 ELSE 0
          /\ Times(r, "answered")
                = IF outcome[r] = "answered" /\ judged[r] # "fault" THEN 1 ELSE 0
          /\ Times(r, "stream") = IF capture[r] \in {"read", "over"} THEN 1 ELSE 0
          /\ capture[r] # "none" => outcome[r] = "answered" /\ judged[r] \in {"allow", "fault"}
          /\ judged[r] = "deny" => reported[r][1] = "denied"
    /\ in_use = Cardinality({r \in Requests : capture[r] \in {"reading", "read"}})
===============================================================================
