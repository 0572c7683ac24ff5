----------------------------- MODULE HttpxTransport -----------------------------
(***************************************************************************)
(* The wrapped httpx transports, for threads and for asyncio               *)
(* (transports/_httpx.py): requests side by side, each judged by hook and  *)
(* engine, sent, its answer searched for token usage, and reported.        *)
(*                                                                         *)
(* The engine's answer is a choice, its own module says which it gives; a  *)
(* batcher is there.  An answer's tap (StreamTap) is a step that reports   *)
(* usage or none.  The hooks on_allow and on_deny are not seen: what they  *)
(* raise is caught.                                                        *)
(***************************************************************************)
EXTENDS Naturals, Sequences, FiniteSets

CONSTANT Requests

VARIABLES
    setup,     \* the client's options enforce and security_mode
    metering,  \* extract_genai_body_attrs
    asynchronous, \* CheckrdAsyncTransport
    pc,        \* where each request is
    judged, outcome,
    tapped,    \* answers with a stream tap that has not reported yet
    reported   \* history: the events enqueued for each request

vars == <<setup, metering, asynchronous, pc, judged, outcome, tapped, reported>>
options == <<setup, metering, asynchronous>>

Init ==
    /\ setup \in [enforce : BOOLEAN, strict : BOOLEAN]
    /\ metering \in BOOLEAN /\ asynchronous \in BOOLEAN
    /\ pc = [r \in Requests |-> "size"]
    /\ judged = [r \in Requests |-> "none"]
    /\ outcome = [r \in Requests |-> "open"]
    /\ tapped = {}
    /\ reported = [r \in Requests |-> <<>>]

Goto(r, label) == pc' = [pc EXCEPT ![r] = label]
Judge(r, v) == judged' = [judged EXCEPT ![r] = v]
Outcome(r, o) == outcome' = [outcome EXCEPT ![r] = o]
Event(kind, usage) == [kind |-> kind, usage |-> usage]
Enqueue(r, e) == reported' = [reported EXCEPT ![r] = Append(@, e)]

Send(r) == Goto(r, "sent") /\ Outcome(r, "sent")
Refuse(r) == Goto(r, "over") /\ Outcome(r, "refused")

-------------------------------------------------------------------------------

\* _check_oversized_body: the engine would not see such a body.
Inspectable(r) ==
    /\ pc[r] = "size" /\ Goto(r, "hook")
    /\ UNCHANGED <<options, judged, outcome, tapped, reported>>

FailsClosed == setup.strict /\ setup.enforce
Oversized(r) ==
    /\ pc[r] = "size"
    /\ IF FailsClosed
       THEN Judge(r, "oversized") /\ Refuse(r) /\ Enqueue(r, Event("denied", FALSE))
       ELSE Goto(r, "hook") /\ UNCHANGED <<judged, outcome, reported>>
    /\ UNCHANGED <<options, tapped>>

\* A body that is a stream has no content to look at, and asking for it raises.
Unread(r) ==
    /\ pc[r] = "size"
    /\ Goto(r, "over") /\ Outcome(r, "failed")
    /\ UNCHANGED <<options, judged, tapped, reported>>

\* before_request gives the event back, raises, or is not there.
HookProceeds(r) ==
    /\ pc[r] = "hook" /\ Goto(r, "evaluate")
    /\ UNCHANGED <<options, judged, outcome, tapped, reported>>

HookWaives(r) ==
    /\ pc[r] = "hook"
    /\ Judge(r, "waived") /\ Send(r)
    /\ UNCHANGED <<options, tapped, reported>>

\* Mutant of EngineFaults: the mode is not looked at.
EngineFaultsOpen(r) ==
    /\ pc[r] = "evaluate"
    /\ Judge(r, "fault") /\ Send(r)
    /\ UNCHANGED <<options, tapped, reported>>
EngineFaults(r) ==
    /\ pc[r] = "evaluate"
    /\ Judge(r, "fault")
    /\ IF setup.strict THEN Refuse(r) ELSE Send(r)
    /\ UNCHANGED <<options, tapped, reported>>

Allowed(r) ==
    /\ pc[r] = "evaluate"
    /\ Judge(r, "allow") /\ Send(r)
    /\ UNCHANGED <<options, tapped, reported>>

\* The refusal is reported before it is raised, and before a dry run goes on.
Denied(r) ==
    /\ pc[r] = "evaluate"
    /\ Judge(r, "deny") /\ Enqueue(r, Event("denied", FALSE))
    /\ IF setup.enforce THEN Refuse(r) ELSE Send(r)
    /\ UNCHANGED <<options, tapped>>

-------------------------------------------------------------------------------

\* The inner transport raises; its error goes on to the application.
SendFails(r) ==
    /\ pc[r] = "sent"
    /\ Goto(r, "over") /\ Outcome(r, "failed")
    /\ UNCHANGED <<options, judged, tapped, reported>>

Judged(r) == judged[r] \in {"allow", "deny"}

\* An answer to a request that was not evaluated is handed on as it is.
AnsweredUnjudged(r) ==
    /\ pc[r] = "sent" /\ ~Judged(r)
    /\ Goto(r, "over") /\ Outcome(r, "answered")
    /\ UNCHANGED <<options, judged, tapped, reported>>

\* No usage to be had: metering is off, the provider or the path is another, or
\* the body cannot be read.
AnsweredPlain(r) ==
    /\ pc[r] \in {"sent", "reading"} /\ Judged(r)
    /\ Goto(r, "over") /\ Outcome(r, "answered")
    /\ Enqueue(r, Event("answered", FALSE))
    /\ UNCHANGED <<options, judged, tapped>>

\* Mutant of AnsweredStream: the stream is read for its usage as well.
AnsweredStreamRead(r) ==
    /\ pc[r] = "sent" /\ Judged(r) /\ metering
    /\ tapped' = tapped \cup {r}
    /\ Goto(r, "over") /\ Outcome(r, "answered")
    /\ Enqueue(r, Event("answered", TRUE))
    /\ UNCHANGED <<options, judged>>

\* A stream of events gets a tap, and the report of the answer has no usage.
AnsweredStream(r) ==
    /\ pc[r] = "sent" /\ Judged(r) /\ metering
    /\ tapped' = tapped \cup {r}
    /\ Goto(r, "over") /\ Outcome(r, "answered")
    /\ Enqueue(r, Event("answered", FALSE))
    /\ UNCHANGED <<options, judged>>

\* Any other body is read for its usage, which asyncio awaits.
ReadBody(r) ==
    /\ pc[r] = "sent" /\ Judged(r) /\ metering
    /\ Goto(r, "reading")
    /\ UNCHANGED <<options, judged, outcome, tapped, reported>>

BodyHasUsage(r) ==
    /\ pc[r] = "reading"
    /\ Goto(r, "over") /\ Outcome(r, "answered")
    /\ Enqueue(r, Event("answered", TRUE))
    /\ UNCHANGED <<options, judged, tapped>>

\* A task is cancelled where it awaits; "except Exception" does not catch that.
Cancelled(r) ==
    /\ asynchronous /\ pc[r] \in {"sent", "reading"}
    /\ Goto(r, "over") /\ Outcome(r, "failed")
    /\ UNCHANGED <<options, judged, tapped, reported>>

\* The stream is read to its end, broken off or closed.
TapReports(r) ==
    /\ r \in tapped
    /\ tapped' = tapped \ {r}
    /\ \E usage \in BOOLEAN : Enqueue(r, Event("stream", usage))
    /\ UNCHANGED <<options, pc, judged, outcome>>

Next == \E r \in Requests :
    \/ Inspectable(r) \/ Oversized(r) \/ Unread(r) \/ HookProceeds(r) \/ HookWaives(r)
    \/ EngineFaults(r) \/ Allowed(r) \/ Denied(r)
    \/ SendFails(r) \/ AnsweredUnjudged(r) \/ AnsweredPlain(r) \/ AnsweredStream(r)
    \/ ReadBody(r) \/ BodyHasUsage(r) \/ Cancelled(r) \/ TapReports(r)

Spec == Init /\ [][Next]_vars

-------------------------------------------------------------------------------

Kinds == {"denied", "answered", "stream"}

TypeOK ==
    /\ setup \in [enforce : BOOLEAN, strict : BOOLEAN]
    /\ {metering, asynchronous} \subseteq BOOLEAN
    /\ pc \in [Requests -> {"size", "hook", "evaluate", "sent", "reading", "over"}]
    /\ tapped \subseteq Requests
    /\ \A r \in Requests : reported[r] \in Seq([kind : Kinds, usage : BOOLEAN])

\* The promise of Interception.
Gate == INSTANCE Interception
GateHolds == Gate!Spec

Number(r, kind) == Cardinality({n \in DOMAIN reported[r] : reported[r][n].kind = kind})

\* What the control plane hears of a request: a refusal by policy or size once,
\* an answer once, and a dry run's request both, in this order; usage at most
\* once, from the body or from the stream; nothing of a request that was waived or
\* that the engine failed on, nor of the answer that never came.
Reports ==
    \A r \in Requests :
       /\ Number(r, "denied") = IF judged[r] \in {"deny", "oversized"} THEN 1 ELSE 0
       /\ Number(r, "answered") = IF outcome[r] = "answered" /\ Judged(r) THEN 1 ELSE 0
       /\ reported[r] # <<>> /\ judged[r] \in {"deny", "oversized"} => reported[r][1].kind = "denied"
       /\ Cardinality({n \in DOMAIN reported[r] : reported[r][n].usage}) <= 1
       /\ Number(r, "stream") <= Number(r, "answered")
===============================================================================
