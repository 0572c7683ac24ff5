------------------------------ MODULE Interception ------------------------------
(***************************************************************************)
(* What both SDKs promise of a request that goes through a wrapped HTTP    *)
(* client: it is judged at most once, it goes out at most once, and it     *)
(* goes out or is refused only for a reason.                               *)
(***************************************************************************)
EXTENDS Naturals

CONSTANT Requests

VARIABLES setup,    \* enforce, strict: the client's options
          judged,   \* what was found out about each request
          outcome   \* what became of it

vars == <<setup, judged, outcome>>

\* "oversized": the engine cannot see the body.  "stopped", "waived": the hook
\* before_request decided.  "fault": the engine failed.
Verdicts == {"allow", "deny", "oversized", "stopped", "waived", "fault"}

\* "failed": the application got an error of its own or of the network.
Outcomes == {"open", "sent", "answered", "refused", "failed"}

Init ==
    /\ setup \in [enforce : BOOLEAN, strict : BOOLEAN]
    /\ judged = [r \in Requests |-> "none"]
    /\ outcome = [r \in Requests |-> "open"]

MaySend(v) ==
    \/ v \in {"allow", "waived"}
    \/ v = "deny" /\ ~setup.enforce
    \/ v = "fault" /\ ~(setup.strict /\ setup.enforce)

MayRefuse(v) ==
    \/ v = "stopped"
    \/ v = "deny" /\ setup.enforce
    \/ v = "oversized" /\ setup.strict /\ setup.enforce
    \/ v = "fault" /\ setup.strict

Handle(r) ==
    /\ judged[r] # "none" => judged'[r] = judged[r]
    /\ judged'[r] \in Verdicts \cup {"none"}
    /\ \/ outcome'[r] = outcome[r]
       \/ outcome[r] = "open" /\ outcome'[r] = "sent" /\ MaySend(judged'[r])
       \/ outcome[r] = "open" /\ outcome'[r] = "refused" /\ MayRefuse(judged'[r])
       \/ outcome[r] = "sent" /\ outcome'[r] = "answered"
       \/ outcome[r] \in {"open", "sent"} /\ outcome'[r] = "failed"

Next ==
    /\ \E r \in Requests :
          /\ Handle(r)
          /\ judged' = [judged EXCEPT ![r] = judged'[r]]
          /\ outcome' = [outcome EXCEPT ![r] = outcome'[r]]
    /\ UNCHANGED setup

Spec == Init /\ [][Next]_vars
===============================================================================
