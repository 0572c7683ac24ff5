------------------------------- MODULE Delivery -------------------------------
(***************************************************************************)
(* What the batchers that run on one event loop promise of every telemetry *)
(* event: it is turned away, or taken and later settled, once and for all, *)
(* and the counters of diagnostics() say exactly how many met each end.    *)
(* An event that vanishes uncounted is "lost"; each detailed module says   *)
(* when that may happen.                                                   *)
(***************************************************************************)
EXTENDS Naturals, FiniteSets

CONSTANT Events

VARIABLES status,  \* what has become of each event
          sent,    \* the counter of delivered events
          dropped  \* the counters of dropped events, added up

vars == <<status, sent, dropped>>

Statuses == {"new", "filtered", "refused", "held", "sent", "dropped", "lost"}

Init ==
    /\ status = [e \in Events |-> "new"]
    /\ sent = 0
    /\ dropped = 0

\* One call of the batcher emits at most one event, keeps it back (before_send,
\* sampling), turns it away or takes it; and any batches whose end it is meet it
\* in the same step, that of the event just taken included.
Ends == {"sent", "dropped", "lost"}
Moves == ({"new"} \X ({"filtered", "refused", "held"} \cup Ends)) \cup ({"held"} \X Ends)

Newly(s) == {e \in Events : status[e] # s /\ status'[e] = s}

Step ==
    /\ status' \in [Events -> Statuses]
    /\ \A e \in Events : status'[e] # status[e] => <<status[e], status'[e]>> \in Moves
    /\ Cardinality({e \in Events : status[e] = "new" /\ status'[e] # "new"}) <= 1
    /\ sent' = sent + Cardinality(Newly("sent"))
    /\ dropped' = dropped + Cardinality(Newly("dropped") \cup Newly("refused"))

Spec == Init /\ [][Step]_vars
===============================================================================
