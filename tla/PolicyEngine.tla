------------------------------ MODULE PolicyEngine ------------------------------
(***************************************************************************)
(* The evaluation of requests by the core (crates/core/src/policy.rs and   *)
(* evaluate_request of interface.rs): the kill switch, the limit rules in  *)
(* their order, each of which counts the request in the limiter's windows, *)
(* then denies, allows and the default.                                    *)
(*                                                                         *)
(* The engine's lock makes one evaluation atomic; the steps below are its  *)
(* stages, and nothing else happens between Evaluate and Return.  The      *)
(* limiter's windows outlive a reload of the policy.  Its bound on the     *)
(* number of keys is RateLimiter's, and never reached here.                *)
(***************************************************************************)
EXTENDS PolicyRules

CONSTANTS Requests,  \* the requests made
          Merged,    \* pairs of policies the control plane merges
          Locals,    \* policies of a local file, installed as they are
          Reloads,   \* those pairs that may replace a policy
          NoPolicy,  \* no organisation's policy
          NoCall,
          Window,    \* WINDOW_MS
          MaxTime    \* bound on the clock

ASSUME EngineAssumption ==
    /\ Requests \subseteq Request
    /\ Merged \subseteq PolicyConfig \X PolicyConfig /\ Reloads \subseteq Merged
    /\ Locals \subseteq PolicyConfig
    /\ NoPolicy \notin PolicyConfig /\ NoCall \notin Request
    /\ Window \in Nat /\ MaxTime \in Nat

Keys == {<<"global">>, <<"unknown">>} \cup ({"endpoint"} \X Urls)
            \cup ({"field"} \X Fields \X Scalars)

VARIABLES
    org, agent,   \* the sources of the policy
    policy,       \* the policy in force
    kill_switch,
    stamps,       \* the limiter's timestamps by key
    now,          \* the host's clock, and the timestamp of a request
    stage,        \* "idle", "rules" while a call runs, "done" when it has
                  \* its answer
    call,         \* the request evaluated
    next_limit,   \* the limit rule it has come to
    outcome,      \* its answer
    charged,      \* history: the keys that counted this call
    admitted      \* history: when calls were let through, by key that counted
                  \* them, over the last window

vars == <<org, agent, policy, kill_switch, stamps, now, stage, call, next_limit,
          outcome, charged, admitted>>
source == <<org, agent, policy>>

NoOutcome == [allowed |-> FALSE, deny_reason |-> "none", rule |-> 0]
Outcome == [allowed : BOOLEAN, rule : Nat,
            deny_reason : {"none", "kill switch", "limit", "deny", "default"}]

-------------------------------------------------------------------------------
Put(o, a, p) == org' = o /\ agent' = a /\ policy' = p

\* A policy is installed from the control plane, merged there, or from a file.
Init ==
    /\ \/ \E pair \in Merged : /\ org = pair[1] /\ agent = pair[2]
                               /\ policy = merge_policies(pair[1], pair[2])
       \/ \E file \in Locals : org = NoPolicy /\ agent = file /\ policy = file
    /\ kill_switch \in BOOLEAN
    /\ stamps = [k \in Keys |-> <<>>] /\ admitted = [k \in Keys |-> <<>>]
    /\ now = 0
    /\ stage = "idle" /\ call = NoCall /\ next_limit = 1
    /\ outcome = NoOutcome /\ charged = {}

\* Mutant of Evaluate: a dry run counts too.
EvaluateCounting(req) ==
    /\ stage = "idle" /\ call' = req
    /\ stage' = (IF kill_switch THEN "done" ELSE "rules")
    /\ outcome' = (IF kill_switch
                   THEN [allowed |-> FALSE, deny_reason |-> "kill switch", rule |-> 0]
                   ELSE NoOutcome)
    /\ UNCHANGED <<source, kill_switch, stamps, now, next_limit, charged, admitted>>

\* The kill switch refuses before any rule is looked at; a dry run skips the
\* limits.
Evaluate(req) ==
    /\ stage = "idle" /\ call' = req
    /\ stage' = (IF kill_switch THEN "done" ELSE "rules")
    /\ outcome' = (IF kill_switch
                   THEN [allowed |-> FALSE, deny_reason |-> "kill switch", rule |-> 0]
                   ELSE NoOutcome)
    /\ next_limit' = IF policy.mode = "dry_run" THEN Len(policy.limits) + 1 ELSE 1
    /\ UNCHANGED <<source, kill_switch, stamps, now, charged, admitted>>

\* Mutant of limit_key: an endpoint limit counts under the global key.
limit_key_global(l, req) ==
    IF l.per # "body_field" THEN <<"global">>
    ELSE IF /\ l.field # NoField
            /\ req.body \notin {NoBody, Garbled}
            /\ req.body[l.field] \in Scalars
    THEN <<"field", l.field, req.body[l.field]>>
    ELSE <<"unknown">>

\* What a limit counts a request under; all body-field limits share one key for
\* the requests that lack their field.
limit_key(l, req) ==
    CASE l.per = "global" -> <<"global">>
      [] l.per = "endpoint" -> <<"endpoint", req.url>>
      [] OTHER -> IF /\ l.field # NoField
                     /\ req.body \notin {NoBody, Garbled}
                     /\ req.body[l.field] \in Scalars
                  THEN <<"field", l.field, req.body[l.field]>>
                  ELSE <<"unknown">>

\* What the limiter finds of a window (RateLimiter): the entries behind those that are
\* older than the cutoff.
Cutoff(ts) == IF ts > Window THEN ts - Window ELSE 0

IsExpiredPrefix(n, q, cutoff) ==
    /\ n \in 0..Len(q)
    /\ \A i \in 1..n : q[i] < cutoff
    /\ n < Len(q) => q[n + 1] >= cutoff

Unexpired(q, cutoff) ==
    LET n == CHOOSE n \in 0..Len(q) : IsExpiredPrefix(n, q, cutoff)
    IN SubSeq(q, n + 1, Len(q))

\* The next limit rule passes: the request is counted at once, whatever the
\* later rules say.
PassLimit ==
    /\ stage = "rules" /\ next_limit <= Len(policy.limits)
    /\ LET l == policy.limits[next_limit]
           key == limit_key(l, call)
           live == Unexpired(stamps[key], Cutoff(now))
       IN /\ Len(live) < l.calls_per_minute
          /\ stamps' = [stamps EXCEPT ![key] = Append(live, now)]
          /\ charged' = charged \cup {key}
    /\ next_limit' = next_limit + 1
    /\ UNCHANGED <<source, kill_switch, now, stage, call, outcome, admitted>>

\* The next limit rule is exceeded.
ExceedLimit ==
    /\ stage = "rules" /\ next_limit <= Len(policy.limits)
    /\ LET l == policy.limits[next_limit]
           key == limit_key(l, call)
           live == Unexpired(stamps[key], Cutoff(now))
       IN /\ Len(live) >= l.calls_per_minute
          /\ stamps' = [stamps EXCEPT ![key] = live]
    /\ stage' = "done"
    /\ outcome' = [allowed |-> FALSE, deny_reason |-> "limit", rule |-> next_limit]
    /\ UNCHANGED <<source, kill_switch, now, call, next_limit, charged, admitted>>

\* History: a call let through is remembered under the keys that counted it.
Remember(allowed) ==
    admitted' = [k \in Keys |->
                    LET live == Unexpired(admitted[k], Cutoff(now))
                    IN IF allowed /\ k \in charged THEN Append(live, now) ELSE live]

Answer(allowed, reason, rule) ==
    /\ stage' = "done"
    /\ outcome' = [allowed |-> allowed, deny_reason |-> reason, rule |-> rule]
    /\ Remember(allowed)
    /\ UNCHANGED <<source, kill_switch, stamps, now, call, next_limit, charged>>

AtRules == stage = "rules" /\ next_limit > Len(policy.limits)

\* The most specific deny that matches decides; a dry run only reports it.
Deny ==
    /\ AtRules
    /\ \E i \in DOMAIN policy.deny :
           /\ Decides(policy.deny, i, call, now, TRUE)
           /\ Answer(policy.mode = "dry_run", "deny", i)

Allow ==
    /\ AtRules /\ ~AnyMatches(policy.deny, call, now, TRUE)
    /\ \E i \in DOMAIN policy.allow :
           /\ Decides(policy.allow, i, call, now, FALSE)
           /\ Answer(TRUE, "none", i)

\* A dry run reports the default's refusal too, and allows.
Default ==
    /\ AtRules
    /\ ~AnyMatches(policy.deny, call, now, TRUE)
    /\ ~AnyMatches(policy.allow, call, now, FALSE)
    /\ LET allows == policy.default = "allow"
       IN Answer(allows \/ policy.mode = "dry_run", IF allows THEN "none" ELSE "default", 0)

\* Mutant of Return: the position among the limits is left behind.
ReturnKeepsPosition ==
    /\ stage = "done"
    /\ stage' = "idle" /\ call' = NoCall /\ outcome' = NoOutcome
    /\ charged' = {}
    /\ UNCHANGED <<source, kill_switch, stamps, now, next_limit, admitted>>

Return ==
    /\ stage = "done"
    /\ stage' = "idle" /\ call' = NoCall /\ outcome' = NoOutcome
    /\ next_limit' = 1 /\ charged' = {}
    /\ UNCHANGED <<source, kill_switch, stamps, now, admitted>>

\* A reload replaces the policy and keeps the windows.
ReloadMerged ==
    /\ stage = "idle"
    /\ \E pair \in Reloads : Put(pair[1], pair[2], merge_policies(pair[1], pair[2]))
    /\ UNCHANGED <<kill_switch, stamps, now, stage, call, next_limit, outcome, charged,
                   admitted>>

SetKillSwitch ==
    /\ stage = "idle" /\ kill_switch' = ~kill_switch
    /\ UNCHANGED <<source, stamps, now, stage, call, next_limit, outcome, charged,
                   admitted>>

Tick ==
    /\ stage = "idle" /\ now < MaxTime /\ now' = now + 1
    /\ UNCHANGED <<source, kill_switch, stamps, stage, call, next_limit, outcome,
                   charged, admitted>>

Next ==
    \/ \E req \in Requests : Evaluate(req)
    \/ PassLimit \/ ExceedLimit \/ Deny \/ Allow \/ Default \/ Return
    \/ ReloadMerged \/ SetKillSwitch \/ Tick

Spec == Init /\ [][Next]_vars

-------------------------------------------------------------------------------
TypeOK ==
    /\ org \in PolicyConfig \cup {NoPolicy}
    /\ agent \in PolicyConfig /\ policy \in PolicyConfig
    /\ kill_switch \in BOOLEAN
    /\ stamps \in [Keys -> Seq(Nat)] /\ admitted \in [Keys -> Seq(Nat)]
    /\ now \in Nat
    /\ stage \in {"idle", "rules", "done"}
    /\ call \in Request \cup {NoCall} /\ (call = NoCall <=> stage = "idle")
    /\ next_limit \in 1 .. Len(policy.limits) + 1
    /\ outcome \in Outcome
    /\ charged \subseteq Keys

\* The policies the one in force was made from.
Sources == {org, agent} \ {NoPolicy}

\* "Org deny rules are unremovable guardrails": whatever the agent's policy
\* allows, a call that a deny rule of either source matches is let through only
\* in a dry run.  A body that cannot be read counts as matching.
GuardrailsHold ==
    stage = "done" /\ outcome.allowed /\ policy.mode = "enforce" =>
        \A p \in Sources : ~AnyMatches(p.deny, call, now, TRUE)

\* What denies, allows and the default make of a request when they are enforced.
Permitted(req) ==
    /\ ~AnyMatches(policy.deny, req, now, TRUE)
    /\ AnyMatches(policy.allow, req, now, FALSE) \/ policy.default = "allow"

\* An agent gains nothing by garbling a body: what is let through with one that
\* cannot be read would be permitted whatever the body said.
GarblingNeverHelps ==
    stage = "done" /\ outcome.allowed /\ policy.mode = "enforce" /\ call.body = Garbled =>
        \A body \in Readable : Permitted([call EXCEPT !.body = body])

\* A dry run answers as its caller is told: it lets every call through, the
\* kill switch aside, reports a reason exactly if the rules would refuse, and
\* counts nothing, so enforcing later starts from what was enforced.
DryRunPredicts ==
    stage = "done" /\ policy.mode = "dry_run" /\ outcome.deny_reason # "kill switch" =>
        /\ outcome.allowed /\ charged = {}
        /\ outcome.deny_reason = "none" <=> Permitted(call)

\* Every limit of either source bounds what is let through in a window, also
\* after a merge that keeps only one limit of a scope, and after a reload.
BudgetHolds ==
    stage = "done" /\ outcome.allowed /\ policy.mode = "enforce" =>
        \A p \in Sources : \A i \in DOMAIN p.limits :
            LET l == p.limits[i]
            IN Len(admitted[limit_key(l, call)]) <= l.calls_per_minute

\* No call of a merged policy is counted twice under one key, which would halve
\* its budget; the key of unknown fields is the exception.
CountedOnce ==
    stage = "rules" /\ org # NoPolicy /\ next_limit <= Len(policy.limits) =>
        limit_key(policy.limits[next_limit], call) \notin charged \ {<<"unknown">>}

\* The limits of a policy, merged or not, count what they should (evaluate_full,
\* merge_policies).
LimitsCount == BudgetHolds /\ CountedOnce

\* time_outside fires exactly outside the range: inside are the minutes that
\* come, counted from its start round the clock, before its end.
HoursRunRoundTheClock ==
    stage = "idle" =>
        \A range \in [start : 0 .. Day - 1, end : 0 .. Day - 1, offset : -1 .. 1] :
            time_outside_matches(range, now) <=>
                (now + range.offset - range.start) % Day
                    >= (range.end - range.start) % Day

\* A rule means what it says whatever the order of the rules, the merge and the time
\* of day: limits count what they should and hours run round the clock
\* (evaluate_full, merge_policies, time_outside_matches).
RulesMeanWhatTheySay == LimitsCount /\ HoursRunRoundTheClock

\* "The more restrictive limit will always apply first" of two limits of one
\* scope, as the warning of analyze_policy promises (shared/src/policy.rs:744-745).
RestrictiveLimitFirst ==
    stage = "done" /\ outcome.deny_reason = "limit" =>
        LET l == policy.limits[outcome.rule]
        IN \A i \in DOMAIN policy.limits :
               /\ policy.limits[i].per = l.per
               /\ policy.limits[i].field = l.field
               => policy.limits[i].calls_per_minute >= l.calls_per_minute
===============================================================================
