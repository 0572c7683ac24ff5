----------------------------- MODULE PolicyAnalysis -----------------------------
(***************************************************************************)
(* What the author of a policy is told about it before it is published     *)
(* (crates/shared/src/policy.rs): analyze_policy, which compares its rules *)
(* pair by pair, and diff_policies, which compares it with the one before. *)
(*                                                                         *)
(* Here a rule has its name and its place among the rules of every kind;   *)
(* Config forgets both.  A warning knows its rules by their places, and    *)
(* its wording is left out.                                                *)
(***************************************************************************)
EXTENDS PolicyRules

CONSTANTS Star,       \* the pattern "*"
          Drafts,     \* pairs of policies: the one before, and the draft
          Requests, MaxTime

NamedRule(r) == \/ r.kind \in {"deny", "allow"} /\ r.body \in Matcher
                \/ r.kind = "limit" /\ r.body \in Limit

DraftsAssumption ==
    \A pair \in Drafts : \A d \in {pair[1], pair[2]} :
        /\ Len(d.rules) \in Nat /\ DOMAIN d.rules = 1 .. Len(d.rules)
        /\ \A i \in DOMAIN d.rules : NamedRule(d.rules[i])

VARIABLES draft, before, asked, warnings, changes
draftVars == <<draft, before, asked, warnings, changes>>

\* The places of the rules of a kind, in their order.
Places(d, kind) == {i \in DOMAIN d.rules : d.rules[i].kind = kind}

\* The rank of the rule at place i among those of its kind.
Rank(d, i) == Cardinality({j \in Places(d, d.rules[i].kind) : j <= i})

Listed(d, kind) ==
    [k \in 1 .. Cardinality(Places(d, kind)) |->
        d.rules[CHOOSE i \in Places(d, kind) : Rank(d, i) = k].body]

Unsourced(ms) == [k \in DOMAIN ms |-> [matcher |-> ms[k], source |-> "none"]]

Config(d) == [default |-> d.default, mode |-> d.mode,
              deny |-> Unsourced(Listed(d, "deny")),
              allow |-> Unsourced(Listed(d, "allow")),
              limits |-> Listed(d, "limit")]

-------------------------------------------------------------------------------
(***************************************************************************)
(* Analysis                                                                *)
(***************************************************************************)
\* Mutant of matchers_overlap: no method is taken for none instead of any.
matchers_overlap_empty(m, n) == m.method \cap n.method # {}

\* URL patterns are always taken to overlap.
matchers_overlap(m, n) ==
    m.method = {} \/ n.method = {} \/ m.method \cap n.method # {}

\* Mutant of matchers_equivalent: rules that tell requests apart by headers only.
matchers_equivalent_headers(m, n) ==
    m.method = n.method /\ m.url = n.url /\ m.body = n.body

\* The times of day are not compared.
matchers_equivalent(m, n) ==
    m.method = n.method /\ m.url = n.url /\ m.body = n.body /\ m.headers = n.headers

Warning(kind, rule, related) == [kind |-> kind, rule |-> rule, related |-> related]

Contradictory(d) ==
    {Warning("contradictory_rules", pair[2], pair[1]) :
        pair \in {p \in Places(d, "deny") \X Places(d, "allow") :
                     matchers_overlap(d.rules[p[1]].body, d.rules[p[2]].body)}}

InOrder(d, kind) == {p \in Places(d, kind) \X Places(d, kind) : p[1] < p[2]}

Redundant(d) ==
    {Warning("redundant_rule", pair[2], pair[1]) :
        pair \in {p \in InOrder(d, "deny") \cup InOrder(d, "allow") :
                     matchers_equivalent(d.rules[p[1]].body, d.rules[p[2]].body)}}

Unreachable(d) ==
    IF d.default = "deny" /\ Places(d, "allow") = {} /\ Places(d, "deny") # {}
    THEN {Warning("unreachable_config", 0, 0)} ELSE {}

Broad(d) ==
    {Warning("overly_broad_allow", i, 0) :
        i \in {i \in Places(d, "allow") : /\ d.rules[i].body.method = {}
                                          /\ d.rules[i].body.url = Star}}

\* Mutant of LessRestrictive: of equal limits the later one.
LessRestrictiveLater(d, i, j) ==
    IF d.rules[i].body.calls_per_minute > d.rules[j].body.calls_per_minute THEN i ELSE j

\* Of equal limits the earlier one.
LessRestrictive(d, i, j) ==
    IF d.rules[i].body.calls_per_minute >= d.rules[j].body.calls_per_minute THEN i ELSE j

RedundantLimits(d) ==
    {LET less == LessRestrictive(d, pair[1], pair[2])
     IN  Warning("redundant_rate_limit", less, IF less = pair[1] THEN pair[2] ELSE pair[1]) :
        pair \in {p \in InOrder(d, "limit") :
                     /\ d.rules[p[1]].body.per = d.rules[p[2]].body.per
                     /\ d.rules[p[1]].body.field = d.rules[p[2]].body.field}}

analyze_policy(d) ==
    Contradictory(d) \cup Redundant(d) \cup Unreachable(d) \cup Broad(d) \cup RedundantLimits(d)

-------------------------------------------------------------------------------
(***************************************************************************)
(* Difference                                                              *)
(***************************************************************************)
RuleNames(d) == {d.rules[i].name : i \in DOMAIN d.rules}

\* Of rules with the same name the last counts.
Indexed(d) ==
    [n \in RuleNames(d) |->
        LET last == CHOOSE i \in DOMAIN d.rules :
                        /\ d.rules[i].name = n
                        /\ \A j \in DOMAIN d.rules : d.rules[j].name = n => j <= i
        IN d.rules[last]]

\* Mutant of Updated: only the bodies are compared, not the kinds.
UpdatedBodies(old, new) ==
    {n \in DOMAIN old \cap DOMAIN new : old[n].body # new[n].body}

Updated(old, new) == {n \in DOMAIN old \cap DOMAIN new : old[n] # new[n]}

diff_policies(b, a) ==
    LET old == Indexed(b)
        new == Indexed(a)
    IN [default_action |-> IF b.default = a.default THEN "no_op" ELSE "update",
        mode |-> IF b.mode = a.mode THEN "no_op" ELSE "update",
        updated |-> Updated(old, new),
        deleted |-> DOMAIN old \ DOMAIN new,
        created |-> DOMAIN new \ DOMAIN old]

-------------------------------------------------------------------------------
NoChanges == [default_action |-> "no_op", mode |-> "no_op",
              updated |-> {}, deleted |-> {}, created |-> {}]

AnalysisInit ==
    /\ \E pair \in Drafts : before = pair[1] /\ draft = pair[2]
    /\ asked = "nothing" /\ warnings = {} /\ changes = NoChanges

Analyze ==
    /\ asked = "nothing" /\ asked' = "analysis"
    /\ warnings' = analyze_policy(draft)
    /\ UNCHANGED <<draft, before, changes>>

Diff ==
    /\ asked = "nothing" /\ asked' = "diff"
    /\ changes' = diff_policies(before, draft)
    /\ UNCHANGED <<draft, before, warnings>>

AnalysisNext == Analyze \/ Diff

Warned(kind, i, j) == Warning(kind, i, j) \in warnings

AnalysisTypeOK ==
    /\ asked \in {"nothing", "analysis", "diff"}
    /\ \A w \in warnings : w.rule \in {0} \cup DOMAIN draft.rules
                           /\ w.related \in {0} \cup DOMAIN draft.rules
    /\ changes.deleted \subseteq RuleNames(before) /\ changes.created \subseteq RuleNames(draft)

-------------------------------------------------------------------------------
Situations == Requests \X (0..MaxTime)

FailClosed(kind) == kind = "deny"

Matches(i, s) == request_matches(draft.rules[i].body, s[1], s[2], FailClosed(draft.rules[i].kind))

\* No request is matched by a deny and an allow of which the author is not warned.
ContradictionsFound ==
    \A i \in Places(draft, "deny"), j \in Places(draft, "allow") :
        Warned("contradictory_rules", j, i) \/ ~\E s \in Situations : Matches(i, s) /\ Matches(j, s)

\* A rule called redundant never decides, unless its hours differ.
RedundantNeverDecides ==
    \A w \in warnings :
        /\ w.kind = "redundant_rule"
        /\ draft.rules[w.rule].body.time_outside = draft.rules[w.related].body.time_outside
        => LET kind == draft.rules[w.rule].kind
               list == IF kind = "deny" THEN Config(draft).deny ELSE Config(draft).allow
           IN \A s \in Situations : ~Decides(list, Rank(draft, w.rule), s[1], s[2], FailClosed(kind))

\* Nothing is permitted under a configuration called unreachable.
UnreachableDenies ==
    Warned("unreachable_config", 0, 0) =>
        \A s \in Situations : ~AnyMatches(Config(draft).allow, s[1], s[2], FALSE)

\* A field is given to the limits that need one.
FieldsBelong(d) ==
    \A i \in Places(d, "limit") :
        d.rules[i].body.field # NoField => d.rules[i].body.per = "body_field"

\* The limits warned of are some that merge_policies would drop, and all of them
\* unless a limit has a field that it makes no use of, which the merge overlooks and
\* the analysis does not.
WarnedAsMerged ==
    \A i \in Places(draft, "limit") :
        LET warned == \E w \in warnings : w.kind = "redundant_rate_limit" /\ w.rule = i
            dropped == ~Strictest(Config(draft).limits, Rank(draft, i))
        IN (warned => dropped) /\ (dropped /\ FieldsBelong(draft) => warned)

\* An analysis says the truth about the draft: of what it does not warn nothing need
\* be feared, what it calls redundant has no effect, and it agrees with the merge on
\* which limit of a scope counts (analyze_policy, merge_policies).
AnalysisTrue ==
    asked = "analysis" =>
        /\ ContradictionsFound /\ RedundantNeverDecides
        /\ UnreachableDenies /\ WarnedAsMerged

Distinct(d) == \A i, j \in DOMAIN d.rules : d.rules[i].name = d.rules[j].name => i = j

\* A difference without a change means that every request is judged as before, the
\* limits aside, whose order counts, if no two rules have one name (diff_policies).
DiffTrue ==
    asked = "diff" /\ changes = NoChanges /\ Distinct(before) /\ Distinct(draft) =>
        \A s \in Situations :
            /\ draft.default = before.default /\ draft.mode = before.mode
            /\ \A kind \in {"deny", "allow"} :
                  (\E i \in Places(draft, kind) : Matches(i, s))
                    <=> \E i \in Places(before, kind) :
                            request_matches(before.rules[i].body, s[1], s[2], FailClosed(kind))
===============================================================================
