------------------------------ MODULE PolicyRules ------------------------------
(***************************************************************************)
(* Policies as data: which requests a rule matches (crates/core/src/       *)
(* policy.rs), and how an organisation's policy and an agent's are merged  *)
(* (crates/shared/src/policy.rs).                                          *)
(*                                                                         *)
(* A URL pattern is the set of URLs it covers, whose matching is Glob's;   *)
(* the operators on a body field or a header, all of which must hold, are  *)
(* the set of values that satisfy them; the rules of a policy are three    *)
(* lists by kind, in the order the policy gives, since their relative      *)
(* order across kinds never counts.                                        *)
(***************************************************************************)
EXTENDS Integers, SequencesExt

CONSTANTS Methods, Urls, Fields, HeaderNames,
          Values,    \* values of body fields and headers
          Scalars,   \* those a rate limit can count under
          Patterns,  \* URL patterns
          NoPattern, \* no url in the matcher
          Covers,    \* Covers[pat]: the URLs a pattern matches
          Specificity, \* Specificity[pat]: its number of literal segments
          Absent,    \* the value of a field or header that is not there
          NoBody,    \* a request without a body
          Garbled,   \* a body that is empty or not JSON
          NoField,   \* a limit without a field
          FieldOrder, \* the fields as their names are sorted
          Always,    \* a rule without time_outside
          Day        \* minutes in a day

ASSUME RulesAssumption ==
    /\ Day \in Nat \ {0}
    /\ Absent \notin Values /\ Scalars \subseteq Values
    /\ NoPattern \notin Patterns /\ Covers \in [Patterns -> SUBSET Urls]
    /\ Specificity \in [Patterns -> Nat]
    /\ FieldOrder \in Seq(Fields)
    /\ \A field \in Fields : \E k \in DOMAIN FieldOrder : FieldOrder[k] = field
    /\ \A k, j \in DOMAIN FieldOrder : FieldOrder[k] = FieldOrder[j] => k = j
    /\ NoField \notin Fields
    /\ NoBody # Garbled
    /\ NoBody \notin [Fields -> Values \cup {Absent}]
    /\ Garbled \notin [Fields -> Values \cup {Absent}]

Readable == [Fields -> Values \cup {Absent}]

Request == [method : Methods, url : Urls, body : Readable \cup {NoBody, Garbled},
            headers : [HeaderNames -> Values \cup {Absent}]]

\* A range of minutes of the day, at an offset from UTC.
Range24 == [start : 0 .. Day - 1, end : 0 .. Day - 1, offset : Int]

Matcher == [method : SUBSET Methods,   \* empty for any
            url : Patterns \cup {NoPattern},
            body : SUBSET [field : Fields, values : SUBSET Values],
            headers : SUBSET [name : HeaderNames, present : {"unset", "yes", "no"},
                              values : SUBSET Values],
            time_outside : Range24 \cup {Always}]

Rule == [matcher : Matcher, source : {"none", "org", "agent"}]

Limit == [per : {"global", "endpoint", "body_field"}, field : Fields \cup {NoField},
          calls_per_minute : Nat, source : {"none", "org", "agent"}]

PolicyConfig == [default : {"allow", "deny"}, mode : {"enforce", "dry_run"},
                 deny : Seq(Rule), allow : Seq(Rule), limits : Seq(Limit)]

-------------------------------------------------------------------------------
(***************************************************************************)
(* Matching                                                                *)
(***************************************************************************)
\* Mutant of body_matches: what cannot be read matches nothing.
body_matches_open(m, body, fail_closed) ==
    body \notin {NoBody, Garbled} /\ body[m.field] \in m.values

\* A body that cannot be read matches where that is the safe side.
body_matches(m, body, fail_closed) ==
    \/ body = Garbled /\ fail_closed
    \/ body \notin {NoBody, Garbled} /\ body[m.field] \in m.values

header_matches(m, headers) ==
    IF headers[m.name] = Absent THEN m.present = "no"
    ELSE m.present # "no" /\ headers[m.name] \in m.values

\* Mutant of time_outside_matches: a range that crosses midnight is taken for
\* one that does not.
time_outside_naive(range, at) ==
    LET minute == (at + range.offset) % Day
    IN ~ (range.start <= minute /\ minute < range.end)

\* The rule fires outside its range, which may cross midnight.
time_outside_matches(range, at) ==
    LET minute == (at + range.offset) % Day
    IN ~ IF range.start <= range.end
         THEN range.start <= minute /\ minute < range.end
         ELSE range.start <= minute \/ minute < range.end

request_matches(m, req, at, fail_closed) ==
    /\ m.method # {} => req.method \in m.method
    /\ m.url # NoPattern => req.url \in Covers[m.url]
    /\ \A b \in m.body : body_matches(b, req.body, fail_closed)
    /\ \A h \in m.headers : header_matches(h, req.headers)
    /\ m.time_outside # Always => time_outside_matches(m.time_outside, at)

specificity(m) == IF m.url = NoPattern THEN 0 ELSE Specificity[m.url]

\* The rules are sorted by specificity, those of the same in the given order:
\* j comes before i.
Before(rules, j, i) ==
    LET sj == specificity(rules[j].matcher)
        si == specificity(rules[i].matcher)
    IN sj > si \/ (sj = si /\ j < i)

\* The rule that decides is the first that matches, if any does.
Decides(rules, i, req, at, fail_closed) ==
    /\ request_matches(rules[i].matcher, req, at, fail_closed)
    /\ \A j \in DOMAIN rules :
           request_matches(rules[j].matcher, req, at, fail_closed) => ~Before(rules, j, i)

AnyMatches(rules, req, at, fail_closed) ==
    \E i \in DOMAIN rules : request_matches(rules[i].matcher, req, at, fail_closed)

-------------------------------------------------------------------------------
(***************************************************************************)
(* Merging                                                                 *)
(***************************************************************************)
Marked(rules, source) == [i \in DOMAIN rules |-> [rules[i] EXCEPT !.source = source]]

scope_key(l) == IF l.per = "body_field" THEN <<"field", l.field>> ELSE <<l.per>>

\* Mutant of Strictest: of two limits of a scope the looser is kept.
Loosest(limits, i) ==
    \A j \in DOMAIN limits :
        scope_key(limits[j]) = scope_key(limits[i]) =>
            \/ limits[j].calls_per_minute < limits[i].calls_per_minute
            \/ limits[j].calls_per_minute = limits[i].calls_per_minute /\ j <= i

\* Of the limits of one scope the strictest is kept, of equal ones the last.
Strictest(limits, i) ==
    \A j \in DOMAIN limits :
        scope_key(limits[j]) = scope_key(limits[i]) =>
            \/ limits[j].calls_per_minute > limits[i].calls_per_minute
            \/ limits[j].calls_per_minute = limits[i].calls_per_minute /\ j <= i

\* The keys of rate_limit_map, a BTreeMap, in their order: __endpoint__, __global__,
\* then the fields after bf:, where no field is the empty name.
ScopeKeys == <<<<"endpoint">>, <<"global">>, <<"field", NoField>>>>
                 \o [k \in DOMAIN FieldOrder |-> <<"field", FieldOrder[k]>>]

\* What the map holds for a key: one limit, or none.
Entry(limits, key) ==
    {limits[i] : i \in {j \in DOMAIN limits : scope_key(limits[j]) = key /\ Strictest(limits, j)}}

Pushed(rules, entry) ==
    IF entry = {} THEN rules ELSE Append(rules, CHOOSE l \in entry : TRUE)

Present(entries) == FoldLeft(Pushed, <<>>, entries)

StrictestLimits(limits) == Present([k \in DOMAIN ScopeKeys |-> Entry(limits, ScopeKeys[k])])

\* Mutant of merge_policies: the agent's denies replace the organisation's, as
\* its allows do.
merge_policies_replacing(org, agent) ==
    [default |-> agent.default,
     mode    |-> agent.mode,
     deny    |-> IF agent.deny # <<>> THEN Marked(agent.deny, "agent")
                 ELSE Marked(org.deny, "org"),
     allow   |-> IF agent.allow # <<>> THEN Marked(agent.allow, "agent")
                 ELSE Marked(org.allow, "org"),
     limits  |-> StrictestLimits(Marked(org.limits, "org")
                                 \o Marked(agent.limits, "agent"))]

\* Denies are united, the agent's allows replace the organisation's if there
\* are any, default and mode are the agent's.
merge_policies(org, agent) ==
    [default |-> agent.default,
     mode    |-> agent.mode,
     deny    |-> Marked(org.deny, "org") \o Marked(agent.deny, "agent"),
     allow   |-> IF agent.allow # <<>> THEN Marked(agent.allow, "agent")
                 ELSE Marked(org.allow, "org"),
     limits  |-> StrictestLimits(Marked(org.limits, "org")
                                 \o Marked(agent.limits, "agent"))]
===============================================================================
