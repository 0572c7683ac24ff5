-------------------------- MODULE PolicyAndFilesProofs --------------------------
(***************************************************************************)
(* Proofs about the policy engine, for any policies and requests, about    *)
(* the analysis and the diff of any drafts, about the JavaScript file      *)
(* watcher, and about the two files that processes share, for any number   *)
(* of processes, versions and faults.                                      *)
(*                                                                         *)
(* The engine's first invariant says where the policy in force comes from, *)
(* that a dry run has no limits ahead, and what each kind of answer        *)
(* implies: Decided relates the outcome of the stages to Permitted, which  *)
(* only speaks of the rules.  Its second, CountsInv, follows a call        *)
(* through its limits: what was let through was counted and counts as      *)
(* long, the limits that a call has passed are those that charged it, and  *)
(* each of them has room for it.                                           *)
(*                                                                         *)
(* The author's invariant is that what was answered is what the operators  *)
(* say of the draft; the work is in the lemmas about those.  The watcher's *)
(* bounds what a poll may carry over an await.  The state file's follows a *)
(* save through its steps: what is about to replace the file is not older  *)
(* than the writer's last save, and only a short write makes it less than  *)
(* whole.  The key file's ties each temporary file to the faults there     *)
(* were, and each reader to a file that is there.                          *)
(***************************************************************************)
EXTENDS MCPolicyAndFiles, SequenceTheorems, FiniteSetTheorems, FunctionTheorems, TLAPS

\* The laws of the fold that makes the limits of a merge.
Pushing == INSTANCE FoldLaws WITH Op <- Pushed

\* The policy in force comes from its sources.
Made ==
    /\ policy \in PolicyConfig /\ agent \in PolicyConfig
    /\ \/ org = NoPolicy /\ policy = agent
       \/ org \in PolicyConfig /\ policy = merge_policies(org, agent)

\* A call that is evaluated is a request.
Called == stage \in {"rules", "done"} => call \in Request

\* A dry run has passed its limits and counts nothing.
DryRunSkips ==
    /\ stage = "idle" \/ policy.mode = "dry_run" => charged = {}
    /\ stage = "rules" /\ policy.mode = "dry_run" => next_limit = Len(policy.limits) + 1

\* What each kind of answer says of the rules.
Decided ==
    stage = "done" =>
        \/ outcome.deny_reason = "kill switch" /\ ~outcome.allowed
        \/ outcome.deny_reason = "limit" /\ ~outcome.allowed /\ policy.mode = "enforce"
        \/ outcome.deny_reason = "none" /\ outcome.allowed /\ Permitted(call)
        \/ /\ outcome.deny_reason \in {"deny", "default"} /\ ~Permitted(call)
           /\ outcome.allowed <=> policy.mode = "dry_run"

\* The invariant of the engine.
EngineInv == Made /\ Called /\ DryRunSkips /\ Decided

\* Marking a rule's source changes nothing it matches.
LEMMA MarkedMatches ==
    ASSUME NEW rules \in Seq(Rule), NEW mark \in {"org", "agent"}
    PROVE  /\ DOMAIN Marked(rules, mark) = DOMAIN rules
           /\ Marked(rules, mark) \in Seq(Rule)
           /\ \A i \in DOMAIN rules : Marked(rules, mark)[i].matcher = rules[i].matcher
<1> DEFINE n == Len(rules)
           marked == [i \in 1 .. n |-> [rules[i] EXCEPT !.source = mark]]
<1>1. n \in Nat /\ DOMAIN rules = 1 .. n /\ Marked(rules, mark) = marked
  BY DEF Marked
<1>2. ASSUME NEW i \in 1 .. n
      PROVE  marked[i] \in Rule /\ marked[i].matcher = rules[i].matcher
  <2>1. rules[i] \in Rule
    BY <1>1
  <2>2. QED
    BY <2>1 DEF Rule
<1> HIDE DEF n
<1>3. marked \in [1 .. n -> Rule]
  BY <1>2
<1>4. marked \in Seq(Rule)
  <2> HIDE DEF marked
  <2>1. QED
    BY <1>1, <1>3
<1>5. QED
  BY <1>1, <1>2, <1>4

\* The denies of both sources are denies of their merge.
LEMMA MergeKeepsDenies ==
    ASSUME NEW o \in PolicyConfig, NEW a \in PolicyConfig, NEW p \in {o, a},
           NEW req, NEW moment, NEW fail_closed,
           AnyMatches(p.deny, req, moment, fail_closed)
    PROVE  AnyMatches(merge_policies(o, a).deny, req, moment, fail_closed)
<1> DEFINE mo == Marked(o.deny, "org")
           ma == Marked(a.deny, "agent")
<1>1. o.deny \in Seq(Rule) /\ a.deny \in Seq(Rule)
  BY DEF PolicyConfig
<1>2. /\ DOMAIN mo = DOMAIN o.deny /\ DOMAIN ma = DOMAIN a.deny
      /\ mo \in Seq(Rule) /\ ma \in Seq(Rule)
      /\ \A i \in DOMAIN o.deny : mo[i].matcher = o.deny[i].matcher
      /\ \A i \in DOMAIN a.deny : ma[i].matcher = a.deny[i].matcher
  BY <1>1, MarkedMatches
<1>3. merge_policies(o, a).deny = mo \o ma
  BY DEF merge_policies
<1>4. PICK i \in DOMAIN p.deny : request_matches(p.deny[i].matcher, req, moment, fail_closed)
  BY DEF AnyMatches
<1> HIDE DEF mo, ma
<1>5. CASE p = o
  <2>1. i \in DOMAIN (mo \o ma) /\ (mo \o ma)[i] = mo[i]
    BY <1>1, <1>2, <1>4, <1>5
  <2>2. QED
    BY <1>2, <1>3, <1>4, <1>5, <2>1 DEF AnyMatches
<1>6. CASE p = a
  <2>1. /\ Len(mo) + i \in DOMAIN (mo \o ma)
        /\ (mo \o ma)[Len(mo) + i] = ma[i]
    BY <1>1, <1>2, <1>4, <1>6
  <2>2. QED
    BY <1>2, <1>3, <1>4, <1>6, <2>1 DEF AnyMatches
<1>7. QED
  BY <1>5, <1>6

\* Where a matcher fails closed, a garbled body matches whatever a readable one
\* does; where it fails open, it matches no more.
LEMMA GarblingOrdered ==
    ASSUME NEW m \in Matcher, NEW req \in Request, req.body = Garbled,
           NEW body \in Readable, NEW moment
    PROVE  LET readable == [req EXCEPT !.body = body]
           IN /\ request_matches(m, readable, moment, TRUE) => request_matches(m, req, moment, TRUE)
              /\ request_matches(m, req, moment, FALSE)
                    => request_matches(m, readable, moment, FALSE)
<1> DEFINE readable == [req EXCEPT !.body = body]
<1>1. /\ readable.body = body /\ readable.method = req.method
      /\ readable.url = req.url /\ readable.headers = req.headers
  BY DEF Request
<1>2. \A b : body_matches(b, Garbled, TRUE) /\ ~body_matches(b, Garbled, FALSE)
  BY DEF body_matches
<1> HIDE DEF readable
<1>3. QED
  <2>1. request_matches(m, readable, moment, TRUE) => request_matches(m, req, moment, TRUE)
    BY <1>1, <1>2 DEF request_matches
  <2>2. request_matches(m, req, moment, FALSE) => request_matches(m, readable, moment, FALSE)
    BY <1>1, <1>2 DEF request_matches
  <2>3. QED
    BY <2>1, <2>2 DEF readable

-------------------------------------------------------------------------------
(***************************************************************************)
(* Merging                                                                 *)
(***************************************************************************)
\* The fold of the laws pushes.
LEMMA PushesIs == \A es : Pushing!Fold(<<>>, es) = Present(es)
  BY Zenon DEF Pushing!Max, Max, Pushing!Fold, Pushing!FoldLeft, Pushing!MapThenFoldSet,
               Present, FoldLeft, MapThenFoldSet

\* Of no entries nothing is pushed.
LEMMA PushesNone == Present(<<>>) = <<>>
  BY PushesIs, Pushing!FoldNone

\* One entry more.
LEMMA PushesOn ==
    ASSUME NEW S, NEW es \in Seq(S), NEW e \in S
    PROVE  Present(Append(es, e)) = Pushed(Present(es), e)
  BY PushesIs, Pushing!FoldOn

\* Rules that are one of each entry that is not empty.
Picks(rules, es, f) ==
    /\ f \in [DOMAIN rules -> DOMAIN es]
    /\ \A i \in DOMAIN rules : rules[i] \in es[f[i]]
    /\ \A i, j \in DOMAIN rules : f[i] = f[j] => i = j
    /\ \A k \in DOMAIN es : es[k] # {} => \E i \in DOMAIN rules : f[i] = k

\* Pushing takes one of each entry that is not empty.
LEMMA PushingPicks ==
    ASSUME NEW L, NEW rules \in Seq(L), NEW es \in Seq(SUBSET L), NEW e \in SUBSET L,
           NEW f, Picks(rules, es, f)
    PROVE  Pushed(rules, e) \in Seq(L) /\ \E g : Picks(Pushed(rules, e), Append(es, e), g)
<1>1. PICK n \in Nat : n = Len(rules)
  OBVIOUS
<1>2. PICK m \in Nat : m = Len(es)
  OBVIOUS
<1> DEFINE more == Append(es, e)
<1>3. /\ DOMAIN rules = 1 .. n /\ DOMAIN es = 1 .. m /\ DOMAIN more = 1 .. m + 1
      /\ more[m + 1] = e /\ \A k \in 1 .. m : more[k] = es[k]
  BY <1>1, <1>2
<1>4. /\ f \in [1 .. n -> 1 .. m]
      /\ \A i \in 1 .. n : rules[i] \in es[f[i]]
      /\ \A i, j \in 1 .. n : f[i] = f[j] => i = j
      /\ \A k \in 1 .. m : es[k] # {} => \E i \in 1 .. n : f[i] = k
  BY <1>3 DEF Picks
<1> HIDE DEF more
<1>5. CASE e = {}
  <2>1. Pushed(rules, e) = rules
    BY <1>5 DEF Pushed
  <2>2. f \in [1 .. n -> 1 .. m + 1]
    BY <1>4
  <2>3. \A i \in 1 .. n : rules[i] \in more[f[i]]
    <3>1. \A i \in 1 .. n : f[i] \in 1 .. m
      BY <1>4
    <3>2. QED
      BY <1>3, <1>4, <3>1
  <2>4. ASSUME NEW k \in 1 .. m + 1, more[k] # {}
        PROVE  \E i \in 1 .. n : f[i] = k
    <3>1. k \in 1 .. m /\ es[k] # {}
      BY <1>3, <1>5, <2>4
    <3>2. QED
      BY <1>4, <3>1
  <2>5. Picks(rules, more, f)
    BY <1>3, <1>4, <2>2, <2>3, <2>4 DEF Picks
  <2>6. QED
    BY <2>1, <2>5 DEF more
<1>6. CASE e # {}
  <2>1. PICK l \in e : l = (CHOOSE x \in e : TRUE)
    BY <1>6
  <2> DEFINE longer == Append(rules, l)
             g == [i \in 1 .. n + 1 |-> IF i = n + 1 THEN m + 1 ELSE f[i]]
  <2>2. Pushed(rules, e) = longer
    BY <1>6, <2>1 DEF Pushed
  <2>3. /\ longer \in Seq(L) /\ DOMAIN longer = 1 .. n + 1 /\ longer[n + 1] = l
        /\ \A i \in 1 .. n : longer[i] = rules[i]
    BY <1>1, <2>1
  <2>4. g \in [1 .. n + 1 -> 1 .. m + 1] /\ g[n + 1] = m + 1 /\ \A i \in 1 .. n : g[i] = f[i]
    BY <1>4
  <2> HIDE DEF longer, g
  <2>5. \A i \in 1 .. n + 1 : i \in 1 .. n \/ i = n + 1
    OBVIOUS
  <2>6. \A i \in 1 .. n + 1 : longer[i] \in more[g[i]]
    <3>1. ASSUME NEW i \in 1 .. n PROVE longer[i] \in more[g[i]]
      <4>1. f[i] \in 1 .. m /\ rules[i] \in es[f[i]]
        BY <1>4
      <4>2. longer[i] = rules[i] /\ g[i] = f[i] /\ more[f[i]] = es[f[i]]
        BY <1>3, <2>3, <2>4, <4>1
      <4>3. QED
        BY <4>1, <4>2
    <3>2. longer[n + 1] \in more[g[n + 1]]
      BY <1>3, <2>1, <2>3, <2>4
    <3>3. QED
      BY <2>5, <3>1, <3>2
  <2>7. \A i, j \in 1 .. n + 1 : g[i] = g[j] => i = j
    <3>1. \A i \in 1 .. n : g[i] # m + 1
      BY <1>4, <2>4
    <3>2. QED
      BY <1>4, <2>4, <2>5, <3>1
  <2>8. ASSUME NEW k \in 1 .. m + 1, more[k] # {}
        PROVE  \E i \in 1 .. n + 1 : g[i] = k
    <3>1. CASE k = m + 1
      BY <2>4, <3>1
    <3>2. CASE k # m + 1
      <4>1. k \in 1 .. m /\ es[k] # {}
        BY <1>3, <2>8, <3>2
      <4>2. PICK i \in 1 .. n : f[i] = k
        BY <1>4, <4>1
      <4>3. QED
        BY <2>4, <4>2
    <3>3. QED
      BY <3>1, <3>2
  <2>9. Picks(longer, more, g)
    BY <1>3, <2>3, <2>4, <2>6, <2>7, <2>8 DEF Picks
  <2>10. QED
    BY <2>2, <2>3, <2>9 DEF more
<1>7. QED
  BY <1>5, <1>6

\* What is pushed of entries is one of each that is not empty.
LEMMA PushedPicks ==
    ASSUME NEW L
    PROVE  \A es \in Seq(SUBSET L) :
               /\ Present(es) \in Seq(L)
               /\ \E f : Picks(Present(es), es, f)
<1> DEFINE Well == {es \in Seq(SUBSET L) : Present(es) \in Seq(L) /\ \E f : Picks(Present(es), es, f)}
<1>1. <<>> \in Well
  <2>1. <<>> \in Seq(SUBSET L) /\ Present(<<>>) = <<>> /\ <<>> \in Seq(L) /\ DOMAIN <<>> = {}
    BY PushesNone
  <2>2. Picks(<<>>, <<>>, [i \in {} |-> i])
    BY <2>1 DEF Picks
  <2>3. QED
    BY <2>1, <2>2
<1>2. ASSUME NEW es \in Seq(SUBSET L), es \in Well, NEW e \in SUBSET L
      PROVE  Append(es, e) \in Well
  <2>1. PICK f : Picks(Present(es), es, f)
    BY <1>2
  <2>2. Present(es) \in Seq(L) /\ Present(Append(es, e)) = Pushed(Present(es), e)
    BY <1>2, PushesOn
  <2>3. Pushed(Present(es), e) \in Seq(L) /\ \E g : Picks(Pushed(Present(es), e), Append(es, e), g)
    BY <2>1, <2>2, PushingPicks
  <2>4. QED
    BY <2>2, <2>3
<1> HIDE DEF Well
<1>3. \A es \in Seq(SUBSET L) : es \in Well
  BY <1>1, <1>2, Pushing!EverySequence
<1>4. QED
  BY <1>3 DEF Well

\* Marking a limit's source changes nothing that it counts.
LEMMA MarkedCounts ==
    ASSUME NEW limits \in Seq(Limit), NEW mark \in {"org", "agent"}
    PROVE  /\ DOMAIN Marked(limits, mark) = DOMAIN limits
           /\ Marked(limits, mark) \in Seq(Limit)
           /\ \A i \in DOMAIN limits :
                 /\ scope_key(Marked(limits, mark)[i]) = scope_key(limits[i])
                 /\ Marked(limits, mark)[i].calls_per_minute = limits[i].calls_per_minute
<1>1. PICK n \in Nat : n = Len(limits)
  OBVIOUS
<1> DEFINE marked == [i \in 1 .. n |-> [limits[i] EXCEPT !.source = mark]]
<1>2. DOMAIN limits = 1 .. n /\ Marked(limits, mark) = marked
  BY <1>1 DEF Marked
<1>3. ASSUME NEW i \in 1 .. n
      PROVE  /\ marked[i] \in Limit /\ scope_key(marked[i]) = scope_key(limits[i])
             /\ marked[i].calls_per_minute = limits[i].calls_per_minute
  <2>1. limits[i] \in Limit
    BY <1>2
  <2>2. /\ marked[i] \in Limit /\ marked[i].per = limits[i].per /\ marked[i].field = limits[i].field
        /\ marked[i].calls_per_minute = limits[i].calls_per_minute
    BY <2>1 DEF Limit
  <2> HIDE DEF marked
  <2>3. scope_key(marked[i]) = scope_key(limits[i])
    BY <2>2, Zenon DEF scope_key
  <2>4. QED
    BY <2>2, <2>3
<1>4. DOMAIN marked = 1 .. n /\ marked \in Seq(Limit)
  <2>1. marked \in [1 .. n -> Limit]
    BY <1>3
  <2> HIDE DEF marked
  <2>2. QED
    BY <2>1
<1> HIDE DEF marked
<1>5. QED
  BY <1>2, <1>3, <1>4

\* Every limit has a key, and the map's keys differ.
LEMMA ScopesOrdered ==
    /\ \E n \in Nat : DOMAIN ScopeKeys = 1 .. n
    /\ \A k, j \in DOMAIN ScopeKeys : ScopeKeys[k] = ScopeKeys[j] => k = j
    /\ \A l \in Limit : \E k \in DOMAIN ScopeKeys : ScopeKeys[k] = scope_key(l)
<1>1. PICK n \in Nat : n = Len(FieldOrder)
  BY RulesAssumption
<1>2. /\ DOMAIN FieldOrder = 1 .. n /\ \A k \in 1 .. n : FieldOrder[k] \in Fields
      /\ \A k, j \in 1 .. n : FieldOrder[k] = FieldOrder[j] => k = j
      /\ \A field \in Fields : \E k \in 1 .. n : FieldOrder[k] = field
      /\ NoField \notin Fields
  BY <1>1, RulesAssumption
<1> DEFINE fields == [k \in 1 .. n |-> <<"field", FieldOrder[k]>>]
           three == <<<<"endpoint">>, <<"global">>, <<"field", NoField>>>>
<1>3. ScopeKeys = three \o fields
  BY <1>2 DEF ScopeKeys
<1>4. /\ DOMAIN ScopeKeys = 1 .. n + 3
      /\ ScopeKeys[1] = <<"endpoint">> /\ ScopeKeys[2] = <<"global">>
      /\ ScopeKeys[3] = <<"field", NoField>>
      /\ \A k \in 1 .. n : ScopeKeys[k + 3] = <<"field", FieldOrder[k]>>
  <2>1. /\ Len(three) = 3 /\ Len(fields) = n
        /\ three[1] = <<"endpoint">> /\ three[2] = <<"global">> /\ three[3] = <<"field", NoField>>
    OBVIOUS
  <2>2. /\ DOMAIN (three \o fields) = 1 .. n + 3
        /\ \A i \in 1 .. 3 : (three \o fields)[i] = three[i]
        /\ \A i \in 1 .. n : (three \o fields)[i + 3] = fields[i]
    OBVIOUS
  <2>3. \A k \in 1 .. n : fields[k] = <<"field", FieldOrder[k]>>
    OBVIOUS
  <2> HIDE DEF three, fields
  <2>4. QED
    BY <1>3, <2>1, <2>2, <2>3
<1>5. \A k \in 1 .. n + 3 : k \in {1, 2, 3} \/ (k - 3 \in 1 .. n /\ k = (k - 3) + 3)
  OBVIOUS
<1>6. ASSUME NEW k \in 1 .. n + 3, NEW j \in 1 .. n + 3, ScopeKeys[k] = ScopeKeys[j]
      PROVE  k = j
  <2>1. \A x, y : <<"field", x>> = <<"field", y>> => x = y
    OBVIOUS
  <2>2. \A x : <<"endpoint">> # <<"field", x>> /\ <<"global">> # <<"field", x>>
    OBVIOUS
  <2>3. <<"endpoint">> # <<"global">>
    OBVIOUS
  <2>4. CASE k \in {1, 2, 3} /\ j \in {1, 2, 3}
    BY <1>4, <1>6, <2>2, <2>3, <2>4
  <2>5. CASE k \in {1, 2, 3} /\ j - 3 \in 1 .. n /\ j = (j - 3) + 3
    <3>1. ScopeKeys[j] = <<"field", FieldOrder[j - 3]>> /\ FieldOrder[j - 3] \in Fields
      BY <1>2, <1>4, <2>5
    <3>2. FieldOrder[j - 3] # NoField
      BY <1>2, <3>1
    <3>3. ScopeKeys[k] \in {<<"endpoint">>, <<"global">>, <<"field", NoField>>}
      BY <1>4, <2>5
    <3>4. QED
      BY <1>6, <2>1, <2>2, <3>1, <3>2, <3>3
  <2>6. CASE j \in {1, 2, 3} /\ k - 3 \in 1 .. n /\ k = (k - 3) + 3
    <3>1. ScopeKeys[k] = <<"field", FieldOrder[k - 3]>> /\ FieldOrder[k - 3] \in Fields
      BY <1>2, <1>4, <2>6
    <3>2. FieldOrder[k - 3] # NoField
      BY <1>2, <3>1
    <3>3. ScopeKeys[j] \in {<<"endpoint">>, <<"global">>, <<"field", NoField>>}
      BY <1>4, <2>6
    <3>4. QED
      BY <1>6, <2>1, <2>2, <3>1, <3>2, <3>3
  <2>7. CASE k - 3 \in 1 .. n /\ k = (k - 3) + 3 /\ j - 3 \in 1 .. n /\ j = (j - 3) + 3
    <3>1. /\ ScopeKeys[k] = <<"field", FieldOrder[k - 3]>>
          /\ ScopeKeys[j] = <<"field", FieldOrder[j - 3]>>
      BY <1>4, <2>7
    <3>2. FieldOrder[k - 3] = FieldOrder[j - 3]
      BY <1>6, <2>1, <3>1
    <3>3. k - 3 = j - 3
      BY <1>2, <2>7, <3>2
    <3>4. QED
      BY <2>7, <3>3
  <2>8. QED
    BY <1>5, <2>4, <2>5, <2>6, <2>7
<1>7. ASSUME NEW l \in Limit
      PROVE  \E k \in 1 .. n + 3 : ScopeKeys[k] = scope_key(l)
  <2>1. l.per \in {"global", "endpoint", "body_field"} /\ l.field \in Fields \cup {NoField}
    BY DEF Limit
  <2>2. CASE l.per = "endpoint"
    BY <1>4, <2>2 DEF scope_key
  <2>3. CASE l.per = "global"
    BY <1>4, <2>3 DEF scope_key
  <2>4. CASE l.per = "body_field" /\ l.field = NoField
    BY <1>4, <2>4 DEF scope_key
  <2>5. CASE l.per = "body_field" /\ l.field \in Fields
    <3>1. PICK k \in 1 .. n : FieldOrder[k] = l.field
      BY <1>2, <2>5
    <3>2. ScopeKeys[k + 3] = scope_key(l) /\ k + 3 \in 1 .. n + 3
      BY <1>4, <2>5, <3>1 DEF scope_key
    <3>3. QED
      BY <3>2
  <2>6. QED
    BY <2>1, <2>2, <2>3, <2>4, <2>5
<1>8. QED
  BY <1>4, <1>6, <1>7

\* Of the limits of one scope there is a strictest.
LEMMA StrictestThere ==
    ASSUME NEW limits \in Seq(Limit), NEW i \in DOMAIN limits
    PROVE  \E j \in DOMAIN limits : scope_key(limits[j]) = scope_key(limits[i]) /\ Strictest(limits, j)
<1>1. PICK n \in Nat : n = Len(limits)
  OBVIOUS
<1>2. DOMAIN limits = 1 .. n /\ \A j \in 1 .. n : limits[j].calls_per_minute \in Nat
  <2>1. DOMAIN limits = 1 .. n /\ \A j \in 1 .. n : limits[j] \in Limit
    BY <1>1
  <2>2. QED
    BY <2>1 DEF Limit
<1> DEFINE Same == {j \in 1 .. n : scope_key(limits[j]) = scope_key(limits[i])}
           Rates == {limits[j].calls_per_minute : j \in Same}
<1>3. Rates \in SUBSET Nat /\ Rates # {} /\ i \in Same
  BY <1>2
<1>4. PICK least \in Rates : \A r \in Rates : least <= r
  <2> HIDE DEF Rates
  <2>1. QED
    BY <1>3, Pushing!LeastNatural
<1> DEFINE Ends == {n - j : j \in {q \in Same : limits[q].calls_per_minute = least}}
<1>5. Ends \in SUBSET Nat /\ Ends # {}
  BY <1>4
<1>6. PICK e \in Ends : \A d \in Ends : e <= d
  <2> HIDE DEF Ends
  <2>1. QED
    BY <1>5, Pushing!LeastNatural
<1>7. PICK j \in Same : limits[j].calls_per_minute = least /\ e = n - j
  BY <1>6
<1>8. ASSUME NEW q \in 1 .. n, scope_key(limits[q]) = scope_key(limits[j])
      PROVE  \/ limits[q].calls_per_minute > limits[j].calls_per_minute
             \/ limits[q].calls_per_minute = limits[j].calls_per_minute /\ q <= j
  <2>1. q \in Same /\ least <= limits[q].calls_per_minute
    BY <1>4, <1>7, <1>8
  <2>2. CASE limits[q].calls_per_minute = least
    <3>1. e <= n - q
      BY <1>6, <2>1, <2>2
    <3>2. QED
      BY <1>7, <2>2, <3>1
  <2>3. CASE limits[q].calls_per_minute # least
    BY <1>2, <1>4, <1>7, <2>1, <2>3
  <2>4. QED
    BY <2>2, <2>3
<1>9. QED
  BY <1>2, <1>7, <1>8 DEF Strictest

\* A merge keeps one limit of each scope, no looser than any of it.
LEMMA StrictestKept ==
    ASSUME NEW limits \in Seq(Limit)
    PROVE  /\ StrictestLimits(limits) \in Seq(Limit)
           /\ \A i, j \in DOMAIN StrictestLimits(limits) :
                 scope_key(StrictestLimits(limits)[i]) = scope_key(StrictestLimits(limits)[j])
                     => i = j
           /\ \A i \in DOMAIN limits : \E j \in DOMAIN StrictestLimits(limits) :
                 /\ scope_key(StrictestLimits(limits)[j]) = scope_key(limits[i])
                 /\ StrictestLimits(limits)[j].calls_per_minute <= limits[i].calls_per_minute
<1> DEFINE entries == [k \in DOMAIN ScopeKeys |-> Entry(limits, ScopeKeys[k])]
<1>1. PICK n \in Nat : DOMAIN ScopeKeys = 1 .. n
  BY ScopesOrdered
<1>2. entries \in Seq(SUBSET Limit) /\ DOMAIN entries = 1 .. n
      /\ \A k \in 1 .. n : entries[k] = Entry(limits, ScopeKeys[k])
  <2>1. \A i \in DOMAIN limits : limits[i] \in Limit
    OBVIOUS
  <2>2. \A k \in 1 .. n : Entry(limits, ScopeKeys[k]) \in SUBSET Limit
    BY <2>1 DEF Entry
  <2>3. entries \in [1 .. n -> SUBSET Limit]
    BY <1>1, <2>2
  <2>4. \A k \in 1 .. n : entries[k] = Entry(limits, ScopeKeys[k])
    BY <1>1
  <2> HIDE DEF entries
  <2>5. QED
    BY <2>3, <2>4
<1>3. StrictestLimits(limits) = Present(entries)
  BY DEF StrictestLimits
<1> HIDE DEF entries
<1> DEFINE kept == StrictestLimits(limits)
<1>4. kept \in Seq(Limit) /\ \E f : Picks(kept, entries, f)
  BY <1>2, <1>3, PushedPicks
<1> HIDE DEF kept
<1>5. PICK f : Picks(kept, entries, f)
  BY <1>4
<1>6. /\ f \in [DOMAIN kept -> 1 .. n]
      /\ \A i \in DOMAIN kept : kept[i] \in Entry(limits, ScopeKeys[f[i]])
      /\ \A i, j \in DOMAIN kept : f[i] = f[j] => i = j
      /\ \A k \in 1 .. n : Entry(limits, ScopeKeys[k]) # {} => \E i \in DOMAIN kept : f[i] = k
  <2>1. \A i \in DOMAIN kept : f[i] \in 1 .. n
    BY <1>2, <1>5 DEF Picks
  <2>2. QED
    BY <1>2, <1>5, <2>1 DEF Picks
<1>7. \A i \in DOMAIN kept : \E q \in DOMAIN limits :
          kept[i] = limits[q] /\ scope_key(limits[q]) = ScopeKeys[f[i]] /\ Strictest(limits, q)
  BY <1>6 DEF Entry
<1>8. \A i, j \in DOMAIN kept : scope_key(kept[i]) = scope_key(kept[j]) => i = j
  <2>1. SUFFICES ASSUME NEW i \in DOMAIN kept, NEW j \in DOMAIN kept,
                        scope_key(kept[i]) = scope_key(kept[j])
                 PROVE  i = j
    OBVIOUS
  <2>2. ScopeKeys[f[i]] = ScopeKeys[f[j]] /\ f[i] \in 1 .. n /\ f[j] \in 1 .. n
    BY <1>6, <1>7, <2>1
  <2>3. f[i] = f[j]
    BY <1>1, <2>2, ScopesOrdered
  <2>4. QED
    BY <1>6, <2>3
<1>9. ASSUME NEW i \in DOMAIN limits
      PROVE  \E j \in DOMAIN kept : /\ scope_key(kept[j]) = scope_key(limits[i])
                                    /\ kept[j].calls_per_minute <= limits[i].calls_per_minute
  <2>1. PICK k \in 1 .. n : ScopeKeys[k] = scope_key(limits[i])
    BY <1>1, ScopesOrdered
  <2>2. PICK q \in DOMAIN limits : scope_key(limits[q]) = scope_key(limits[i]) /\ Strictest(limits, q)
    BY StrictestThere
  <2>3. Entry(limits, ScopeKeys[k]) # {}
    BY <2>1, <2>2 DEF Entry
  <2>4. PICK j \in DOMAIN kept : f[j] = k
    BY <1>6, <2>3
  <2>5. PICK r \in DOMAIN limits :
            kept[j] = limits[r] /\ scope_key(limits[r]) = ScopeKeys[f[j]] /\ Strictest(limits, r)
    BY <1>7
  <2>6. scope_key(limits[r]) = scope_key(limits[i])
    BY <2>1, <2>4, <2>5
  <2>7. limits[r].calls_per_minute \in Nat /\ limits[i].calls_per_minute \in Nat
    <3>1. limits[r] \in Limit /\ limits[i] \in Limit
      OBVIOUS
    <3>2. QED
      BY <3>1 DEF Limit
  <2>8. limits[r].calls_per_minute <= limits[i].calls_per_minute
    BY <2>5, <2>6, <2>7 DEF Strictest
  <2>9. QED
    BY <2>5, <2>6, <2>8
<1>10. QED
  BY <1>4, <1>8, <1>9 DEF kept

\* What the limits of a merge keep of those of its sources.
MergedLimits(o, a) == Marked(o.limits, "org") \o Marked(a.limits, "agent")

\* The limits of both sources are there, marked.
LEMMA BothLimits ==
    ASSUME NEW o \in PolicyConfig, NEW a \in PolicyConfig
    PROVE  /\ MergedLimits(o, a) \in Seq(Limit)
           /\ \A p \in {o, a} : \A i \in DOMAIN p.limits : \E j \in DOMAIN MergedLimits(o, a) :
                 /\ scope_key(MergedLimits(o, a)[j]) = scope_key(p.limits[i])
                 /\ MergedLimits(o, a)[j].calls_per_minute = p.limits[i].calls_per_minute
<1> DEFINE mo == Marked(o.limits, "org")
           ma == Marked(a.limits, "agent")
<1>1. o.limits \in Seq(Limit) /\ a.limits \in Seq(Limit)
  BY DEF PolicyConfig
<1>2. /\ DOMAIN mo = DOMAIN o.limits /\ mo \in Seq(Limit)
      /\ \A i \in DOMAIN o.limits : /\ scope_key(mo[i]) = scope_key(o.limits[i])
                                    /\ mo[i].calls_per_minute = o.limits[i].calls_per_minute
  BY <1>1, MarkedCounts
<1>3. /\ DOMAIN ma = DOMAIN a.limits /\ ma \in Seq(Limit)
      /\ \A i \in DOMAIN a.limits : /\ scope_key(ma[i]) = scope_key(a.limits[i])
                                    /\ ma[i].calls_per_minute = a.limits[i].calls_per_minute
  BY <1>1, MarkedCounts
<1>4. MergedLimits(o, a) = mo \o ma
  BY DEF MergedLimits
<1> HIDE DEF mo, ma
<1>5. mo \o ma \in Seq(Limit)
  BY <1>2, <1>3
<1>6. ASSUME NEW i \in DOMAIN o.limits
      PROVE  \E j \in DOMAIN (mo \o ma) :
                 /\ scope_key((mo \o ma)[j]) = scope_key(o.limits[i])
                 /\ (mo \o ma)[j].calls_per_minute = o.limits[i].calls_per_minute
  <2>1. i \in DOMAIN (mo \o ma) /\ (mo \o ma)[i] = mo[i]
    BY <1>1, <1>2, <1>3
  <2>2. QED
    BY <1>2, <2>1
<1>7. ASSUME NEW i \in DOMAIN a.limits
      PROVE  \E j \in DOMAIN (mo \o ma) :
                 /\ scope_key((mo \o ma)[j]) = scope_key(a.limits[i])
                 /\ (mo \o ma)[j].calls_per_minute = a.limits[i].calls_per_minute
  <2>1. Len(mo) + i \in DOMAIN (mo \o ma) /\ (mo \o ma)[Len(mo) + i] = ma[i]
    BY <1>1, <1>2, <1>3
  <2>2. QED
    BY <1>3, <2>1
<1>8. QED
  BY <1>4, <1>5, <1>6, <1>7

\* A merge makes a policy, whose limits are those of its sources, the strictest of
\* each scope.
LEMMA MergesToPolicy ==
    ASSUME NEW o \in PolicyConfig, NEW a \in PolicyConfig
    PROVE  /\ merge_policies(o, a) \in PolicyConfig
           /\ \A i, j \in DOMAIN merge_policies(o, a).limits :
                 scope_key(merge_policies(o, a).limits[i]) = scope_key(merge_policies(o, a).limits[j])
                     => i = j
           /\ \A p \in {o, a} : \A i \in DOMAIN p.limits :
                 \E j \in DOMAIN merge_policies(o, a).limits :
                     /\ scope_key(merge_policies(o, a).limits[j]) = scope_key(p.limits[i])
                     /\ merge_policies(o, a).limits[j].calls_per_minute
                            <= p.limits[i].calls_per_minute
<1> DEFINE both == MergedLimits(o, a)
           kept == StrictestLimits(both)
           deny == Marked(o.deny, "org") \o Marked(a.deny, "agent")
           allow == IF a.allow # <<>> THEN Marked(a.allow, "agent") ELSE Marked(o.allow, "org")
<1>1. /\ merge_policies(o, a) =
            [default |-> a.default, mode |-> a.mode, deny |-> deny, allow |-> allow, limits |-> kept]
      /\ merge_policies(o, a).limits = kept
  BY DEF merge_policies, MergedLimits
<1>2. deny \in Seq(Rule)
  <2>1. Marked(o.deny, "org") \in Seq(Rule) /\ Marked(a.deny, "agent") \in Seq(Rule)
    BY MarkedMatches DEF PolicyConfig
  <2>2. QED
    BY <2>1
<1>3. allow \in Seq(Rule)
  <2>1. Marked(o.allow, "org") \in Seq(Rule) /\ Marked(a.allow, "agent") \in Seq(Rule)
    BY MarkedMatches DEF PolicyConfig
  <2>2. QED
    BY <2>1
<1>4. both \in Seq(Limit)
  BY BothLimits
<1>5. /\ kept \in Seq(Limit)
      /\ \A i, j \in DOMAIN kept : scope_key(kept[i]) = scope_key(kept[j]) => i = j
      /\ \A i \in DOMAIN both : \E j \in DOMAIN kept :
            /\ scope_key(kept[j]) = scope_key(both[i])
            /\ kept[j].calls_per_minute <= both[i].calls_per_minute
  <2> HIDE DEF both
  <2>1. QED
    BY <1>4, StrictestKept
<1>6. \A p \in {o, a} : \A i \in DOMAIN p.limits : \E j \in DOMAIN both :
          /\ scope_key(both[j]) = scope_key(p.limits[i])
          /\ both[j].calls_per_minute = p.limits[i].calls_per_minute
  BY BothLimits
<1> HIDE DEF kept, both, deny, allow
<1>7. \A p \in {o, a} : \A i \in DOMAIN p.limits : \E j \in DOMAIN kept :
          /\ scope_key(kept[j]) = scope_key(p.limits[i])
          /\ kept[j].calls_per_minute <= p.limits[i].calls_per_minute
  <2> SUFFICES ASSUME NEW p \in {o, a}, NEW i \in DOMAIN p.limits
               PROVE  \E j \in DOMAIN kept :
                          /\ scope_key(kept[j]) = scope_key(p.limits[i])
                          /\ kept[j].calls_per_minute <= p.limits[i].calls_per_minute
    OBVIOUS
  <2>1. PICK k \in DOMAIN both : /\ scope_key(both[k]) = scope_key(p.limits[i])
                                 /\ both[k].calls_per_minute = p.limits[i].calls_per_minute
    BY <1>6
  <2>2. QED
    BY <1>5, <2>1
<1>8. merge_policies(o, a) \in PolicyConfig
  BY <1>1, <1>2, <1>3, <1>5 DEF PolicyConfig
<1>9. QED
  BY <1>1, <1>5, <1>7, <1>8

-------------------------------------------------------------------------------
(***************************************************************************)
(* Windows                                                                 *)
(***************************************************************************)
\* How many entries of a window still count.
Live(q, cutoff) == Len(Unexpired(q, cutoff))

\* The expired entries at the front are so many and no more.
LEMMA ExpiredOnce ==
    ASSUME NEW q \in Seq(Nat), NEW cutoff \in Nat, NEW n, IsExpiredPrefix(n, q, cutoff)
    PROVE  /\ n \in 0 .. Len(q)
           /\ Unexpired(q, cutoff) = SubSeq(q, n + 1, Len(q))
<1>1. \A m : IsExpiredPrefix(m, q, cutoff) => m = n
  <2> SUFFICES ASSUME NEW m, IsExpiredPrefix(m, q, cutoff) PROVE m = n
    OBVIOUS
  <2>1. PICK len \in Nat : len = Len(q)
    OBVIOUS
  <2>2. /\ m \in 0 .. len /\ \A i \in 1 .. m : q[i] < cutoff
        /\ m < len => q[m + 1] >= cutoff
    BY <2>1 DEF IsExpiredPrefix
  <2>3. /\ n \in 0 .. len /\ \A i \in 1 .. n : q[i] < cutoff
        /\ n < len => q[n + 1] >= cutoff
    BY <2>1 DEF IsExpiredPrefix
  <2>4. \A i \in 1 .. len : q[i] \in Nat
    BY <2>1
  <2>5. CASE m < n
    <3>1. m + 1 \in 1 .. n /\ m < len /\ m + 1 \in 1 .. len
      BY <2>2, <2>3, <2>5
    <3>2. q[m + 1] < cutoff /\ q[m + 1] >= cutoff /\ q[m + 1] \in Nat
      BY <2>2, <2>3, <2>4, <3>1
    <3>3. QED
      BY <3>2
  <2>6. CASE n < m
    <3>1. n + 1 \in 1 .. m /\ n < len /\ n + 1 \in 1 .. len
      BY <2>2, <2>3, <2>6
    <3>2. q[n + 1] < cutoff /\ q[n + 1] >= cutoff /\ q[n + 1] \in Nat
      BY <2>2, <2>3, <2>4, <3>1
    <3>3. QED
      BY <3>2
  <2>7. QED
    BY <2>2, <2>3, <2>5, <2>6
<1>2. n \in 0 .. Len(q)
  BY DEF IsExpiredPrefix
<1>3. n = CHOOSE m \in 0 .. Len(q) : IsExpiredPrefix(m, q, cutoff)
  BY <1>1, <1>2
<1>4. QED
  BY <1>2, <1>3, Zenon DEF Unexpired

\* There are expired entries at the front, perhaps none.
LEMMA Expires ==
    ASSUME NEW q \in Seq(Nat), NEW cutoff \in Nat
    PROVE  \E n \in 0 .. Len(q) :
              /\ IsExpiredPrefix(n, q, cutoff)
              /\ Unexpired(q, cutoff) \in Seq(Nat)
              /\ Live(q, cutoff) = Len(q) - n
              /\ \A i \in 1 .. Len(q) - n : Unexpired(q, cutoff)[i] = q[n + i]
<1>1. PICK len \in Nat : len = Len(q)
  OBVIOUS
<1>2. \A i \in 1 .. len : q[i] \in Nat
  BY <1>1
<1> DEFINE Fresh == {i \in 1 .. len : q[i] >= cutoff}
<1>3. \E n \in 0 .. len : IsExpiredPrefix(n, q, cutoff)
  <2>1. CASE Fresh = {}
    <3>1. IsExpiredPrefix(len, q, cutoff)
      BY <1>1, <1>2, <2>1 DEF IsExpiredPrefix
    <3>2. QED
      BY <3>1
  <2>2. CASE Fresh # {}
    <3>1. Fresh \in SUBSET Nat
      OBVIOUS
    <3>2. PICK m \in Fresh : \A k \in Fresh : m <= k
      <4> HIDE DEF Fresh
      <4>1. QED
        BY <2>2, <3>1, Pushing!LeastNatural
    <3>3. m - 1 \in 0 .. len /\ (m - 1) + 1 = m /\ q[m] >= cutoff
      BY <3>2
    <3>4. ASSUME NEW i \in 1 .. m - 1 PROVE q[i] < cutoff
      <4>1. i \in 1 .. len /\ i \notin Fresh
        BY <3>2
      <4>2. QED
        BY <1>2, <4>1
    <3>5. IsExpiredPrefix(m - 1, q, cutoff)
      BY <1>1, <3>3, <3>4 DEF IsExpiredPrefix
    <3>6. QED
      BY <3>3, <3>5
  <2>3. QED
    BY <2>1, <2>2
<1>4. PICK n \in 0 .. len : IsExpiredPrefix(n, q, cutoff)
  BY <1>3
<1>5. Unexpired(q, cutoff) = SubSeq(q, n + 1, len)
  BY <1>1, <1>4, ExpiredOnce
<1>6. /\ SubSeq(q, n + 1, len) \in Seq(Nat) /\ Len(SubSeq(q, n + 1, len)) = len - n
      /\ \A i \in 1 .. len - n : SubSeq(q, n + 1, len)[i] = q[n + i]
  BY <1>1, <1>4, SubSeqProperties
<1>7. QED
  BY <1>1, <1>4, <1>5, <1>6 DEF Live

\* No more count than there are.
LEMMA LiveBounded ==
    ASSUME NEW q \in Seq(Nat), NEW cutoff \in Nat
    PROVE  Unexpired(q, cutoff) \in Seq(Nat) /\ Live(q, cutoff) \in Nat /\ Live(q, cutoff) <= Len(q)
<1>1. PICK n \in 0 .. Len(q) : Unexpired(q, cutoff) \in Seq(Nat) /\ Live(q, cutoff) = Len(q) - n
  BY Expires
<1>2. QED
  BY <1>1

\* Popping what has expired before does not change how many still count.
LEMMA LivePopped ==
    ASSUME NEW q \in Seq(Nat), NEW early \in Nat, NEW cutoff \in Nat, early <= cutoff
    PROVE  Live(Unexpired(q, early), cutoff) = Live(q, cutoff)
<1> DEFINE u == Unexpired(q, early)
<1>1. PICK len \in Nat : len = Len(q)
  OBVIOUS
<1>2. PICK m \in 0 .. len : /\ IsExpiredPrefix(m, q, early)
                            /\ u \in Seq(Nat) /\ Len(u) = len - m
                            /\ \A i \in 1 .. len - m : u[i] = q[m + i]
  BY <1>1, Expires DEF Live
<1>3. PICK n \in 0 .. len : IsExpiredPrefix(n, q, cutoff) /\ Live(q, cutoff) = len - n
  BY <1>1, Expires
<1> HIDE DEF u
<1>4. /\ \A i \in 1 .. m : q[i] < early
      /\ \A i \in 1 .. n : q[i] < cutoff
      /\ n < len => q[n + 1] >= cutoff
      /\ \A i \in 1 .. len : q[i] \in Nat
  BY <1>1, <1>2, <1>3 DEF IsExpiredPrefix
<1>5. m <= n
  <2> SUFFICES ASSUME n < m PROVE FALSE
    BY <1>2, <1>3
  <2>1. n + 1 \in 1 .. m /\ n < len /\ n + 1 \in 1 .. len
    BY <1>2, <1>3
  <2>2. q[n + 1] < early /\ q[n + 1] >= cutoff /\ q[n + 1] \in Nat
    BY <1>4, <2>1
  <2>3. QED
    BY <2>2
<1>6. IsExpiredPrefix(n - m, u, cutoff)
  <2>1. n - m \in 0 .. Len(u)
    BY <1>2, <1>3, <1>5
  <2>2. \A i \in 1 .. n - m : u[i] < cutoff
    <3> TAKE i \in 1 .. n - m
    <3>1. m + i \in 1 .. n /\ i \in 1 .. len - m
      BY <1>2, <1>3, <1>5
    <3>2. QED
      BY <1>2, <1>4, <3>1
  <2>3. n - m < Len(u) => u[(n - m) + 1] >= cutoff
    <3>1. n - m < len - m => n < len /\ (n - m) + 1 \in 1 .. len - m /\ m + ((n - m) + 1) = n + 1
      BY <1>2, <1>3, <1>5
    <3>2. QED
      BY <1>2, <1>4, <3>1
  <2>4. QED
    BY <2>1, <2>2, <2>3 DEF IsExpiredPrefix
<1>7. Unexpired(u, cutoff) = SubSeq(u, (n - m) + 1, len - m)
  BY <1>2, <1>6, ExpiredOnce
<1>8. Len(SubSeq(u, (n - m) + 1, len - m)) = len - n
  BY <1>2, <1>3, <1>5, SubSeqProperties
<1>9. QED
  BY <1>3, <1>7, <1>8 DEF Live, u

\* An entry behind older ones counts until it expires itself.
LEMMA LiveAppended ==
    ASSUME NEW q \in Seq(Nat), NEW time \in Nat, \A i \in DOMAIN q : q[i] <= time,
           NEW cutoff \in Nat
    PROVE  Live(Append(q, time), cutoff) = Live(q, cutoff) + (IF cutoff <= time THEN 1 ELSE 0)
<1> DEFINE longer == Append(q, time)
<1>1. PICK len \in Nat : len = Len(q)
  OBVIOUS
<1>2. /\ longer \in Seq(Nat) /\ Len(longer) = len + 1 /\ longer[len + 1] = time
      /\ \A i \in 1 .. len : longer[i] = q[i] /\ q[i] \in Nat /\ q[i] <= time
  BY <1>1
<1>3. PICK n \in 0 .. len : IsExpiredPrefix(n, q, cutoff) /\ Live(q, cutoff) = len - n
  BY <1>1, Expires
<1> HIDE DEF longer
<1>4. /\ \A i \in 1 .. n : q[i] < cutoff
      /\ n < len => q[n + 1] >= cutoff
  BY <1>1, <1>3 DEF IsExpiredPrefix
<1>5. CASE cutoff <= time
  <2>1. IsExpiredPrefix(n, longer, cutoff)
    <3>1. \A i \in 1 .. n : longer[i] < cutoff
      <4>1. \A i \in 1 .. n : i \in 1 .. len
        BY <1>3
      <4>2. QED
        BY <1>2, <1>4, <4>1
    <3>2. n < len + 1 => longer[n + 1] >= cutoff
      <4>1. CASE n = len
        BY <1>2, <1>5, <4>1
      <4>2. CASE n < len
        <5>1. n + 1 \in 1 .. len
          BY <1>3, <4>2
        <5>2. QED
          BY <1>2, <1>4, <4>2, <5>1
      <4>3. QED
        BY <1>3, <4>1, <4>2
    <3>3. QED
      BY <1>2, <1>3, <3>1, <3>2 DEF IsExpiredPrefix
  <2>2. Unexpired(longer, cutoff) = SubSeq(longer, n + 1, len + 1)
    BY <1>2, <2>1, ExpiredOnce
  <2>3. Len(SubSeq(longer, n + 1, len + 1)) = len + 1 - n
    BY <1>2, <1>3, SubSeqProperties
  <2>4. QED
    BY <1>3, <1>5, <2>2, <2>3 DEF Live, longer
<1>6. CASE ~(cutoff <= time)
  <2>1. n = len
    <3> SUFFICES ASSUME n < len PROVE FALSE
      BY <1>3
    <3>1. n + 1 \in 1 .. len
      BY <1>3
    <3>2. QED
      BY <1>2, <1>4, <1>6, <3>1
  <2>2. IsExpiredPrefix(len + 1, longer, cutoff)
    <3>1. \A i \in 1 .. len + 1 : longer[i] <= time /\ longer[i] \in Nat
      <4>1. \A i \in 1 .. len + 1 : i \in 1 .. len \/ i = len + 1
        OBVIOUS
      <4>2. QED
        BY <1>2, <4>1
    <3>2. QED
      BY <1>2, <1>6, <3>1 DEF IsExpiredPrefix
  <2>3. Unexpired(longer, cutoff) = SubSeq(longer, (len + 1) + 1, len + 1)
    BY <1>2, <2>2, ExpiredOnce
  <2>4. Len(SubSeq(longer, (len + 1) + 1, len + 1)) = 0
    BY <1>2, SubSeqProperties
  <2>5. QED
    BY <1>3, <1>6, <2>1, <2>3, <2>4 DEF Live, longer
<1>7. QED
  BY <1>5, <1>6

\* What is left of a window is as old as it was.
LEMMA UnexpiredOlder ==
    ASSUME NEW q \in Seq(Nat), NEW cutoff \in Nat, NEW time, \A i \in DOMAIN q : q[i] <= time
    PROVE  \A i \in DOMAIN Unexpired(q, cutoff) : Unexpired(q, cutoff)[i] <= time
<1> DEFINE u == Unexpired(q, cutoff)
<1>1. PICK len \in Nat : len = Len(q)
  OBVIOUS
<1>2. PICK n \in 0 .. len : /\ u \in Seq(Nat) /\ Len(u) = len - n
                            /\ \A i \in 1 .. len - n : u[i] = q[n + i]
  BY <1>1, Expires DEF Live
<1> HIDE DEF u
<1>3. DOMAIN u = 1 .. len - n /\ DOMAIN q = 1 .. len /\ \A i \in 1 .. len - n : n + i \in 1 .. len
  BY <1>1, <1>2
<1>4. QED
  BY <1>2, <1>3 DEF u

\* The cutoff moves with the clock, behind it.
LEMMA CutoffMoves ==
    ASSUME NEW time \in Nat
    PROVE  /\ Cutoff(time) \in Nat /\ Cutoff(time) <= time /\ Cutoff(time) <= Cutoff(time + 1)
           /\ Cutoff(time + 1) \in Nat
  BY EngineAssumption DEF Cutoff
-------------------------------------------------------------------------------
(***************************************************************************)
(* The invariant                                                           *)
(***************************************************************************)
\* A policy that is installed at the start comes from its sources.
LEMMA EngineStarts == Init => EngineInv
<1> SUFFICES ASSUME Init PROVE EngineInv
  OBVIOUS
<1>1. Made
  <2>1. CASE \E pair \in Merged : /\ org = pair[1] /\ agent = pair[2]
                                  /\ policy = merge_policies(pair[1], pair[2])
    <3>1. PICK pair \in Merged : /\ org = pair[1] /\ agent = pair[2]
                                 /\ policy = merge_policies(pair[1], pair[2])
      BY <2>1
    <3>2. pair[1] \in PolicyConfig /\ pair[2] \in PolicyConfig
      BY EngineAssumption
    <3>3. policy \in PolicyConfig
      BY <3>1, <3>2, MergesToPolicy
    <3>4. QED
      BY <3>1, <3>2, <3>3 DEF Made
  <2>2. CASE \E local \in Locals : org = NoPolicy /\ agent = local /\ policy = local
    BY <2>2, EngineAssumption DEF Made
  <2>3. QED
    BY <2>1, <2>2 DEF Init
<1>2. stage = "idle" /\ charged = {}
  BY DEF Init
<1>3. QED
  BY <1>1, <1>2 DEF EngineInv, Called, DryRunSkips, Decided

\* The rules of a policy in force look at a call as Permitted does, if nothing
\* about the two changes.
LEMMA SameJudgement ==
    ASSUME policy' = policy, call' = call, now' = now
    PROVE  Permitted(call)' <=> Permitted(call)
BY DEF Permitted, AnyMatches, request_matches, body_matches, header_matches,
       time_outside_matches

\* One answer of the rules, of which the steps Deny, Allow and Default are
\* instances.
LEMMA AnswerInv ==
    ASSUME EngineInv, AtRules, NEW allowed \in BOOLEAN, NEW reason \in {"none", "deny", "default"},
           NEW rule, Answer(allowed, reason, rule),
           reason = "none" => allowed /\ Permitted(call),
           reason # "none" => ~Permitted(call) /\ (allowed <=> policy.mode = "dry_run")
    PROVE  EngineInv'
<1>1. /\ stage' = "done" /\ outcome'.allowed = allowed /\ outcome'.deny_reason = reason
      /\ org' = org /\ agent' = agent /\ policy' = policy /\ now' = now /\ call' = call
      /\ charged' = charged
  BY DEF Answer, source
<1>2. Permitted(call)' <=> Permitted(call)
  BY <1>1, SameJudgement
<1>3. Made' /\ Called'
  BY <1>1 DEF EngineInv, Made, Called, AtRules
<1>4. DryRunSkips'
  BY <1>1 DEF EngineInv, DryRunSkips
<1>5. Decided'
  <2>1. CASE reason = "none"
    BY <1>1, <1>2, <2>1 DEF Decided
  <2>2. CASE reason # "none"
    BY <1>1, <1>2, <2>2 DEF Decided
  <2>3. QED
    BY <2>1, <2>2
<1>6. QED
  BY <1>3, <1>4, <1>5 DEF EngineInv

\* Every step of the engine keeps the invariant.
LEMMA EngineMovesOn == EngineInv /\ [Next]_vars => EngineInv'
<1> SUFFICES ASSUME EngineInv, [Next]_vars PROVE EngineInv'
  OBVIOUS
<1>0. policy.mode \in {"enforce", "dry_run"} /\ Len(policy.limits) \in Nat
  BY DEF EngineInv, Made, PolicyConfig
<1>1. ASSUME NEW req \in Requests, Evaluate(req) PROVE EngineInv'
  <2>1. /\ org' = org /\ agent' = agent /\ policy' = policy
        /\ call' \in Request /\ stage' \in {"rules", "done"}
    BY <1>1, EngineAssumption DEF Evaluate, source
  <2>2. Made' /\ Called'
    BY <2>1 DEF EngineInv, Made, Called
  <2>3. DryRunSkips'
    BY <1>1, <2>1 DEF Evaluate, EngineInv, DryRunSkips
  <2>4. Decided'
    BY <1>1 DEF Evaluate, Decided
  <2>5. QED
    BY <2>2, <2>3, <2>4 DEF EngineInv
<1>2. CASE PassLimit
  <2>1. /\ org' = org /\ agent' = agent /\ policy' = policy /\ call' = call
        /\ stage = "rules" /\ stage' = stage /\ next_limit <= Len(policy.limits)
    BY <1>2 DEF PassLimit, source
  <2>2. policy.mode # "dry_run"
    BY <1>0, <2>1 DEF EngineInv, DryRunSkips
  <2>3. QED
    BY <2>1, <2>2 DEF EngineInv, Made, Called, DryRunSkips, Decided
<1>3. CASE ExceedLimit
  <2>1. /\ org' = org /\ agent' = agent /\ policy' = policy /\ call' = call
        /\ stage = "rules" /\ stage' = "done" /\ next_limit <= Len(policy.limits)
        /\ outcome'.deny_reason = "limit" /\ ~outcome'.allowed
    BY <1>3 DEF ExceedLimit, source
  <2>2. policy.mode = "enforce"
    BY <1>0, <2>1 DEF EngineInv, DryRunSkips
  <2>3. QED
    BY <2>1, <2>2 DEF EngineInv, Made, Called, DryRunSkips, Decided
<1>4. CASE Deny
  <2>1. PICK i \in DOMAIN policy.deny :
            /\ Decides(policy.deny, i, call, now, TRUE)
            /\ Answer(policy.mode = "dry_run", "deny", i)
    BY <1>4 DEF Deny
  <2>2. ~Permitted(call)
    BY <2>1 DEF Decides, Permitted, AnyMatches
  <2>3. AtRules
    BY <1>4 DEF Deny
  <2>4. (policy.mode = "dry_run") \in BOOLEAN /\ "deny" # "none"
    OBVIOUS
  <2>5. QED
    BY <2>1, <2>2, <2>3, <2>4, AnswerInv
<1>5. CASE Allow
  <2>1. PICK i \in DOMAIN policy.allow :
            /\ Decides(policy.allow, i, call, now, FALSE)
            /\ Answer(TRUE, "none", i)
    BY <1>5 DEF Allow
  <2>2. Permitted(call) /\ AtRules
    BY <1>5, <2>1 DEF Allow, Decides, Permitted, AnyMatches
  <2>3. QED
    BY <2>1, <2>2, AnswerInv
<1>6. CASE Default
  <2>1. /\ AtRules
        /\ ~AnyMatches(policy.deny, call, now, TRUE)
        /\ ~AnyMatches(policy.allow, call, now, FALSE)
    BY <1>6 DEF Default
  <2>2. CASE policy.default = "allow"
    <3>1. Answer(TRUE, "none", 0)
      <4>1. Answer(policy.default = "allow" \/ policy.mode = "dry_run",
                   IF policy.default = "allow" THEN "none" ELSE "default", 0)
        BY <1>6 DEF Default
      <4>2. (policy.default = "allow" \/ policy.mode = "dry_run") = TRUE
        BY <2>2
      <4>3. QED
        BY <2>2, <4>1, <4>2
    <3>2. Permitted(call)
      BY <2>1, <2>2 DEF Permitted
    <3>3. QED
      BY <2>1, <3>1, <3>2, AnswerInv
  <2>3. CASE policy.default # "allow"
    <3>1. Answer(policy.mode = "dry_run", "default", 0)
      <4>1. Answer(policy.default = "allow" \/ policy.mode = "dry_run",
                   IF policy.default = "allow" THEN "none" ELSE "default", 0)
        BY <1>6 DEF Default
      <4>2. (policy.default = "allow" \/ policy.mode = "dry_run")
                = (policy.mode = "dry_run")
        BY <2>3
      <4>3. QED
        BY <2>3, <4>1, <4>2
    <3>2. ~Permitted(call)
      BY <2>1, <2>3 DEF Permitted
    <3>3. (policy.mode = "dry_run") \in BOOLEAN /\ "default" # "none"
      OBVIOUS
    <3>4. QED
      BY <2>1, <3>1, <3>2, <3>3, AnswerInv
  <2>4. QED
    BY <2>2, <2>3
<1>7. CASE Return
  <2>1. /\ org' = org /\ agent' = agent /\ policy' = policy /\ stage' = "idle"
        /\ charged' = {}
    BY <1>7 DEF Return, source
  <2>2. QED
    BY <2>1 DEF EngineInv, Made, Called, DryRunSkips, Decided
<1>8. CASE ReloadMerged
  <2>1. PICK pair \in Reloads : /\ org' = pair[1] /\ agent' = pair[2]
                                /\ policy' = merge_policies(pair[1], pair[2])
    BY <1>8 DEF ReloadMerged, Put
  <2>2. pair \in Merged /\ pair[1] \in PolicyConfig /\ pair[2] \in PolicyConfig
    BY EngineAssumption
  <2>3. policy' \in PolicyConfig
    BY <2>1, <2>2, MergesToPolicy
  <2>4. stage = "idle" /\ stage' = "idle" /\ charged' = charged
    BY <1>8 DEF ReloadMerged
  <2>5. QED
    BY <2>1, <2>2, <2>3, <2>4 DEF EngineInv, Made, Called, DryRunSkips, Decided
<1>9. CASE SetKillSwitch \/ Tick
  <2>1. /\ org' = org /\ agent' = agent /\ policy' = policy /\ stage' = "idle"
        /\ stage = "idle" /\ charged' = charged
    BY <1>9 DEF SetKillSwitch, Tick, source
  <2>2. QED
    BY <2>1 DEF EngineInv, Made, Called, DryRunSkips, Decided
<1>10. CASE UNCHANGED vars
  <2>1. /\ org' = org /\ agent' = agent /\ policy' = policy /\ stage' = stage
        /\ call' = call /\ next_limit' = next_limit /\ outcome' = outcome /\ now' = now
        /\ charged' = charged
    BY <1>10 DEF vars
  <2>2. Permitted(call)' <=> Permitted(call)
    BY <2>1, SameJudgement
  <2>3. QED
    BY <2>1, <2>2 DEF EngineInv, Made, Called, DryRunSkips, Decided
<1>11. QED
  BY <1>1, <1>2, <1>3, <1>4, <1>5, <1>6, <1>7, <1>8, <1>9, <1>10 DEF Next

\* The invariant of the engine holds of every behaviour.
LEMMA EngineInvariance == Spec => []EngineInv
<1>1. Init => EngineInv
  BY EngineStarts
<1>2. EngineInv /\ [Next]_vars => EngineInv'
  BY EngineMovesOn
<1>3. QED
  BY <1>1, <1>2, PTL DEF Spec

-------------------------------------------------------------------------------
(***************************************************************************)
(* What the limits count                                                   *)
(***************************************************************************)
\* What the limit at place i counts the call under.
KeyOf(i) == limit_key(policy.limits[i], call)

\* Nothing in the windows is of the future.
Past ==
    \A k \in Keys : /\ \A i \in DOMAIN stamps[k] : stamps[k][i] <= now
                    /\ \A i \in DOMAIN admitted[k] : admitted[k][i] <= now

\* The call itself, while it is counted but not yet let through.
Pending(k, cutoff) == IF stage = "rules" /\ k \in charged /\ cutoff <= now THEN 1 ELSE 0

\* Whatever is let through was counted, and counts as long.
Counted ==
    \A k \in Keys : \A cutoff \in Nat :
        Cutoff(now) <= cutoff =>
            Live(admitted[k], cutoff) + Pending(k, cutoff) <= Live(stamps[k], cutoff)

\* The limits passed are those that counted the call.
Charges ==
    /\ stage = "idle" => next_limit = 1
    /\ stage = "rules" /\ policy.mode = "enforce" => charged = {KeyOf(i) : i \in 1 .. next_limit - 1}

\* Each of them has room for the call.
Within ==
    stage = "rules" /\ policy.mode = "enforce" =>
        \A i \in 1 .. next_limit - 1 :
            Live(admitted[KeyOf(i)], Cutoff(now)) + 1 <= policy.limits[i].calls_per_minute

\* And when the call is let through, none is exceeded.
Budgeted ==
    stage = "done" /\ outcome.allowed /\ policy.mode = "enforce" =>
        \A i \in DOMAIN policy.limits :
            Len(admitted[KeyOf(i)]) <= policy.limits[i].calls_per_minute

\* The invariant of the windows.
CountsInv == TypeOK /\ Past /\ Counted /\ Charges /\ Within /\ Budgeted

\* A limit counts a request under one of the keys.
LEMMA KeysOfLimits ==
    ASSUME NEW l \in Limit, NEW req \in Request
    PROVE  limit_key(l, req) \in Keys
<1>1. /\ l.per \in {"global", "endpoint", "body_field"} /\ l.field \in Fields \cup {NoField}
      /\ req.url \in Urls
  BY DEF Limit, Request
<1>2. CASE l.per = "global"
  BY <1>2 DEF limit_key, Keys
<1>3. CASE l.per = "endpoint"
  <2>1. limit_key(l, req) = <<"endpoint", req.url>>
    BY <1>3 DEF limit_key
  <2>2. <<"endpoint", req.url>> \in {"endpoint"} \X Urls
    BY <1>1
  <2>3. QED
    BY <2>1, <2>2 DEF Keys
<1>4. CASE l.per = "body_field"
  <2>1. CASE /\ l.field # NoField /\ req.body \notin {NoBody, Garbled}
             /\ req.body[l.field] \in Scalars
    <3>1. limit_key(l, req) = <<"field", l.field, req.body[l.field]>>
      BY <1>4, <2>1 DEF limit_key
    <3>2. <<"field", l.field, req.body[l.field]>> \in {"field"} \X Fields \X Scalars
      BY <1>1, <2>1
    <3>3. QED
      BY <3>1, <3>2 DEF Keys
  <2>2. CASE ~(/\ l.field # NoField /\ req.body \notin {NoBody, Garbled}
               /\ req.body[l.field] \in Scalars)
    <3>1. limit_key(l, req) = <<"unknown">>
      BY <1>4, <2>2 DEF limit_key
    <3>2. QED
      BY <3>1 DEF Keys
  <2>3. QED
    BY <2>1, <2>2
<1>5. QED
  BY <1>1, <1>2, <1>3, <1>4

\* Two limits of one scope count a request under one key, and limits of two scopes
\* under two, the unknown fields aside.
LEMMA KeysAndScopes ==
    ASSUME NEW l \in Limit, NEW m \in Limit, NEW req
    PROVE  /\ scope_key(l) = scope_key(m) => limit_key(l, req) = limit_key(m, req)
           /\ limit_key(l, req) = limit_key(m, req) /\ limit_key(l, req) # <<"unknown">>
                  => scope_key(l) = scope_key(m)
<1>1. /\ l.per \in {"global", "endpoint", "body_field"}
      /\ m.per \in {"global", "endpoint", "body_field"}
  BY DEF Limit
<1> DEFINE known(x) == /\ x.field # NoField /\ req.body \notin {NoBody, Garbled}
                       /\ req.body[x.field] \in Scalars
<1>2. \A x \in {l, m} :
          /\ x.per = "global" => scope_key(x) = <<"global">> /\ limit_key(x, req) = <<"global">>
          /\ x.per = "endpoint" => /\ scope_key(x) = <<"endpoint">>
                                   /\ limit_key(x, req) = <<"endpoint", req.url>>
          /\ x.per = "body_field" =>
                /\ scope_key(x) = <<"field", x.field>>
                /\ limit_key(x, req) = IF known(x) THEN <<"field", x.field, req.body[x.field]>>
                                       ELSE <<"unknown">>
  BY <1>1 DEF scope_key, limit_key
<1>3. /\ \A x, y : <<"field", x>> = <<"field", y>> => x = y
      /\ \A x, y, v, w : <<"field", x, v>> = <<"field", y, w>> => x = y
      /\ \A x : <<"field", x>> # <<"global">> /\ <<"field", x>> # <<"endpoint">>
      /\ \A x, v, u : /\ <<"field", x, v>> # <<"global">> /\ <<"field", x, v>> # <<"endpoint", u>>
                      /\ <<"global">> # <<"endpoint", u>> /\ <<"unknown">> # <<"endpoint", u>>
      /\ <<"global">> # <<"endpoint">> /\ <<"global">> # <<"unknown">>
  OBVIOUS
<1>4. scope_key(l) = scope_key(m) => l.per = m.per /\ (l.per = "body_field" => l.field = m.field)
  BY <1>1, <1>2, <1>3
<1>5. scope_key(l) = scope_key(m) => limit_key(l, req) = limit_key(m, req)
  BY <1>1, <1>2, <1>4
<1> HIDE DEF known
<1>6. limit_key(l, req) = limit_key(m, req) /\ limit_key(l, req) # <<"unknown">>
          => scope_key(l) = scope_key(m)
  BY <1>1, <1>2, <1>3
<1>7. QED
  BY <1>5, <1>6

\* The facts that every step starts from.
LEMMA CountsFacts ==
    ASSUME EngineInv, CountsInv
    PROVE  /\ policy \in PolicyConfig /\ policy.mode \in {"enforce", "dry_run"}
           /\ Len(policy.limits) \in Nat /\ DOMAIN policy.limits = 1 .. Len(policy.limits)
           /\ \A i \in DOMAIN policy.limits :
                 policy.limits[i] \in Limit /\ policy.limits[i].calls_per_minute \in Nat
           /\ stage \in {"rules", "done"} =>
                 call \in Request /\ \A i \in DOMAIN policy.limits : KeyOf(i) \in Keys
           /\ now \in Nat /\ Cutoff(now) \in Nat /\ Cutoff(now) <= now
           /\ \A k \in Keys : /\ stamps[k] \in Seq(Nat) /\ admitted[k] \in Seq(Nat)
                              /\ \A cutoff \in Nat : Live(stamps[k], cutoff) \in Nat
                                                     /\ Live(admitted[k], cutoff) \in Nat
<1>1. policy \in PolicyConfig /\ now \in Nat
      /\ stamps \in [Keys -> Seq(Nat)] /\ admitted \in [Keys -> Seq(Nat)]
  BY DEF CountsInv, TypeOK
<1>2. policy.mode \in {"enforce", "dry_run"} /\ policy.limits \in Seq(Limit)
  BY <1>1 DEF PolicyConfig
<1>3. /\ Len(policy.limits) \in Nat /\ DOMAIN policy.limits = 1 .. Len(policy.limits)
      /\ \A i \in DOMAIN policy.limits : policy.limits[i] \in Limit
  BY <1>2
<1>4. \A i \in DOMAIN policy.limits : policy.limits[i].calls_per_minute \in Nat
  BY <1>3 DEF Limit
<1>5. stage \in {"rules", "done"} =>
          call \in Request /\ \A i \in DOMAIN policy.limits : KeyOf(i) \in Keys
  BY <1>3, KeysOfLimits DEF EngineInv, Called, KeyOf
<1>6. \A k \in Keys : /\ stamps[k] \in Seq(Nat) /\ admitted[k] \in Seq(Nat)
                      /\ \A cutoff \in Nat : Live(stamps[k], cutoff) \in Nat
                                             /\ Live(admitted[k], cutoff) \in Nat
  BY <1>1, LiveBounded
<1>7. QED
  BY <1>1, <1>2, <1>3, <1>4, <1>5, <1>6, CutoffMoves

\* The windows are empty at first.
LEMMA CountsStart == Init /\ EngineInv => CountsInv
<1> SUFFICES ASSUME Init, EngineInv PROVE CountsInv
  OBVIOUS
<1>1. /\ stamps = [k \in Keys |-> <<>>] /\ admitted = [k \in Keys |-> <<>>]
      /\ now = 0 /\ stage = "idle" /\ call = NoCall /\ next_limit = 1
      /\ outcome = NoOutcome /\ charged = {} /\ kill_switch \in BOOLEAN
  BY DEF Init
<1>2. policy \in PolicyConfig /\ agent \in PolicyConfig /\ org \in PolicyConfig \cup {NoPolicy}
  BY DEF EngineInv, Made
<1>3. Len(policy.limits) \in Nat
  BY <1>2 DEF PolicyConfig
<1>4. TypeOK
  <2>1. stamps \in [Keys -> Seq(Nat)] /\ admitted \in [Keys -> Seq(Nat)]
    BY <1>1
  <2>2. NoOutcome \in Outcome
    BY DEF NoOutcome, Outcome
  <2>3. QED
    BY <1>1, <1>2, <1>3, <2>1, <2>2 DEF TypeOK
<1>5. \A k \in Keys : stamps[k] = <<>> /\ admitted[k] = <<>> /\ DOMAIN <<>> = {}
  BY <1>1
<1>6. Past
  BY <1>5 DEF Past
<1>7. Counted
  <2>1. \A cutoff \in Nat : Live(<<>>, cutoff) \in Nat
    <3>1. <<>> \in Seq(Nat)
      OBVIOUS
    <3>2. QED
      BY <3>1, LiveBounded
  <2>2. QED
    BY <1>1, <1>5, <2>1 DEF Counted, Pending
<1>8. QED
  BY <1>1, <1>4, <1>6, <1>7 DEF CountsInv, Charges, Within, Budgeted

\* A timestamp that is appended is no older than the rest.
LEMMA AppendedOlder ==
    ASSUME NEW q \in Seq(Nat), NEW time \in Nat, \A i \in DOMAIN q : q[i] <= time
    PROVE  /\ Append(q, time) \in Seq(Nat) /\ Len(Append(q, time)) = Len(q) + 1
           /\ \A i \in DOMAIN Append(q, time) : Append(q, time)[i] <= time
<1>1. PICK len \in Nat : len = Len(q)
  OBVIOUS
<1>2. /\ Append(q, time) \in Seq(Nat) /\ DOMAIN Append(q, time) = 1 .. len + 1
      /\ Len(Append(q, time)) = len + 1 /\ Append(q, time)[len + 1] = time
      /\ \A i \in 1 .. len : Append(q, time)[i] = q[i] /\ i \in DOMAIN q
  BY <1>1
<1>3. \A i \in 1 .. len + 1 : i \in 1 .. len \/ i = len + 1
  OBVIOUS
<1>4. time <= time
  OBVIOUS
<1>5. QED
  BY <1>1, <1>2, <1>3, <1>4

\* What a limit that passes leaves behind: one more that counts, and room for it.
LEMMA CountsPassed == EngineInv /\ CountsInv /\ PassLimit => CountsInv'
<1> SUFFICES ASSUME EngineInv, CountsInv, PassLimit PROVE CountsInv'
  OBVIOUS
<1> DEFINE key == KeyOf(next_limit)
           live == Unexpired(stamps[key], Cutoff(now))
           cpm == policy.limits[next_limit].calls_per_minute
<1>1. /\ stage = "rules" /\ next_limit <= Len(policy.limits)
      /\ Len(live) < cpm
      /\ stamps' = [stamps EXCEPT ![key] = Append(live, now)]
      /\ charged' = charged \cup {key} /\ next_limit' = next_limit + 1
  BY DEF PassLimit, KeyOf
<1>2. /\ org' = org /\ agent' = agent /\ policy' = policy /\ kill_switch' = kill_switch
      /\ now' = now /\ stage' = stage /\ call' = call /\ outcome' = outcome
      /\ admitted' = admitted
  BY DEF PassLimit, source
<1>3. /\ policy \in PolicyConfig /\ Len(policy.limits) \in Nat
      /\ DOMAIN policy.limits = 1 .. Len(policy.limits)
      /\ call \in Request /\ \A i \in DOMAIN policy.limits : KeyOf(i) \in Keys
      /\ \A i \in DOMAIN policy.limits : policy.limits[i].calls_per_minute \in Nat
      /\ now \in Nat /\ Cutoff(now) \in Nat /\ Cutoff(now) <= now
      /\ \A k \in Keys : /\ stamps[k] \in Seq(Nat) /\ admitted[k] \in Seq(Nat)
                         /\ \A cutoff \in Nat : Live(stamps[k], cutoff) \in Nat
                                                /\ Live(admitted[k], cutoff) \in Nat
  BY <1>1, CountsFacts
<1>4. next_limit \in 1 .. Len(policy.limits)
  BY <1>1, <1>3 DEF CountsInv, TypeOK
<1>5. key \in Keys /\ cpm \in Nat /\ live \in Seq(Nat) /\ Append(live, now) \in Seq(Nat)
  <2>1. key \in Keys /\ cpm \in Nat
    BY <1>3, <1>4
  <2>2. stamps[key] \in Seq(Nat) /\ Cutoff(now) \in Nat
    BY <1>3, <2>1
  <2> HIDE DEF key, cpm
  <2>3. live \in Seq(Nat)
    BY <2>2, LiveBounded
  <2> HIDE DEF live
  <2>4. Append(live, now) \in Seq(Nat)
    BY <1>3, <2>3
  <2>5. QED
    BY <2>1, <2>3, <2>4 DEF key, cpm, live
<1> HIDE DEF key, live, cpm
<1>6. KeyOf(next_limit) = key /\ policy.limits[next_limit].calls_per_minute = cpm
  BY DEF key, cpm
<1>7. \A i : KeyOf(i)' = KeyOf(i)
  BY <1>2 DEF KeyOf
<1>8. TypeOK'
  <2>1. stamps' \in [Keys -> Seq(Nat)]
    BY <1>1, <1>5 DEF CountsInv, TypeOK
  <2>2. charged' \subseteq Keys
    BY <1>1, <1>5 DEF CountsInv, TypeOK
  <2>3. next_limit' \in 1 .. Len(policy'.limits) + 1
    <3>1. PICK len \in Nat : len = Len(policy.limits)
      BY <1>3
    <3>2. Len(policy'.limits) = len /\ next_limit \in 1 .. len /\ next_limit' = next_limit + 1
      BY <1>1, <1>2, <1>4, <3>1
    <3>3. QED
      BY <3>2
  <2>4. QED
    BY <1>1, <1>2, <2>1, <2>2, <2>3 DEF CountsInv, TypeOK
<1>9. \A k \in Keys : stamps'[k] = IF k = key THEN Append(live, now) ELSE stamps[k]
  BY <1>1 DEF CountsInv, TypeOK
<1>10. \A i \in DOMAIN live : live[i] <= now
  <2>1. \A i \in DOMAIN stamps[key] : stamps[key][i] <= now
    BY <1>5 DEF CountsInv, Past
  <2>2. QED
    BY <1>3, <1>5, <2>1, UnexpiredOlder DEF live
<1>11. Past'
  <2>1. \A i \in DOMAIN Append(live, now) : Append(live, now)[i] <= now
    BY <1>3, <1>5, <1>10, AppendedOlder
  <2>2. \A k \in Keys : \A i \in DOMAIN stamps'[k] : stamps'[k][i] <= now
    BY <1>9, <2>1 DEF CountsInv, Past
  <2>3. QED
    BY <1>2, <2>2 DEF CountsInv, Past
<1>12. \A cutoff \in Nat : Cutoff(now) <= cutoff =>
          Live(stamps'[key], cutoff) = Live(stamps[key], cutoff)
                                           + (IF cutoff <= now THEN 1 ELSE 0)
  <2> SUFFICES ASSUME NEW cutoff \in Nat, Cutoff(now) <= cutoff
               PROVE  Live(stamps'[key], cutoff) = Live(stamps[key], cutoff)
                                                       + (IF cutoff <= now THEN 1 ELSE 0)
    OBVIOUS
  <2>1. stamps'[key] = Append(live, now)
    BY <1>5, <1>9
  <2>2. Live(Append(live, now), cutoff) = Live(live, cutoff) + (IF cutoff <= now THEN 1 ELSE 0)
    BY <1>3, <1>5, <1>10, LiveAppended
  <2>3. Live(live, cutoff) = Live(stamps[key], cutoff)
    BY <1>3, <1>5, LivePopped DEF live
  <2>4. QED
    BY <2>1, <2>2, <2>3
<1>13. Counted'
  <2> SUFFICES ASSUME NEW k \in Keys, NEW cutoff \in Nat, Cutoff(now) <= cutoff
               PROVE  Live(admitted[k], cutoff) + Pending(k, cutoff)' <= Live(stamps'[k], cutoff)
    BY <1>2 DEF Counted
  <2>1. Live(admitted[k], cutoff) + Pending(k, cutoff) <= Live(stamps[k], cutoff)
    BY DEF CountsInv, Counted
  <2>2. Live(admitted[k], cutoff) \in Nat /\ Live(stamps[k], cutoff) \in Nat
    BY <1>3
  <2>3. CASE k = key
    <3>1. Pending(k, cutoff)' = (IF cutoff <= now THEN 1 ELSE 0)
      BY <1>1, <1>2, <2>3 DEF Pending
    <3>2. Pending(k, cutoff) \in {0, 1}
      BY DEF Pending
    <3>3. QED
      BY <1>12, <2>1, <2>2, <2>3, <3>1, <3>2
  <2>4. CASE k # key
    <3>1. Pending(k, cutoff)' = Pending(k, cutoff)
      BY <1>1, <1>2, <2>4 DEF Pending
    <3>2. QED
      BY <1>9, <2>1, <2>4, <3>1
  <2>5. QED
    BY <2>3, <2>4
<1>14. Charges'
  <2>1. policy.mode = "enforce" => charged = {KeyOf(i) : i \in 1 .. next_limit - 1}
    BY <1>1 DEF CountsInv, Charges
  <2>2. 1 .. next_limit' - 1 = (1 .. next_limit - 1) \cup {next_limit}
    BY <1>1, <1>4
  <2>3. policy.mode = "enforce" => charged' = {KeyOf(i) : i \in 1 .. next_limit' - 1}
    BY <1>1, <1>6, <2>1, <2>2
  <2>4. QED
    BY <1>1, <1>2, <1>7, <2>3 DEF Charges
<1>15. Within'
  <2> SUFFICES ASSUME policy.mode = "enforce", NEW i \in 1 .. next_limit' - 1
               PROVE  Live(admitted[KeyOf(i)], Cutoff(now)) + 1
                          <= policy.limits[i].calls_per_minute
    BY <1>2, <1>7 DEF Within
  <2>1. CASE i \in 1 .. next_limit - 1
    BY <1>1, <2>1 DEF CountsInv, Within
  <2>2. CASE i = next_limit
    <3>1. Live(admitted[key], Cutoff(now)) + Pending(key, Cutoff(now))
              <= Live(stamps[key], Cutoff(now))
      BY <1>3, <1>5 DEF CountsInv, Counted
    <3>2. Live(stamps[key], Cutoff(now)) < cpm
      BY <1>1 DEF Live, live
    <3>3. Pending(key, Cutoff(now)) \in {0, 1}
      BY DEF Pending
    <3>4. Live(admitted[key], Cutoff(now)) \in Nat /\ Live(stamps[key], Cutoff(now)) \in Nat
      BY <1>3, <1>5
    <3>5. Live(admitted[key], Cutoff(now)) + 1 <= cpm
      BY <1>5, <3>1, <3>2, <3>3, <3>4
    <3>6. QED
      BY <1>6, <2>2, <3>5
  <2>3. QED
    BY <1>1, <1>4, <2>1, <2>2
<1>16. Budgeted'
  BY <1>1, <1>2 DEF Budgeted
<1>17. QED
  BY <1>8, <1>11, <1>13, <1>14, <1>15, <1>16 DEF CountsInv

\* A limit that is exceeded only drops what has expired.
LEMMA CountsExceeded == EngineInv /\ CountsInv /\ ExceedLimit => CountsInv'
<1> SUFFICES ASSUME EngineInv, CountsInv, ExceedLimit PROVE CountsInv'
  OBVIOUS
<1> DEFINE key == KeyOf(next_limit)
           live == Unexpired(stamps[key], Cutoff(now))
<1>1. /\ stage = "rules" /\ next_limit <= Len(policy.limits)
      /\ stamps' = [stamps EXCEPT ![key] = live]
      /\ stage' = "done"
      /\ outcome' = [allowed |-> FALSE, deny_reason |-> "limit", rule |-> next_limit]
  BY DEF ExceedLimit, KeyOf
<1>2. /\ org' = org /\ agent' = agent /\ policy' = policy /\ kill_switch' = kill_switch
      /\ now' = now /\ call' = call /\ next_limit' = next_limit /\ charged' = charged
      /\ admitted' = admitted
  BY DEF ExceedLimit, source
<1>3. /\ Len(policy.limits) \in Nat
      /\ DOMAIN policy.limits = 1 .. Len(policy.limits)
      /\ \A i \in DOMAIN policy.limits : KeyOf(i) \in Keys
      /\ now \in Nat /\ Cutoff(now) \in Nat
      /\ \A k \in Keys : /\ stamps[k] \in Seq(Nat) /\ admitted[k] \in Seq(Nat)
                         /\ \A cutoff \in Nat : Live(stamps[k], cutoff) \in Nat
                                                /\ Live(admitted[k], cutoff) \in Nat
  BY <1>1, CountsFacts
<1>4. next_limit \in 1 .. Len(policy.limits)
  BY <1>1, <1>3 DEF CountsInv, TypeOK
<1>5. key \in Keys /\ live \in Seq(Nat)
  BY <1>3, <1>4, LiveBounded
<1> HIDE DEF key, live
<1>6. TypeOK'
  <2>1. stamps' \in [Keys -> Seq(Nat)]
    BY <1>1, <1>5 DEF CountsInv, TypeOK
  <2>2. outcome' \in Outcome
    BY <1>1, <1>4 DEF Outcome
  <2>3. QED
    BY <1>1, <1>2, <2>1, <2>2 DEF CountsInv, TypeOK
<1>7. \A k \in Keys : stamps'[k] = IF k = key THEN live ELSE stamps[k]
  BY <1>1 DEF CountsInv, TypeOK
<1>8. Past'
  <2>1. \A i \in DOMAIN stamps[key] : stamps[key][i] <= now
    BY <1>5 DEF CountsInv, Past
  <2>2. \A i \in DOMAIN live : live[i] <= now
    BY <1>3, <1>5, <2>1, UnexpiredOlder DEF live
  <2>3. \A k \in Keys : \A i \in DOMAIN stamps'[k] : stamps'[k][i] <= now
    BY <1>7, <2>2 DEF CountsInv, Past
  <2>4. QED
    BY <1>2, <2>3 DEF CountsInv, Past
<1>9. Counted'
  <2> SUFFICES ASSUME NEW k \in Keys, NEW cutoff \in Nat, Cutoff(now) <= cutoff
               PROVE  Live(admitted[k], cutoff) + Pending(k, cutoff)' <= Live(stamps'[k], cutoff)
    BY <1>2 DEF Counted
  <2>1. Live(admitted[k], cutoff) + Pending(k, cutoff) <= Live(stamps[k], cutoff)
    BY DEF CountsInv, Counted
  <2>2. Live(admitted[k], cutoff) \in Nat /\ Live(stamps[k], cutoff) \in Nat
    BY <1>3
  <2>3. Live(stamps'[k], cutoff) = Live(stamps[k], cutoff)
    <3>1. CASE k = key
      <4>1. Live(live, cutoff) = Live(stamps[key], cutoff)
        BY <1>3, <1>5, LivePopped DEF live
      <4>2. QED
        BY <1>7, <3>1, <4>1
    <3>2. CASE k # key
      BY <1>7, <3>2
    <3>3. QED
      BY <3>1, <3>2
  <2>4. Pending(k, cutoff)' = 0 /\ Pending(k, cutoff) \in {0, 1}
    BY <1>1 DEF Pending
  <2>5. QED
    BY <2>1, <2>2, <2>3, <2>4
<1>10. Charges' /\ Within' /\ Budgeted'
  BY <1>1 DEF Charges, Within, Budgeted
<1>11. QED
  BY <1>6, <1>8, <1>9, <1>10 DEF CountsInv
\* An answer turns what was counted into what is let through.
LEMMA CountsAnswered ==
    ASSUME EngineInv, CountsInv, AtRules, NEW allowed \in BOOLEAN,
           NEW reason \in {"none", "deny", "default"}, NEW rule \in Nat,
           Answer(allowed, reason, rule)
    PROVE  CountsInv'
<1> DEFINE live(k) == Unexpired(admitted[k], Cutoff(now))
           goes(k) == allowed /\ k \in charged
<1>1. /\ stage = "rules" /\ next_limit > Len(policy.limits)
      /\ stage' = "done"
      /\ outcome' = [allowed |-> allowed, deny_reason |-> reason, rule |-> rule]
      /\ admitted' = [k \in Keys |-> IF goes(k) THEN Append(live(k), now) ELSE live(k)]
  BY DEF AtRules, Answer, Remember
<1>2. /\ org' = org /\ agent' = agent /\ policy' = policy /\ kill_switch' = kill_switch
      /\ now' = now /\ call' = call /\ next_limit' = next_limit /\ charged' = charged
      /\ stamps' = stamps
  BY DEF Answer, source
<1>3. /\ Len(policy.limits) \in Nat
      /\ DOMAIN policy.limits = 1 .. Len(policy.limits)
      /\ \A i \in DOMAIN policy.limits : KeyOf(i) \in Keys
      /\ \A i \in DOMAIN policy.limits : policy.limits[i].calls_per_minute \in Nat
      /\ now \in Nat /\ Cutoff(now) \in Nat /\ Cutoff(now) <= now
      /\ \A k \in Keys : /\ stamps[k] \in Seq(Nat) /\ admitted[k] \in Seq(Nat)
                         /\ \A cutoff \in Nat : Live(stamps[k], cutoff) \in Nat
                                                /\ Live(admitted[k], cutoff) \in Nat
  BY <1>1, CountsFacts
<1>4. \A k \in Keys : live(k) \in Seq(Nat) /\ Len(live(k)) = Live(admitted[k], Cutoff(now))
  BY <1>3, LiveBounded DEF Live
<1>5. \A k \in Keys : \A i \in DOMAIN live(k) : live(k)[i] <= now
  <2> SUFFICES ASSUME NEW k \in Keys PROVE \A i \in DOMAIN live(k) : live(k)[i] <= now
    OBVIOUS
  <2>1. \A i \in DOMAIN admitted[k] : admitted[k][i] <= now
    BY DEF CountsInv, Past
  <2>2. admitted[k] \in Seq(Nat) /\ Cutoff(now) \in Nat
    BY <1>3
  <2>3. QED
    BY <2>1, <2>2, UnexpiredOlder
<1>6. \A k \in Keys : \A cutoff \in Nat :
          Cutoff(now) <= cutoff => Live(live(k), cutoff) = Live(admitted[k], cutoff)
  BY <1>3, LivePopped
<1> HIDE DEF live
<1>7. \A k \in Keys : admitted'[k] = IF goes(k) THEN Append(live(k), now) ELSE live(k)
  BY <1>1
<1>8. \A k \in Keys : /\ Append(live(k), now) \in Seq(Nat)
                      /\ Len(Append(live(k), now)) = Len(live(k)) + 1
                      /\ \A i \in DOMAIN Append(live(k), now) : Append(live(k), now)[i] <= now
  <2> SUFFICES ASSUME NEW k \in Keys
               PROVE  /\ Append(live(k), now) \in Seq(Nat)
                      /\ Len(Append(live(k), now)) = Len(live(k)) + 1
                      /\ \A i \in DOMAIN Append(live(k), now) : Append(live(k), now)[i] <= now
    OBVIOUS
  <2>1. live(k) \in Seq(Nat) /\ now \in Nat /\ \A i \in DOMAIN live(k) : live(k)[i] <= now
    BY <1>3, <1>4, <1>5
  <2>2. QED
    BY <2>1, AppendedOlder
<1> HIDE DEF goes
<1>9. TypeOK'
  <2>1. admitted' \in [Keys -> Seq(Nat)]
    <3>1. \A k \in Keys : (IF goes(k) THEN Append(live(k), now) ELSE live(k)) \in Seq(Nat)
      BY <1>4, <1>8
    <3>2. QED
      BY <1>1, <3>1
  <2>2. outcome' \in Outcome
    BY <1>1 DEF Outcome
  <2>3. QED
    BY <1>1, <1>2, <2>1, <2>2 DEF CountsInv, TypeOK
<1>10. Past'
  <2>1. \A k \in Keys : \A i \in DOMAIN admitted'[k] : admitted'[k][i] <= now
    BY <1>5, <1>7, <1>8
  <2>2. QED
    BY <1>2, <2>1 DEF CountsInv, Past
<1>11. Counted'
  <2> SUFFICES ASSUME NEW k \in Keys, NEW cutoff \in Nat, Cutoff(now) <= cutoff
               PROVE  Live(admitted'[k], cutoff) + Pending(k, cutoff)' <= Live(stamps[k], cutoff)
    BY <1>2 DEF Counted
  <2>1. Live(admitted[k], cutoff) + Pending(k, cutoff) <= Live(stamps[k], cutoff)
    BY DEF CountsInv, Counted
  <2>2. Live(admitted[k], cutoff) \in Nat /\ Live(stamps[k], cutoff) \in Nat
    BY <1>3
  <2>3. Pending(k, cutoff)' = 0 /\ Pending(k, cutoff) \in {0, 1}
    BY <1>1 DEF Pending
  <2>4. Live(live(k), cutoff) = Live(admitted[k], cutoff)
    BY <1>6
  <2>5. CASE goes(k)
    <3>1. Pending(k, cutoff) = (IF cutoff <= now THEN 1 ELSE 0)
      BY <1>1, <2>5 DEF Pending, goes
    <3>2. Live(Append(live(k), now), cutoff) = Live(live(k), cutoff) + (IF cutoff <= now THEN 1 ELSE 0)
      <4>1. live(k) \in Seq(Nat) /\ now \in Nat /\ \A i \in DOMAIN live(k) : live(k)[i] <= now
        BY <1>3, <1>4, <1>5
      <4>2. QED
        BY <4>1, LiveAppended
    <3>3. admitted'[k] = Append(live(k), now)
      BY <1>7, <2>5
    <3>4. QED
      BY <2>1, <2>2, <2>3, <2>4, <3>1, <3>2, <3>3
  <2>6. CASE ~goes(k)
    <3>1. admitted'[k] = live(k)
      BY <1>7, <2>6
    <3>2. QED
      BY <2>1, <2>2, <2>3, <2>4, <3>1
  <2>7. QED
    BY <2>5, <2>6
<1>12. Charges' /\ Within'
  BY <1>1 DEF Charges, Within
<1>13. Budgeted'
  <2> SUFFICES ASSUME policy.mode = "enforce", allowed, NEW i \in DOMAIN policy.limits
               PROVE  Len(admitted'[KeyOf(i)]) <= policy.limits[i].calls_per_minute
    BY <1>1, <1>2 DEF Budgeted, KeyOf
  <2>1. i \in 1 .. next_limit - 1
    <3>1. next_limit \in 1 .. Len(policy.limits) + 1
      BY DEF CountsInv, TypeOK
    <3>2. QED
      BY <1>1, <1>3, <3>1
  <2>2. KeyOf(i) \in charged /\ KeyOf(i) \in Keys
    BY <1>1, <1>3, <2>1 DEF CountsInv, Charges
  <2>3. Live(admitted[KeyOf(i)], Cutoff(now)) + 1 <= policy.limits[i].calls_per_minute
    BY <1>1, <2>1 DEF CountsInv, Within
  <2>4. Len(admitted'[KeyOf(i)]) = Len(live(KeyOf(i))) + 1
    BY <1>7, <1>8, <2>2 DEF goes
  <2>5. Len(live(KeyOf(i))) = Live(admitted[KeyOf(i)], Cutoff(now))
    BY <1>4, <2>2
  <2>6. QED
    BY <2>3, <2>4, <2>5
<1>14. QED
  BY <1>9, <1>10, <1>11, <1>12, <1>13 DEF CountsInv

\* Every step of the engine keeps the windows' invariant.
LEMMA CountsMoveOn == EngineInv /\ EngineInv' /\ CountsInv /\ [Next]_vars => CountsInv'
<1> SUFFICES ASSUME EngineInv, EngineInv', CountsInv, [Next]_vars PROVE CountsInv'
  OBVIOUS
<1>0. /\ policy \in PolicyConfig /\ policy.mode \in {"enforce", "dry_run"}
      /\ Len(policy.limits) \in Nat
      /\ now \in Nat /\ Cutoff(now) \in Nat
      /\ \A k \in Keys : \A cutoff \in Nat : Live(stamps[k], cutoff) \in Nat
                                             /\ Live(admitted[k], cutoff) \in Nat
  BY CountsFacts
<1>1. ASSUME NEW req \in Requests, Evaluate(req) PROVE CountsInv'
  <2>1. /\ org' = org /\ agent' = agent /\ policy' = policy /\ kill_switch' = kill_switch
        /\ stamps' = stamps /\ now' = now /\ charged' = charged /\ admitted' = admitted
        /\ stage = "idle" /\ call' = req
    BY <1>1 DEF Evaluate, source
  <2>2. /\ req \in Request /\ req # NoCall
        /\ stage' \in {"rules", "done"}
    BY <1>1, EngineAssumption DEF Evaluate
  <2>3. charged = {}
    BY <2>1 DEF EngineInv, DryRunSkips
  <2>4. TypeOK'
    <3>1. outcome' \in Outcome
      BY <1>1 DEF Evaluate, Outcome, NoOutcome
    <3>2. next_limit' \in 1 .. Len(policy.limits) + 1
      <4>1. PICK len \in Nat : len = Len(policy.limits)
        BY <1>0
      <4>2. next_limit' = len + 1 \/ next_limit' = 1
        BY <1>1, <4>1 DEF Evaluate
      <4>3. QED
        BY <4>1, <4>2
    <3>3. QED
      BY <2>1, <2>2, <3>1, <3>2 DEF CountsInv, TypeOK
  <2>5. Past'
    BY <2>1 DEF CountsInv, Past
  <2>6. Counted'
    <3>1. \A k, cutoff : Pending(k, cutoff)' = 0 /\ Pending(k, cutoff) = 0
      BY <2>1, <2>3 DEF Pending
    <3>2. QED
      BY <2>1, <3>1 DEF CountsInv, Counted
  <2>7. policy.mode = "enforce" => next_limit' = 1
    BY <1>1 DEF Evaluate
  <2>8. 1 .. 1 - 1 = {}
    OBVIOUS
  <2>9. Charges' /\ Within'
    BY <2>1, <2>2, <2>3, <2>7, <2>8 DEF Charges, Within
  <2>10. Budgeted'
    BY <1>1 DEF Evaluate, Budgeted, NoOutcome
  <2>11. QED
    BY <2>4, <2>5, <2>6, <2>9, <2>10 DEF CountsInv
<1>2. CASE PassLimit
  BY <1>2, CountsPassed
<1>3. CASE ExceedLimit
  BY <1>3, CountsExceeded
<1>4. CASE Deny
  <2>1. PICK i \in DOMAIN policy.deny : Answer(policy.mode = "dry_run", "deny", i)
    BY <1>4 DEF Deny
  <2>2. AtRules /\ i \in Nat /\ (policy.mode = "dry_run") \in BOOLEAN
    BY <1>0, <1>4, <2>1 DEF Deny, PolicyConfig
  <2>3. QED
    BY <2>1, <2>2, CountsAnswered
<1>5. CASE Allow
  <2>1. PICK i \in DOMAIN policy.allow : Answer(TRUE, "none", i)
    BY <1>5 DEF Allow
  <2>2. AtRules /\ i \in Nat
    BY <1>0, <1>5, <2>1 DEF Allow, PolicyConfig
  <2>3. QED
    BY <2>1, <2>2, CountsAnswered
<1>6. CASE Default
  <2> DEFINE verdict == policy.default = "allow" \/ policy.mode = "dry_run"
             reason == IF policy.default = "allow" THEN "none" ELSE "default"
  <2>1. AtRules /\ Answer(verdict, reason, 0)
    BY <1>6 DEF Default
  <2>2. verdict \in BOOLEAN /\ reason \in {"none", "deny", "default"} /\ 0 \in Nat
    OBVIOUS
  <2> HIDE DEF verdict, reason
  <2>3. QED
    BY <2>1, <2>2, CountsAnswered
<1>7. CASE Return
  <2>1. /\ org' = org /\ agent' = agent /\ policy' = policy /\ kill_switch' = kill_switch
        /\ stamps' = stamps /\ now' = now /\ admitted' = admitted
        /\ stage = "done" /\ stage' = "idle" /\ call' = NoCall /\ outcome' = NoOutcome
        /\ next_limit' = 1 /\ charged' = {}
    BY <1>7 DEF Return, source
  <2>2. TypeOK'
    <3>1. NoOutcome \in Outcome
      BY DEF NoOutcome, Outcome
    <3>2. QED
      BY <1>0, <2>1, <3>1 DEF CountsInv, TypeOK
  <2>3. Past' /\ Charges' /\ Within' /\ Budgeted'
    BY <2>1 DEF CountsInv, Past, Charges, Within, Budgeted
  <2>4. Counted'
    <3>1. \A k, cutoff : Pending(k, cutoff)' = 0 /\ Pending(k, cutoff) = 0
      BY <2>1 DEF Pending
    <3>2. QED
      BY <2>1, <3>1 DEF CountsInv, Counted
  <2>5. QED
    BY <2>2, <2>3, <2>4 DEF CountsInv
<1>8. CASE ReloadMerged \/ SetKillSwitch
  <2>1. /\ stamps' = stamps /\ now' = now /\ admitted' = admitted
        /\ stage = "idle" /\ stage' = "idle" /\ call' = call /\ outcome' = outcome
        /\ next_limit' = next_limit /\ charged' = charged /\ kill_switch' \in BOOLEAN
    BY <1>8 DEF ReloadMerged, SetKillSwitch, CountsInv, TypeOK
  <2>2. org' \in PolicyConfig \cup {NoPolicy} /\ agent' \in PolicyConfig /\ policy' \in PolicyConfig
    BY DEF EngineInv, Made
  <2>3. Len(policy'.limits) \in Nat
    BY <2>2 DEF PolicyConfig
  <2>4. next_limit = 1
    BY <2>1 DEF CountsInv, Charges
  <2>5. TypeOK'
    BY <2>1, <2>2, <2>3, <2>4 DEF CountsInv, TypeOK
  <2>6. Past' /\ Charges' /\ Within' /\ Budgeted'
    BY <2>1 DEF CountsInv, Past, Charges, Within, Budgeted
  <2>7. Counted'
    <3>1. \A k, cutoff : Pending(k, cutoff)' = 0 /\ Pending(k, cutoff) = 0
      BY <2>1 DEF Pending
    <3>2. QED
      BY <2>1, <3>1 DEF CountsInv, Counted
  <2>8. QED
    BY <2>5, <2>6, <2>7 DEF CountsInv
<1>9. CASE Tick
  <2>1. /\ org' = org /\ agent' = agent /\ policy' = policy /\ kill_switch' = kill_switch
        /\ stamps' = stamps /\ admitted' = admitted
        /\ stage = "idle" /\ stage' = "idle" /\ call' = call /\ outcome' = outcome
        /\ next_limit' = next_limit /\ charged' = charged /\ now' = now + 1
    BY <1>9 DEF Tick, source
  <2>2. TypeOK'
    BY <1>0, <2>1 DEF CountsInv, TypeOK
  <2>3. Past'
    <3>1. \A k \in Keys : stamps[k] \in Seq(Nat) /\ admitted[k] \in Seq(Nat)
      BY CountsFacts
    <3>2. \A k \in Keys : /\ \A i \in DOMAIN stamps[k] : stamps[k][i] \in Nat
                          /\ \A i \in DOMAIN admitted[k] : admitted[k][i] \in Nat
      BY <3>1
    <3>3. \A n \in Nat : n <= now => n <= now + 1
      BY <1>0
    <3>4. Past
      BY DEF CountsInv
    <3>5. \A k \in Keys : /\ \A i \in DOMAIN stamps[k] : stamps[k][i] <= now + 1
                          /\ \A i \in DOMAIN admitted[k] : admitted[k][i] <= now + 1
      BY <3>2, <3>3, <3>4 DEF Past
    <3>6. QED
      BY <2>1, <3>5 DEF Past
  <2>4. Charges' /\ Within' /\ Budgeted'
    BY <2>1 DEF CountsInv, Charges, Within, Budgeted
  <2>5. Counted'
    <3>1. \A k, cutoff : Pending(k, cutoff)' = 0 /\ Pending(k, cutoff) = 0
      BY <2>1 DEF Pending
    <3>2. /\ Cutoff(now + 1) \in Nat /\ Cutoff(now) <= Cutoff(now + 1)
          /\ \A cutoff \in Nat : Cutoff(now + 1) <= cutoff => Cutoff(now) <= cutoff
      <4>1. Cutoff(now + 1) \in Nat /\ Cutoff(now) <= Cutoff(now + 1)
        BY <1>0, CutoffMoves
      <4>2. QED
        BY <1>0, <4>1
    <3>3. Cutoff(now)' = Cutoff(now + 1)
      BY <2>1 DEF Cutoff
    <3>4. QED
      BY <2>1, <3>1, <3>2, <3>3 DEF CountsInv, Counted
  <2>6. QED
    BY <2>2, <2>3, <2>4, <2>5 DEF CountsInv
<1>10. CASE UNCHANGED vars
  <2>1. /\ org' = org /\ agent' = agent /\ policy' = policy /\ kill_switch' = kill_switch
        /\ stamps' = stamps /\ admitted' = admitted /\ now' = now
        /\ stage' = stage /\ call' = call /\ outcome' = outcome
        /\ next_limit' = next_limit /\ charged' = charged
    BY <1>10 DEF vars
  <2>2. \A i : KeyOf(i)' = KeyOf(i)
    BY <2>1 DEF KeyOf
  <2>3. \A k, cutoff : Pending(k, cutoff)' = Pending(k, cutoff)
    BY <2>1 DEF Pending
  <2>4. Cutoff(now)' = Cutoff(now)
    BY <2>1
  <2>5. TypeOK' /\ Past'
    BY <2>1 DEF CountsInv, TypeOK, Past
  <2>6. Counted'
    BY <2>1, <2>3, <2>4 DEF CountsInv, Counted
  <2>7. Charges' /\ Within' /\ Budgeted'
    BY <2>1, <2>2 DEF CountsInv, Charges, Within, Budgeted
  <2>8. QED
    BY <2>5, <2>6, <2>7 DEF CountsInv
<1>11. QED
  BY <1>1, <1>2, <1>3, <1>4, <1>5, <1>6, <1>7, <1>8, <1>9, <1>10 DEF Next

\* The invariant of the windows holds of every behaviour.
LEMMA CountsInvariance == Spec => [](EngineInv /\ CountsInv)
<1>1. Init => EngineInv /\ CountsInv
  BY EngineStarts, CountsStart
<1>2. (EngineInv /\ CountsInv) /\ [Next]_vars => (EngineInv /\ CountsInv)'
  BY EngineMovesOn, CountsMoveOn
<1>3. QED
  BY <1>1, <1>2, PTL DEF Spec
\* What a remainder is, given the multiple below.
LEMMA ModuloIs ==
    ASSUME NEW d \in Nat \ {0}, NEW x \in Int, NEW q \in Int, NEW r \in 0 .. d - 1, x = d * q + r
    PROVE  x % d = r
OBVIOUS

\* The remainder of a difference, from the remainder of its first term.
LEMMA ModuloMoves ==
    ASSUME NEW d \in Nat \ {0}, NEW x \in Int, NEW s \in 0 .. d - 1
    PROVE  /\ x % d \in 0 .. d - 1
           /\ (x - s) % d = IF s <= x % d THEN (x % d) - s ELSE ((x % d) - s) + d
<1>1. x \div d \in Int /\ d * (x \div d) <= x /\ x < d * (x \div d) + d
  OBVIOUS
<1>2. PICK q \in Int : q = x \div d
  BY <1>1
<1>3. PICK t \in Int : t = d * q
  OBVIOUS
<1>4. PICK r \in 0 .. d - 1 : r = x - t
  BY <1>1, <1>2, <1>3
<1>5. x % d = r
  <2>1. x = d * q + r
    BY <1>3, <1>4
  <2>2. QED
    BY <2>1, ModuloIs
<1>6. CASE s <= r
  <2>1. r - s \in 0 .. d - 1 /\ x - s \in Int /\ x - s = d * q + (r - s)
    BY <1>3, <1>4, <1>6
  <2>2. (x - s) % d = r - s
    BY <2>1, ModuloIs
  <2>3. QED
    BY <1>5, <1>6, <2>2
<1>7. CASE ~(s <= r)
  <2>1. PICK p \in Int : p = q - 1
    OBVIOUS
  <2>2. d * p = t - d
    BY <1>3, <2>1
  <2>3. r - s + d \in 0 .. d - 1 /\ x - s \in Int /\ x - s = d * p + (r - s + d)
    BY <1>4, <1>7, <2>2
  <2>4. (x - s) % d = r - s + d
    BY <2>3, ModuloIs
  <2>5. QED
    BY <1>5, <1>7, <2>4
<1>8. QED
  BY <1>5, <1>6, <1>7

\* A remainder of what is less than the divisor is the thing itself.
LEMMA ModuloRests ==
    ASSUME NEW d \in Nat \ {0}, NEW x \in 0 .. d - 1
    PROVE  x % d = x
OBVIOUS

\* Of two limits that count a call under one key, only those of unknown fields differ
\* in their scope, and a merge has one of each scope.
LEMMA LimitsCounted ==
    ASSUME EngineInv, CountsInv
    PROVE  LimitsCount
<1>1. /\ policy \in PolicyConfig /\ policy.mode \in {"enforce", "dry_run"}
      /\ Len(policy.limits) \in Nat /\ DOMAIN policy.limits = 1 .. Len(policy.limits)
      /\ \A i \in DOMAIN policy.limits :
            policy.limits[i] \in Limit /\ policy.limits[i].calls_per_minute \in Nat
      /\ stage \in {"rules", "done"} =>
            call \in Request /\ \A i \in DOMAIN policy.limits : KeyOf(i) \in Keys
  BY CountsFacts
<1>2. BudgetHolds
  <2> SUFFICES ASSUME stage = "done", outcome.allowed, policy.mode = "enforce",
                      NEW p \in Sources, NEW i \in DOMAIN p.limits
               PROVE  Len(admitted[limit_key(p.limits[i], call)])
                          <= p.limits[i].calls_per_minute
    BY DEF BudgetHolds
  <2>1. \A j \in DOMAIN policy.limits :
            /\ KeyOf(j) \in Keys
            /\ Len(admitted[KeyOf(j)]) <= policy.limits[j].calls_per_minute
    BY <1>1 DEF CountsInv, Budgeted
  <2>2. CASE org = NoPolicy /\ policy = agent
    BY <2>1, <2>2 DEF Sources, KeyOf
  <2>3. CASE org \in PolicyConfig /\ agent \in PolicyConfig /\ policy = merge_policies(org, agent)
    <3>1. p \in {org, agent} /\ p \in PolicyConfig
      BY <2>3 DEF Sources
    <3>2. PICK j \in DOMAIN policy.limits :
              /\ scope_key(policy.limits[j]) = scope_key(p.limits[i])
              /\ policy.limits[j].calls_per_minute <= p.limits[i].calls_per_minute
      BY <2>3, <3>1, MergesToPolicy
    <3>3. p.limits[i] \in Limit
      <4>1. p.limits \in Seq(Limit)
        BY <3>1 DEF PolicyConfig
      <4>2. QED
        BY <4>1
    <3>4. limit_key(p.limits[i], call) = KeyOf(j)
      BY <1>1, <3>2, <3>3, KeysAndScopes DEF KeyOf
    <3>5. p.limits[i].calls_per_minute \in Nat
      BY <3>3 DEF Limit
    <3>6. Len(admitted[KeyOf(j)]) \in Nat
      <4>1. admitted[KeyOf(j)] \in Seq(Nat)
        BY <2>1, CountsFacts
      <4>2. QED
        BY <4>1
    <3>7. policy.limits[j].calls_per_minute \in Nat
      BY <1>1
    <3>8. QED
      BY <2>1, <3>2, <3>4, <3>5, <3>6, <3>7
  <2>4. QED
    BY <2>2, <2>3 DEF EngineInv, Made
<1>3. CountedOnce
  <2> SUFFICES ASSUME stage = "rules", org # NoPolicy, next_limit <= Len(policy.limits),
                      KeyOf(next_limit) \in charged, KeyOf(next_limit) # <<"unknown">>
               PROVE  FALSE
    BY DEF CountedOnce, KeyOf
  <2>1. org \in PolicyConfig /\ agent \in PolicyConfig /\ policy = merge_policies(org, agent)
    BY DEF EngineInv, Made
  <2>2. next_limit \in 1 .. Len(policy.limits)
    BY <1>1 DEF CountsInv, TypeOK
  <2>3. policy.mode = "enforce"
    <3>1. policy.mode = "dry_run" => next_limit = Len(policy.limits) + 1
      BY DEF EngineInv, DryRunSkips
    <3>2. QED
      BY <1>1, <2>2, <3>1
  <2>4. PICK i \in 1 .. next_limit - 1 : KeyOf(i) = KeyOf(next_limit)
    BY <2>3 DEF CountsInv, Charges
  <2>5. i \in DOMAIN policy.limits /\ next_limit \in DOMAIN policy.limits /\ i # next_limit
    BY <1>1, <2>2
  <2>6. policy.limits[i] \in Limit /\ policy.limits[next_limit] \in Limit
    BY <1>1, <2>5
  <2>7. scope_key(policy.limits[i]) = scope_key(policy.limits[next_limit])
    BY <2>4, <2>6, KeysAndScopes DEF KeyOf
  <2>8. QED
    BY <2>1, <2>5, <2>7, MergesToPolicy
<1>4. QED
  BY <1>2, <1>3 DEF LimitsCount

\* The hours of a rule, from the remainders.
LEMMA HoursRun == now \in Nat => HoursRunRoundTheClock
<1> SUFFICES ASSUME now \in Nat,
                    NEW range \in [start : 0 .. Day - 1, end : 0 .. Day - 1, offset : -1 .. 1]
             PROVE  time_outside_matches(range, now) <=>
                        (now + range.offset - range.start) % Day
                            >= (range.end - range.start) % Day
  BY DEF HoursRunRoundTheClock
<1>1. Day \in Nat \ {0}
  BY RulesAssumption
<1>2. /\ range.start \in 0 .. Day - 1 /\ range.end \in 0 .. Day - 1
      /\ now + range.offset \in Int
  OBVIOUS
<1>3. PICK s \in 0 .. Day - 1 : s = range.start
  BY <1>2
<1>4. PICK e \in 0 .. Day - 1 : e = range.end
  BY <1>2
<1>5. PICK x \in Int : x = now + range.offset
  BY <1>2
<1>6. /\ x % Day \in 0 .. Day - 1
      /\ (x - s) % Day = IF s <= x % Day THEN (x % Day) - s ELSE ((x % Day) - s) + Day
  BY <1>1, ModuloMoves
<1>7. e \in Int /\ e % Day = e
  BY <1>1, ModuloRests
<1>8. (e - s) % Day = IF s <= e THEN e - s ELSE e - s + Day
  <2>1. (e - s) % Day = IF s <= e % Day THEN (e % Day) - s ELSE ((e % Day) - s) + Day
    BY <1>1, <1>7, ModuloMoves
  <2>2. QED
    BY <1>7, <2>1
<1>9. PICK m \in 0 .. Day - 1 : m = x % Day
  BY <1>6
<1>10. time_outside_matches(range, now) <=>
          ~ IF s <= e THEN s <= m /\ m < e ELSE s <= m \/ m < e
  BY <1>3, <1>4, <1>5, <1>9 DEF time_outside_matches
<1>11. (x - s) % Day >= (e - s) % Day <=> ~ IF s <= e THEN s <= m /\ m < e ELSE s <= m \/ m < e
  <2>1. (x - s) % Day = IF s <= m THEN m - s ELSE m - s + Day
    BY <1>6, <1>9
  <2>2. QED
    BY <1>1, <1>8, <2>1
<1>12. QED
  BY <1>3, <1>4, <1>5, <1>10, <1>11
\* "Org deny rules are unremovable guardrails": in any policies' merge, a call a
\* deny rule of either matches is let through only in a dry run.
THEOREM GuardrailsAlwaysHold == Spec => []GuardrailsHold
<1>1. EngineInv => GuardrailsHold
  <2> SUFFICES ASSUME EngineInv, stage = "done", outcome.allowed, policy.mode = "enforce",
                      NEW p \in Sources, AnyMatches(p.deny, call, now, TRUE)
               PROVE  FALSE
    BY DEF GuardrailsHold
  <2>1. Permitted(call)
    BY DEF EngineInv, Decided
  <2>2. ~AnyMatches(policy.deny, call, now, TRUE)
    BY <2>1 DEF Permitted
  <2>3. CASE org = NoPolicy
    <3>1. p = agent /\ policy = agent
      BY <2>3, EngineAssumption DEF EngineInv, Made, Sources
    <3>2. QED
      BY <2>2, <3>1
  <2>4. CASE org # NoPolicy
    <3>1. /\ org \in PolicyConfig /\ agent \in PolicyConfig /\ p \in {org, agent}
          /\ policy = merge_policies(org, agent)
      BY <2>4 DEF EngineInv, Made, Sources
    <3>2. QED
      BY <2>2, <3>1, MergeKeepsDenies
  <2>5. QED
    BY <2>3, <2>4
<1>2. QED
  BY <1>1, EngineInvariance, PTL

\* An agent gains nothing by sending a body that cannot be read: what is let
\* through with it would be permitted with any readable one.
THEOREM GarblingNeverHelped == Spec => []GarblingNeverHelps
<1>1. EngineInv => GarblingNeverHelps
  <2> SUFFICES ASSUME EngineInv, stage = "done", outcome.allowed, policy.mode = "enforce",
                      call.body = Garbled, NEW body \in Readable
               PROVE  Permitted([call EXCEPT !.body = body])
    BY DEF GarblingNeverHelps
  <2> DEFINE readable == [call EXCEPT !.body = body]
  <2>1. Permitted(call) /\ call \in Request
    BY DEF EngineInv, Decided, Called
  <2>2. /\ \A i \in DOMAIN policy.deny : policy.deny[i].matcher \in Matcher
        /\ \A i \in DOMAIN policy.allow : policy.allow[i].matcher \in Matcher
    <3>1. policy.deny \in Seq(Rule) /\ policy.allow \in Seq(Rule)
      BY DEF EngineInv, Made, PolicyConfig
    <3>2. /\ \A i \in DOMAIN policy.deny : policy.deny[i] \in Rule
          /\ \A i \in DOMAIN policy.allow : policy.allow[i] \in Rule
      BY <3>1
    <3>3. \A rule \in Rule : rule.matcher \in Matcher
      BY DEF Rule
    <3>4. QED
      BY <3>2, <3>3
  <2>3. ~AnyMatches(policy.deny, readable, now, TRUE)
    <3>1. ~AnyMatches(policy.deny, call, now, TRUE)
      BY <2>1 DEF Permitted
    <3>2. QED
      BY <2>1, <2>2, <3>1, GarblingOrdered DEF AnyMatches
  <2>4. AnyMatches(policy.allow, call, now, FALSE)
            => AnyMatches(policy.allow, readable, now, FALSE)
    BY <2>1, <2>2, GarblingOrdered DEF AnyMatches
  <2> HIDE DEF readable
  <2>5. Permitted(readable)
    BY <2>1, <2>3, <2>4 DEF Permitted
  <2>6. QED
    BY <2>5 DEF readable
<1>2. QED
  BY <1>1, EngineInvariance, PTL

\* A dry run lets every call through, the kill switch aside, counts nothing and
\* reports a reason exactly if the rules would refuse.
THEOREM DryRunPredicted == Spec => []DryRunPredicts
<1>1. EngineInv => DryRunPredicts
  BY DEF EngineInv, DryRunSkips, Decided, DryRunPredicts
<1>2. QED
  BY <1>1, EngineInvariance, PTL
-------------------------------------------------------------------------------
(***************************************************************************)
(* The analysis of a draft                                                 *)
(***************************************************************************)
\* A draft as DraftsAssumption has it.
Drafted(d) ==
    /\ Len(d.rules) \in Nat /\ DOMAIN d.rules = 1 .. Len(d.rules)
    /\ \A i \in DOMAIN d.rules : Author!NamedRule(d.rules[i])

\* The answers are those of the operators, about drafts that were asked about.
AuthorInv ==
    /\ Drafted(before) /\ Drafted(draft)
    /\ asked \in {"nothing", "analysis", "diff"}
    /\ IF asked = "analysis" THEN warnings = Author!analyze_policy(draft) ELSE warnings = {}
    /\ IF asked = "diff" THEN changes = Author!diff_policies(before, draft)
       ELSE changes = Author!NoChanges

\* The cardinality of the analysis is that of the library.
LEMMA CardinalityIs == \A S : Author!Cardinality(S) = Cardinality(S)
BY Zenon DEF Author!Cardinality, Cardinality

\* Ranks number the rules of a kind from one, in their order.
LEMMA RanksCount ==
    ASSUME NEW d, Drafted(d), NEW sort
    PROVE  LET places == Author!Places(d, sort)
           IN /\ Cardinality(places) \in Nat /\ (places = {} => Cardinality(places) = 0)
              /\ \A i \in places : Author!Rank(d, i) \in 1 .. Cardinality(places)
              /\ \A i, j \in places : i < j => Author!Rank(d, i) < Author!Rank(d, j)
              /\ \A k \in 1 .. Cardinality(places) : \E i \in places : Author!Rank(d, i) = k
<1> DEFINE places == Author!Places(d, sort)
           upto(i) == {j \in places : j <= i}
<1>1. places \subseteq 1 .. Len(d.rules) /\ Len(d.rules) \in Nat
  BY DEF Author!Places, Drafted
<1>2. IsFiniteSet(places) /\ Cardinality(places) \in Nat
  <2>1. IsFiniteSet(1 .. Len(d.rules))
    BY <1>1, FS_Interval
  <2>2. IsFiniteSet(places)
    BY <1>1, <2>1, FS_Subset
  <2>3. QED
    BY <2>2, FS_CardinalityType
<1>3. \A i \in places : Author!Rank(d, i) = Cardinality(upto(i))
  <2> SUFFICES ASSUME NEW i \in places PROVE Author!Rank(d, i) = Cardinality(upto(i))
    OBVIOUS
  <2>1. d.rules[i].kind = sort
    BY DEF Author!Places
  <2>2. QED
    BY Zenon, <2>1, CardinalityIs DEF Author!Rank
<1>4. places = {} => Cardinality(places) = 0
  BY FS_EmptySet
<1> HIDE DEF places
<1>5. ASSUME NEW i \in places
      PROVE  /\ IsFiniteSet(upto(i)) /\ Cardinality(upto(i)) \in 1 .. Cardinality(places)
  <2>1. IsFiniteSet(upto(i)) /\ Cardinality(upto(i)) <= Cardinality(places)
    BY <1>2, FS_Subset
  <2>2. Cardinality(upto(i)) \in Nat
    BY <2>1, FS_CardinalityType
  <2>3. Cardinality(upto(i)) # 0
    <3>1. i \in upto(i)
      BY <1>1
    <3>2. QED
      BY <2>1, <3>1, FS_EmptySet
  <2> HIDE DEF upto
  <2>4. QED
    BY <1>2, <2>1, <2>2, <2>3
<1>6. ASSUME NEW i \in places, NEW j \in places, i < j
      PROVE  Cardinality(upto(i)) < Cardinality(upto(j))
  <2>1. upto(i) \subseteq upto(j) /\ j \in upto(j) /\ j \notin upto(i)
    <3>1. \A m \in places : m \in Nat
      BY <1>1
    <3>2. QED
      BY <1>6, <3>1
  <2>2. IsFiniteSet(upto(j)) /\ Cardinality(upto(j)) \in Nat /\ Cardinality(upto(i)) \in Nat
    BY <1>2, <1>5
  <2> HIDE DEF upto
  <2>3. Cardinality(upto(i)) <= Cardinality(upto(j)) /\ Cardinality(upto(j)) # Cardinality(upto(i))
    BY <2>1, <2>2, FS_Subset
  <2>4. QED
    BY <2>2, <2>3
<1>7. \A k \in 1 .. Cardinality(places) : \E i \in places : Cardinality(upto(i)) = k
  <2> DEFINE rank == [i \in places |-> Cardinality(upto(i))]
             count == Cardinality(places)
  <2>1. rank \in [places -> 1 .. count]
    BY <1>5
  <2>2. \A i, j \in places : rank[i] = rank[j] => i = j
    <3> SUFFICES ASSUME NEW i \in places, NEW j \in places, rank[i] = rank[j], i # j
                 PROVE  FALSE
      OBVIOUS
    <3>1. i < j \/ j < i
      BY <1>1
    <3>2. Cardinality(upto(i)) \in Nat /\ Cardinality(upto(j)) \in Nat
          /\ Cardinality(upto(i)) = Cardinality(upto(j))
      BY <1>2, <1>5
    <3> HIDE DEF upto
    <3>3. QED
      BY <1>6, <3>1, <3>2
  <2> HIDE DEF rank
  <2>3. rank \in Injection(places, 1 .. count)
    BY <2>1, <2>2, Fun_IsInj
  <2>4. IsFiniteSet(1 .. count) /\ Cardinality(1 .. count) = count
    BY <1>2, FS_Interval
  <2>5. rank \in Surjection(places, 1 .. count)
    BY <2>3, <2>4, FS_Injection
  <2>6. \A k \in 1 .. count : \E i \in places : rank[i] = k
    BY <2>5, Fun_SurjectionProperties
  <2>7. QED
    BY <2>6 DEF rank
<1>8. QED
  BY <1>2, <1>3, <1>4, <1>5, <1>6, <1>7 DEF places

\* The list of a kind has each of its rules at its rank.
LEMMA ListedRanks ==
    ASSUME NEW d, Drafted(d), NEW sort
    PROVE  LET places == Author!Places(d, sort)
               listed == Author!Listed(d, sort)
           IN /\ DOMAIN listed = 1 .. Cardinality(places)
              /\ \A i \in places : listed[Author!Rank(d, i)] = d.rules[i].body
<1> DEFINE places == Author!Places(d, sort)
           listed == Author!Listed(d, sort)
           placed(k) == CHOOSE i \in places : Author!Rank(d, i) = k
<1>1. listed = [k \in 1 .. Cardinality(places) |-> d.rules[placed(k)].body]
  BY Zenon, CardinalityIs DEF Author!Listed
<1>2. ASSUME NEW i \in places
      PROVE  placed(Author!Rank(d, i)) = i
  <2>1. \A j \in places : Author!Rank(d, j) = Author!Rank(d, i) => j = i
    <3> SUFFICES ASSUME NEW j \in places, Author!Rank(d, j) = Author!Rank(d, i), i # j
                 PROVE  FALSE
      OBVIOUS
    <3>1. i \in Nat /\ j \in Nat
      BY DEF Author!Places, Drafted
    <3>2. i < j \/ j < i
      BY <3>1
    <3>3. Author!Rank(d, i) < Author!Rank(d, j) \/ Author!Rank(d, j) < Author!Rank(d, i)
      BY <3>2, RanksCount
    <3>4. Author!Rank(d, i) \in 1 .. Cardinality(places) /\ Cardinality(places) \in Nat
      BY RanksCount
    <3>5. QED
      BY <3>3, <3>4
  <2>2. QED
    BY <1>2, <2>1
<1>3. \A i \in places : Author!Rank(d, i) \in 1 .. Cardinality(places)
  BY RanksCount
<1> HIDE DEF placed, listed, places
<1>4. QED
  BY <1>1, <1>2, <1>3 DEF listed, places
\* The rules that the analysis speaks of are the engine's.
LEMMA RulesAreShared ==
    /\ Author!Matcher = Matcher /\ Author!Limit = Limit
    /\ \A m, req, moment, closed :
          Author!request_matches(m, req, moment, closed) <=> request_matches(m, req, moment, closed)
    /\ \A list, i, req, moment, closed :
          Author!Decides(list, i, req, moment, closed) <=> Decides(list, i, req, moment, closed)
    /\ \A list, req, moment, closed :
          Author!AnyMatches(list, req, moment, closed) <=> AnyMatches(list, req, moment, closed)
    /\ \A list, i : Author!Strictest(list, i) <=> Strictest(list, i)
<1>1. Author!Matcher = Matcher /\ Author!Limit = Limit
  BY Zenon DEF Author!Matcher, Matcher, Author!Range24, Range24, Author!Limit, Limit
<1>2. \A m, req, moment, closed :
          Author!request_matches(m, req, moment, closed) <=> request_matches(m, req, moment, closed)
  <2>1. \A m, body, closed : Author!body_matches(m, body, closed) <=> body_matches(m, body, closed)
    BY Zenon DEF Author!body_matches, body_matches
  <2>2. \A m, headers : Author!header_matches(m, headers) <=> header_matches(m, headers)
    BY Zenon DEF Author!header_matches, header_matches
  <2>3. \A range, moment :
            Author!time_outside_matches(range, moment) <=> time_outside_matches(range, moment)
    BY Zenon DEF Author!time_outside_matches, time_outside_matches
  <2>4. QED
    BY <2>1, <2>2, <2>3, Zenon DEF Author!request_matches, request_matches
<1>3. \A list, j, i : Author!Before(list, j, i) <=> Before(list, j, i)
  BY Zenon DEF Author!Before, Before, Author!specificity, specificity
<1>4. \A list, i, req, moment, closed :
          Author!Decides(list, i, req, moment, closed) <=> Decides(list, i, req, moment, closed)
  BY <1>2, <1>3, Zenon DEF Author!Decides, Decides
<1>5. \A list, req, moment, closed :
          Author!AnyMatches(list, req, moment, closed) <=> AnyMatches(list, req, moment, closed)
  BY <1>2, Zenon DEF Author!AnyMatches, AnyMatches
<1>6. \A list, i : Author!Strictest(list, i) <=> Strictest(list, i)
  BY Zenon DEF Author!Strictest, Strictest, Author!scope_key, scope_key
<1>7. QED
  BY <1>1, <1>2, <1>4, <1>5, <1>6

\* Which pairs each kind of warning is of.
LEMMA WarningsAre ==
    ASSUME NEW d, NEW i, NEW j
    PROVE  /\ i \in Author!Places(d, "deny") /\ j \in Author!Places(d, "allow")
              /\ Author!matchers_overlap(d.rules[i].body, d.rules[j].body)
                  => Author!Warning("contradictory_rules", j, i) \in Author!analyze_policy(d)
           /\ \A w \in Author!analyze_policy(d) :
                 /\ w.kind = "redundant_rule" => w \in Author!Redundant(d)
                 /\ w.kind = "redundant_rate_limit" => w \in Author!RedundantLimits(d)
                 /\ w.kind = "unreachable_config" => w \in Author!Unreachable(d)
           /\ Author!RedundantLimits(d) \subseteq Author!analyze_policy(d)
<1>1. ASSUME i \in Author!Places(d, "deny"), j \in Author!Places(d, "allow"),
             Author!matchers_overlap(d.rules[i].body, d.rules[j].body)
      PROVE  Author!Warning("contradictory_rules", j, i) \in Author!analyze_policy(d)
  <2> DEFINE pairs == {p \in Author!Places(d, "deny") \X Author!Places(d, "allow") :
                          Author!matchers_overlap(d.rules[p[1]].body, d.rules[p[2]].body)}
  <2>1. <<i, j>> \in pairs /\ <<i, j>>[1] = i /\ <<i, j>>[2] = j
    BY <1>1
  <2>2. Author!Contradictory(d) =
            {Author!Warning("contradictory_rules", p[2], p[1]) : p \in pairs}
    BY DEF Author!Contradictory
  <2> HIDE DEF pairs
  <2>3. Author!Warning("contradictory_rules", j, i) \in Author!Contradictory(d)
    BY <2>1, <2>2
  <2>4. QED
    BY <2>3 DEF Author!analyze_policy
<1>2. /\ \A w \in Author!Contradictory(d) : w.kind = "contradictory_rules"
      /\ \A w \in Author!Redundant(d) : w.kind = "redundant_rule"
      /\ \A w \in Author!Unreachable(d) : w.kind = "unreachable_config"
      /\ \A w \in Author!Broad(d) : w.kind = "overly_broad_allow"
      /\ \A w \in Author!RedundantLimits(d) : w.kind = "redundant_rate_limit"
  <2>1. \A name, rule, related : Author!Warning(name, rule, related).kind = name
    BY DEF Author!Warning
  <2>2. \A w \in Author!Contradictory(d) : w.kind = "contradictory_rules"
    BY <2>1 DEF Author!Contradictory
  <2>3. \A w \in Author!Redundant(d) : w.kind = "redundant_rule"
    BY <2>1 DEF Author!Redundant
  <2>4. \A w \in Author!Unreachable(d) : w.kind = "unreachable_config"
    BY <2>1 DEF Author!Unreachable
  <2>5. \A w \in Author!Broad(d) : w.kind = "overly_broad_allow"
    BY <2>1 DEF Author!Broad
  <2>6. \A w \in Author!RedundantLimits(d) : w.kind = "redundant_rate_limit"
    BY <2>1 DEF Author!RedundantLimits
  <2>7. QED
    BY <2>2, <2>3, <2>4, <2>5, <2>6
<1>3. \A w \in Author!analyze_policy(d) :
          \/ w \in Author!Contradictory(d) \/ w \in Author!Redundant(d)
          \/ w \in Author!Unreachable(d) \/ w \in Author!Broad(d)
          \/ w \in Author!RedundantLimits(d)
  BY DEF Author!analyze_policy
<1>4. Author!RedundantLimits(d) \subseteq Author!analyze_policy(d)
  BY DEF Author!analyze_policy
<1>5. QED
  BY <1>1, <1>2, <1>3, <1>4

\* Two matchers that match one request overlap: the analysis asks only for the method.
LEMMA MatchedOverlap ==
    ASSUME NEW m, NEW n, NEW req, NEW moment, NEW closed, NEW shut,
           request_matches(m, req, moment, closed), request_matches(n, req, moment, shut)
    PROVE  Author!matchers_overlap(m, n)
BY DEF request_matches, Author!matchers_overlap

\* The places of a draft are places of its rules, each of its kind's type.
LEMMA PlacesOf ==
    ASSUME NEW d, Drafted(d), NEW sort, NEW i \in Author!Places(d, sort)
    PROVE  /\ i \in DOMAIN d.rules /\ i \in Nat /\ d.rules[i].kind = sort
           /\ sort = "limit" => d.rules[i].body \in Limit
           /\ sort \in {"deny", "allow"} => d.rules[i].body \in Matcher
<1>1. i \in DOMAIN d.rules /\ i \in Nat /\ d.rules[i].kind = sort
  BY DEF Author!Places, Drafted
<1>2. Author!NamedRule(d.rules[i])
  BY <1>1 DEF Drafted
<1>3. QED
  BY <1>1, <1>2, RulesAreShared DEF Author!NamedRule

\* Of two rules that match alike, the later never decides.
LEMMA RedundantSilent ==
    ASSUME NEW d, Drafted(d), NEW sort \in {"deny", "allow"},
           NEW p \in Author!InOrder(d, sort),
           Author!matchers_equivalent(d.rules[p[1]].body, d.rules[p[2]].body),
           d.rules[p[1]].body.time_outside = d.rules[p[2]].body.time_outside,
           NEW req, NEW moment, NEW closed
    PROVE  ~Decides(Author!Unsourced(Author!Listed(d, sort)), Author!Rank(d, p[2]),
                    req, moment, closed)
<1> DEFINE list == Author!Unsourced(Author!Listed(d, sort))
           first == p[1]
           later == p[2]
           i == Author!Rank(d, first)
           k == Author!Rank(d, later)
<1>1. first \in Author!Places(d, sort) /\ later \in Author!Places(d, sort) /\ first < later
  BY DEF Author!InOrder
<1>2. /\ d.rules[first].body.method = d.rules[later].body.method
      /\ d.rules[first].body.url = d.rules[later].body.url
      /\ d.rules[first].body.body = d.rules[later].body.body
      /\ d.rules[first].body.headers = d.rules[later].body.headers
      /\ d.rules[first].body.time_outside = d.rules[later].body.time_outside
  BY DEF Author!matchers_equivalent
<1> HIDE DEF first, later
<1>3. /\ i \in 1 .. Cardinality(Author!Places(d, sort))
      /\ k \in 1 .. Cardinality(Author!Places(d, sort)) /\ i < k
      /\ Cardinality(Author!Places(d, sort)) \in Nat
  BY <1>1, RanksCount
<1>4. /\ DOMAIN list = 1 .. Cardinality(Author!Places(d, sort))
      /\ list[i].matcher = d.rules[first].body /\ list[k].matcher = d.rules[later].body
  <2>1. /\ DOMAIN Author!Listed(d, sort) = 1 .. Cardinality(Author!Places(d, sort))
        /\ Author!Listed(d, sort)[i] = d.rules[first].body
        /\ Author!Listed(d, sort)[k] = d.rules[later].body
    BY <1>1, ListedRanks
  <2>2. QED
    BY <1>3, <2>1 DEF Author!Unsourced
<1> HIDE DEF list, i, k
<1>5. request_matches(list[k].matcher, req, moment, closed)
          => request_matches(list[i].matcher, req, moment, closed)
  BY <1>2, <1>4 DEF request_matches
<1>6. Before(list, i, k)
  BY <1>2, <1>3, <1>4 DEF Before, specificity
<1>7. ~Decides(list, k, req, moment, closed)
  BY <1>3, <1>4, <1>5, <1>6 DEF Decides
<1>8. QED
  BY <1>7 DEF list, k, later

\* Two limits with one field each, or none, have one scope exactly if the analysis
\* compares them.
LEMMA ScopesCompared ==
    ASSUME NEW l \in Limit, NEW m \in Limit
    PROVE  /\ l.per = m.per /\ l.field = m.field => scope_key(l) = scope_key(m)
           /\ /\ scope_key(l) = scope_key(m)
              /\ l.field # NoField => l.per = "body_field"
              /\ m.field # NoField => m.per = "body_field"
              => l.per = m.per /\ l.field = m.field
<1>1. /\ l.per \in {"global", "endpoint", "body_field"}
      /\ m.per \in {"global", "endpoint", "body_field"}
  BY DEF Limit
<1>2. \A x \in {l, m} : /\ x.per = "global" => scope_key(x) = <<"global">>
                        /\ x.per = "endpoint" => scope_key(x) = <<"endpoint">>
                        /\ x.per = "body_field" => scope_key(x) = <<"field", x.field>>
  BY <1>1 DEF scope_key
<1>3. /\ \A x, y : <<"field", x>> = <<"field", y>> => x = y
      /\ \A x : <<"field", x>> # <<"global">> /\ <<"field", x>> # <<"endpoint">>
      /\ <<"global">> # <<"endpoint">>
  OBVIOUS
<1>4. QED
  BY <1>1, <1>2, <1>3 DEF scope_key
\* The limits that the analysis warns of are those that are not the strictest.
LEMMA WarnedLimits ==
    ASSUME NEW d, Drafted(d), NEW i \in Author!Places(d, "limit")
    PROVE  LET tells == \E w \in Author!RedundantLimits(d) : w.rule = i
               dropped == ~Strictest(Author!Listed(d, "limit"), Author!Rank(d, i))
           IN (tells => dropped) /\ (dropped /\ Author!FieldsBelong(d) => tells)
<1> DEFINE places == Author!Places(d, "limit")
           list == Author!Listed(d, "limit")
           rank(j) == Author!Rank(d, j)
           limit(j) == d.rules[j].body
           compared(j, k) == limit(j).per = limit(k).per /\ limit(j).field = limit(k).field
           beaten(j) == \/ limit(i).calls_per_minute > limit(j).calls_per_minute
                        \/ limit(i).calls_per_minute = limit(j).calls_per_minute /\ i < j
           less(p) == Author!LessRestrictive(d, p[1], p[2])
           pairs == {p \in Author!InOrder(d, "limit") : compared(p[1], p[2])}
           tells == \E w \in Author!RedundantLimits(d) : w.rule = i
           dropped == ~Strictest(list, rank(i))
<1>1. \A j \in places : /\ j \in Nat /\ limit(j) \in Limit /\ limit(j).calls_per_minute \in Nat
                        /\ rank(j) \in 1 .. Cardinality(places) /\ list[rank(j)] = limit(j)
  <2> SUFFICES ASSUME NEW j \in places
               PROVE  /\ j \in Nat /\ limit(j) \in Limit /\ limit(j).calls_per_minute \in Nat
                      /\ rank(j) \in 1 .. Cardinality(places) /\ list[rank(j)] = limit(j)
    OBVIOUS
  <2>1. j \in Nat /\ limit(j) \in Limit
    BY PlacesOf
  <2>2. limit(j).calls_per_minute \in Nat
    BY <2>1 DEF Limit
  <2>3. rank(j) \in 1 .. Cardinality(places) /\ list[rank(j)] = limit(j)
    BY RanksCount, ListedRanks
  <2>4. QED
    BY <2>1, <2>2, <2>3
<1>2. /\ DOMAIN list = 1 .. Cardinality(places) /\ Cardinality(places) \in Nat
      /\ \A j, k \in places : j < k => rank(j) < rank(k)
      /\ \A n \in 1 .. Cardinality(places) : \E j \in places : rank(j) = n
  BY RanksCount, ListedRanks
<1>3. tells <=> \E p \in pairs : less(p) = i
  <2>1. \A name, rule, related : Author!Warning(name, rule, related).rule = rule
    BY DEF Author!Warning
  <2>2. Author!RedundantLimits(d) =
            {Author!Warning("redundant_rate_limit", less(p), IF less(p) = p[1] THEN p[2] ELSE p[1]) :
                p \in pairs}
    BY Zenon DEF Author!RedundantLimits
  <2> HIDE DEF less, pairs
  <2>3. QED
    BY <2>1, <2>2
<1>4. \A p \in pairs : /\ p[1] \in places /\ p[2] \in places /\ p[1] < p[2]
                       /\ compared(p[1], p[2])
  BY DEF Author!InOrder
<1>5. \A j, k \in places : j < k /\ compared(j, k) => <<j, k>> \in pairs
  BY DEF Author!InOrder
<1>6. \A p \in pairs : less(p) = IF limit(p[1]).calls_per_minute >= limit(p[2]).calls_per_minute
                                THEN p[1] ELSE p[2]
  BY DEF Author!LessRestrictive
<1>7. (\E p \in pairs : less(p) = i) <=> \E j \in places \ {i} : compared(i, j) /\ beaten(j)
  <2> HIDE DEF places, pairs, less, limit
  <2>1. ASSUME NEW p \in pairs, less(p) = i
        PROVE  \E j \in places \ {i} : compared(i, j) /\ beaten(j)
    <3>1. CASE limit(p[1]).calls_per_minute >= limit(p[2]).calls_per_minute
      <4>1. i = p[1] /\ p[2] \in places \ {i} /\ compared(i, p[2])
        BY <1>1, <1>4, <1>6, <2>1, <3>1
      <4>2. beaten(p[2])
        BY <1>1, <1>4, <2>1, <3>1, <4>1
      <4>3. QED
        BY <4>1, <4>2
    <3>2. CASE ~(limit(p[1]).calls_per_minute >= limit(p[2]).calls_per_minute)
      <4>1. i = p[2] /\ p[1] \in places \ {i} /\ compared(i, p[1])
        BY <1>1, <1>4, <1>6, <2>1, <3>2
      <4>2. beaten(p[1])
        BY <1>1, <1>4, <2>1, <3>2, <4>1
      <4>3. QED
        BY <4>1, <4>2
    <3>3. QED
      BY <3>1, <3>2
  <2>2. ASSUME NEW j \in places \ {i}, compared(i, j), beaten(j)
        PROVE  \E p \in pairs : less(p) = i
    <3>1. i \in places /\ i \in Nat /\ j \in Nat
          /\ limit(i).calls_per_minute \in Nat /\ limit(j).calls_per_minute \in Nat
      BY <1>1 DEF places
    <3>2. CASE i < j
      <4>1. <<i, j>> \in pairs
        BY <1>5, <2>2, <3>1, <3>2
      <4>2. <<i, j>>[1] = i /\ <<i, j>>[2] = j
        OBVIOUS
      <4>3. less(<<i, j>>) = i
        BY <1>6, <2>2, <3>1, <4>1, <4>2
      <4>4. QED
        BY <4>1, <4>3
    <3>3. CASE j < i
      <4>1. <<j, i>> \in pairs
        BY <1>5, <2>2, <3>1, <3>3
      <4>2. <<j, i>>[1] = j /\ <<j, i>>[2] = i
        OBVIOUS
      <4>3. limit(i).calls_per_minute > limit(j).calls_per_minute
        BY <2>2, <3>1, <3>3
      <4>4. less(<<j, i>>) = i
        BY <1>6, <3>1, <4>1, <4>2, <4>3
      <4>5. QED
        BY <4>1, <4>4
    <3>4. QED
      BY <3>1, <3>2, <3>3
  <2>3. QED
    BY <2>1, <2>2
<1>8. dropped <=> \E j \in places : scope_key(limit(i)) = scope_key(limit(j)) /\ beaten(j)
  <2>1. i \in places
    OBVIOUS
  <2> HIDE DEF places, list, rank, limit
  <2>2. \A j \in places : rank(j) <= rank(i) <=> j <= i
    <3> SUFFICES ASSUME NEW j \in places PROVE rank(j) <= rank(i) <=> j <= i
      OBVIOUS
    <3>1. /\ i \in Nat /\ j \in Nat /\ rank(i) \in Nat /\ rank(j) \in Nat
          /\ (i < j => rank(i) < rank(j)) /\ (j < i => rank(j) < rank(i))
      BY <1>1, <1>2, <2>1
    <3>2. QED
      BY <3>1
  <2>3. Strictest(list, rank(i)) <=>
            \A n \in DOMAIN list :
                scope_key(list[n]) = scope_key(limit(i)) =>
                    \/ list[n].calls_per_minute > limit(i).calls_per_minute
                    \/ list[n].calls_per_minute = limit(i).calls_per_minute /\ n <= rank(i)
    BY <1>1, <2>1 DEF Strictest
  <2>4. Strictest(list, rank(i)) <=>
            \A j \in places :
                scope_key(limit(j)) = scope_key(limit(i)) =>
                    \/ limit(j).calls_per_minute > limit(i).calls_per_minute
                    \/ limit(j).calls_per_minute = limit(i).calls_per_minute /\ rank(j) <= rank(i)
    BY <1>1, <1>2, <2>3
  <2>5. \A j \in places :
            ~(\/ limit(j).calls_per_minute > limit(i).calls_per_minute
              \/ limit(j).calls_per_minute = limit(i).calls_per_minute /\ j <= i) <=> beaten(j)
    BY <1>1, <2>1
  <2>6. QED
    BY <2>2, <2>4, <2>5
<1>9. \A j \in places : /\ compared(i, j) => scope_key(limit(i)) = scope_key(limit(j))
                        /\ scope_key(limit(i)) = scope_key(limit(j)) /\ Author!FieldsBelong(d)
                              => compared(i, j)
  <2> SUFFICES ASSUME NEW j \in places
               PROVE  /\ compared(i, j) => scope_key(limit(i)) = scope_key(limit(j))
                      /\ scope_key(limit(i)) = scope_key(limit(j)) /\ Author!FieldsBelong(d)
                              => compared(i, j)
    OBVIOUS
  <2>1. limit(i) \in Limit /\ limit(j) \in Limit
    BY <1>1
  <2>2. Author!FieldsBelong(d) => /\ limit(i).field # NoField => limit(i).per = "body_field"
                                  /\ limit(j).field # NoField => limit(j).per = "body_field"
    BY DEF Author!FieldsBelong
  <2> HIDE DEF limit
  <2>3. QED
    BY <2>1, <2>2, ScopesCompared
<1>10. \A j \in places : beaten(j) => j # i
  <2>1. i \in Nat /\ limit(i).calls_per_minute \in Nat
    BY <1>1
  <2> HIDE DEF limit
  <2>2. QED
    BY <2>1
<1> HIDE DEF tells, dropped, beaten, compared, less, pairs
<1>11. (tells => dropped) /\ (dropped /\ Author!FieldsBelong(d) => tells)
  BY <1>3, <1>7, <1>8, <1>9, <1>10
<1>12. QED
  BY <1>11 DEF tells, dropped, list, rank

\* What the analysis says is true.
LEMMA AnalysisHolds == AuthorInv => Author!AnalysisTrue
<1> SUFFICES ASSUME AuthorInv, asked = "analysis"
             PROVE  /\ Author!ContradictionsFound /\ Author!RedundantNeverDecides
                    /\ Author!UnreachableDenies /\ Author!WarnedAsMerged
  BY DEF Author!AnalysisTrue
<1>1. Drafted(draft) /\ warnings = Author!analyze_policy(draft)
  BY DEF AuthorInv
<1>2. Author!ContradictionsFound
  <2> SUFFICES ASSUME NEW i \in Author!Places(draft, "deny"),
                      NEW j \in Author!Places(draft, "allow"),
                      NEW s \in Author!Situations, Author!Matches(i, s), Author!Matches(j, s)
               PROVE  Author!Warned("contradictory_rules", j, i)
    BY DEF Author!ContradictionsFound
  <2>1. Author!matchers_overlap(draft.rules[i].body, draft.rules[j].body)
    <3>1. \E closed : request_matches(draft.rules[i].body, s[1], s[2], closed)
      BY RulesAreShared DEF Author!Matches
    <3>2. \E shut : request_matches(draft.rules[j].body, s[1], s[2], shut)
      BY RulesAreShared DEF Author!Matches
    <3>3. QED
      BY <3>1, <3>2, MatchedOverlap
  <2>2. QED
    BY <1>1, <2>1, WarningsAre DEF Author!Warned
<1>3. Author!RedundantNeverDecides
  <2> SUFFICES ASSUME NEW w \in warnings, w.kind = "redundant_rule",
                      draft.rules[w.rule].body.time_outside
                          = draft.rules[w.related].body.time_outside,
                      NEW s \in Author!Situations
               PROVE  LET sort == draft.rules[w.rule].kind
                          list == IF sort = "deny" THEN Author!Config(draft).deny
                                  ELSE Author!Config(draft).allow
                      IN ~Author!Decides(list, Author!Rank(draft, w.rule), s[1], s[2],
                                         Author!FailClosed(sort))
    BY DEF Author!RedundantNeverDecides
  <2>1. w \in Author!Redundant(draft)
    BY <1>1, WarningsAre
  <2>2. PICK p \in Author!InOrder(draft, "deny") \cup Author!InOrder(draft, "allow") :
            /\ Author!matchers_equivalent(draft.rules[p[1]].body, draft.rules[p[2]].body)
            /\ w = Author!Warning("redundant_rule", p[2], p[1])
    BY <2>1 DEF Author!Redundant
  <2>3. w.rule = p[2] /\ w.related = p[1]
    BY <2>2 DEF Author!Warning
  <2>4. PICK sort \in {"deny", "allow"} : p \in Author!InOrder(draft, sort)
    BY <2>2
  <2>5. draft.rules[w.rule].kind = sort
    <3>1. p[2] \in Author!Places(draft, sort)
      BY <2>4 DEF Author!InOrder
    <3>2. QED
      BY <1>1, <2>3, <3>1, PlacesOf
  <2>6. (IF sort = "deny" THEN Author!Config(draft).deny ELSE Author!Config(draft).allow)
            = Author!Unsourced(Author!Listed(draft, sort))
    BY <2>4 DEF Author!Config
  <2>7. ~Decides(Author!Unsourced(Author!Listed(draft, sort)), Author!Rank(draft, p[2]),
                 s[1], s[2], Author!FailClosed(sort))
    BY <1>1, <2>2, <2>3, <2>4, RedundantSilent
  <2>8. QED
    BY <2>3, <2>5, <2>6, <2>7, RulesAreShared
<1>4. Author!UnreachableDenies
  <2> SUFFICES ASSUME Author!Warned("unreachable_config", 0, 0), NEW s \in Author!Situations
               PROVE  ~Author!AnyMatches(Author!Config(draft).allow, s[1], s[2], FALSE)
    BY DEF Author!UnreachableDenies
  <2>1. Author!Warning("unreachable_config", 0, 0) \in Author!Unreachable(draft)
    <3>1. Author!Warning("unreachable_config", 0, 0).kind = "unreachable_config"
      BY DEF Author!Warning
    <3>2. QED
      BY <1>1, <3>1, WarningsAre DEF Author!Warned
  <2>2. Author!Places(draft, "allow") = {}
    BY <2>1 DEF Author!Unreachable
  <2>3. DOMAIN Author!Listed(draft, "allow") = {}
    <3>1. DOMAIN Author!Listed(draft, "allow") = 1 .. 0
      BY <1>1, <2>2, RanksCount, ListedRanks
    <3>2. QED
      BY <3>1
  <2>4. DOMAIN Author!Config(draft).allow = {}
    BY <2>3 DEF Author!Config, Author!Unsourced
  <2>5. QED
    BY <2>4, RulesAreShared DEF AnyMatches
<1>5. Author!WarnedAsMerged
  <2> SUFFICES ASSUME NEW i \in Author!Places(draft, "limit")
               PROVE  LET tells == \E w \in warnings : w.kind = "redundant_rate_limit" /\ w.rule = i
                          dropped == ~Author!Strictest(Author!Config(draft).limits,
                                                       Author!Rank(draft, i))
                      IN (tells => dropped) /\ (dropped /\ Author!FieldsBelong(draft) => tells)
    BY DEF Author!WarnedAsMerged
  <2> DEFINE tells == \E w \in warnings : w.kind = "redundant_rate_limit" /\ w.rule = i
             found == \E w \in Author!RedundantLimits(draft) : w.rule = i
  <2>1. \A w \in Author!RedundantLimits(draft) : w.kind = "redundant_rate_limit"
    <3>1. \A name, rule, related : Author!Warning(name, rule, related).kind = name
      BY DEF Author!Warning
    <3>2. QED
      BY <3>1 DEF Author!RedundantLimits
  <2>2. tells <=> found
    BY <1>1, <2>1, WarningsAre
  <2>3. Author!Config(draft).limits = Author!Listed(draft, "limit")
    BY DEF Author!Config
  <2> HIDE DEF tells
  <2>4. /\ found => ~Strictest(Author!Listed(draft, "limit"), Author!Rank(draft, i))
        /\ ~Strictest(Author!Listed(draft, "limit"), Author!Rank(draft, i))
              /\ Author!FieldsBelong(draft) => found
    BY <1>1, WarnedLimits
  <2>5. QED
    BY <2>2, <2>3, <2>4, RulesAreShared DEF tells
<1>6. QED
  BY <1>2, <1>3, <1>4, <1>5
\* A difference without a change leaves every rule in its place by name.
LEMMA NothingChanged ==
    ASSUME NEW b, Drafted(b), NEW a, Drafted(a), Author!Distinct(b), Author!Distinct(a),
           Author!diff_policies(b, a) = Author!NoChanges
    PROVE  /\ a.default = b.default /\ a.mode = b.mode
           /\ \A i \in DOMAIN a.rules : \E j \in DOMAIN b.rules : b.rules[j] = a.rules[i]
           /\ \A j \in DOMAIN b.rules : \E i \in DOMAIN a.rules : b.rules[j] = a.rules[i]
<1> DEFINE old == Author!Indexed(b)
           new == Author!Indexed(a)
<1>1. ASSUME NEW d, Drafted(d), Author!Distinct(d)
      PROVE  /\ DOMAIN Author!Indexed(d) = Author!RuleNames(d)
             /\ \A i \in DOMAIN d.rules : /\ d.rules[i].name \in Author!RuleNames(d)
                                          /\ Author!Indexed(d)[d.rules[i].name] = d.rules[i]
  <2>1. DOMAIN Author!Indexed(d) = Author!RuleNames(d)
    BY DEF Author!Indexed
  <2> SUFFICES ASSUME NEW i \in DOMAIN d.rules
               PROVE  /\ d.rules[i].name \in Author!RuleNames(d)
                      /\ Author!Indexed(d)[d.rules[i].name] = d.rules[i]
    BY <2>1
  <2> DEFINE name == d.rules[i].name
             IsLast(k) == /\ d.rules[k].name = name
                          /\ \A j \in DOMAIN d.rules : d.rules[j].name = name => j <= k
             newest == CHOOSE k \in DOMAIN d.rules : IsLast(k)
  <2>2. name \in Author!RuleNames(d)
    BY DEF Author!RuleNames
  <2>3. Author!Indexed(d)[name] = d.rules[newest]
    BY <2>2 DEF Author!Indexed
  <2>4. \A j \in DOMAIN d.rules : d.rules[j].name = name => j = i
    BY <1>1 DEF Author!Distinct
  <2>5. IsLast(i)
    <3>1. i <= i
      BY <1>1 DEF Drafted
    <3>2. QED
      BY <2>4, <3>1
  <2>6. IsLast(newest) /\ newest \in DOMAIN d.rules
    <3> HIDE DEF IsLast
    <3>1. QED
      BY <2>5
  <2>7. newest = i
    <3> HIDE DEF newest
    <3>1. QED
      BY <2>4, <2>6
  <2>8. QED
    BY <2>2, <2>3, <2>7
<1>2. /\ (IF b.default = a.default THEN "no_op" ELSE "update") = "no_op"
      /\ (IF b.mode = a.mode THEN "no_op" ELSE "update") = "no_op"
      /\ Author!Updated(old, new) = {}
      /\ DOMAIN old \ DOMAIN new = {} /\ DOMAIN new \ DOMAIN old = {}
  <2> DEFINE change == [default_action |-> IF b.default = a.default THEN "no_op" ELSE "update",
                        mode |-> IF b.mode = a.mode THEN "no_op" ELSE "update",
                        updated |-> Author!Updated(old, new),
                        deleted |-> DOMAIN old \ DOMAIN new,
                        created |-> DOMAIN new \ DOMAIN old]
  <2>1. change = [default_action |-> "no_op", mode |-> "no_op",
                  updated |-> {}, deleted |-> {}, created |-> {}]
    BY DEF Author!diff_policies, Author!NoChanges
  <2>2. /\ change.default_action = "no_op" /\ change.mode = "no_op" /\ change.updated = {}
        /\ change.deleted = {} /\ change.created = {}
    <3> HIDE DEF change
    <3>1. QED
      BY <2>1
  <2> HIDE DEF old, new
  <2>3. QED
    BY <2>2
<1>3. a.default = b.default /\ a.mode = b.mode
  BY <1>2
<1>4. \A n \in Author!RuleNames(a) \cup Author!RuleNames(b) :
          n \in Author!RuleNames(a) /\ n \in Author!RuleNames(b) /\ old[n] = new[n]
  <2>1. DOMAIN old = Author!RuleNames(b) /\ DOMAIN new = Author!RuleNames(a)
    BY <1>1
  <2> HIDE DEF old, new
  <2>2. \A n \in DOMAIN old \cap DOMAIN new : old[n] = new[n]
    BY <1>2 DEF Author!Updated
  <2>3. QED
    BY <1>2, <2>1, <2>2
<1>5. \A n : /\ n \in Author!RuleNames(b) => \E j \in DOMAIN b.rules : b.rules[j].name = n
             /\ n \in Author!RuleNames(a) => \E i \in DOMAIN a.rules : a.rules[i].name = n
  BY DEF Author!RuleNames
<1>6. \A i \in DOMAIN a.rules : \E j \in DOMAIN b.rules : b.rules[j] = a.rules[i]
  <2> SUFFICES ASSUME NEW i \in DOMAIN a.rules PROVE \E j \in DOMAIN b.rules : b.rules[j] = a.rules[i]
    OBVIOUS
  <2>1. /\ a.rules[i].name \in Author!RuleNames(a) /\ new[a.rules[i].name] = a.rules[i]
    BY <1>1
  <2>2. PICK j \in DOMAIN b.rules : b.rules[j].name = a.rules[i].name
    BY <1>4, <1>5, <2>1
  <2>3. old[a.rules[i].name] = b.rules[j]
    BY <1>1, <2>2
  <2> HIDE DEF old, new
  <2>4. QED
    BY <1>4, <2>1, <2>2, <2>3
<1>7. \A j \in DOMAIN b.rules : \E i \in DOMAIN a.rules : b.rules[j] = a.rules[i]
  <2> SUFFICES ASSUME NEW j \in DOMAIN b.rules PROVE \E i \in DOMAIN a.rules : b.rules[j] = a.rules[i]
    OBVIOUS
  <2>1. /\ b.rules[j].name \in Author!RuleNames(b) /\ old[b.rules[j].name] = b.rules[j]
    BY <1>1
  <2>2. PICK i \in DOMAIN a.rules : a.rules[i].name = b.rules[j].name
    BY <1>4, <1>5, <2>1
  <2>3. new[b.rules[j].name] = a.rules[i]
    BY <1>1, <2>2
  <2> HIDE DEF old, new
  <2>4. QED
    BY <1>4, <2>1, <2>2, <2>3
<1>8. QED
  BY <1>3, <1>6, <1>7

\* Such a difference judges every request as before.
LEMMA DiffHolds == AuthorInv => Author!DiffTrue
<1> SUFFICES ASSUME AuthorInv, asked = "diff", changes = Author!NoChanges,
                    Author!Distinct(before), Author!Distinct(draft)
             PROVE  \A s \in Author!Situations :
                        /\ draft.default = before.default /\ draft.mode = before.mode
                        /\ \A sort \in {"deny", "allow"} :
                              (\E i \in Author!Places(draft, sort) : Author!Matches(i, s))
                                <=> \E i \in Author!Places(before, sort) :
                                        Author!request_matches(before.rules[i].body, s[1], s[2],
                                                               Author!FailClosed(sort))
  BY DEF Author!DiffTrue
<1>1. /\ draft.default = before.default /\ draft.mode = before.mode
      /\ \A i \in DOMAIN draft.rules : \E j \in DOMAIN before.rules : before.rules[j] = draft.rules[i]
      /\ \A j \in DOMAIN before.rules : \E i \in DOMAIN draft.rules : before.rules[j] = draft.rules[i]
  BY NothingChanged DEF AuthorInv
<1>2. ASSUME NEW s \in Author!Situations, NEW sort \in {"deny", "allow"}
      PROVE  (\E i \in Author!Places(draft, sort) : Author!Matches(i, s))
                <=> \E i \in Author!Places(before, sort) :
                        Author!request_matches(before.rules[i].body, s[1], s[2],
                                               Author!FailClosed(sort))
  BY <1>1 DEF Author!Places, Author!Matches
<1>3. QED
  BY <1>1, <1>2

\* Asking changes nothing that was asked about.
LEMMA AuthorMovesOn ==
    ASSUME AuthorInv, [Author!AnalysisNext]_(Author!draftVars)
    PROVE  AuthorInv'
<1>1. CASE Author!Analyze
  BY <1>1 DEF Author!Analyze, AuthorInv, Drafted, Author!NamedRule
<1>2. CASE Author!Diff
  BY <1>2 DEF Author!Diff, AuthorInv, Drafted, Author!NamedRule
<1>3. CASE UNCHANGED Author!draftVars
  BY <1>3 DEF Author!draftVars, AuthorInv, Drafted, Author!NamedRule
<1>4. QED
  BY <1>1, <1>2, <1>3 DEF Author!AnalysisNext

\* Every draft that is asked about is one of Drafts, or empty.
LEMMA AuthorStarts == AllInit => AuthorInv
<1> SUFFICES ASSUME AllInit PROVE AuthorInv
  OBVIOUS
<1>1. CASE moving = "analysis"
  <2>1. PICK pair \in Drafts : before = pair[1] /\ draft = pair[2]
    BY <1>1 DEF AllInit, Author!AnalysisInit
  <2>2. Drafted(before) /\ Drafted(draft)
    BY <2>1, DraftsAssumed DEF Author!DraftsAssumption, Drafted
  <2>3. asked = "nothing" /\ warnings = {} /\ changes = Author!NoChanges
    BY <1>1 DEF AllInit, Author!AnalysisInit
  <2>4. QED
    BY <2>2, <2>3 DEF AuthorInv
<1>2. CASE moving # "analysis"
  <2>1. /\ before = AnyDraft[1] /\ draft = AnyDraft[2]
        /\ asked = "nothing" /\ warnings = {} /\ changes = Author!NoChanges
    BY <1>2 DEF AllInit
  <2>2. before.rules = <<>> /\ draft.rules = <<>>
    BY <2>1 DEF AnyDraft, Draft
  <2>3. Drafted(before) /\ Drafted(draft)
    BY <2>2 DEF Drafted
  <2>4. QED
    BY <2>1, <2>3 DEF AuthorInv
<1>3. QED
  BY <1>1, <1>2

\* The answers name rules that are there.
LEMMA AuthorTyped == AuthorInv => Author!AnalysisTypeOK
<1> SUFFICES ASSUME AuthorInv PROVE Author!AnalysisTypeOK
  OBVIOUS
<1>1. Drafted(draft)
  BY DEF AuthorInv
<1>2. \A w \in Author!analyze_policy(draft) : w.rule \in {0} \cup DOMAIN draft.rules
                                              /\ w.related \in {0} \cup DOMAIN draft.rules
  <2> DEFINE fits(w) == w.rule \in {0} \cup DOMAIN draft.rules
                        /\ w.related \in {0} \cup DOMAIN draft.rules
  <2>1. \A name, rule, related : /\ Author!Warning(name, rule, related).rule = rule
                                 /\ Author!Warning(name, rule, related).related = related
    BY DEF Author!Warning
  <2>2. \A sort : Author!Places(draft, sort) \subseteq DOMAIN draft.rules
    BY DEF Author!Places
  <2>3. \A w \in Author!Contradictory(draft) : fits(w)
    BY <2>1, <2>2 DEF Author!Contradictory
  <2>4. \A w \in Author!Redundant(draft) : fits(w)
    BY <2>1, <2>2 DEF Author!Redundant, Author!InOrder
  <2>5. \A w \in Author!Unreachable(draft) : fits(w)
    BY <2>1 DEF Author!Unreachable
  <2>6. \A w \in Author!Broad(draft) : fits(w)
    BY <2>1, <2>2 DEF Author!Broad
  <2>7. \A w \in Author!RedundantLimits(draft) : fits(w)
    BY <2>1, <2>2 DEF Author!RedundantLimits, Author!InOrder, Author!LessRestrictive
  <2> HIDE DEF fits
  <2>8. \A w \in Author!analyze_policy(draft) : fits(w)
    BY <2>3, <2>4, <2>5, <2>6, <2>7 DEF Author!analyze_policy
  <2>9. QED
    BY <2>8 DEF fits
<1>3. /\ Author!diff_policies(before, draft).deleted \subseteq Author!RuleNames(before)
      /\ Author!diff_policies(before, draft).created \subseteq Author!RuleNames(draft)
      /\ Author!NoChanges.deleted = {} /\ Author!NoChanges.created = {}
  BY DEF Author!diff_policies, Author!Indexed, Author!NoChanges
<1>4. QED
  BY <1>2, <1>3 DEF AuthorInv, Author!AnalysisTypeOK
-------------------------------------------------------------------------------
(***************************************************************************)
(* The JavaScript file watcher                                             *)
(***************************************************************************)
\* What a watcher can see of its file.
What == IF kind = "policy" THEN 0..writes ELSE {"present", "absent"}
PollOf(seen) == [at : {"off", "look", "looked", "read", "have read"},
                 told : seen \cup {NoFile, None}, starting : BOOLEAN]

\* The switch's watcher reads no file, and what it is told is a presence.
OnlyLooks ==
    kind = "switch" =>
        \A p \in Slots : /\ poll[p].at \notin {"read", "have read"}
                         /\ poll[p].at = "looked" => poll[p].told \in {"present", "absent"}

WatcherInv ==
    /\ kind \in WatcherKinds /\ wellformed \subseteq 0..MaxWrites
    /\ writes \in 0..MaxWrites /\ file \in 0..writes \cup {NoFile}
    /\ running \in BOOLEAN /\ lost_timer \in BOOLEAN /\ overtaken \in BOOLEAN /\ missed \in BOOLEAN
    /\ timer \in {"null", "set"} /\ starts \in 0..MaxStarts
    /\ last \in What \cup {None} /\ applied \in What
    /\ poll \in [Slots -> PollOf(What)]
    /\ OnlyLooks

\* The invariant says no less than the types.
LEMMA WatcherTyped == WatcherInv => Watcher!TypeOK
BY DEF WatcherInv, What, PollOf, Watcher!TypeOK

\* A watcher starts with nothing seen.
LEMMA WatcherStarts == Watcher!JsWatcherAssumption /\ Watcher!Init => WatcherInv
<1> SUFFICES ASSUME Watcher!JsWatcherAssumption, Watcher!Init PROVE WatcherInv
  OBVIOUS
<1>1. kind \in {"policy", "switch"} /\ kind \in WatcherKinds /\ MaxWrites \in Nat /\ MaxStarts \in Nat
  BY DEF Watcher!JsWatcherAssumption, Watcher!Init
<1>2. wellformed \subseteq 0..MaxWrites
  BY <1>1 DEF Watcher!Init
<1>3. Watcher!NoPoll \in PollOf(What) /\ Watcher!NoPoll.at = "off"
  BY DEF Watcher!NoPoll, PollOf
<1>4. poll \in [Slots -> PollOf(What)] /\ OnlyLooks
  BY <1>3 DEF Watcher!Init, OnlyLooks
<1>5. /\ writes = 0 /\ running = FALSE /\ timer = "null" /\ lost_timer = FALSE /\ last = None
      /\ starts = 0 /\ overtaken = FALSE /\ missed = FALSE
      /\ file = (IF kind = "policy" THEN 0 ELSE NoFile)
      /\ applied = (IF kind = "policy" THEN 0 ELSE "absent")
  BY DEF Watcher!Init
<1>6. 0 \in 0..0 /\ 0 \in 0..MaxWrites /\ 0 \in 0..MaxStarts
  BY <1>1
<1>7. file \in 0..writes \cup {NoFile} /\ applied \in What
  BY <1>1, <1>5, <1>6 DEF What
<1>8. QED
  BY <1>1, <1>2, <1>4, <1>5, <1>6, <1>7 DEF WatcherInv

\* A poll moves on, and the rest of what the invariant says stays.
LEMMA PollMoves ==
    ASSUME WatcherInv, NEW p \in Slots, NEW next \in PollOf(What),
           poll' = [poll EXCEPT ![p] = next], kind' = kind, writes' = writes,
           kind = "switch" => /\ next.at \notin {"read", "have read"}
                              /\ next.at = "looked" => next.told \in {"present", "absent"}
    PROVE  What' = What /\ poll' \in [Slots -> PollOf(What')] /\ OnlyLooks'
<1>1. What' = What
  BY DEF What
<1>2. poll' \in [Slots -> PollOf(What)]
  BY DEF WatcherInv
<1>3. \A q \in Slots : poll'[q] = IF q = p THEN next ELSE poll[q]
  BY DEF WatcherInv
<1>4. OnlyLooks'
  BY <1>3 DEF WatcherInv, OnlyLooks
<1>5. QED
  BY <1>1, <1>2, <1>4

\* A poll that ends is off, and may set a timer.
LEMMA PollEnds ==
    ASSUME WatcherInv, NEW p \in Slots, Watcher!Over(p)
    PROVE  /\ What' = What /\ poll' \in [Slots -> PollOf(What')] /\ OnlyLooks'
           /\ kind' = kind /\ wellformed' = wellformed /\ file' = file /\ writes' = writes
           /\ running' = running /\ starts' = starts /\ overtaken' = overtaken
           /\ timer' \in {"null", "set"} /\ lost_timer' \in BOOLEAN
<1>1. Watcher!NoPoll \in PollOf(What) /\ Watcher!NoPoll.at = "off"
  BY DEF Watcher!NoPoll, PollOf
<1>2. /\ poll' = [poll EXCEPT ![p] = Watcher!NoPoll]
      /\ kind' = kind /\ wellformed' = wellformed /\ file' = file /\ writes' = writes
      /\ running' = running /\ starts' = starts /\ overtaken' = overtaken
  BY DEF Watcher!Over
<1>3. What' = What /\ poll' \in [Slots -> PollOf(What')] /\ OnlyLooks'
  BY <1>1, <1>2, PollMoves
<1>4. timer' \in {"null", "set"} /\ lost_timer' \in BOOLEAN
  BY DEF Watcher!Over, WatcherInv
<1>5. QED
  BY <1>2, <1>3, <1>4

\* A change of the file only adds to what can be seen.
LEMMA FileChanges ==
    ASSUME WatcherInv, NEW f, Watcher!Change(f), writes' \in 0..MaxWrites, writes <= writes',
           f \in 0..writes' \cup {NoFile}
    PROVE  WatcherInv'
<1>1. /\ kind' = kind /\ wellformed' = wellformed /\ running' = running /\ timer' = timer
      /\ lost_timer' = lost_timer /\ last' = last /\ starts' = starts /\ overtaken' = overtaken
      /\ poll' = poll /\ applied' = applied /\ file' = f /\ missed' \in BOOLEAN
  BY DEF Watcher!Change, Watcher!fields, WatcherInv
<1>2. What \subseteq What'
  BY <1>1 DEF What, WatcherInv
<1>3. PollOf(What) \subseteq PollOf(What')
  BY <1>2 DEF PollOf
<1>4. poll' \in [Slots -> PollOf(What')]
  BY <1>1, <1>3 DEF WatcherInv
<1>5. OnlyLooks'
  BY <1>1 DEF WatcherInv, OnlyLooks
<1>6. QED
  BY <1>1, <1>2, <1>4, <1>5 DEF WatcherInv

\* Every step of the watcher keeps the invariant.
LEMMA WatcherMovesOn ==
    ASSUME Watcher!JsWatcherAssumption, WatcherInv, [Watcher!Next]_(Watcher!vars)
    PROVE  WatcherInv'
<1>0. /\ kind \in {"policy", "switch"} /\ MaxWrites \in Nat /\ MaxStarts \in Nat
      /\ NoFile \notin Nat /\ None \notin Nat /\ None # NoFile
      /\ writes \in Nat
      /\ poll \in [Slots -> PollOf(What)]
  BY DEF Watcher!JsWatcherAssumption, WatcherInv
<1>1. CASE Watcher!Write
  <2>1. writes < MaxWrites /\ writes' = writes + 1 /\ Watcher!Change(writes')
    BY <1>1 DEF Watcher!Write
  <2>2. writes' \in 0..MaxWrites /\ writes <= writes' /\ writes' \in 0..writes'
    BY <1>0, <2>1
  <2>3. QED
    BY <2>1, <2>2, FileChanges
<1>2. CASE Watcher!Remove \/ Watcher!PutBack
  <2>1. PICK f \in 0..writes \cup {NoFile} : Watcher!Change(f)
    BY <1>2 DEF Watcher!Remove, Watcher!PutBack
  <2>2. writes' = writes
    BY <1>2 DEF Watcher!Remove, Watcher!PutBack
  <2>3. writes' \in 0..MaxWrites /\ writes <= writes' /\ f \in 0..writes' \cup {NoFile}
    BY <1>0, <2>1, <2>2 DEF WatcherInv
  <2>4. QED
    BY <2>1, <2>3, FileChanges
<1>3. CASE Watcher!stop
  BY <1>3 DEF Watcher!stop, WatcherInv, What, OnlyLooks
<1>4. ASSUME NEW p \in Slots, Watcher!start(p) PROVE WatcherInv'
  <2> DEFINE begun == [at |-> "look", told |-> None, starting |-> TRUE]
  <2>1. /\ poll' = [poll EXCEPT ![p] = begun]
        /\ kind' = kind /\ wellformed' = wellformed /\ file' = file /\ writes' = writes
        /\ running' = TRUE /\ timer' = timer /\ lost_timer' = lost_timer /\ last' = last
        /\ starts' = starts + 1 /\ starts < MaxStarts
        /\ overtaken' = overtaken /\ missed' = missed /\ applied' = applied
    BY <1>4 DEF Watcher!start, Watcher!Begin
  <2>2. begun \in PollOf(What) /\ begun.at = "look"
    BY DEF PollOf
  <2> HIDE DEF begun
  <2>3. What' = What /\ poll' \in [Slots -> PollOf(What')] /\ OnlyLooks'
    BY <2>1, <2>2, PollMoves
  <2>4. starts' \in 0..MaxStarts
    BY <1>0, <2>1 DEF WatcherInv
  <2>5. QED
    BY <2>1, <2>3, <2>4 DEF WatcherInv
<1>5. ASSUME NEW p \in Slots, Watcher!TimerFires(p) PROVE WatcherInv'
  <2> DEFINE begun == [at |-> "look", told |-> None, starting |-> FALSE]
  <2>1. /\ poll' = [poll EXCEPT ![p] = begun]
        /\ kind' = kind /\ wellformed' = wellformed /\ file' = file /\ writes' = writes
        /\ running' = running /\ timer' = timer /\ lost_timer' = lost_timer /\ last' = last
        /\ starts' = starts /\ overtaken' = overtaken /\ missed' = missed /\ applied' = applied
    BY <1>5 DEF Watcher!TimerFires, Watcher!Begin, Watcher!fields
  <2>2. begun \in PollOf(What) /\ begun.at = "look"
    BY DEF PollOf
  <2> HIDE DEF begun
  <2>3. What' = What /\ poll' \in [Slots -> PollOf(What')] /\ OnlyLooks'
    BY <2>1, <2>2, PollMoves
  <2>4. QED
    BY <2>1, <2>3 DEF WatcherInv
<1>6. ASSUME NEW p \in Slots, Watcher!Look(p) PROVE WatcherInv'
  <2> DEFINE moved == [poll[p] EXCEPT !.at = "looked", !.told = Watcher!Seen(file)]
  <2>1. /\ poll' = [poll EXCEPT ![p] = moved]
        /\ kind' = kind /\ wellformed' = wellformed /\ file' = file /\ writes' = writes
        /\ running' = running /\ timer' = timer /\ lost_timer' = lost_timer /\ last' = last
        /\ starts' = starts /\ overtaken' = overtaken /\ missed' = missed /\ applied' = applied
    BY <1>6 DEF Watcher!Look, Watcher!fields
  <2>2. poll[p] \in PollOf(What)
    BY <1>0
  <2>3. /\ Watcher!Seen(file) \in What \cup {NoFile}
        /\ kind = "switch" => Watcher!Seen(file) \in {"present", "absent"}
    BY <1>0 DEF Watcher!Seen, Watcher!Present, What, WatcherInv
  <2>4. moved \in PollOf(What) /\ moved.at = "looked" /\ moved.told = Watcher!Seen(file)
    BY <2>2, <2>3 DEF PollOf
  <2> HIDE DEF moved
  <2>5. What' = What /\ poll' \in [Slots -> PollOf(What')] /\ OnlyLooks'
    BY <2>1, <2>3, <2>4, PollMoves
  <2>6. QED
    BY <2>1, <2>5 DEF WatcherInv
<1>7. ASSUME NEW p \in Slots, Watcher!Unchanged(p) PROVE WatcherInv'
  <2>1. Watcher!Over(p) /\ applied' = applied /\ missed' = missed /\ poll[p].at = "looked"
        /\ last' = (IF kind = "policy" /\ last = None /\ poll[p].told # NoFile
                    THEN poll[p].told ELSE last)
    BY <1>7 DEF Watcher!Unchanged
  <2>2. poll[p].told \in What \cup {NoFile, None}
    BY <1>0 DEF PollOf
  <2>3. last' \in What \cup {None}
    BY <2>1, <2>2 DEF WatcherInv
  <2>4. QED
    BY <2>1, <2>3, PollEnds DEF WatcherInv
<1>8. ASSUME NEW p \in Slots, Watcher!Changed(p) PROVE WatcherInv'
  <2> DEFINE moved == [poll[p] EXCEPT !.at = "read"]
  <2>1. /\ kind = "policy" /\ last' = poll[p].told /\ poll[p].told # NoFile
        /\ poll' = [poll EXCEPT ![p] = moved]
        /\ kind' = kind /\ wellformed' = wellformed /\ file' = file /\ writes' = writes
        /\ running' = running /\ timer' = timer /\ lost_timer' = lost_timer
        /\ starts' = starts /\ overtaken' = overtaken /\ missed' = missed /\ applied' = applied
    BY <1>8 DEF Watcher!Changed
  <2>2. poll[p] \in PollOf(What)
    BY <1>0
  <2>3. moved \in PollOf(What) /\ poll[p].told \in What \cup {NoFile, None}
    BY <2>2 DEF PollOf
  <2> HIDE DEF moved
  <2>4. What' = What /\ poll' \in [Slots -> PollOf(What')] /\ OnlyLooks'
    BY <2>1, <2>3, PollMoves
  <2>5. last' \in What' \cup {None}
    BY <2>1, <2>3, <2>4
  <2>6. QED
    BY <2>1, <2>4, <2>5 DEF WatcherInv
<1>9. ASSUME NEW p \in Slots, Watcher!Toggled(p) PROVE WatcherInv'
  <2>1. /\ Watcher!Over(p) /\ missed' = missed /\ kind = "switch" /\ poll[p].at = "looked"
        /\ last' = poll[p].told /\ applied' = poll[p].told
    BY <1>9 DEF Watcher!Toggled
  <2>2. poll[p].told \in What
    BY <2>1 DEF WatcherInv, OnlyLooks, What
  <2>3. QED
    BY <2>1, <2>2, PollEnds DEF WatcherInv
<1>10. ASSUME NEW p \in Slots, Watcher!Reload(p) PROVE WatcherInv'
  <2>1. /\ Watcher!Over(p) /\ poll[p].at = "have read" /\ last' = last
        /\ applied' = (IF poll[p].told \in wellformed THEN poll[p].told ELSE applied)
        /\ missed' = (poll[p].told # last)
    BY <1>10 DEF Watcher!Reload
  <2>2. poll[p].told \in What \cup {NoFile, None} /\ kind = "policy"
    BY <1>0, <2>1 DEF PollOf, WatcherInv, OnlyLooks
  <2>3. poll[p].told \in wellformed => poll[p].told \in Nat
    <3>1. wellformed \subseteq 0..MaxWrites
      BY DEF WatcherInv
    <3>2. 0..MaxWrites \subseteq Nat
      OBVIOUS
    <3>3. QED
      BY <3>1, <3>2
  <2>4. applied' \in What
    BY <1>0, <2>1, <2>2, <2>3 DEF WatcherInv
  <2>5. missed' \in BOOLEAN
    BY <2>1
  <2>6. QED
    BY <2>1, <2>4, <2>5, PollEnds DEF WatcherInv
<1>11. CASE UNCHANGED Watcher!vars
  BY <1>11 DEF Watcher!vars, Watcher!fields, WatcherInv, What, OnlyLooks
<1>12. ASSUME NEW p \in Slots, Watcher!Read(p) PROVE WatcherInv'
  <2> DEFINE moved == [poll[p] EXCEPT !.at = "have read", !.told = file]
  <2>1. /\ poll' = [poll EXCEPT ![p] = moved]
        /\ kind' = kind /\ wellformed' = wellformed /\ file' = file /\ writes' = writes
        /\ running' = running /\ timer' = timer /\ lost_timer' = lost_timer /\ last' = last
        /\ starts' = starts /\ overtaken' = overtaken /\ missed' = missed /\ applied' = applied
    BY <1>12 DEF Watcher!Read, Watcher!fields
  <2>2. poll[p] \in PollOf(What)
    BY <1>0
  <2>3. poll[p].at = "read"
    BY <1>12 DEF Watcher!Read
  <2>4. kind = "policy"
    BY <1>0, <2>3 DEF WatcherInv, OnlyLooks
  <2>5. file \in What \cup {NoFile}
    BY <2>4 DEF What, WatcherInv
  <2>6. moved \in PollOf(What)
    BY <2>2, <2>5 DEF PollOf
  <2> HIDE DEF moved
  <2>7. What' = What /\ poll' \in [Slots -> PollOf(What')] /\ OnlyLooks'
    BY <2>1, <2>4, <2>6, PollMoves
  <2>8. QED
    BY <2>1, <2>7 DEF WatcherInv
<1>13. QED
  BY <1>1, <1>2, <1>3, <1>4, <1>5, <1>6, <1>7, <1>8, <1>9, <1>10, <1>11, <1>12
     DEF Watcher!Next, Watcher!Step
\* No poll of a policy reads the file before its mtime has been compared with another.
\* Until then, if none was missed, the file is the one that was loaded before the start.
NotedPolicy ==
    /\ \A p \in Slots : poll[p].at = "looked" => poll[p].told # None
    /\ last = None => \A p \in Slots : poll[p].at \notin {"read", "have read"}
    /\ last = None /\ ~missed =>
          /\ file = 0 /\ applied = 0
          /\ \A p \in Slots : poll[p].at = "looked" => poll[p].told = 0
    /\ last # None /\ ~missed /\ last \in wellformed
          /\ (\A p \in Slots : poll[p].at \notin {"read", "have read"})
       => applied = last

Noted ==
    /\ kind = "policy" => NotedPolicy
    /\ kind = "switch" => applied = IF last = None THEN "absent" ELSE last

\* At first nothing is noted.
LEMMA NotedStarts == Watcher!JsWatcherAssumption /\ Watcher!Init => Noted
<1> SUFFICES ASSUME Watcher!Init PROVE Noted
  OBVIOUS
<1>1. \A p \in Slots : poll[p].at = "off"
  BY DEF Watcher!Init, Watcher!NoPoll
<1>2. last = None
  BY DEF Watcher!Init
<1>3. kind = "policy" => file = 0 /\ applied = 0
  BY DEF Watcher!Init
<1>4. kind = "switch" => applied = "absent"
  BY DEF Watcher!Init
<1> QED
  BY <1>1, <1>2, <1>3, <1>4 DEF Noted, NotedPolicy

\* A step of one poll, as the invariant sees it.
LEMMA OnePoll ==
    ASSUME WatcherInv, NEW p \in Slots, NEW next, poll' = [poll EXCEPT ![p] = next]
    PROVE  /\ poll'[p] = next
           /\ \A q \in Slots : q # p => poll'[q] = poll[q]
BY DEF WatcherInv

\* A poll that ends leaves the others alone.
LEMMA OverIsOff ==
    ASSUME WatcherInv, NEW p \in Slots, Watcher!Over(p)
    PROVE  /\ poll'[p].at = "off"
           /\ \A q \in Slots : q # p => poll'[q] = poll[q]
           /\ kind' = kind /\ wellformed' = wellformed /\ file' = file
<1>1. /\ poll' = [poll EXCEPT ![p] = Watcher!NoPoll] /\ Watcher!NoPoll.at = "off"
      /\ kind' = kind /\ wellformed' = wellformed /\ file' = file
  BY DEF Watcher!Over, Watcher!NoPoll
<1> QED
  BY <1>1, OnePoll

\* Every step keeps it.  A mtime is noted by the poll that goes on to read; what it reads
\* is applied, or another poll has noted another mtime, or it is not what was noted.
LEMMA NotedMovesOn ==
    ASSUME Watcher!JsWatcherAssumption, WatcherInv, Noted, [Watcher!Next]_(Watcher!vars)
    PROVE  Noted'
<1>0. /\ kind \in {"policy", "switch"} /\ None \notin Nat /\ None # NoFile /\ NoFile \notin Nat
      /\ None \notin wellformed /\ NoFile \notin wellformed
      /\ None \notin {"present", "absent"}
  <2>1. 0..MaxWrites \subseteq Nat
    OBVIOUS
  <2> QED
    BY <2>1 DEF Watcher!JsWatcherAssumption, WatcherInv
<1>1. ASSUME NEW f, Watcher!Change(f) PROVE Noted'
  <2>1. /\ UNCHANGED <<kind, wellformed, last, poll, applied>>
        /\ missed' = (missed \/ (kind = "policy" /\ last = None))
    BY <1>1 DEF Watcher!Change, Watcher!fields
  <2> QED
    BY <2>1 DEF Noted, NotedPolicy
<1>2. CASE Watcher!stop \/ UNCHANGED Watcher!vars
  <2>1. UNCHANGED <<kind, wellformed, file, last, poll, applied, missed>>
    BY <1>2 DEF Watcher!stop, Watcher!vars, Watcher!fields
  <2> QED
    BY <2>1 DEF Noted, NotedPolicy
<1>3. ASSUME NEW p \in Slots,
             Watcher!start(p) \/ Watcher!TimerFires(p) \/ Watcher!Look(p) \/ Watcher!Read(p)
      PROVE  Noted'
  <2>1. UNCHANGED <<kind, wellformed, file, last, applied, missed>>
    BY <1>3 DEF Watcher!start, Watcher!TimerFires, Watcher!Look, Watcher!Read, Watcher!fields
  <2>2. PICK next : poll' = [poll EXCEPT ![p] = next]
    BY <1>3 DEF Watcher!start, Watcher!TimerFires, Watcher!Look, Watcher!Read, Watcher!Begin
  <2>3. \A q \in Slots : q # p => poll'[q] = poll[q]
    BY <2>2, OnePoll
  <2>4. poll[p] \in PollOf(What)
    BY DEF WatcherInv
  <2>5. /\ poll'[p].at = "looked" => poll'[p].told = Watcher!Seen(file)
        /\ poll'[p].at \in {"read", "have read"} <=> poll[p].at \in {"read", "have read"}
    <3>1. CASE Watcher!start(p) \/ Watcher!TimerFires(p)
      <4>1. poll'[p].at = "look" /\ poll[p].at = "off"
        <5>1. \E s \in BOOLEAN : poll'[p] = [at |-> "look", told |-> None, starting |-> s]
          BY <3>1, OnePoll DEF Watcher!start, Watcher!TimerFires, Watcher!Begin
        <5>2. poll[p] = Watcher!NoPoll
          BY <3>1 DEF Watcher!start, Watcher!TimerFires, Watcher!Begin
        <5> QED
          BY <5>1, <5>2 DEF Watcher!NoPoll
      <4> QED
        BY <4>1
    <3>2. CASE Watcher!Look(p)
      <4> DEFINE moved == [poll[p] EXCEPT !.at = "looked", !.told = Watcher!Seen(file)]
      <4>1. poll' = [poll EXCEPT ![p] = moved] /\ poll[p].at = "look"
        BY <3>2 DEF Watcher!Look
      <4>2. poll'[p] = moved
        <5> HIDE DEF moved
        <5> QED
          BY <4>1, OnePoll
      <4>3. moved.at = "looked" /\ moved.told = Watcher!Seen(file)
        BY <2>4 DEF PollOf
      <4> HIDE DEF moved
      <4> QED
        BY <4>1, <4>2, <4>3
    <3>3. CASE Watcher!Read(p)
      <4> DEFINE moved == [poll[p] EXCEPT !.at = "have read", !.told = file]
      <4>1. poll' = [poll EXCEPT ![p] = moved] /\ poll[p].at = "read"
        BY <3>3 DEF Watcher!Read
      <4>2. poll'[p] = moved
        <5> HIDE DEF moved
        <5> QED
          BY <4>1, OnePoll
      <4>3. moved.at = "have read" /\ moved.told = file
        BY <2>4 DEF PollOf
      <4> HIDE DEF moved
      <4> QED
        BY <4>1, <4>2, <4>3
    <3> QED
      BY <1>3, <3>1, <3>2, <3>3
  <2>6. kind = "policy" => Watcher!Seen(file) = file /\ file # None
    <3>1. file \in Nat \cup {NoFile}
      BY DEF WatcherInv
    <3> QED
      BY <1>0, <3>1 DEF Watcher!Seen
  <2> QED
    BY <2>1, <2>3, <2>5, <2>6 DEF Noted, NotedPolicy
<1>4. ASSUME NEW p \in Slots, Watcher!Unchanged(p) PROVE Noted'
  <2>1. /\ poll'[p].at = "off" /\ poll[p].at = "looked" /\ applied' = applied
        /\ \A q \in Slots : q # p => poll'[q] = poll[q]
        /\ UNCHANGED <<kind, wellformed, file, missed>>
        /\ last' = (IF kind = "policy" /\ last = None /\ poll[p].told # NoFile
                    THEN poll[p].told ELSE last)
    BY <1>4, OverIsOff DEF Watcher!Unchanged
  <2>2. CASE kind = "switch"
    BY <2>1, <2>2 DEF Noted
  <2>3. CASE kind = "policy" /\ last = None /\ poll[p].told # NoFile
    BY <1>0, <2>1, <2>3 DEF Noted, NotedPolicy
  <2>4. CASE kind = "policy" /\ last' = last
    BY <1>0, <2>1, <2>4 DEF Noted, NotedPolicy
  <2> QED
    BY <1>0, <2>1, <2>2, <2>3, <2>4
<1>5. ASSUME NEW p \in Slots, Watcher!Changed(p) PROVE Noted'
  <2>1. /\ kind = "policy" /\ poll[p].at = "looked" /\ last # None
        /\ last' = poll[p].told /\ UNCHANGED <<kind, wellformed, file, applied, missed>>
        /\ poll'[p] = [poll[p] EXCEPT !.at = "read"]
        /\ \A q \in Slots : q # p => poll'[q] = poll[q]
    BY <1>5, OnePoll DEF Watcher!Changed
  <2>2. poll'[p].at = "read"
    <3>1. poll[p] \in PollOf(What)
      BY DEF WatcherInv
    <3> QED
      BY <2>1, <3>1 DEF PollOf
  <2> QED
    BY <2>1, <2>2 DEF Noted, NotedPolicy
<1>6. ASSUME NEW p \in Slots, Watcher!Toggled(p) PROVE Noted'
  <2>1. /\ kind = "switch" /\ kind' = kind /\ poll[p].at = "looked"
        /\ last' = poll[p].told /\ applied' = poll[p].told
    BY <1>6, OverIsOff DEF Watcher!Toggled
  <2>2. poll[p].told \in {"present", "absent"}
    BY <2>1 DEF WatcherInv, OnlyLooks
  <2>3. last' # None /\ applied' = last'
    BY <1>0, <2>1, <2>2
  <2> QED
    BY <2>1, <2>3 DEF Noted
<1>7. ASSUME NEW p \in Slots, Watcher!Reload(p) PROVE Noted'
  <2>1. /\ poll'[p].at = "off" /\ poll[p].at = "have read" /\ last' = last
        /\ \A q \in Slots : q # p => poll'[q] = poll[q]
        /\ UNCHANGED <<kind, wellformed, file>>
        /\ applied' = (IF poll[p].told \in wellformed THEN poll[p].told ELSE applied)
        /\ missed' = (poll[p].told # last)
    BY <1>7, OverIsOff DEF Watcher!Reload
  <2>2. kind = "policy"
    BY <1>0, <2>1 DEF WatcherInv, OnlyLooks
  <2>3. last # None
    BY <2>1, <2>2 DEF Noted, NotedPolicy
  <2> QED
    BY <2>1, <2>2, <2>3 DEF Noted, NotedPolicy
<1> QED
  BY <1>1, <1>2, <1>3, <1>4, <1>5, <1>6, <1>7
     DEF Watcher!Next, Watcher!Step, Watcher!Write, Watcher!Remove, Watcher!PutBack

\* What was noted is in force.
LEMMA NotedTrue == Watcher!JsWatcherAssumption /\ WatcherInv /\ Noted => Watcher!NotedInForce
<1>1. Watcher!JsWatcherAssumption /\ WatcherInv => None \notin wellformed
  <2>1. 0..MaxWrites \subseteq Nat
    OBVIOUS
  <2> QED
    BY <2>1 DEF Watcher!JsWatcherAssumption, WatcherInv
<1> QED
  BY <1>1 DEF Noted, NotedPolicy, Watcher!NotedInForce
-------------------------------------------------------------------------------
(***************************************************************************)
(* The state file                                                          *)
(***************************************************************************)
\* Steps of a save.
Saving == {"temp", "written", "synced", "replaced"}

\* What a save writes is at least as new as what its writer saved before, unless
\* it is cut short.
FreshFor(w) ==
    /\ pc[w] \in Saving => engine[w] >= saved[w] /\ engine[w] > 0
    /\ pc[w] \in Saving \ {"temp"} =>
          \/ temp[w] >= saved[w] /\ temp[w] > 0
          \/ temp[w] = 0 /\ unsaved[w]
TempFresh == \A w \in Writers : FreshFor(w)

\* Once a save has replaced the file, the file is its, or a later writer's.
ReplacedBy(w) ==
    pc[w] = "replaced" =>
        state_file.by # None /\ (state_file.by = w => state_file.version = temp[w])
Replaced == \A w \in Writers : ReplacedBy(w)

\* What a file must be, for the two properties.
Kept(f) ==
    /\ f.version = 0 => f.by = None \/ unsaved[f.by]
    /\ IF f.by = None THEN \A w \in Writers : saved[w] = 0
       ELSE f.version >= saved[f.by] \/ unsaved[f.by]
AllKept == \A f \in possible : Kept(f)

\* The invariant of the state file.
StateInv == State!TypeOK /\ TempFresh /\ Replaced /\ AllKept

\* The state file starts with its types.
LEMMA TypesInit ==
    ASSUME State!StateFileAssumption, State!Init
    PROVE  State!TypeOK
BY DEF State!StateFileAssumption, State!Init, State!TypeOK, State!File

\* Its writers keep them.
LEMMA TypesStep ==
    ASSUME State!StateFileAssumption, State!TypeOK, [State!Next]_(State!vars)
    PROVE  State!TypeOK'
<1> USE DEF State!StateFileAssumption, State!TypeOK, State!disk, State!bounds, State!File
<1>1. CASE State!Publish
  BY <1>1 DEF State!Publish
<1>2. CASE State!PowerFails
  BY <1>2 DEF State!PowerFails
<1>3. ASSUME NEW w \in Writers, State!load_persisted_state(w)
      PROVE  State!TypeOK'
  BY <1>3 DEF State!load_persisted_state, State!Goes
<1>4. ASSUME NEW w \in Writers, State!Install(w)
      PROVE  State!TypeOK'
  BY <1>4 DEF State!Install, State!Goes
<1>5. ASSUME NEW w \in Writers, State!Write(w)
      PROVE  State!TypeOK'
  <2>1. pc' \in [Writers -> {"down", "up", "temp", "written", "synced", "replaced"}]
    BY <1>5 DEF State!Write, State!Goes
  <2>2. /\ temp' \in [Writers -> 0..latest] /\ unsaved' \in [Writers -> BOOLEAN]
        /\ faults' \in 0..MaxFaults
    <3>1. CASE temp' = [temp EXCEPT ![w] = engine[w]] /\ UNCHANGED <<unsaved, faults>>
      BY <3>1
    <3>2. CASE /\ faults < MaxFaults /\ faults' = faults + 1
               /\ temp' = [temp EXCEPT ![w] = 0]
               /\ unsaved' = [unsaved EXCEPT ![w] = TRUE]
      BY <3>2
    <3>3. QED
      BY <1>5, <3>1, <3>2 DEF State!Write
  <2>3. UNCHANGED <<latest, state_file, possible, engine, saved, power_failures>>
    BY <1>5 DEF State!Write
  <2>4. QED
    BY <2>1, <2>2, <2>3
<1>6. ASSUME NEW w \in Writers, State!Sync(w)
      PROVE  State!TypeOK'
  BY <1>6 DEF State!Sync, State!Goes
<1>7. ASSUME NEW w \in Writers, State!Replace(w)
      PROVE  State!TypeOK'
  BY <1>7 DEF State!Replace, State!Goes
<1>8. ASSUME NEW w \in Writers, State!_fsync_parent_dir(w)
      PROVE  State!TypeOK'
  BY <1>8 DEF State!_fsync_parent_dir, State!Saved, State!Goes
<1>9. ASSUME NEW w \in Writers, State!Fail(w)
      PROVE  State!TypeOK'
  BY <1>9 DEF State!Fail
<1>10. ASSUME NEW w \in Writers, State!Kill(w)
       PROVE  State!TypeOK'
  BY <1>10 DEF State!Kill
<1>11. CASE UNCHANGED State!vars
  BY <1>11 DEF State!vars
<1>12. QED
  BY <1>1, <1>2, <1>3, <1>4, <1>5, <1>6, <1>7, <1>8, <1>9, <1>10, <1>11 DEF State!Next, State!Step

\* There is nothing to lose at the start.
LEMMA KeptInit ==
    ASSUME State!StateFileAssumption, State!Init
    PROVE  TempFresh /\ Replaced /\ AllKept
BY DEF State!StateFileAssumption, State!Init, TempFresh, FreshFor, Saving, Replaced, ReplacedBy,
       AllKept, Kept, State!File

\* Nothing but its own steps moves a save.
LEMMA FreshStep ==
    ASSUME State!TypeOK, State!TypeOK', TempFresh, [State!Next]_(State!vars)
    PROVE  TempFresh'
<1> SUFFICES ASSUME NEW v \in Writers
             PROVE  FreshFor(v)'
  BY DEF TempFresh
<1>0. FreshFor(v)
  BY DEF TempFresh
<1> USE <1>0 DEF State!TypeOK, FreshFor, Saving
<1>1. CASE State!Publish \/ State!PowerFails \/ UNCHANGED State!vars
  BY <1>1 DEF State!Publish, State!PowerFails, State!vars, State!disk, State!bounds
<1>2. ASSUME NEW w \in Writers, State!load_persisted_state(w)
      PROVE  FreshFor(v)'
  BY <1>2 DEF State!load_persisted_state, State!Goes
<1>3. ASSUME NEW w \in Writers, State!Install(w)
      PROVE  FreshFor(v)'
  BY <1>3 DEF State!Install, State!Goes
<1>4. ASSUME NEW w \in Writers, State!Write(w)
      PROVE  FreshFor(v)'
  <2>1. CASE w = v
    BY <1>4, <2>1 DEF State!Write, State!Goes
  <2>2. CASE w # v
    BY <1>4, <2>2 DEF State!Write, State!Goes
  <2>3. QED
    BY <2>1, <2>2
<1>5. ASSUME NEW w \in Writers, State!Sync(w) \/ State!Replace(w)
      PROVE  FreshFor(v)'
  BY <1>5 DEF State!Sync, State!Replace, State!Goes, State!disk, State!bounds
<1>6. ASSUME NEW w \in Writers, State!_fsync_parent_dir(w)
      PROVE  FreshFor(v)'
  BY <1>6 DEF State!_fsync_parent_dir, State!Saved, State!Goes
<1>7. ASSUME NEW w \in Writers, State!Fail(w) \/ State!Kill(w)
      PROVE  FreshFor(v)'
  BY <1>7 DEF State!Fail, State!Kill
<1>8. QED
  BY <1>1, <1>2, <1>3, <1>4, <1>5, <1>6, <1>7 DEF State!Next, State!Step

\* A file that was replaced is not taken for an older one.
LEMMA ReplacedStep ==
    ASSUME State!StateFileAssumption, State!TypeOK, State!TypeOK', Replaced,
           [State!Next]_(State!vars)
    PROVE  Replaced'
<1> SUFFICES ASSUME NEW v \in Writers
             PROVE  ReplacedBy(v)'
  BY DEF Replaced
<1>0. ReplacedBy(v)
  BY DEF Replaced
<1> USE <1>0 DEF State!TypeOK, ReplacedBy
<1>1. CASE State!Publish \/ State!PowerFails \/ UNCHANGED State!vars
  BY <1>1 DEF State!Publish, State!PowerFails, State!vars, State!disk, State!bounds
<1>2. ASSUME NEW w \in Writers, State!load_persisted_state(w) \/ State!Install(w) \/ State!Sync(w)
      PROVE  ReplacedBy(v)'
  BY <1>2 DEF State!load_persisted_state, State!Install, State!Sync, State!Goes, State!disk
<1>3. ASSUME NEW w \in Writers, State!Write(w)
      PROVE  ReplacedBy(v)'
  BY <1>3 DEF State!Write, State!Goes, State!disk
<1>4. ASSUME NEW w \in Writers, State!Replace(w)
      PROVE  ReplacedBy(v)'
  BY <1>4 DEF State!Replace, State!Goes, State!File, State!StateFileAssumption
<1>5. ASSUME NEW w \in Writers, State!_fsync_parent_dir(w)
      PROVE  ReplacedBy(v)'
  BY <1>5 DEF State!_fsync_parent_dir, State!Goes
<1>6. ASSUME NEW w \in Writers, State!Fail(w) \/ State!Kill(w)
      PROVE  ReplacedBy(v)'
  BY <1>6 DEF State!Fail, State!Kill, State!disk
<1>7. QED
  BY <1>1, <1>2, <1>3, <1>4, <1>5, <1>6 DEF State!Next, State!Step

\* A replacement adds a file that is as it must be; the end of a save leaves only
\* the file that is there.
LEMMA KeptStep ==
    ASSUME State!StateFileAssumption, StateInv, State!TypeOK', [State!Next]_(State!vars)
    PROVE  AllKept'
<1> SUFFICES ASSUME NEW f \in possible'
             PROVE  Kept(f)'
  BY DEF AllKept
<1> USE DEF StateInv, State!TypeOK, Kept
<1>1. ASSUME possible' \subseteq possible, UNCHANGED <<saved, unsaved>>
      PROVE  Kept(f)'
  BY <1>1 DEF AllKept
<1>2. CASE State!Publish \/ State!PowerFails \/ UNCHANGED State!vars
  BY <1>1, <1>2 DEF State!Publish, State!PowerFails, State!vars, State!disk
<1>3. ASSUME NEW w \in Writers,
             State!load_persisted_state(w) \/ State!Install(w) \/ State!Sync(w) \/ State!Kill(w)
      PROVE  Kept(f)'
  BY <1>1, <1>3 DEF State!load_persisted_state, State!Install, State!Sync, State!Kill, State!disk
<1>4. ASSUME NEW w \in Writers, State!Write(w) \/ State!Fail(w)
      PROVE  Kept(f)'
  <2>1. possible' = possible /\ saved' = saved
    BY <1>4 DEF State!Write, State!Fail, State!disk
  <2>2. \A v \in Writers : unsaved[v] => unsaved'[v]
    BY <1>4 DEF State!Write, State!Fail
  <2>3. Kept(f) /\ f.by \in Writers \cup {None}
    BY <2>1 DEF AllKept
  <2>4. QED
    BY <2>1, <2>2, <2>3
<1>5. ASSUME NEW w \in Writers, State!Replace(w)
      PROVE  Kept(f)'
  <2>1. CASE f \in possible
    BY <1>5, <2>1 DEF State!Replace, AllKept
  <2>2. CASE f = state_file'
    BY <1>5, <2>2 DEF State!Replace, State!Goes, State!File, TempFresh, FreshFor, Saving,
                      State!StateFileAssumption
  <2>3. QED
    BY <1>5, <2>1, <2>2 DEF State!Replace
<1>6. ASSUME NEW w \in Writers, State!_fsync_parent_dir(w)
      PROVE  Kept(f)'
  <2>1. f = state_file /\ Kept(state_file) /\ state_file.by \in Writers
    BY <1>6 DEF State!_fsync_parent_dir, State!Goes, AllKept, Replaced, ReplacedBy
  <2>2. CASE state_file.by = w
    <3>1. state_file.version = temp[w]
      BY <1>6, <2>2 DEF State!_fsync_parent_dir, State!Goes, Replaced, ReplacedBy
    <3>2. /\ unsaved'[w] = (temp[w] = 0)
          /\ temp[w] # 0 => saved'[w] = temp[w]
      BY <1>6 DEF State!_fsync_parent_dir, State!Saved
    <3>3. QED
      BY <2>1, <2>2, <3>1, <3>2, State!StateFileAssumption DEF State!StateFileAssumption
  <2>3. CASE state_file.by # w
    <3>1. /\ unsaved'[state_file.by] = unsaved[state_file.by]
          /\ saved'[state_file.by] = saved[state_file.by]
      BY <1>6, <2>1, <2>3 DEF State!_fsync_parent_dir, State!Saved
    <3>2. QED
      BY <2>1, <3>1, State!StateFileAssumption DEF State!StateFileAssumption
  <2>4. QED
    BY <2>2, <2>3
<1>7. QED
  BY <1>2, <1>3, <1>4, <1>5, <1>6 DEF State!Next, State!Step

-------------------------------------------------------------------------------
(***************************************************************************)
(* The key file                                                            *)
(***************************************************************************)
\* Keys that were made, as files have them.
MadeKeys == [key : 1..keys_made, form : Identity!Forms]

\* The types of the key file, of its processes and of their temporary files; who has a
\* key has loaded it, or was told that it does not match.
KeyTypes ==
    /\ links \in BOOLEAN /\ keys_made \in Nat /\ io_faults \in Nat /\ outages \in Nat
    /\ key_file \in MadeKeys \cup {None}
    /\ at \in [Writers -> {"new", "making", "linking", "loading", "loaded", "failed"}]
    /\ temp_key \in [Writers -> MadeKeys \cup {None}]
    /\ held \in [Writers -> MadeKeys \cup {None}]
    /\ warned \subseteq Writers
    /\ \A w \in Writers : /\ temp_key[w] # None <=> at[w] = "linking"
                          /\ held[w] # None <=> at[w] = "loaded" \/ w \in warned
                          /\ w \in warned => at[w] \in {"loaded", "failed"}

\* A temporary file that is not whole was written short, which is a fault.
Torn ==
    /\ io_faults = 0 => torn = {}
    /\ \A w \in Writers :
          temp_key[w] # None => temp_key[w].form = "whole" \/ temp_key[w].key \in torn

\* Without hard links there is never a key file; without faults it is whole, and who
\* reads it finds it there.
Linkable ==
    /\ ~links => key_file = None /\ \A w \in Writers : held[w] = None
    /\ links /\ io_faults = 0 /\ outages = 0 =>
          /\ key_file # None => key_file.form = "whole"
          /\ \A w \in Writers : at[w] # "failed" /\ (at[w] = "loading" => key_file # None)

\* The pair that an error was about does not match, whatever becomes of the file.
Mismatched == \A w \in warned : held[w].form = "mixed"

\* The invariant of the key file.
KeyInv == KeyTypes /\ Torn /\ Linkable /\ Mismatched /\ Identity!OneKey

\* Nothing that stands for a missing file or key is one.
LEMMA NoneIsNoKey == ASSUME keys_made \in Nat PROVE None \notin MadeKeys \cup (1..keys_made)
<1>1. None \notin Nat \cup [key : Nat, form : Identity!Forms]
  BY KeyFileAssumed DEF Identity!KeyFileAssumption
<1>2. 1..keys_made \subseteq Nat
  OBVIOUS
<1>3. MadeKeys \subseteq [key : Nat, form : Identity!Forms]
  BY <1>2 DEF MadeKeys
<1>4. QED
  BY <1>1, <1>2, <1>3

\* Nobody has a key at the start.
LEMMA KeyStarts == Identity!KeyInit => KeyInv
<1> SUFFICES ASSUME Identity!KeyInit
             PROVE  KeyInv
  OBVIOUS
<1>1. KeyTypes
  BY DEF Identity!KeyInit, KeyTypes
<1>2. QED
  BY <1>1 DEF Identity!KeyInit, KeyInv, Torn, Linkable, Mismatched, Identity!OneKey

\* The steps keep the types.
LEMMA KeyTypesMove == ASSUME KeyTypes, [Identity!KeyNext]_(Identity!keyVars) PROVE KeyTypes'
<1>1. CASE UNCHANGED Identity!keyVars
  BY <1>1 DEF Identity!keyVars, KeyTypes, MadeKeys
<1>2. CASE Identity!Outage
  <2>1. UNCHANGED <<links, keys_made, io_faults>> /\ outages' = outages + 1
    BY <1>2 DEF Identity!Outage
  <2>2. key_file' \in MadeKeys' \cup {None}
    <3>1. key_file \in MadeKeys =>
              [key : {key_file.key}, form : {"short", "mixed"}] \subseteq MadeKeys
      BY DEF MadeKeys, Identity!Forms
    <3>2. QED
      BY <1>2, <2>1, <3>1 DEF Identity!Outage, KeyTypes, MadeKeys
  <2>3. QED
    BY <1>2, <2>1, <2>2 DEF Identity!Outage, KeyTypes
<1>3. CASE Identity!Delete
  BY <1>3 DEF Identity!Delete, KeyTypes, MadeKeys
<1>4. ASSUME NEW w \in Writers,
             Identity!Look(w) \/ Identity!AsksAgain(w) \/ Identity!MakeFails(w)
      PROVE  KeyTypes'
  <2>1. UNCHANGED <<links, keys_made, outages, key_file, held, warned>> /\ io_faults' \in Nat
    BY <1>4 DEF Identity!Look, Identity!AsksAgain, Identity!MakeFails, KeyTypes
  <2>2. QED
    BY <1>4, <2>1 DEF Identity!Look, Identity!AsksAgain, Identity!MakeFails, Identity!Moves,
                      KeyTypes, MadeKeys
<1>5. ASSUME NEW w \in Writers, Identity!Make(w)
      PROVE  KeyTypes'
  <2>1. /\ keys_made' = keys_made + 1 /\ io_faults' \in Nat
        /\ UNCHANGED <<links, key_file, held, warned, outages>>
        /\ at[w] = "making" /\ at' = [at EXCEPT ![w] = "linking"]
    BY <1>5 DEF Identity!Make, Identity!Moves, KeyTypes
  <2>2. PICK f : f \in {Identity!Whole(keys_made'), Identity!Short(keys_made')}
                 /\ temp_key' = [temp_key EXCEPT ![w] = f]
    BY <1>5 DEF Identity!Make
  <2>3. 1..keys_made \subseteq 1..keys_made' /\ keys_made' \in 1..keys_made'
    BY <2>1 DEF KeyTypes
  <2>4. MadeKeys \subseteq MadeKeys' /\ f \in MadeKeys'
    <3>1. [key : 1..keys_made, form : Identity!Forms]
              \subseteq [key : 1..keys_made', form : Identity!Forms]
      BY <2>3
    <3>2. \A form \in Identity!Forms :
              [key |-> keys_made', form |-> form] \in [key : 1..keys_made', form : Identity!Forms]
      BY <2>3
    <3>3. PICK form \in Identity!Forms : f = [key |-> keys_made', form |-> form]
      BY <2>2 DEF Identity!Whole, Identity!Short, Identity!Forms
    <3>4. QED
      BY <3>1, <3>2, <3>3 DEF MadeKeys
  <2>5. f # None
    BY <2>1, <2>4, NoneIsNoKey, KeyFileAssumed DEF KeyTypes, MadeKeys, Identity!KeyFileAssumption
  <2>6. QED
    BY <2>1, <2>2, <2>3, <2>4, <2>5 DEF KeyTypes
<1>6. ASSUME NEW w \in Writers, Identity!Link(w)
      PROVE  KeyTypes'
  <2>1. at[w] = "linking" /\ temp_key[w] \in MadeKeys /\ temp_key[w].key \in 1..keys_made
    <3>1. at[w] = "linking"
      BY <1>6 DEF Identity!Link, Identity!Linked, Identity!Moves
    <3>2. temp_key[w] \in MadeKeys
      BY <3>1 DEF KeyTypes
    <3>3. QED
      BY <3>1, <3>2 DEF MadeKeys
  <2>2. Identity!Whole(temp_key[w].key) \in MadeKeys
    BY <2>1 DEF MadeKeys, Identity!Whole, Identity!Forms
  <2>3. Identity!Whole(temp_key[w].key) # None
    BY <2>2, NoneIsNoKey DEF KeyTypes
  <2>4. CASE Identity!Linked(w)
    BY <2>1, <2>2, <2>3, <2>4 DEF Identity!Linked, Identity!Moves, KeyTypes, MadeKeys
  <2>5. CASE ~Identity!Linked(w)
    BY <1>6, <2>1, <2>5 DEF Identity!Link, Identity!Moves, KeyTypes, MadeKeys
  <2>6. QED
    BY <2>4, <2>5
<1>7. ASSUME NEW w \in Writers, Identity!_load_existing(w)
      PROVE  KeyTypes'
  <2>1. /\ UNCHANGED <<links, key_file, temp_key, keys_made, io_faults, outages>>
        /\ at[w] = "loading"
    BY <1>7 DEF Identity!_load_existing
  <2>2. CASE Identity!Refused
    BY <1>7, <2>1, <2>2 DEF Identity!_load_existing, KeyTypes, MadeKeys
  <2>3. CASE ~Identity!Refused
    <3>1. key_file \in MadeKeys /\ key_file # None
      BY <2>3, NoneIsNoKey DEF Identity!Refused, KeyTypes
    <3>2. held' = [held EXCEPT ![w] = key_file]
      BY <1>7, <2>3 DEF Identity!_load_existing
    <3>3. \/ at' = [at EXCEPT ![w] = "failed"] /\ warned' = warned \cup {w}
          \/ at' = [at EXCEPT ![w] = "loaded"] /\ warned' = warned
      BY <1>7, <2>3 DEF Identity!_load_existing
    <3>4. QED
      BY <2>1, <3>1, <3>2, <3>3 DEF KeyTypes, MadeKeys
  <2>4. QED
    BY <2>2, <2>3
<1>8. ASSUME NEW w \in Writers, Identity!Ends(w)
      PROVE  KeyTypes'
  BY <1>8 DEF Identity!Ends, KeyTypes, MadeKeys
<1>9. QED
  BY <1>1, <1>2, <1>3, <1>4, <1>5, <1>6, <1>7, <1>8 DEF Identity!KeyNext

\* Short writes are remembered.
LEMMA TornMoves ==
    ASSUME KeyTypes, KeyTypes', Torn, [Identity!KeyNext]_(Identity!keyVars)
    PROVE  Torn'
<1> USE DEF KeyTypes
<1>1. CASE UNCHANGED Identity!keyVars
  BY <1>1 DEF Identity!keyVars, Torn
<1>2. CASE Identity!Outage \/ Identity!Delete
  BY <1>2 DEF Identity!Outage, Identity!Delete, Torn
<1>3. ASSUME NEW w \in Writers,
             \/ Identity!Look(w) \/ Identity!AsksAgain(w) \/ Identity!MakeFails(w)
             \/ Identity!Ends(w) \/ Identity!_load_existing(w)
      PROVE  Torn'
  BY <1>3 DEF Identity!Look, Identity!AsksAgain, Identity!MakeFails, Identity!Ends,
              Identity!_load_existing, Torn
<1>4. ASSUME NEW w \in Writers, Identity!Make(w)
      PROVE  Torn'
  <2>1. CASE temp_key' = [temp_key EXCEPT ![w] = Identity!Whole(keys_made')]
             /\ UNCHANGED <<torn, io_faults>>
    BY <2>1 DEF Torn, Identity!Whole
  <2>2. CASE /\ io_faults' = io_faults + 1 /\ torn' = torn \cup {keys_made'}
             /\ temp_key' = [temp_key EXCEPT ![w] = Identity!Short(keys_made')]
    BY <2>2 DEF Torn, Identity!Short
  <2>3. QED
    BY <1>4, <2>1, <2>2 DEF Identity!Make
<1>5. ASSUME NEW w \in Writers, Identity!Link(w)
      PROVE  Torn'
  <2>1. UNCHANGED <<torn, io_faults>> /\ temp_key' = [temp_key EXCEPT ![w] = None]
    BY <1>5 DEF Identity!Link, Identity!Linked
  <2>2. QED
    BY <2>1 DEF Torn
<1>6. QED
  BY <1>1, <1>2, <1>3, <1>4, <1>5 DEF Identity!KeyNext

\* What is linked stays, and is whole but for a fault.
LEMMA LinkableMoves ==
    ASSUME KeyTypes, KeyTypes', Torn, Linkable, [Identity!KeyNext]_(Identity!keyVars)
    PROVE  Linkable'
<1> USE DEF KeyTypes
<1>1. CASE UNCHANGED Identity!keyVars
  BY <1>1 DEF Identity!keyVars, Linkable
<1>2. CASE Identity!Outage \/ Identity!Delete
  BY <1>2 DEF Identity!Outage, Identity!Delete, Linkable
<1>3. ASSUME NEW w \in Writers,
             \/ Identity!Look(w) \/ Identity!AsksAgain(w) \/ Identity!MakeFails(w)
             \/ Identity!Ends(w)
      PROVE  Linkable'
  BY <1>3 DEF Identity!Look, Identity!AsksAgain, Identity!MakeFails, Identity!Ends,
              Identity!Moves, Linkable
<1>4. ASSUME NEW w \in Writers, Identity!Make(w)
      PROVE  Linkable'
  BY <1>4 DEF Identity!Make, Identity!Moves, Linkable
<1>5. ASSUME NEW w \in Writers, Identity!_load_existing(w)
      PROVE  Linkable'
  <2>1. UNCHANGED <<links, key_file, io_faults, outages>> /\ at[w] = "loading"
    BY <1>5 DEF Identity!_load_existing
  <2>2. CASE Identity!Refused
    BY <1>5, <2>1, <2>2 DEF Identity!_load_existing, Identity!Refused, Linkable
  <2>3. CASE ~Identity!Refused
    BY <1>5, <2>1, <2>3 DEF Identity!_load_existing, Identity!Refused, Linkable
  <2>4. QED
    BY <2>2, <2>3
<1>6. ASSUME NEW w \in Writers, Identity!Link(w)
      PROVE  Linkable'
  <2>1. CASE links /\ key_file = None /\ Identity!Linked(w)
    <3>1. temp_key[w] # None
      BY <2>1 DEF Identity!Linked, Identity!Moves
    <3>2. io_faults = 0 => temp_key[w].form = "whole"
      BY <3>1 DEF Torn
    <3>3. /\ UNCHANGED <<links, io_faults, outages>> /\ key_file' = temp_key[w]
          /\ at' = [at EXCEPT ![w] = "loaded"]
      BY <2>1 DEF Identity!Linked, Identity!Moves
    <3>4. QED
      BY <2>1, <3>1, <3>2, <3>3 DEF Linkable
  <2>2. CASE /\ ~links \/ key_file # None
             /\ at' = [at EXCEPT ![w] = "loading"]
             /\ UNCHANGED <<links, key_file, held, io_faults, outages>>
    BY <2>2 DEF Linkable
  <2>3. QED
    BY <1>6, <2>1, <2>2 DEF Identity!Link, Identity!Moves
<1>7. QED
  BY <1>1, <1>2, <1>3, <1>4, <1>5, <1>6 DEF Identity!KeyNext

\* Who was told of a pair has that one, until the process ends.
LEMMA MismatchedMoves ==
    ASSUME KeyTypes, KeyTypes', Mismatched, [Identity!KeyNext]_(Identity!keyVars)
    PROVE  Mismatched'
<1> USE DEF KeyTypes, Mismatched
<1>1. CASE UNCHANGED Identity!keyVars
  BY <1>1 DEF Identity!keyVars
<1>2. CASE Identity!Outage \/ Identity!Delete
  BY <1>2 DEF Identity!Outage, Identity!Delete
<1>3. ASSUME NEW w \in Writers,
             \/ Identity!Look(w) \/ Identity!AsksAgain(w) \/ Identity!Make(w)
             \/ Identity!MakeFails(w)
      PROVE  Mismatched'
  BY <1>3 DEF Identity!Look, Identity!AsksAgain, Identity!Make, Identity!MakeFails
<1>4. ASSUME NEW w \in Writers, Identity!Link(w)
      PROVE  Mismatched'
  <2>1. at[w] = "linking" /\ w \notin warned /\ UNCHANGED warned
    BY <1>4 DEF Identity!Link, Identity!Linked, Identity!Moves
  <2>2. \A v \in Writers \ {w} : held'[v] = held[v]
    BY <1>4 DEF Identity!Link, Identity!Linked
  <2>3. QED
    BY <2>1, <2>2
<1>5. ASSUME NEW w \in Writers, Identity!_load_existing(w)
      PROVE  Mismatched'
  BY <1>5 DEF Identity!_load_existing
<1>6. ASSUME NEW w \in Writers, Identity!Ends(w)
      PROVE  Mismatched'
  BY <1>6 DEF Identity!Ends
<1>7. QED
  BY <1>1, <1>2, <1>3, <1>4, <1>5, <1>6 DEF Identity!KeyNext

\* Whoever links first, all have the key of the file, but for the two exceptions.
LEMMA OneKeyMoves ==
    ASSUME KeyTypes, KeyTypes', Torn, Mismatched, Identity!OneKey,
           [Identity!KeyNext]_(Identity!keyVars)
    PROVE  Identity!OneKey'
<1> USE DEF KeyTypes, Identity!OneKey
<1>1. CASE UNCHANGED Identity!keyVars
  BY <1>1 DEF Identity!keyVars
<1>2. CASE Identity!Outage
  BY <1>2 DEF Identity!Outage
<1>3. CASE Identity!Delete
  BY <1>3 DEF Identity!Delete
<1>4. ASSUME NEW w \in Writers,
             Identity!Look(w) \/ Identity!MakeFails(w) \/ Identity!Ends(w)
      PROVE  Identity!OneKey'
  BY <1>4 DEF Identity!Look, Identity!MakeFails, Identity!Ends, Identity!Moves
<1>5. ASSUME NEW w \in Writers, Identity!Make(w)
      PROVE  Identity!OneKey'
  <2>1. /\ UNCHANGED <<key_file, held, warned>> /\ torn \subseteq torn'
        /\ at' = [at EXCEPT ![w] = "linking"]
    BY <1>5 DEF Identity!Make, Identity!Moves
  <2>2. QED
    BY <2>1
<1>6. ASSUME NEW w \in Writers, Identity!AsksAgain(w)
      PROVE  Identity!OneKey'
  <2>1. /\ UNCHANGED <<key_file, held, warned, torn>> /\ at[w] = "failed" /\ held[w] # None
        /\ at' = [at EXCEPT ![w] = "loaded"]
    BY <1>6 DEF Identity!AsksAgain, Identity!Moves
  <2>2. w \in warned /\ held[w].form = "mixed"
    BY <2>1 DEF Mismatched
  <2>3. QED
    BY <2>1, <2>2
<1>7. ASSUME NEW w \in Writers, Identity!_load_existing(w)
      PROVE  Identity!OneKey'
  <2>1. UNCHANGED <<key_file, torn>> /\ at[w] = "loading"
    BY <1>7 DEF Identity!_load_existing
  <2>2. CASE Identity!Refused
    BY <1>7, <2>1, <2>2 DEF Identity!_load_existing
  <2>3. CASE ~Identity!Refused /\ key_file.form = "mixed"
    <3>1. /\ at' = [at EXCEPT ![w] = "failed"] /\ held' = [held EXCEPT ![w] = key_file]
          /\ warned' = warned \cup {w}
      BY <1>7, <2>3 DEF Identity!_load_existing
    <3>2. QED
      BY <2>1, <3>1
  <2>4. CASE ~Identity!Refused /\ key_file.form # "mixed"
    <3>1. key_file.form = "whole"
      BY <2>4 DEF Identity!Refused, MadeKeys, Identity!Forms
    <3>2. /\ at' = [at EXCEPT ![w] = "loaded"] /\ held' = [held EXCEPT ![w] = key_file]
          /\ UNCHANGED warned
      BY <1>7, <2>4 DEF Identity!_load_existing
    <3>3. QED
      BY <2>1, <3>1, <3>2
  <2>5. QED
    BY <2>2, <2>3, <2>4
<1>8. ASSUME NEW w \in Writers, Identity!Link(w)
      PROVE  Identity!OneKey'
  <2>1. CASE links /\ key_file = None /\ Identity!Linked(w)
    <3>1. temp_key[w] \in MadeKeys
      BY <2>1, NoneIsNoKey DEF Identity!Linked, Identity!Moves
    <3>2. temp_key[w].key \notin torn => temp_key[w] = Identity!Whole(temp_key[w].key)
      BY <3>1, NoneIsNoKey DEF Torn, Identity!Whole, MadeKeys
    <3>3. \A v \in Writers : at[v] = "loaded" => key_file # held[v]
      BY <2>1
    <3>4. /\ key_file' = temp_key[w] /\ UNCHANGED <<torn, warned>>
          /\ at' = [at EXCEPT ![w] = "loaded"]
          /\ held' = [held EXCEPT ![w] = Identity!Whole(temp_key[w].key)]
      BY <2>1 DEF Identity!Linked, Identity!Moves
    <3>5. /\ Identity!Whole(temp_key[w].key).form = "whole"
          /\ Identity!Whole(temp_key[w].key).key = temp_key[w].key
      BY DEF Identity!Whole
    <3>6. QED
      BY <3>2, <3>3, <3>4, <3>5
  <2>2. CASE /\ at' = [at EXCEPT ![w] = "loading"]
             /\ UNCHANGED <<key_file, held, warned, torn>>
    BY <2>2
  <2>3. QED
    BY <1>8, <2>1, <2>2 DEF Identity!Link, Identity!Moves
<1>9. QED
  BY <1>1, <1>2, <1>3, <1>4, <1>5, <1>6, <1>7, <1>8 DEF Identity!KeyNext

\* The invariant of the key file is inductive.
LEMMA KeyMovesOn == KeyInv /\ [Identity!KeyNext]_(Identity!keyVars) => KeyInv'
  BY KeyTypesMove, TornMoves, LinkableMoves, MismatchedMoves, OneKeyMoves DEF KeyInv

\* What the key's invariant says to those who ask for a key.
LEMMA KeyInvSuffices == KeyInv => Identity!OneKey /\ Identity!NoFalseAlarm
  BY DEF KeyInv, Linkable, Identity!NoFalseAlarm

\* A step that changes a key that is there is a power failure, or its deletion.
LEMMA KeyRests ==
    ASSUME KeyInv, [Identity!KeyNext]_(Identity!keyVars), key_file # None, key_file' # key_file
    PROVE  outages' # outages \/ key_file.form # "whole"
<1>1. outages + 1 # outages
  BY DEF KeyInv, KeyTypes
<1>2. QED
  BY <1>1 DEF Identity!KeyNext, Identity!keyVars, Identity!Outage, Identity!Delete, Identity!Look,
       Identity!AsksAgain, Identity!Make, Identity!MakeFails, Identity!Link, Identity!Linked,
       Identity!_load_existing, Identity!Ends

\* No more keys, faults and power failures than the bounds allow; a key that was
\* written short was made.
KeyBounded ==
    /\ keys_made <= MaxKeys /\ io_faults <= MaxIoFaults /\ outages <= MaxOutages
    /\ torn \subseteq 1..keys_made

\* The bounds hold at the start.
LEMMA KeyBoundsStart == Identity!KeyInit => KeyBounded
  BY KeyFileAssumed DEF Identity!KeyInit, KeyBounded, Identity!KeyFileAssumption

\* Each step that makes a key, or meets a fault, asks its bound first.
LEMMA KeyBoundsMove ==
    ASSUME KeyTypes, KeyBounded, [Identity!KeyNext]_(Identity!keyVars)
    PROVE  KeyBounded'
<1>0. /\ {MaxKeys, MaxIoFaults, MaxOutages} \subseteq Nat
      /\ keys_made \in Nat /\ io_faults \in Nat /\ outages \in Nat
  BY KeyFileAssumed DEF Identity!KeyFileAssumption, KeyTypes
<1> USE <1>0 DEF KeyBounded
<1>1. CASE UNCHANGED Identity!keyVars
  BY <1>1 DEF Identity!keyVars
<1>2. CASE Identity!Outage \/ Identity!Delete
  BY <1>2 DEF Identity!Outage, Identity!Delete
<1>3. ASSUME NEW w \in Writers,
             \/ Identity!Look(w) \/ Identity!AsksAgain(w) \/ Identity!Link(w)
             \/ Identity!_load_existing(w) \/ Identity!Ends(w)
      PROVE  KeyBounded'
  BY <1>3 DEF Identity!Look, Identity!AsksAgain, Identity!Link, Identity!Linked,
              Identity!_load_existing, Identity!Ends
<1>4. ASSUME NEW w \in Writers, Identity!MakeFails(w)
      PROVE  KeyBounded'
  BY <1>4 DEF Identity!MakeFails
<1>5. ASSUME NEW w \in Writers, Identity!Make(w)
      PROVE  KeyBounded'
  <2>1. /\ keys_made < MaxKeys /\ keys_made' = keys_made + 1 /\ UNCHANGED outages
        /\ \/ UNCHANGED <<torn, io_faults>>
           \/ /\ io_faults < MaxIoFaults /\ io_faults' = io_faults + 1
              /\ torn' = torn \cup {keys_made'}
    BY <1>5 DEF Identity!Make
  <2>2. 1..keys_made \subseteq 1..keys_made' /\ keys_made' \in 1..keys_made'
    BY <2>1
  <2>3. keys_made' <= MaxKeys /\ io_faults' <= MaxIoFaults /\ outages' <= MaxOutages
    BY <2>1
  <2>4. torn' \subseteq 1..keys_made'
    BY <2>1, <2>2
  <2>5. QED
    BY <2>3, <2>4
<1>6. QED
  BY <1>1, <1>2, <1>3, <1>4, <1>5 DEF Identity!KeyNext

\* Together they say every variable of the key file has its type.
LEMMA KeyTyped == KeyTypes /\ KeyBounded => Identity!KeyTypeOK
<1> SUFFICES ASSUME KeyTypes, KeyBounded PROVE Identity!KeyTypeOK
  OBVIOUS
<1>1. /\ keys_made \in 0..MaxKeys /\ io_faults \in 0..MaxIoFaults /\ outages \in 0..MaxOutages
  BY KeyFileAssumed DEF KeyTypes, KeyBounded, Identity!KeyFileAssumption
<1>2. QED
  BY <1>1 DEF KeyTypes, KeyBounded, MadeKeys, Identity!KeyTypeOK
-------------------------------------------------------------------------------
(***************************************************************************)
(* The composition                                                         *)
(***************************************************************************)
\* The behaviours of the composition are, for the engine, the author, the watcher
\* and each file, behaviours of its module.
LEMMA EachMoves ==
    /\ AllInit => Init /\ Watcher!Init /\ State!Init /\ Identity!KeyInit
    /\ [AllNext]_allVars => /\ [Next]_vars
                            /\ [Author!AnalysisNext]_(Author!draftVars)
                            /\ [Watcher!Next]_(Watcher!vars)
                            /\ [State!Next]_(State!vars) /\ [Identity!KeyNext]_(Identity!keyVars)
<1>1. AllInit => Init /\ Watcher!Init /\ State!Init /\ Identity!KeyInit
  BY DEF AllInit
<1> USE DEF AllNext, allVars, EngineMoves, AuthorMoves, WatcherMoves, StateMoves, KeyMoves
<1>2. [AllNext]_allVars => [Next]_vars
  BY DEF vars
<1>3. [AllNext]_allVars => [Author!AnalysisNext]_(Author!draftVars)
  BY DEF draftVars, Author!draftVars
<1>4. [AllNext]_allVars => [Watcher!Next]_(Watcher!vars)
  BY DEF watcherVars, Watcher!vars, Watcher!fields
<1>5. [AllNext]_allVars => [State!Next]_(State!vars)
  BY DEF stateVars, State!vars
<1>6. [AllNext]_allVars => [Identity!KeyNext]_(Identity!keyVars)
  BY DEF keyVars, Identity!keyVars
<1>7. QED
  BY <1>1, <1>2, <1>3, <1>4, <1>5, <1>6

\* The invariants of the engine, the author and the watcher hold together.
LEMMA PolicyInvariance ==
    AllSpec => [](EngineInv /\ CountsInv /\ AuthorInv /\ WatcherInv /\ Noted)
<1>1. AllInit => EngineInv /\ CountsInv /\ AuthorInv /\ WatcherInv /\ Noted
  BY EachMoves, EngineStarts, CountsStart, AuthorStarts, WatcherStarts, NotedStarts,
     WatcherAssumed
<1>2. EngineInv /\ CountsInv /\ [AllNext]_allVars => (EngineInv /\ CountsInv)'
  BY EachMoves, EngineMovesOn, CountsMoveOn
<1>3. AuthorInv /\ [AllNext]_allVars => AuthorInv'
  BY EachMoves, AuthorMovesOn
<1>4. WatcherInv /\ Noted /\ [AllNext]_allVars => (WatcherInv /\ Noted)'
  BY EachMoves, WatcherMovesOn, NotedMovesOn, WatcherAssumed
<1>5. QED
  BY <1>1, <1>2, <1>3, <1>4, PTL DEF AllSpec

\* So do those of the two files.
LEMMA FilesInvariance == AllSpec => [](StateInv /\ KeyInv /\ KeyBounded)
<1>1. AllInit => StateInv /\ KeyInv /\ KeyBounded
  BY EachMoves, TypesInit, KeptInit, KeyStarts, KeyBoundsStart, StateFileAssumed DEF StateInv
<1>2. StateInv /\ [AllNext]_allVars => StateInv'
  BY EachMoves, TypesStep, FreshStep, ReplacedStep, KeptStep, StateFileAssumed DEF StateInv
<1>3. KeyInv /\ KeyBounded /\ [AllNext]_allVars => (KeyInv /\ KeyBounded)'
  BY EachMoves, KeyMovesOn, KeyBoundsMove DEF KeyInv
<1>4. QED
  BY <1>1, <1>2, <1>3, PTL DEF AllSpec

\* Every variable of the state file's module keeps its type, for any number of
\* writers and faults.
THEOREM StateTypesHold == AllSpec => []State!TypeOK
<1>1. StateInv => State!TypeOK
  BY DEF StateInv
<1>2. QED
  BY <1>1, FilesInvariance, PTL

\* So does every variable of the engine, the author, the watcher and the key file,
\* for any policies, requests, drafts and bounds.
THEOREM PolicyTypesHold == AllSpec => []AllTypeOK
<1>1. CountsInv => TypeOK
  BY DEF CountsInv
<1>2. StateInv => State!TypeOK
  BY DEF StateInv
<1>3. KeyInv /\ KeyBounded => Identity!KeyTypeOK
  BY KeyTyped DEF KeyInv
<1>4. /\ CountsInv /\ AuthorInv /\ WatcherInv /\ StateInv /\ KeyInv /\ KeyBounded
      => AllTypeOK
  BY <1>1, <1>2, <1>3, AuthorTyped, WatcherTyped DEF AllTypeOK
<1>5. QED
  BY <1>4, PolicyInvariance, FilesInvariance, PTL

\* Of any policies, requests and drafts: no key lets through more calls of a window
\* than its limit says, and a merged policy counts none of them twice (evaluate_full,
\* merge_policies); hours run round the clock (time_outside_matches); what an analysis
\* warns of, and leaves unsaid, is true of the draft (analyze_policy); an empty diff
\* of drafts with distinct names means that both judge alike (diff_policies).
THEOREM PoliciesAlwaysMean == AllSpec => []PoliciesMeanWhatTheySay
<1>1. EngineInv /\ CountsInv => RulesMeanWhatTheySay
  <2>1. CountsInv => now \in Nat
    BY DEF CountsInv, TypeOK
  <2>2. QED
    BY <2>1, LimitsCounted, HoursRun DEF RulesMeanWhatTheySay
<1>2. AuthorInv => Author!AnalysisTrue /\ Author!DiffTrue
  BY AnalysisHolds, DiffHolds
<1>3. EngineInv /\ CountsInv /\ AuthorInv => PoliciesMeanWhatTheySay
  BY <1>1, <1>2 DEF PoliciesMeanWhatTheySay
<1>4. QED
  BY <1>3, PolicyInvariance, PTL

\* For any number of processes, versions, keys, faults, kills and power failures: the
\* state file is whole and as new as its writer's last save but for a short write
\* (persist_state, _fsync_parent_dir), those who make a key together have the one in
\* the file, but for a winner whose file was written short and for one that goes on with
\* a pair it was told does not match; nobody is refused a key without a fault, and no
\* process replaces it (_ensure_loaded, _load_existing).  What the JavaScript watcher has
\* noted of its file is in force, with any number of polls at a time (pollOnce).
THEOREM FilesAlwaysKept == AllSpec => FilesKept
<1>1. StateInv => State!FileWhole /\ State!SavesSurvive
  BY DEF StateInv, AllKept, Kept, State!FileWhole, State!SavesSurvive
<1>2. KeyInv => Identity!OneKey /\ Identity!NoFalseAlarm
  BY KeyInvSuffices
<1>3. KeyInv /\ [AllNext]_allVars =>
        [key_file # None /\ key_file' # key_file =>
            outages' # outages \/ key_file.form # "whole"]_(Identity!keyVars)
  BY EachMoves, KeyRests
<1>4. WatcherInv /\ Noted => Watcher!NotedInForce
  BY NotedTrue, WatcherAssumed
<1>5. QED
  BY <1>1, <1>2, <1>3, <1>4, FilesInvariance, PolicyInvariance, PTL
     DEF AllSpec, FilesKept, Identity!KeyStays
===============================================================================
