--------------------------- MODULE MCPolicyAndFiles ---------------------------
(* The policy engine, the analysis and the diff of a draft before it is        *)
(* published, and three files: the one that the JavaScript watcher reloads (or *)
(* the sentinel of its kill switch), the one that two processes save the       *)
(* control plane's policy in, and the one with their key.  Of their engines    *)
(* only the version need be known, so one of the five moves in each behaviour.  The   *)
(* drafts are all of up to three rules from fourteen, or three limits from seven,  *)
(* compared with themselves, and all pairs of up to two of seven named ones.   *)
(* One write of the watched file, which may be taken back, two start() calls and  *)
(* two polls at a time; two versions saved, three keys made, one fault and one     *)
(* power failure of each.                                                      *)
EXTENDS PolicyEngine

CONSTANTS LimitOrder,  \* calls per minute of two limits of a local file
          WatcherKinds, Slots, MaxWrites, MaxStarts, NoFile, None,
          Writers, MaxVersion, MaxFaults, MaxPowerFailures,
          MaxKeys, MaxIoFaults, MaxOutages,
          Star, Drafts

VARIABLES
    moving,  \* "engine", "analysis", "watcher", "state" or "key"
    draft, before, asked, warnings, changes,
    kind, wellformed, file, writes, running, timer, lost_timer, last, poll,
    applied, starts, overtaken, missed,
    latest, state_file, possible, pc, engine, temp, saved, unsaved, faults, power_failures,
    links, key_file, at, temp_key, held, warned, keys_made, torn, io_faults, outages

MCCovers == [p \in Patterns |-> IF p = "all" THEN Urls ELSE {"chat"}]
MCSpecificity == [p \in Patterns |-> IF p = "all" THEN 0 ELSE 2]

MCFieldOrder == <<"model", "user">>

Anything == [method |-> {}, url |-> NoPattern, body |-> {}, headers |-> {},
             time_outside |-> Always]
Matchers ==
    {[Anything EXCEPT !.method = {"post"}, !.url = "all"],
     [Anything EXCEPT !.body = {[field |-> "model", values |-> {"big"}]}],
     [Anything EXCEPT !.url = "chats",
                      !.body = {[field |-> "model", values |-> Values],
                                [field |-> "user", values |-> {"big"}]}],
     [Anything EXCEPT !.headers = {[name |-> "team", present |-> "no", values |-> {}]}],
     [Anything EXCEPT !.time_outside = [start |-> 3, end |-> 1, offset |-> -1]]}

OneLimit == <<2>>
LooserFirst == <<3, 2>>

AtMostOne == {<<>>} \cup {<<[matcher |-> m, source |-> "none"]>> : m \in Matchers}
Plain == [default : {"allow", "deny"}, mode : {"enforce", "dry_run"},
          deny : AtMostOne, allow : AtMostOne, limits : {<<>>}]
\* An organisation's default and mode never count.
PlainOrg == {p \in Plain : p.default = "deny" /\ p.mode = "enforce"}

Lim(per, field, cpm) ==
    [per |-> per, field |-> field, calls_per_minute |-> cpm, source |-> "none"]
Base == [default |-> "allow", mode |-> "enforce", deny |-> <<>>, allow |-> <<>>,
         limits |-> <<>>]
Guarded == [Base EXCEPT !.deny = <<[matcher |-> [Anything EXCEPT !.method = {"get"}],
                                    source |-> "none"]>>]
Limited == {
    <<[Guarded EXCEPT !.limits = <<Lim("global", NoField, 2)>>],
      [Base EXCEPT !.limits = <<Lim("body_field", "user", 1), Lim("global", NoField, 1)>>]>>,
    <<[Base EXCEPT !.limits = <<Lim("body_field", "user", 2), Lim("endpoint", NoField, 1)>>],
      [Base EXCEPT !.limits = <<Lim("body_field", "model", 1), Lim("endpoint", NoField, 2),
                                Lim("global", NoField, 2)>>]>>,
    <<[Guarded EXCEPT !.limits = <<Lim("endpoint", NoField, 1)>>],
      [Base EXCEPT !.mode = "dry_run", !.limits = <<Lim("global", NoField, 1)>>]>>}

MCMerged == (PlainOrg \X Plain) \cup Limited
MCReloads == Limited
MCLocals == {[Base EXCEPT !.limits = [i \in DOMAIN LimitOrder |->
                                         Lim("global", NoField, LimitOrder[i])]]}

Bodies == {NoBody, Garbled} \cup
    {[model |-> m, user |-> u] : m \in {"big", "tree"}, u \in {"big", Absent}}
MCRequests ==
    [method : {"post"}, url : Urls, body : Bodies, headers : {[team |-> Absent]}]
        \cup [method : {"get", "post"}, url : {"chat"}, body : {NoBody},
              headers : {[team |-> "small"]}]

RuleMatchers ==
    {[Anything EXCEPT !.method = {"post"}, !.url = "all"],
     [Anything EXCEPT !.method = {"get"}],
     [Anything EXCEPT !.url = "all"],
     [Anything EXCEPT !.url = "all",
                      !.headers = {[name |-> "team", present |-> "no", values |-> {}]}],
     [Anything EXCEPT !.method = {"post"}, !.url = "chats",
                      !.time_outside = [start |-> 1, end |-> 3, offset |-> 0]],
     [Anything EXCEPT !.method = {"post"}, !.url = "chats"],
     [Anything EXCEPT !.headers = {[name |-> "team", present |-> "no", values |-> {}]},
                      !.body = {[field |-> "model", values |-> {"big"}]}]}

Named(name, decides, body) == [name |-> name, kind |-> decides, body |-> body]
Draft(default, rules) == [default |-> default, mode |-> "enforce", rules |-> rules]

RuleDrafts ==
    {Draft(default, rules) : default \in {"allow", "deny"},
        rules \in BoundedSeq({Named("r", decides, m) : decides \in {"deny", "allow"}, m \in RuleMatchers}, 3)}
LimitDrafts ==
    {Draft("allow", rules) : rules \in BoundedSeq(
        {Named("r", "limit", Lim("global", NoField, n)) : n \in {1, 2}}
            \cup {Named("r", "limit", Lim("endpoint", NoField, 1))}
            \cup {Named("r", "limit", Lim("body_field", "user", n)) : n \in {1, 2}}
            \cup {Named("r", "limit", Lim("body_field", "model", 1)),
                  Named("r", "limit", Lim("global", "user", 2))}, 3)}
NamedDrafts ==
    {Draft("allow", rules) : rules \in BoundedSeq(
        {Named(n, decides, [Anything EXCEPT !.method = {"post"}]) :
            n \in {"r", "s"}, decides \in {"deny", "allow"}}
        \cup {Named(n, "deny", [Anything EXCEPT !.method = {"get"}]) : n \in {"r", "s"}}
        \cup {Named("r", "limit", Lim("global", NoField, 1))}, 2)}

MCDrafts == {<<d, d>> : d \in RuleDrafts \cup LimitDrafts}
                \cup (NamedDrafts \X NamedDrafts)
AnyDraft == <<Draft("allow", <<>>), Draft("allow", <<>>)>>

Author == INSTANCE PolicyAnalysis
Watcher == INSTANCE JsFileWatcher
State == INSTANCE StateFile WITH file <- state_file
Identity == INSTANCE KeyFile WITH Processes <- Writers

ASSUME DraftsAssumed == Author!DraftsAssumption
ASSUME WatcherAssumed == Watcher!JsWatcherAssumption
ASSUME StateFileAssumed == State!StateFileAssumption
ASSUME KeyFileAssumed == Identity!KeyFileAssumption

watcherVars == <<kind, wellformed, file, writes, running, timer, lost_timer, last, poll,
                 applied, starts, overtaken, missed>>
draftVars == <<draft, before, asked, warnings, changes>>
stateVars == <<latest, state_file, possible, pc, engine, temp, saved, unsaved, faults,
               power_failures>>
keyVars == <<links, key_file, at, temp_key, held, warned, keys_made, torn, io_faults, outages>>
allVars == <<moving, vars, draftVars, watcherVars, stateVars, keyVars>>

EngineMoves(A) ==
    moving = "engine" /\ A /\ UNCHANGED <<moving, draftVars, watcherVars, stateVars, keyVars>>
AuthorMoves(A) ==
    moving = "analysis" /\ A /\ UNCHANGED <<moving, vars, watcherVars, stateVars, keyVars>>
WatcherMoves(A) ==
    moving = "watcher" /\ A /\ UNCHANGED <<moving, vars, draftVars, stateVars, keyVars>>
StateMoves(A) ==
    moving = "state" /\ A /\ UNCHANGED <<moving, vars, draftVars, watcherVars, keyVars>>
KeyMoves(A) ==
    moving = "key" /\ A /\ UNCHANGED <<moving, vars, draftVars, watcherVars, stateVars>>

AnyLocal == CHOOSE p \in Locals : TRUE

\* What those that stay put start with makes no difference.
AllInit ==
    /\ moving \in {"engine", "analysis", "watcher", "state", "key"}
    /\ Init
    /\ moving # "engine" => org = NoPolicy /\ policy = AnyLocal /\ kill_switch
    /\ IF moving = "analysis" THEN Author!AnalysisInit
       ELSE /\ before = AnyDraft[1] /\ draft = AnyDraft[2]
            /\ asked = "nothing" /\ warnings = {} /\ changes = Author!NoChanges
    /\ Watcher!Init /\ State!Init /\ Identity!KeyInit
    /\ moving # "watcher" => kind = "switch"
    /\ moving # "key" => links

AllNext ==
    \/ EngineMoves(Next) \/ AuthorMoves(Author!AnalysisNext)
    \/ WatcherMoves(Watcher!Next) \/ StateMoves(State!Next)
    \/ KeyMoves(Identity!KeyNext)

\* The file system answers, timers fire when a slot is free, and a save goes on
\* until it is over or fails.
AllFairness ==
    /\ \A p \in Slots : /\ WF_allVars(WatcherMoves(Watcher!Step(p)))
                        /\ WF_allVars(WatcherMoves(Watcher!TimerFires(p)))
    /\ \A w \in Writers : WF_allVars(StateMoves(State!Step(w)))

AllSpec == AllInit /\ [][AllNext]_allVars /\ AllFairness

\* Every variable of the engine, of the watcher and of the two files has its type.
AllTypeOK ==
    TypeOK /\ Author!AnalysisTypeOK /\ Watcher!TypeOK /\ State!TypeOK /\ Identity!KeyTypeOK

\* A policy says the same to its author and to the engine: its rules mean what they
\* say, and so do the analysis of a draft and its difference from the one before
\* (evaluate_full, merge_policies, analyze_policy, diff_policies).
PoliciesMeanWhatTheySay == RulesMeanWhatTheySay /\ Author!AnalysisTrue /\ Author!DiffTrue

\* Those that fall behind catch up.  A running file watcher ends up with the policy,
\* or the switch, that the file system holds, however slow and overlapping its polls,
\* but for a policy that was missed; a stopped one comes to rest, unless stop()
\* overtook start() (start, stop, pollOnce).  An older version that a slower writer
\* put into the state file gives way to the newest, unless that writer ends or its
\* save fails (persist_state, _apply_policy_update).
StragglersCatchUp == Watcher!Follows /\ Watcher!WindsDown /\ State!CatchesUp

\* Whatever crashes, the state file is whole and as new as the last save of the
\* writer it is from, but for a short write (persist_state, _fsync_parent_dir).
\* Processes that make the key file together all have the key in it, which is never
\* replaced, but for a winner whose file was written short and for one that goes on with
\* a pair it was told does not match (_ensure_loaded, _load_existing).  And what a file
\* watcher has noted of its file is in force (pollOnce).
FilesKept ==
    /\ [](State!FileWhole /\ State!SavesSurvive)
    /\ [](Identity!OneKey /\ Identity!NoFalseAlarm) /\ Identity!KeyStays
    /\ []Watcher!NotedInForce
===============================================================================
