----------------------------- MODULE ProcessProofs -----------------------------
(***************************************************************************)
(* Proofs about what shares one Python process: the circuit breaker, for   *)
(* any finite set of clients, any threshold and any reset window; the two  *)
(* file watchers, for either backend and any number of writes, changes and *)
(* failures; and the threads of a control receiver, for any number of      *)
(* starts, stops and forks.                                                *)
(***************************************************************************)
EXTENDS MCProcess, FiniteSetTheorems, TLAPS

-------------------------------------------------------------------------------
(* The circuit breaker. *)

\* Every variable keeps its type.
THEOREM BreakerTypeCorrect == Spec => []TypeOK
<1>1. Init => TypeOK
  BY BreakerAssumption DEF Init, TypeOK
<1>2. TypeOK /\ [Next]_vars => TypeOK'
  <2> SUFFICES ASSUME TypeOK, [Next]_vars
               PROVE  TypeOK'
    OBVIOUS
  <2> USE BreakerAssumption DEF TypeOK
  <2>1. CASE Tick
    BY <2>1 DEF Tick, Refusing
  <2>2. ASSUME NEW c \in Clients, Allow(c)
        PROVE  TypeOK'
    BY <2>2 DEF Allow, AllowClosed, AllowHalfOpen, AllowElapsed
  <2>3. ASSUME NEW c \in Clients, record_success(c)
        PROVE  TypeOK'
    BY <2>3 DEF record_success
  <2>4. ASSUME NEW c \in Clients, record_failure(c)
        PROVE  TypeOK'
    BY <2>4 DEF record_failure, Bump, Opens, Streaming
  <2>5. ASSUME NEW c \in Clients, Abandon(c)
        PROVE  TypeOK'
    BY <2>5 DEF Abandon
  <2>6. ASSUME NEW c \in Clients, Flip(c)
        PROVE  TypeOK'
    BY <2>6 DEF Flip
  <2>7. CASE UNCHANGED vars
    BY <2>7 DEF vars
  <2>8. QED
    BY <2>1, <2>2, <2>3, <2>4, <2>5, <2>6, <2>7 DEF Next, Report
<1>3. QED
  BY <1>1, <1>2, PTL DEF Spec

\* The breaker's fields agree in every reachable state: FieldsAgree is
\* inductive once the types are known.
THEOREM FieldsAlwaysAgree == Spec => []FieldsAgree
<1>1. Init => FieldsAgree
  BY BreakerAssumption DEF Init, FieldsAgree
<1>2. TypeOK /\ FieldsAgree /\ [Next]_vars => FieldsAgree'
  <2> SUFFICES ASSUME TypeOK, FieldsAgree, [Next]_vars
               PROVE  FieldsAgree'
    OBVIOUS
  <2> USE BreakerAssumption DEF TypeOK, FieldsAgree
  <2>1. CASE Tick
    BY <2>1 DEF Tick
  <2>2. ASSUME NEW c \in Clients, Allow(c)
        PROVE  FieldsAgree'
    BY <2>2 DEF Allow, AllowClosed, AllowHalfOpen, AllowElapsed
  <2>3. ASSUME NEW c \in Clients, record_success(c)
        PROVE  FieldsAgree'
    BY <2>3 DEF record_success
  <2>4. ASSUME NEW c \in Clients, record_failure(c)
        PROVE  FieldsAgree'
    BY <2>4 DEF record_failure, Bump, Opens
  <2>5. ASSUME NEW c \in Clients, Abandon(c) \/ Flip(c)
        PROVE  FieldsAgree'
    BY <2>5 DEF Abandon, Flip
  <2>6. CASE UNCHANGED vars
    BY <2>6 DEF vars
  <2>7. QED
    BY <2>1, <2>2, <2>3, <2>4, <2>5, <2>6 DEF Next, Report
<1>3. QED
  BY <1>1, <1>2, BreakerTypeCorrect, PTL DEF Spec

-------------------------------------------------------------------------------
\* The reports of failure that may still come: one of each attempt in flight, and
\* another of a receiver whose stream has not failed yet.
Reports == Cardinality(InFlight) + Cardinality(Streaming)
AllReports == Cardinality(Clients) + Cardinality(Receivers)

\* The strengthening of RefusalBounded: while the circuit is open, the ticks refused so
\* far, the rest of the current window, and one window for each report that may still
\* re-arm it, add up to at most one window per report.
Budget ==
    /\ state # "open" => refusedFor = 0
    /\ state = "open" =>
          refusedFor + (ResetAfter - age) + ResetAfter * Reports <= ResetAfter * AllReports

\* The attempts in flight are finitely many, and no more than the clients.
LEMMA InFlightFinite ==
    /\ IsFiniteSet(InFlight) /\ IsFiniteSet(Streaming)
    /\ {Cardinality(Clients), Cardinality(Receivers)} \subseteq Nat
    /\ {Cardinality(InFlight), Cardinality(Streaming)} \subseteq Nat
    /\ Cardinality(InFlight) <= Cardinality(Clients)
    /\ Cardinality(Streaming) <= Cardinality(Receivers)
<1>1. /\ InFlight \subseteq Clients /\ Streaming \subseteq Receivers
      /\ Receivers \subseteq Clients /\ IsFiniteSet(Clients)
  BY BreakerAssumption DEF InFlight, Streaming
<1>2. /\ IsFiniteSet(Receivers) /\ IsFiniteSet(InFlight)
      /\ Cardinality(InFlight) <= Cardinality(Clients)
  BY <1>1, FS_Subset
<1>3. IsFiniteSet(Streaming) /\ Cardinality(Streaming) <= Cardinality(Receivers)
  BY <1>1, <1>2, FS_Subset
<1> QED
  BY <1>1, <1>2, <1>3, FS_CardinalityType

\* There are no more reports to come than there are reports in all.
LEMMA ReportsBounded == Reports \in Nat /\ AllReports \in Nat /\ Reports <= AllReports
  BY InFlightFinite DEF Reports, AllReports

\* A client that reports, or never will, has at least one report fewer to make.
LEMMA AttemptEnds ==
    ASSUME TypeOK, NEW c \in Clients, c \in InFlight,
           \/ pc' = [pc EXCEPT ![c] = "idle"]
           \/ pc' = [pc EXCEPT ![c] = "gone"]
           \/ c \in Streaming /\ pc' = [pc EXCEPT ![c] = "polling"]
    PROVE  Reports' \in Nat /\ Reports' + 1 <= Reports
<1>0. /\ IsFiniteSet(InFlight) /\ IsFiniteSet(Streaming)
      /\ Cardinality(InFlight) \in Nat /\ Cardinality(Streaming) \in Nat
  BY InFlightFinite
<1>1. CASE c \in Streaming /\ pc' = [pc EXCEPT ![c] = "polling"]
  <2>1. InFlight' = InFlight /\ Streaming' = Streaming \ {c}
    BY <1>1 DEF InFlight, Streaming, TypeOK
  <2>2. Cardinality(Streaming \ {c}) = Cardinality(Streaming) - 1
    BY <1>0, <1>1, FS_RemoveElement
  <2>3. Cardinality(Streaming \ {c}) \in Nat
    BY <1>0, FS_RemoveElement, FS_CardinalityType
  <2> QED
    BY <1>0, <2>1, <2>2, <2>3 DEF Reports
<1>2. CASE pc' = [pc EXCEPT ![c] = "idle"] \/ pc' = [pc EXCEPT ![c] = "gone"]
  <2>1. InFlight' = InFlight \ {c} /\ Streaming' = Streaming \ {c}
    BY <1>2, BreakerAssumption DEF InFlight, Streaming, TypeOK
  <2>2. /\ Cardinality(InFlight \ {c}) = Cardinality(InFlight) - 1
        /\ IsFiniteSet(InFlight \ {c}) /\ IsFiniteSet(Streaming \ {c})
    BY <1>0, FS_RemoveElement
  <2>3. Cardinality(Streaming \ {c}) <= Cardinality(Streaming)
    BY <1>0, FS_Subset
  <2>4. Cardinality(InFlight \ {c}) \in Nat /\ Cardinality(Streaming \ {c}) \in Nat
    BY <2>2, FS_CardinalityType
  <2> QED
    BY <1>0, <2>1, <2>2, <2>3, <2>4 DEF Reports
<1> QED
  BY <1>1, <1>2

\* Fewer than what is bounded is below the bound.
LEMMA FewerStill ==
    ASSUME NEW l \in Nat, NEW m \in Nat, NEW n \in Nat, l + 1 <= m, m <= n
    PROVE  l + 1 <= n
  OBVIOUS

\* A report fewer is a window fewer.
LEMMA WindowFewer ==
    ASSUME NEW m \in Nat, NEW n \in Nat, m + 1 <= n
    PROVE  /\ ResetAfter \in Nat
           /\ ResetAfter * m \in Nat /\ ResetAfter * n \in Nat
           /\ ResetAfter * m + ResetAfter <= ResetAfter * n
<1>1. ResetAfter \in Nat
  BY BreakerAssumption
<1>2. ResetAfter * (m + 1) <= ResetAfter * n
  BY <1>1
<1> QED
  BY <1>1, <1>2

\* The refusals of an outage are bounded by one reset window per client and another per
\* control receiver, however many late failures re-arm the window (record_failure,
\* _run_loop).
THEOREM RefusalAlwaysBounded == Spec => []RefusalBounded
<1>1. Init => Budget
  BY DEF Init, Budget
<1>2. TypeOK /\ FieldsAgree /\ Budget /\ [Next]_vars => Budget'
  <2> SUFFICES ASSUME TypeOK, FieldsAgree, Budget, [Next]_vars
               PROVE  Budget'
    OBVIOUS
  <2>0. /\ ResetAfter \in Nat /\ age \in 0..ResetAfter /\ refusedFor \in Nat
        /\ Reports \in Nat /\ AllReports \in Nat /\ Reports <= AllReports
        /\ AllReports' = AllReports
    BY BreakerAssumption, ReportsBounded DEF TypeOK, AllReports
  <2>1. CASE Tick
    <3>1. Reports' = Reports
      BY <2>1 DEF Tick, Reports, InFlight, Streaming
    <3>2. ResetAfter * Reports \in Nat /\ ResetAfter * AllReports \in Nat
      BY <2>0
    <3>3. QED
      BY <2>0, <2>1, <3>1, <3>2 DEF Tick, Budget, Refusing
  <2>2. ASSUME NEW c \in Clients, Allow(c)
        PROVE  Budget'
    BY <2>2 DEF Allow, AllowClosed, AllowHalfOpen, AllowElapsed, Budget
  <2>3. ASSUME NEW c \in Clients, record_success(c)
        PROVE  Budget'
    BY <2>3 DEF record_success, Budget
  <2>4. ASSUME NEW c \in Clients, record_failure(c)
        PROVE  Budget'
    <3>1. Reports' \in Nat /\ Reports' + 1 <= Reports
      BY <2>4, AttemptEnds DEF record_failure
    <3>2. /\ ResetAfter * Reports' \in Nat /\ ResetAfter * Reports \in Nat
          /\ ResetAfter * Reports' + ResetAfter <= ResetAfter * Reports
      BY <2>0, <3>1, WindowFewer
    <3>3. /\ ResetAfter * AllReports \in Nat
          /\ ResetAfter * Reports' + ResetAfter <= ResetAfter * AllReports
      BY <3>1, ReportsBounded, FewerStill, WindowFewer
    <3>4. CASE Opens
      BY <2>0, <2>4, <3>2, <3>3, <3>4 DEF record_failure, Budget
    <3>5. CASE ~Opens
      <4>1. state # "open"
        BY <3>5, BreakerAssumption DEF Opens, Bump, FieldsAgree, TypeOK
      <4>2. QED
        BY <2>4, <3>5, <4>1 DEF record_failure, Budget
    <3>6. QED
      BY <3>4, <3>5
  <2>5. ASSUME NEW c \in Clients, Abandon(c)
        PROVE  Budget'
    <3>1. Reports' \in Nat /\ Reports' + 1 <= Reports
      BY <2>5, AttemptEnds DEF Abandon
    <3>2. /\ ResetAfter * Reports' \in Nat /\ ResetAfter * Reports \in Nat
          /\ ResetAfter * Reports' + ResetAfter <= ResetAfter * Reports
      BY <2>0, <3>1, WindowFewer
    <3>3. ResetAfter * AllReports \in Nat
      BY <2>0
    <3>4. QED
      BY <2>0, <2>5, <3>2, <3>3 DEF Abandon, Budget
  <2>6. ASSUME NEW c \in Clients, Flip(c)
        PROVE  Budget'
    BY <2>0, <2>6 DEF Flip, Budget, Reports, InFlight, Streaming
  <2>7. CASE UNCHANGED vars
    BY <2>0, <2>7 DEF vars, Budget, Reports, InFlight, Streaming
  <2>8. QED
    BY <2>1, <2>2, <2>3, <2>4, <2>5, <2>6, <2>7 DEF Next, Report
<1>3. TypeOK /\ Budget => RefusalBounded
  <2> SUFFICES ASSUME TypeOK, Budget
               PROVE  RefusalBounded
    OBVIOUS
  <2>1. /\ ResetAfter \in Nat /\ age \in 0..ResetAfter /\ refusedFor \in Nat
        /\ Reports \in Nat /\ AllReports \in Nat
    BY BreakerAssumption, ReportsBounded DEF TypeOK
  <2>2. ResetAfter * Reports \in Nat /\ ResetAfter * AllReports \in Nat
    BY <2>1
  <2>3. QED
    BY <2>1, <2>2 DEF Budget, RefusalBounded, AllReports
<1>4. QED
  BY <1>1, <1>2, <1>3, BreakerTypeCorrect, FieldsAlwaysAgree, PTL DEF Spec

-------------------------------------------------------------------------------
(* The watcher of the policy file. *)

\* What its type invariant needs to be inductive: a removal is followed by a write, which
\* bounds the events; a poll has looked at the file before it reads it.
PolicyShape ==
    /\ policy_file = NoFile => policy_writes < MaxWrites
    /\ policy_events <= 2 * policy_writes + (IF policy_file = NoFile THEN 1 ELSE 0)
    /\ \A t \in Policy!Threads :
          policy_pc[t] \in {"newer", "read", "settle"} => policy_current[t] \in Policy!Contents

\* What a poll that got past the parser holds has been parsed, and so has the policy in
\* force, whatever became of the file since.
Parsed ==
    /\ policy_in_force \in policy_wellformed
    /\ \A t \in Policy!Threads :
          policy_pc[t] \in {"settle", "reload", "note"} => policy_content[t] \in policy_wellformed

PolicyInv == Policy!TypeOK /\ PolicyShape /\ Parsed

\* It holds when the engine has been initialised with the file.
LEMMA PolicyStarts == Policy!Init => PolicyInv
<1> SUFFICES ASSUME Policy!Init PROVE PolicyInv
  OBVIOUS
<1>1. MaxWrites \in Nat /\ NoFile \notin Nat /\ 0 \in Policy!Contents
  BY PolicyWatcherAssumed DEF Policy!WatcherAssumption, Policy!Contents
<1>2. Policy!TypeOK
  <2>1. 0 \in 0..2 * MaxWrites
    BY <1>1
  <2> QED
    BY <1>1, <2>1 DEF Policy!Init, Policy!TypeOK, Policy!Threads
<1>3. PolicyShape /\ Parsed
  BY <1>1 DEF Policy!Init, PolicyShape, Parsed, Policy!Threads, Policy!Contents
<1> QED
  BY <1>2, <1>3 DEF PolicyInv

\* What every step starts from, the constants included; a modification time is the number
\* of some write.
LEMMA PolicyFacts ==
    ASSUME PolicyInv
    PROVE  /\ MaxWrites \in Nat /\ NoFile \notin Nat /\ Policy!Contents \subseteq Nat
           /\ policy_writes \in Nat /\ policy_writes <= MaxWrites /\ policy_events \in Nat
           /\ policy_file # NoFile => Policy!SafeMtime \in Policy!Contents
           /\ policy_file = NoFile => Policy!SafeMtime = NoFile
           /\ NoFile \notin Policy!Contents
<1>1. MaxWrites \in Nat /\ NoFile \notin Nat /\ Policy!Contents = 0..MaxWrites
  BY PolicyWatcherAssumed DEF Policy!WatcherAssumption, Policy!Contents
<1> QED
  BY <1>1 DEF PolicyInv, Policy!TypeOK, Policy!SafeMtime, Policy!Mtime

\* A write of the file.
LEMMA PolicyWritten == PolicyInv /\ Policy!Write => PolicyInv'
<1> SUFFICES ASSUME PolicyInv, Policy!Write PROVE PolicyInv'
  OBVIOUS
<1>1. /\ MaxWrites \in Nat /\ Policy!Contents = 0..MaxWrites /\ NoFile \notin Nat
      /\ policy_writes \in Nat /\ policy_events \in Nat
  BY PolicyFacts DEF Policy!Contents
<1>2. /\ policy_writes' = policy_writes + 1 /\ policy_file' = policy_writes + 1
      /\ policy_writes < MaxWrites
      /\ policy_events' \in {policy_events, policy_events + 1}
      /\ UNCHANGED <<policy_wellformed, policy_in_force, policy_pc, policy_current,
                     policy_content, policy_overtaken>>
  BY DEF Policy!Write, Policy!Observed, Policy!locals
<1>3. policy_backdated' \subseteq Policy!Contents /\ policy_unsafe' \subseteq Policy!Contents
  BY <1>1 DEF Policy!Write, PolicyInv, Policy!TypeOK
<1>4. PolicyShape'
  BY <1>1, <1>2 DEF PolicyInv, PolicyShape, Policy!Contents, Policy!Threads
<1>5. Parsed'
  BY <1>2 DEF PolicyInv, Parsed, Policy!Threads
<1>6. policy_events' \in 0..2 * MaxWrites
  <2>1. policy_file' # NoFile
    BY <1>1, <1>2
  <2>2. policy_events' <= 2 * policy_writes'
    BY <1>1, <1>2, <1>4, <2>1 DEF PolicyShape
  <2> QED
    BY <1>1, <1>2, <2>2
<1>7. policy_writes' \in Policy!Contents /\ policy_file' \in Policy!Contents
  BY <1>1, <1>2
<1>8. Policy!TypeOK'
  BY <1>1, <1>3, <1>6, <1>7
     DEF Policy!Write, PolicyInv, Policy!TypeOK, Policy!locals, Policy!Contents, Policy!Threads
<1> QED
  BY <1>4, <1>5, <1>8 DEF PolicyInv

\* The file's removal.
LEMMA PolicyRemoved == PolicyInv /\ Policy!Remove => PolicyInv'
<1> SUFFICES ASSUME PolicyInv, Policy!Remove PROVE PolicyInv'
  OBVIOUS
<1>1. /\ MaxWrites \in Nat /\ policy_writes \in Nat /\ policy_events \in Nat
  BY PolicyFacts
<1>2. /\ policy_file # NoFile /\ policy_file' = NoFile /\ policy_writes < MaxWrites
      /\ policy_events' \in {policy_events, policy_events + 1}
      /\ UNCHANGED <<policy_writes, policy_wellformed, policy_in_force, policy_pc,
                     policy_current, policy_content>>
  BY DEF Policy!Remove, Policy!Observed, Policy!locals
<1>3. PolicyShape'
  BY <1>1, <1>2 DEF PolicyInv, PolicyShape, Policy!Contents, Policy!Threads
<1>4. Parsed'
  BY <1>2 DEF PolicyInv, Parsed, Policy!Threads
<1>5. policy_events' \in 0..2 * MaxWrites
  BY <1>1, <1>2, <1>3 DEF PolicyShape
<1>6. Policy!TypeOK'
  BY <1>2, <1>5
     DEF Policy!Remove, PolicyInv, Policy!TypeOK, Policy!locals, Policy!Contents, Policy!Threads
<1> QED
  BY <1>3, <1>4, <1>6 DEF PolicyInv

\* The watcher is constructed and started, and the observer takes an event.
LEMMA PolicyWoken ==
    PolicyInv /\ (Policy!Construct \/ Policy!Start \/ Policy!Wake) => PolicyInv'
<1> SUFFICES ASSUME PolicyInv, Policy!Construct \/ Policy!Start \/ Policy!Wake PROVE PolicyInv'
  OBVIOUS
<1>1. /\ MaxWrites \in Nat /\ policy_writes \in Nat /\ policy_events \in Nat
      /\ Policy!SafeMtime \in Policy!Contents \cup {NoFile}
  BY PolicyFacts
<1>2. /\ UNCHANGED <<Policy!env, policy_in_force, policy_installer, Policy!locals, policy_overtaken,
                     policy_unsafe>>
      /\ policy_last_mtime' \in Policy!Contents \cup {NoFile}
      /\ policy_events' \in 0..policy_events
      /\ \E t \in Policy!Threads, step \in {"start", "stat"} :
            policy_pc' = [policy_pc EXCEPT ![t] = step]
  BY <1>1 DEF Policy!Construct, Policy!Start, Policy!Wake, Policy!Goto, Policy!Threads,
              PolicyInv, Policy!TypeOK
<1>3. PolicyShape'
  BY <1>1, <1>2
     DEF PolicyInv, PolicyShape, Policy!env, Policy!locals, Policy!Contents, Policy!Threads,
         Policy!TypeOK
<1>4. Parsed'
  BY <1>2 DEF PolicyInv, Parsed, Policy!env, Policy!locals, Policy!Threads, Policy!TypeOK
<1>5. policy_events' \in 0..2 * MaxWrites
  BY <1>1, <1>2 DEF PolicyInv, Policy!TypeOK
<1>6. Policy!TypeOK'
  BY <1>2, <1>5
     DEF PolicyInv, Policy!TypeOK, Policy!env, Policy!locals, Policy!Contents, Policy!Threads
<1> QED
  BY <1>3, <1>4, <1>6 DEF PolicyInv

\* A step of a poll changes the thread's own step and local variables, and the mtime goes
\* to where the contents are read, the contents to where they are installed.
LEMMA PollMoves ==
    ASSUME PolicyInv, NEW t \in Policy!Threads, Policy!Step(t)
    PROVE  /\ UNCHANGED <<Policy!env, policy_events, policy_unsafe>>
           /\ \E step \in {"waiting", "stat", "done", "compare", "newer", "read", "settle",
                           "reload", "note", "dead"},
                 mtime \in Policy!Contents \cup {NoFile}, new \in Policy!Contents \cup {NoFile},
                 settled \in Policy!Contents \cup {NoFile} :
                 /\ policy_pc' = [policy_pc EXCEPT ![t] = step]
                 /\ policy_current' = [policy_current EXCEPT ![t] = mtime]
                 /\ policy_content' = [policy_content EXCEPT ![t] = new]
                 /\ policy_settled' = [policy_settled EXCEPT ![t] = settled]
                 /\ step \in {"newer", "read", "settle"} => mtime \in Policy!Contents
                 /\ step \in {"settle", "reload", "note"} => new \in policy_wellformed
                 /\ step \in {"reload", "note"} => settled \in Policy!Contents
<1>1. /\ policy_file # NoFile => Policy!SafeMtime \in Policy!Contents
      /\ policy_file = NoFile => Policy!SafeMtime = NoFile
      /\ NoFile \notin Policy!Contents
  BY PolicyFacts
<1>2. Policy!After(t) \in {"waiting", "stat", "done"}
  BY DEF Policy!After
<1>3. /\ policy_current = [policy_current EXCEPT ![t] = policy_current[t]]
      /\ policy_content = [policy_content EXCEPT ![t] = policy_content[t]]
      /\ policy_settled = [policy_settled EXCEPT ![t] = policy_settled[t]]
      /\ policy_current[t] \in Policy!Contents \cup {NoFile}
      /\ policy_content[t] \in Policy!Contents \cup {NoFile}
      /\ policy_settled[t] \in Policy!Contents \cup {NoFile}
  BY DEF PolicyInv, Policy!TypeOK
<1> USE DEF Policy!Goto, Policy!Return, Policy!locals
<1>4. CASE Policy!Stat(t)
  BY <1>1, <1>3, <1>4 DEF Policy!Stat
<1>5. CASE Policy!Compare(t)
  BY <1>1, <1>2, <1>3, <1>5 DEF Policy!Compare
<1>6. CASE Policy!Newer(t)
  BY <1>1, <1>2, <1>3, <1>6 DEF Policy!Newer, PolicyInv, PolicyShape
<1>7. CASE Policy!Read(t)
  BY <1>1, <1>2, <1>3, <1>7 DEF Policy!Read, PolicyInv, PolicyShape, Policy!TypeOK
<1>8. CASE Policy!Settle(t)
  BY <1>1, <1>3, <1>8 DEF Policy!Settle, PolicyInv, PolicyShape, Parsed
<1>9. CASE Policy!Reload(t)
  BY <1>1, <1>3, <1>9 DEF Policy!Reload, PolicyInv, Parsed, Policy!TypeOK
<1>10. CASE Policy!Note(t)
  BY <1>1, <1>2, <1>10 DEF Policy!Note
<1> QED
  BY <1>4, <1>5, <1>6, <1>7, <1>8, <1>9, <1>10 DEF Policy!Step

\* What a poll does to the policy in force and to the mtime that is noted: the policy it
\* installs was parsed.
LEMMA PollInstalls ==
    ASSUME PolicyInv, NEW t \in Policy!Threads, Policy!Step(t)
    PROVE  /\ policy_in_force' \in policy_wellformed
           /\ policy_installer' \in {"init", "poll"}
           /\ policy_last_mtime' \in Policy!Contents \cup {NoFile}
           /\ policy_overtaken' \in BOOLEAN
<1> USE DEF PolicyInv, Policy!TypeOK, Parsed
<1>1. CASE Policy!Reload(t)
  BY <1>1 DEF Policy!Reload
<1>2. CASE Policy!Note(t)
  BY <1>2 DEF Policy!Note
<1>3. CASE ~Policy!Reload(t) /\ ~Policy!Note(t)
  BY <1>3 DEF Policy!Step, Policy!Stat, Policy!Compare, Policy!Newer, Policy!Read, Policy!Settle
<1> QED
  BY <1>1, <1>2, <1>3

\* So a poll's step keeps the invariant.
LEMMA PolicyPolls ==
    ASSUME PolicyInv, NEW t \in Policy!Threads, Policy!Step(t)
    PROVE  PolicyInv'
<1> USE DEF Policy!env
<1>1. Policy!TypeOK'
  <2>1. \A u \in Policy!Threads :
            policy_pc'[u] \in {"reload", "note"}
                => policy_content'[u] \in Policy!Contents /\ policy_settled'[u] \in Policy!Contents
    BY PollMoves DEF PolicyInv, Policy!TypeOK
  <2>2. /\ policy_pc' \in [Policy!Threads -> {"construct", "start", "waiting", "stat", "compare",
                              "newer", "read", "settle", "reload", "note", "done", "dead"}]
        /\ policy_current' \in [Policy!Threads -> Policy!Contents \cup {NoFile}]
        /\ policy_content' \in [Policy!Threads -> Policy!Contents \cup {NoFile}]
        /\ policy_settled' \in [Policy!Threads -> Policy!Contents \cup {NoFile}]
    BY PollMoves DEF PolicyInv, Policy!TypeOK
  <2>3. UNCHANGED <<Policy!env, policy_events, policy_unsafe>>
    BY PollMoves
  <2> QED
    BY PollInstalls, <2>1, <2>2, <2>3 DEF PolicyInv, Policy!TypeOK, Policy!Contents
<1>2. PolicyShape'
  BY PollMoves DEF PolicyInv, PolicyShape, Policy!TypeOK, Policy!Contents
<1>3. Parsed'
  BY PollMoves, PollInstalls DEF PolicyInv, Parsed, Policy!TypeOK
<1> QED
  BY <1>1, <1>2, <1>3 DEF PolicyInv

\* And it lasts.
LEMMA PolicyAlways == Policy!Spec => []PolicyInv
<1>1. ASSUME PolicyInv, UNCHANGED Policy!vars
      PROVE  PolicyInv'
  BY <1>1 DEF Policy!vars, Policy!env, Policy!locals, PolicyInv, PolicyShape, Parsed,
              Policy!TypeOK, Policy!Contents
<1>2. PolicyInv /\ [Policy!Next]_(Policy!vars) => PolicyInv'
  BY <1>1, PolicyWritten, PolicyRemoved, PolicyWoken, PolicyPolls DEF Policy!Next
<1> QED
  BY PolicyStarts, <1>2, PTL DEF Policy!Spec

\* What no poll does to the last write: a modification time is that of some write, so
\* the mtime of the last one, recorded or about to be, means that its contents are in
\* force, or about to be, unless the write was unsafe or a thread is between its reload and
\* its note, or noted what the other had replaced.
OfTheLast ==
    /\ policy_file # NoFile => policy_file = policy_writes
    /\ policy_in_force <= policy_writes
    /\ policy_last_mtime # NoFile => policy_last_mtime <= policy_writes
    /\ (\A t \in Policy!Threads : policy_pc[t] # "note") /\ ~policy_overtaken
            /\ policy_last_mtime = policy_writes /\ policy_writes \notin policy_unsafe
          => policy_in_force = policy_writes
    /\ policy_pc["worker"] = "construct" => policy_writes \in policy_unsafe \cup {0}

\* The same of each poll.
PollOfTheLast(t) ==
    /\ policy_current[t] # NoFile => policy_current[t] <= policy_writes
    /\ policy_content[t] # NoFile => policy_content[t] <= policy_writes
    /\ policy_settled[t] # NoFile => policy_settled[t] <= policy_writes
    /\ policy_pc[t] = "settle" /\ policy_writes \notin policy_unsafe
          => policy_content[t] = policy_writes
    /\ policy_pc[t] \in {"reload", "note"} /\ policy_writes \notin policy_unsafe
            /\ policy_settled[t] = policy_writes
          => policy_content[t] = policy_writes

Latest == OfTheLast /\ \A t \in Policy!Threads : PollOfTheLast(t)

\* It holds at first, where there is one write and it is in force.
LEMMA LatestStarts == Policy!Init => Latest
<1> SUFFICES ASSUME Policy!Init PROVE Latest
  OBVIOUS
<1>1. NoFile \notin Nat
  BY PolicyFacts, PolicyStarts
<1> QED
  BY <1>1 DEF Policy!Init, Latest, OfTheLast, PollOfTheLast, Policy!Threads

\* A write is the last one from then on; no mtime and no contents are its own yet, and
\* while a poll is between its read and its second stat it is unsafe.
LEMMA LatestWritten == PolicyInv /\ Latest /\ Policy!Write => Latest'
<1> SUFFICES ASSUME PolicyInv, Latest, Policy!Write PROVE Latest'
  OBVIOUS
<1>1. /\ policy_writes \in Nat /\ NoFile \notin Nat
      /\ policy_in_force \in Nat /\ policy_last_mtime \in Nat \cup {NoFile}
      /\ \A t \in Policy!Threads : /\ policy_current[t] \in Nat \cup {NoFile}
                                   /\ policy_content[t] \in Nat \cup {NoFile}
                                   /\ policy_settled[t] \in Nat \cup {NoFile}
  BY PolicyFacts DEF PolicyInv, Policy!TypeOK
<1>2. /\ policy_writes' = policy_writes + 1 /\ policy_file' = policy_writes + 1
      /\ UNCHANGED <<policy_in_force, policy_last_mtime, policy_pc, policy_current,
                     policy_content, policy_settled>>
      /\ (\E t \in Policy!Threads : policy_pc[t] \in {"construct", "settle"})
            => policy_writes + 1 \in policy_unsafe'
  BY DEF Policy!Write, Policy!locals
<1>3. OfTheLast'
  BY <1>1, <1>2 DEF Latest, OfTheLast, Policy!Threads
<1>4. ASSUME NEW t \in Policy!Threads PROVE PollOfTheLast(t)'
  <2>1. PollOfTheLast(t)
    BY DEF Latest
  <2> QED
    BY <1>1, <1>2, <1>4, <2>1 DEF PollOfTheLast
<1> QED
  BY <1>3, <1>4 DEF Latest, Policy!Threads

\* Nothing that is not a poll disturbs it: the watcher is constructed with the mtime of a
\* file that is in force, or that was written before, which is unsafe.
LEMMA LatestOutside ==
    ASSUME PolicyInv, Latest,
           Policy!Remove \/ Policy!Construct \/ Policy!Start \/ Policy!Wake
    PROVE  Latest'
<1>1. /\ UNCHANGED <<policy_writes, policy_unsafe, policy_in_force, policy_current,
                     policy_content, policy_settled>>
      /\ UNCHANGED policy_overtaken
      /\ policy_file' \in {policy_file, NoFile}
      /\ \A t \in Policy!Threads :
            policy_pc[t] = "note" => policy_pc'[t] = "note"
      /\ \A t \in Policy!Threads : policy_pc'[t] # policy_pc[t] => policy_pc'[t] \in {"start", "stat"}
  BY DEF Policy!Remove, Policy!Construct, Policy!Start, Policy!Wake, Policy!env,
         Policy!locals, Policy!Goto, Policy!Threads, PolicyInv, Policy!TypeOK
<1>2. ASSUME NEW t \in Policy!Threads PROVE PollOfTheLast(t)'
  <2>1. PollOfTheLast(t)
    BY DEF Latest
  <2> QED
    BY <1>1, <1>2, <2>1 DEF PollOfTheLast
<1>3. CASE UNCHANGED policy_last_mtime
  <2>1. OfTheLast'
    BY <1>1, <1>3 DEF Latest, OfTheLast, Policy!Threads
  <2> QED
    BY <1>2, <2>1 DEF Latest, Policy!Threads
<1>4. CASE Policy!Construct
  <2>1. /\ policy_pc["worker"] = "construct" /\ policy_last_mtime' = Policy!SafeMtime
        /\ policy_pc'["worker"] = "start" /\ UNCHANGED policy_file
    BY <1>4 DEF Policy!Construct, Policy!Goto, PolicyInv, Policy!TypeOK, Policy!Threads, Policy!env
  <2>2. /\ policy_writes \in Nat /\ policy_in_force \in Nat
        /\ Policy!SafeMtime \in {NoFile, 0, policy_file} /\ NoFile \notin Nat
    BY PolicyFacts DEF PolicyInv, Policy!TypeOK, Policy!SafeMtime, Policy!Mtime
  <2>3. OfTheLast'
    BY <1>1, <2>1, <2>2 DEF Latest, OfTheLast
  <2> QED
    BY <1>2, <2>3 DEF Latest, Policy!Threads
<1> QED
  BY <1>3, <1>4 DEF Policy!Remove, Policy!Start, Policy!Wake

\* Nor does a poll: it reads the last write, unless there is a later one by the time of
\* its second stat, and notes the mtime of what it has installed.
LEMMA LatestPolls ==
    ASSUME PolicyInv, Latest, NEW t \in Policy!Threads, Policy!Step(t)
    PROVE  Latest'
<1>1. /\ policy_writes \in Nat /\ NoFile \notin Nat
      /\ Policy!SafeMtime \in {NoFile, 0, policy_file}
      /\ policy_file = NoFile => Policy!SafeMtime = NoFile
      /\ policy_file # NoFile => Policy!SafeMtime # NoFile
  BY PolicyFacts DEF Policy!SafeMtime, Policy!Mtime
<1>2. OfTheLast /\ \A u \in Policy!Threads : PollOfTheLast(u)
  BY DEF Latest
<1>3. Policy!After(t) \in {"waiting", "stat", "done"}
  BY DEF Policy!After
<1>4. UNCHANGED <<policy_writes, policy_file, policy_unsafe>>
  BY PollMoves DEF Policy!env
<1>5. /\ policy_pc'["worker"] = "construct" => policy_pc["worker"] = "construct"
      /\ \A u \in Policy!Threads \ {t} :
            /\ policy_pc'[u] = policy_pc[u] /\ policy_current'[u] = policy_current[u]
            /\ policy_content'[u] = policy_content[u] /\ policy_settled'[u] = policy_settled[u]
  BY PollMoves DEF PolicyInv, Policy!TypeOK, Policy!Threads
<1>6. \A u \in Policy!Threads \ {t} : PollOfTheLast(u)'
  BY <1>2, <1>4, <1>5 DEF PollOfTheLast
<1> SUFFICES OfTheLast' /\ PollOfTheLast(t)'
  BY <1>6 DEF Latest, Policy!Threads
<1> USE DEF PolicyInv, Policy!TypeOK, Policy!Goto, Policy!Return
<1>7. CASE Policy!Reload(t)
  <2>1. /\ UNCHANGED <<policy_last_mtime, policy_current, policy_content, policy_settled>>
        /\ policy_pc[t] = "reload" /\ policy_pc'[t] = "note"
        /\ policy_in_force' = policy_content[t] /\ policy_content[t] \in Policy!Contents
    BY <1>7 DEF Policy!Reload, Policy!locals
  <2>2. OfTheLast'
    BY <1>1, <1>2, <1>4, <1>5, <2>1, PolicyFacts DEF OfTheLast, PollOfTheLast
  <2>3. PollOfTheLast(t)'
    BY <1>1, <1>2, <1>4, <2>1 DEF PollOfTheLast
  <2> QED
    BY <2>2, <2>3
<1>8. CASE Policy!Note(t)
  <2>1. /\ UNCHANGED policy_in_force
        /\ policy_pc[t] = "note" /\ policy_pc'[t] \notin {"settle", "reload", "note"}
        /\ policy_last_mtime' = policy_settled[t] /\ policy_settled[t] \in Policy!Contents
        /\ policy_overtaken' = (policy_in_force # policy_content[t])
        /\ policy_current'[t] = NoFile /\ policy_content'[t] = NoFile /\ policy_settled'[t] = NoFile
    BY <1>3, <1>8 DEF Policy!Note
  <2>2. OfTheLast'
    BY <1>1, <1>2, <1>4, <1>5, <2>1, PolicyFacts DEF OfTheLast, PollOfTheLast
  <2>3. PollOfTheLast(t)'
    BY <2>1 DEF PollOfTheLast
  <2> QED
    BY <2>2, <2>3
<1>9. CASE ~Policy!Reload(t) /\ ~Policy!Note(t)
  <2>1. /\ UNCHANGED <<policy_in_force, policy_overtaken>>
        /\ policy_last_mtime' \in {NoFile, policy_last_mtime}
        /\ policy_pc[t] # "note" /\ policy_pc'[t] # "note"
    BY <1>3, <1>9
       DEF Policy!Step, Policy!Stat, Policy!Compare, Policy!Newer, Policy!Read, Policy!Settle
  <2>2. \A u \in Policy!Threads : policy_pc[u] = "note" => policy_pc'[u] = "note"
    BY <1>5, <2>1
  <2>3. OfTheLast'
    BY <1>1, <1>2, <1>4, <1>5, <2>1, <2>2 DEF OfTheLast
  <2>4. CASE Policy!Settle(t)
    <3>1. /\ UNCHANGED <<policy_current, policy_content>>
          /\ policy_pc[t] = "settle" /\ policy_pc'[t] = "reload"
          /\ policy_settled'[t] \in {policy_current[t], Policy!SafeMtime}
      BY <2>4 DEF Policy!Settle
    <3>2. PollOfTheLast(t)'
      BY <1>1, <1>2, <1>4, <3>1 DEF OfTheLast, PollOfTheLast
    <3> QED
      BY <2>3, <3>2
  <2>5. CASE ~Policy!Settle(t)
    <3>1. /\ policy_current'[t] \in {NoFile, policy_current[t], Policy!SafeMtime}
          /\ policy_settled'[t] \in {NoFile, policy_settled[t]}
          /\ policy_pc'[t] \notin {"reload", "note"}
          /\ \/ policy_pc'[t] = "settle" /\ policy_file # NoFile /\ policy_content'[t] = policy_file
             \/ policy_pc'[t] # "settle" /\ policy_content'[t] \in {NoFile, policy_content[t]}
      BY <1>3, <1>9, <2>5
         DEF Policy!Step, Policy!Stat, Policy!Compare, Policy!Newer, Policy!Read, Policy!locals
    <3>2. PollOfTheLast(t)'
      BY <1>1, <1>2, <1>4, <3>1 DEF OfTheLast, PollOfTheLast
    <3> QED
      BY <2>3, <3>2
  <2> QED
    BY <2>4, <2>5
<1> QED
  BY <1>7, <1>8, <1>9

\* So no change is hidden.
LEMMA NothingIsHidden == PolicyInv /\ Latest => Policy!NothingHidden
<1> SUFFICES ASSUME PolicyInv, Latest, NEW n \in Policy!Contents,
                    policy_file = n, n \notin policy_unsafe \cup policy_backdated,
                    policy_in_force < n, ~Policy!Noting, ~policy_overtaken
             PROVE  policy_last_mtime = NoFile \/ Policy!SafeMtime > policy_last_mtime
  BY DEF Policy!NothingHidden
<1>1. NoFile \notin Nat /\ n \in Nat /\ policy_in_force \in Nat
      /\ policy_last_mtime \in Nat \cup {NoFile}
  BY PolicyFacts DEF PolicyInv, Policy!TypeOK
<1>2. Policy!SafeMtime = n
  BY <1>1 DEF Policy!SafeMtime, Policy!Mtime
<1>3. policy_writes = n
  BY <1>1 DEF Latest, OfTheLast
<1> QED
  BY <1>1, <1>2, <1>3 DEF Latest, OfTheLast, Policy!Noting

\* And it lasts.
LEMMA LatestAlways == Policy!Spec => []Latest
<1>1. PolicyInv /\ Latest /\ [Policy!Next]_(Policy!vars) => Latest'
  <2>1. ASSUME Latest, UNCHANGED Policy!vars PROVE Latest'
    BY <2>1 DEF Policy!vars, Policy!env, Policy!locals, Latest, OfTheLast, PollOfTheLast,
                Policy!Threads
  <2> QED
    BY <2>1, LatestWritten, LatestOutside, LatestPolls DEF Policy!Next
<1> QED
  BY LatestStarts, PolicyAlways, <1>1, PTL DEF Policy!Spec

-------------------------------------------------------------------------------
(* The watcher of the sentinel. *)

\* Events are changes of the file; with the polling backend there are none, and the worker
\* goes round for ever.
SwitchShape ==
    /\ switch_events <= changes
    /\ switch_backend = "poll" =>
          /\ switch_pc["observer"] = "waiting" /\ switch_events = 0
          /\ switch_pc["worker"] \in {"construct", "start", "look", "set", "note"}

\* As long as nothing fails and nobody else sets the switch, _last_present is the switch,
\* except between the call that sets it and the assignment that notes it.
Noted ==
    switch_backend = "poll" /\ Switch!Undisturbed =>
        /\ switch_pc["worker"] = "construct" => kill_switch = "off" /\ last_present = "off"
        /\ switch_pc["worker"] \in {"start", "look", "set"} => kill_switch = last_present
        /\ switch_pc["worker"] = "note" => kill_switch = present["worker"]

SwitchInv == Switch!TypeOK /\ SwitchShape /\ Noted

\* It holds when the watcher is about to be constructed.
LEMMA SwitchStarts == Switch!Init => SwitchInv
<1> SUFFICES ASSUME Switch!Init PROVE SwitchInv
  OBVIOUS
<1>1. MaxChanges \in Nat /\ MaxFailures \in Nat /\ MaxRemote \in Nat
  BY SwitchWatcherAssumed DEF Switch!SentinelAssumption
<1>2. Switch!TypeOK
  BY <1>1 DEF Switch!Init, Switch!TypeOK, Switch!Threads, Switch!Switch
<1>3. SwitchShape /\ Noted
  BY <1>1 DEF Switch!Init, SwitchShape, Noted, Switch!Threads
<1> QED
  BY <1>2, <1>3 DEF SwitchInv

\* The file comes or goes, and the control receiver sets the switch.
LEMMA SwitchDisturbed == SwitchInv /\ (Switch!Toggle \/ Switch!RemoteSet) => SwitchInv'
<1> SUFFICES ASSUME SwitchInv, Switch!Toggle \/ Switch!RemoteSet PROVE SwitchInv'
  OBVIOUS
<1>1. MaxChanges \in Nat /\ MaxFailures \in Nat /\ MaxRemote \in Nat
  BY SwitchWatcherAssumed DEF Switch!SentinelAssumption
<1> USE DEF SwitchInv, SwitchShape, Switch!TypeOK
<1>2. CASE Switch!Toggle
  <2>1. Switch!TypeOK' /\ SwitchShape'
    BY <1>1, <1>2 DEF Switch!Toggle, Switch!Observed, Switch!Switch
  <2>2. Noted'
    BY <1>2 DEF Switch!Toggle, Noted, Switch!Undisturbed
  <2> QED
    BY <2>1, <2>2
<1>3. CASE Switch!RemoteSet
  <2>1. Switch!TypeOK' /\ SwitchShape'
    BY <1>1, <1>3 DEF Switch!RemoteSet, Switch!Switch
  <2>2. ~Switch!Undisturbed'
    BY <1>1, <1>3 DEF Switch!RemoteSet, Switch!Undisturbed
  <2> QED
    BY <2>1, <2>2 DEF Noted
<1> QED
  BY <1>2, <1>3

\* The watcher is constructed and started, and the observer takes an event.
LEMMA SwitchWoken ==
    SwitchInv /\ (Switch!Construct \/ Switch!Start \/ Switch!Wake) => SwitchInv'
<1> SUFFICES ASSUME SwitchInv, Switch!Construct \/ Switch!Start \/ Switch!Wake
             PROVE  SwitchInv'
  OBVIOUS
<1>1. MaxChanges \in Nat /\ MaxFailures \in Nat /\ MaxRemote \in Nat
  BY SwitchWatcherAssumed DEF Switch!SentinelAssumption
<1> USE DEF SwitchInv, SwitchShape, Switch!TypeOK, Switch!Goto, Switch!Threads, Switch!Switch
<1>2. CASE Switch!Construct
  <2>1. /\ switch_pc["worker"] = "construct" /\ last_present' = switch_file
        /\ switch_pc' = [switch_pc EXCEPT !["worker"] = "start"]
        /\ kill_switch' \in {"on", "off"} /\ failures' \in 0..MaxFailures
        /\ UNCHANGED <<switch_backend, switch_file, present, switch_events, changes, remote>>
    BY <1>1, <1>2 DEF Switch!Construct, Switch!SafeSet
  <2>2. Switch!TypeOK' /\ SwitchShape'
    BY <1>1, <2>1
  <2>3. Noted'
    BY <1>1, <1>2, <2>1 DEF Switch!Construct, Switch!SafeSet, Noted, Switch!Undisturbed
  <2> QED
    BY <2>2, <2>3
<1>3. CASE Switch!Start
  <2>1. Switch!TypeOK' /\ SwitchShape'
    BY <1>1, <1>3 DEF Switch!Start, Switch!counts
  <2>2. Noted'
    BY <1>3 DEF Switch!Start, Switch!counts, Noted, Switch!Undisturbed
  <2> QED
    BY <2>1, <2>2
<1>4. CASE Switch!Wake
  <2>1. switch_backend # "poll"
    BY <1>4 DEF Switch!Wake
  <2>2. Switch!TypeOK' /\ SwitchShape'
    BY <1>1, <1>4, <2>1 DEF Switch!Wake, Switch!counts
  <2> QED
    BY <1>4, <2>1, <2>2 DEF Switch!Wake, Switch!counts, Noted
<1> QED
  BY <1>2, <1>3, <1>4

\* A step of a poll.
LEMMA SwitchPolls ==
    ASSUME SwitchInv, NEW t \in Switch!Threads, Switch!Step(t)
    PROVE  SwitchInv'
<1>1. MaxChanges \in Nat /\ MaxFailures \in Nat /\ MaxRemote \in Nat
  BY SwitchWatcherAssumed DEF Switch!SentinelAssumption
<1>2. /\ Switch!After(t) \in {"waiting", "look", "done"}
      /\ t = "worker" /\ switch_backend = "poll" => Switch!After(t) = "look"
      /\ t = "observer" \/ t = "worker"
      /\ switch_backend = "poll" => t = "worker"
  BY DEF Switch!After, Switch!Threads, SwitchInv, SwitchShape, Switch!Step, Switch!Look,
         Switch!Set, Switch!Note
<1> USE DEF SwitchInv, SwitchShape, Switch!TypeOK, Switch!Goto, Switch!Threads, Switch!Switch,
            Switch!counts
<1>3. CASE Switch!Look(t)
  <2>1. Switch!TypeOK' /\ SwitchShape'
    BY <1>1, <1>2, <1>3 DEF Switch!Look
  <2>2. Noted'
    BY <1>2, <1>3 DEF Switch!Look, Noted, Switch!Undisturbed
  <2> QED
    BY <2>1, <2>2
<1>4. CASE Switch!Set(t)
  <2>1. /\ switch_pc[t] = "set" /\ switch_pc' = [switch_pc EXCEPT ![t] = "note"]
        /\ kill_switch' \in {"on", "off"} /\ failures' \in 0..MaxFailures
        /\ UNCHANGED <<switch_backend, switch_file, last_present, present, switch_events,
                       changes, remote>>
    BY <1>1, <1>4 DEF Switch!Set, Switch!SafeSet
  <2>2. Switch!TypeOK' /\ SwitchShape'
    BY <1>1, <1>2, <2>1
  <2>3. Noted'
    BY <1>1, <1>2, <1>4, <2>1 DEF Switch!Set, Switch!SafeSet, Noted, Switch!Undisturbed
  <2> QED
    BY <2>2, <2>3
<1>5. CASE Switch!Note(t)
  <2>1. Switch!TypeOK' /\ SwitchShape'
    BY <1>1, <1>2, <1>5 DEF Switch!Note
  <2>2. Noted'
    BY <1>2, <1>5 DEF Switch!Note, Noted, Switch!Undisturbed
  <2> QED
    BY <2>1, <2>2
<1> QED
  BY <1>3, <1>4, <1>5 DEF Switch!Step

\* It lasts, and says of the moment between two polls what the run checks.
LEMMA SwitchAlways == Switch!Spec => [](SwitchInv /\ Switch!KnowsSwitch)
<1>1. ASSUME SwitchInv, UNCHANGED Switch!vars
      PROVE  SwitchInv'
  BY <1>1 DEF Switch!vars, Switch!counts, SwitchInv, SwitchShape, Noted, Switch!TypeOK,
              Switch!Undisturbed
<1>2. SwitchInv /\ [Switch!Next]_(Switch!vars) => SwitchInv'
  BY <1>1, SwitchDisturbed, SwitchWoken, SwitchPolls DEF Switch!Next
<1>3. SwitchInv => Switch!KnowsSwitch
  BY DEF SwitchInv, SwitchShape, Noted, Switch!KnowsSwitch, Switch!BetweenPolls, Switch!Threads
<1> QED
  BY SwitchStarts, <1>2, <1>3, PTL DEF Switch!Spec

-------------------------------------------------------------------------------
(* The threads of the control receiver. *)

\* The threads that start() has not made are unborn; stop() waits for the thread of the
\* receiver, and a receiver with a thread that it does not wait for has not been stopped.
Receiving ==
    /\ \A t \in Loops!Threads : t > starts => at[t] = "unborn"
    /\ joining \in {Loops!None, thread}
    /\ thread # Loops!None /\ joining = Loops!None =>
          ~stop_flag /\ at[thread] \notin {"ended", "woken"}

\* A thread applies late only while the flag is set; and after a poll it only ends.
LateShape ==
    /\ ~stop_flag => \A t \in Loops!Threads : late[t] = {}
    /\ \A t \in Loops!Threads : "poll" \in late[t] => at[t] \in {"woken", "ended"}

ThreadsInv == Loops!TypeOK /\ Receiving /\ Loops!OneServes /\ Loops!LateOnce /\ LateShape

\* It holds before the first start().
LEMMA ThreadsStart == Loops!Init => ThreadsInv
<1> SUFFICES ASSUME Loops!Init PROVE ThreadsInv
  OBVIOUS
<1>1. MaxStarts \in Nat /\ MaxStops \in Nat /\ MaxForks \in Nat
  BY ThreadsAssumed DEF Loops!ReceiverThreadsAssumption
<1>2. Loops!TypeOK
  <2>1. stop_flag \in BOOLEAN
    BY DEF Loops!Init
  <2> QED
    BY <1>1, <2>1 DEF Loops!Init, Loops!TypeOK, Loops!Threads, Loops!None, Loops!Dead
<1> QED
  BY <1>1, <1>2 DEF Loops!Init, ThreadsInv, Receiving, Loops!OneServes, Loops!LateOnce,
     LateShape, Loops!Live, Loops!Alive, Loops!Dead, Loops!Threads, Loops!None

\* start(): the thread of before is dead, or has been given up on.
LEMMA ThreadsSpawn == ThreadsInv /\ Loops!start => ThreadsInv'
<1> SUFFICES ASSUME ThreadsInv, Loops!start PROVE ThreadsInv'
  OBVIOUS
<1>1. MaxStarts \in Nat /\ MaxStops \in Nat /\ MaxForks \in Nat
  BY ThreadsAssumed DEF Loops!ReceiverThreadsAssumption
<1>2. /\ starts \in Nat /\ starts < MaxStarts /\ starts' = starts + 1 /\ thread' = starts + 1
      /\ starts + 1 \in Loops!Threads /\ at' = [at EXCEPT ![starts + 1] = "looping"]
      /\ stop_flag' = FALSE /\ late' = [t \in Loops!Threads |-> {}]
      /\ joining = Loops!None /\ (thread # Loops!None => ~Loops!Alive(thread))
      /\ UNCHANGED <<joining, stops, forks, outlived>>
  BY <1>1 DEF Loops!start, Loops!Startable, Loops!Spawn, Loops!Threads, ThreadsInv, Loops!TypeOK
<1> USE DEF ThreadsInv, Loops!TypeOK
<1>3. Loops!TypeOK'
  <2>1. stop_flag' \in BOOLEAN
    BY <1>2
  <2> QED
    BY <1>1, <1>2, <2>1 DEF Loops!None, Loops!Busy, Loops!Dead
<1>4. Receiving'
  BY <1>2 DEF Receiving, Loops!None, Loops!Threads
<1>5. Loops!OneServes'
  <2>1. Loops!Live' \ {thread'} \subseteq Loops!Live
    BY <1>2 DEF Loops!Live, Loops!Alive
  <2>2. thread \notin Loops!Live
    BY <1>2 DEF Loops!Live, Loops!Threads, Loops!None
  <2> QED
    BY <1>2, <2>1, <2>2 DEF Loops!OneServes
<1>6. Loops!LateOnce' /\ LateShape'
  BY <1>2 DEF Loops!LateOnce, LateShape
<1> QED
  BY <1>3, <1>4, <1>5, <1>6

\* stop(), which wakes those that wait.
LEMMA ThreadsStopped == ThreadsInv /\ Loops!stop => ThreadsInv'
<1> SUFFICES ASSUME ThreadsInv, Loops!stop PROVE ThreadsInv'
  OBVIOUS
<1>1. MaxStarts \in Nat /\ MaxStops \in Nat /\ MaxForks \in Nat
  BY ThreadsAssumed DEF Loops!ReceiverThreadsAssumption
<1> USE DEF ThreadsInv, Loops!TypeOK, Loops!stop
<1>2. Loops!TypeOK'
  <2>1. stop_flag' \in BOOLEAN
    BY DEF Loops!stop
  <2> QED
    BY <1>1, <2>1 DEF Loops!Busy, Loops!Dead
<1>3. Receiving'
  BY DEF Receiving, Loops!None
<1>4. Loops!Live' = Loops!Live
  BY DEF Loops!Live, Loops!Alive, Loops!Dead
<1>5. Loops!OneServes' /\ Loops!LateOnce' /\ LateShape'
  BY <1>4 DEF Loops!OneServes, Loops!LateOnce, LateShape
<1> QED
  BY <1>2, <1>3, <1>5

\* stop() returns, or the process forks.
LEMMA ThreadsLeft ==
    ThreadsInv /\ (Loops!Joined \/ Loops!JoinTimesOut \/ Loops!Fork) => ThreadsInv'
<1> SUFFICES ASSUME ThreadsInv, Loops!Joined \/ Loops!JoinTimesOut \/ Loops!Fork
             PROVE  ThreadsInv'
  OBVIOUS
<1>1. MaxStarts \in Nat /\ MaxStops \in Nat /\ MaxForks \in Nat
  BY ThreadsAssumed DEF Loops!ReceiverThreadsAssumption
<1> USE DEF ThreadsInv, Loops!TypeOK, Loops!None
<1>2. CASE Loops!Joined \/ Loops!JoinTimesOut
  <2>1. /\ joining # 0 /\ joining = thread /\ joining' = 0 /\ thread' = 0
        /\ UNCHANGED <<stop_flag, at, starts, stops, forks, late>>
        /\ joining \in Loops!Threads
    BY <1>1, <1>2
       DEF Loops!Joined, Loops!JoinTimesOut, Loops!Returns, Loops!counts, Receiving, Loops!Threads
  <2>2. outlived' \subseteq Loops!Threads /\ Loops!Live \subseteq outlived' /\ Loops!Live' = Loops!Live
    BY <1>2, <2>1 DEF Loops!Joined, Loops!JoinTimesOut, Loops!Live, Loops!Alive, Loops!OneServes
  <2>3. Loops!TypeOK'
    BY <2>1, <2>2
  <2>4. Receiving' /\ Loops!OneServes' /\ Loops!LateOnce' /\ LateShape'
    BY <2>1, <2>2 DEF Receiving, Loops!OneServes, Loops!LateOnce, LateShape
  <2> QED
    BY <2>3, <2>4
<1>3. CASE Loops!Fork
  <2>1. /\ stop_flag' = FALSE /\ thread' = 0 /\ joining' = 0
        /\ late' = [t \in Loops!Threads |-> {}]
        /\ at' = [t \in Loops!Threads |-> IF Loops!Alive(t) THEN "ended" ELSE at[t]]
        /\ forks' \in 0..MaxForks
        /\ UNCHANGED <<starts, stops, outlived>>
    BY <1>1, <1>3 DEF Loops!Fork
  <2>2. Loops!Live' = {}
    BY <2>1 DEF Loops!Live, Loops!Alive, Loops!Dead
  <2>3. stop_flag' \in BOOLEAN
    BY <2>1
  <2>4. Loops!TypeOK'
    BY <1>1, <2>1, <2>3 DEF Loops!Dead
  <2>5. Receiving'
    BY <2>1 DEF Receiving, Loops!Alive, Loops!Dead
  <2>6. Loops!OneServes' /\ Loops!LateOnce' /\ LateShape'
    BY <2>1, <2>2 DEF Loops!OneServes, Loops!LateOnce, LateShape
  <2> QED
    BY <2>4, <2>5, <2>6
<1> QED
  BY <1>2, <1>3

\* What a step of a loop does: it takes one thread from what it is doing to something
\* else, and records what that one applied.
Takes(t, from, to, what) ==
    /\ from \in Loops!Busy \cup {"looping", "waiting", "woken"}
    /\ to \in Loops!Busy \cup {"looping", "waiting", "woken", "ended", "rejected"}
    /\ what \in SUBSET {"event", "poll"}
    /\ at[t] = from /\ at' = [at EXCEPT ![t] = to]
    /\ late' = [late EXCEPT ![t] = @ \cup what]
    /\ ~stop_flag => what = {} /\ (to \in {"ended", "woken"} => from = "woken")
    /\ to = "handling" => ~stop_flag
    /\ "event" \in what => to # "handling"
    /\ "poll" \in what => to = "woken"
    /\ from = "woken" => to = "ended"
    /\ UNCHANGED <<stop_flag, thread, joining, starts, stops, forks, outlived>>

\* Every step is one of these.
LEMMA ThreadStep ==
    ASSUME ThreadsInv, NEW t \in Loops!Threads, Loops!Step(t)
    PROVE  \E from, to, what : Takes(t, from, to, what)
<1>0. late = [late EXCEPT ![t] = @ \cup {}]
  BY DEF ThreadsInv, Loops!TypeOK
<1>1. CASE Loops!Turn(t)
  <2>1. \E to \in {"ended", "connecting", "waiting"} : Takes(t, "looping", to, {})
    BY <1>0, <1>1 DEF Loops!Turn, Loops!Moves, Loops!counts, Loops!Busy, Takes
  <2> QED
    BY <2>1
<1>2. CASE Loops!Connected(t) \/ Loops!AuthRejected(t)
  <2>1. \E to \in {"reading", "rejected"} : Takes(t, "connecting", to, {})
    BY <1>0, <1>2
       DEF Loops!Connected, Loops!AuthRejected, Loops!Moves, Loops!counts, Loops!Busy, Takes
  <2> QED
    BY <2>1
<1>3. CASE Loops!Event(t) \/ Loops!Closed(t)
  <2>1. \E to \in {"looping", "handling"} : Takes(t, "reading", to, {})
    BY <1>0, <1>3 DEF Loops!Event, Loops!Closed, Loops!Moves, Loops!counts, Loops!Busy, Takes
  <2> QED
    BY <2>1
<1>4. CASE Loops!Handled(t)
  <2>1. PICK what \in {{}, {"event"}} :
           late' = [late EXCEPT ![t] = @ \cup what] /\ (~stop_flag => what = {})
    BY <1>0, <1>4 DEF Loops!Handled, Loops!Applies
  <2>2. Takes(t, "handling", "reading", what)
    BY <1>4, <2>1 DEF Loops!Handled, Loops!Moves, Loops!counts, Loops!Busy, Takes
  <2> QED
    BY <2>2
<1>5. CASE Loops!Fails(t)
  <2>1. \E from \in {"connecting", "reading"} : Takes(t, from, "polling", {})
    BY <1>0, <1>5 DEF Loops!Fails, Loops!Moves, Loops!counts, Loops!Busy, Takes
  <2> QED
    BY <2>1
<1>6. CASE Loops!Polled(t)
  <2>1. PICK what \in {{}, {"poll"}} :
           late' = [late EXCEPT ![t] = @ \cup what] /\ (~stop_flag => what = {})
    BY <1>0, <1>6 DEF Loops!Polled, Loops!Applies
  <2>2. \E to \in {"woken", "waiting"} : Takes(t, "polling", to, what)
    BY <1>6, <2>1 DEF Loops!Polled, Loops!Moves, Loops!counts, Loops!Busy, Takes
  <2> QED
    BY <2>2
<1>7. CASE Loops!Waited(t)
  <2>1. \/ Takes(t, "waiting", "looping", {})
        \/ Takes(t, "woken", "ended", {})
    BY <1>0, <1>7 DEF Loops!Waited, Loops!Moves, Loops!counts, Loops!Busy, Takes
  <2> QED
    BY <2>1
<1> QED
  BY <1>1, <1>2, <1>3, <1>4, <1>5, <1>6, <1>7 DEF Loops!Step

\* So it keeps the invariant.
LEMMA ThreadsRun ==
    ASSUME ThreadsInv, NEW t \in Loops!Threads, Loops!Step(t)
    PROVE  ThreadsInv'
<1>1. PICK from, to, what : Takes(t, from, to, what)
  BY ThreadStep
<1> USE DEF ThreadsInv, Loops!TypeOK
<1>2. Loops!TypeOK'
  BY <1>1 DEF Takes, Loops!Busy, Loops!Dead
<1>3. Receiving'
  <2>1. at[t] # "unborn"
    BY <1>1 DEF Takes, Loops!Busy
  <2>2. ASSUME thread # Loops!None, joining = Loops!None
        PROVE  at'[thread] \notin {"ended", "woken"}
    BY <1>1, <2>2 DEF Takes, Receiving
  <2> QED
    BY <1>1, <2>1, <2>2 DEF Takes, Receiving
<1>4. Loops!OneServes'
  <2>1. Loops!Live' \subseteq Loops!Live
    BY <1>1 DEF Takes, Loops!Live, Loops!Alive, Loops!Dead, Loops!Busy
  <2> QED
    BY <1>1, <2>1 DEF Takes, Loops!OneServes
<1>5. \A u \in Loops!Threads :
         /\ late'[u] = IF u = t THEN late[u] \cup what ELSE late[u]
         /\ at'[u] = IF u = t THEN to ELSE at[u]
  BY <1>1 DEF Takes
<1>6. LateShape'
  <2>1. ASSUME ~stop_flag, NEW u \in Loops!Threads
        PROVE  late'[u] = {}
    BY <1>1, <1>5, <2>1 DEF Takes, LateShape
  <2>2. ASSUME "poll" \in late'[t]
        PROVE  at'[t] \in {"woken", "ended"}
    <3>1. CASE "poll" \in what
      BY <1>1, <1>5, <3>1 DEF Takes
    <3>2. CASE "poll" \in late[t]
      <4>1. from = "woken"
        BY <1>1, <3>2 DEF Takes, LateShape, Loops!Busy
      <4> QED
        BY <1>1, <1>5, <4>1 DEF Takes
    <3> QED
      BY <1>5, <2>2, <3>1, <3>2
  <2>3. ASSUME NEW u \in Loops!Threads, u # t, "poll" \in late'[u]
        PROVE  at'[u] \in {"woken", "ended"}
    BY <1>5, <2>3 DEF LateShape
  <2>4. stop_flag' = stop_flag
    BY <1>1 DEF Takes
  <2> QED
    BY <2>1, <2>2, <2>3, <2>4 DEF LateShape
<1>7. Loops!LateOnce'
  <2>1. ASSUME to = "handling"
        PROVE  "event" \notin late'[t]
    BY <1>1, <1>5, <2>1 DEF Takes, LateShape
  <2>2. ASSUME to = "polling"
        PROVE  "poll" \notin late'[t]
    BY <1>5, <1>6, <2>2 DEF LateShape
  <2> QED
    BY <1>5, <2>1, <2>2 DEF Loops!LateOnce
<1> QED
  BY <1>2, <1>3, <1>4, <1>6, <1>7

\* It lasts, and says that a started receiver is served.
LEMMA ThreadsAlways ==
    Loops!Spec => [](ThreadsInv /\ Loops!Served /\ Loops!OneServes /\ Loops!LateOnce)
<1>1. ASSUME ThreadsInv, UNCHANGED Loops!vars
      PROVE  ThreadsInv'
  BY <1>1 DEF Loops!vars, Loops!counts, ThreadsInv, Receiving, LateShape, Loops!TypeOK,
              Loops!OneServes, Loops!LateOnce, Loops!Live, Loops!Alive
<1>2. ThreadsInv /\ [Loops!Next]_(Loops!vars) => ThreadsInv'
  BY <1>1, ThreadsSpawn, ThreadsStopped, ThreadsLeft, ThreadsRun DEF Loops!Next
<1>3. ThreadsInv => Loops!Served /\ Loops!OneServes /\ Loops!LateOnce
  BY DEF ThreadsInv, Receiving, Loops!Served
<1> QED
  BY ThreadsStart, <1>2, <1>3, PTL DEF Loops!Spec

-------------------------------------------------------------------------------
(* The composition. *)

\* Whichever part moves, each of them behaves as its own module says.
LEMMA EachItsOwn == AllSpec => Spec /\ Policy!Spec /\ Switch!Spec /\ Loops!Spec
<1>1. AllInit => Init /\ Policy!Init /\ Switch!Init /\ Loops!Init
  BY DEF AllInit
<1>2. ASSUME [AllNext]_allVars
      PROVE  /\ [Next]_vars /\ [Policy!Next]_(Policy!vars)
             /\ [Switch!Next]_(Switch!vars) /\ [Loops!Next]_(Loops!vars)
  <2> USE DEF policyVars, switchVars, loopVars, Policy!vars, Policy!env, Policy!locals,
              Switch!vars, Switch!counts, Loops!vars, Loops!counts
  <2>1. CASE BreakerMoves(Next)
    BY <2>1 DEF BreakerMoves
  <2>2. CASE PolicyMoves(Policy!Next)
    BY <2>2 DEF PolicyMoves
  <2>3. CASE SwitchMoves(Switch!Next)
    BY <2>3 DEF SwitchMoves
  <2>4. CASE LoopMoves(Loops!Next)
    BY <2>4 DEF LoopMoves
  <2>5. CASE UNCHANGED allVars
    BY <2>5 DEF allVars
  <2> QED
    BY <1>2, <2>1, <2>2, <2>3, <2>4, <2>5 DEF AllNext
<1> QED
  BY <1>1, <1>2, PTL DEF AllSpec, Spec, Policy!Spec, Switch!Spec, Loops!Spec

\* Every variable of the breaker, the watchers and the receiver's threads keeps its type.
THEOREM ProcessTypesHold == AllSpec => []AllTypeOK
<1>1. TypeOK /\ PolicyInv /\ SwitchInv /\ ThreadsInv => AllTypeOK
  BY DEF AllTypeOK, PolicyInv, SwitchInv, ThreadsInv
<1> QED
  BY <1>1, EachItsOwn, BreakerTypeCorrect, PolicyAlways, SwitchAlways, ThreadsAlways, PTL

\* The policy in force always parsed, however the file changes under a poll, and no poll
\* hides a later change but when two of them overtook each other; between two polls the
\* polling watcher of the sentinel knows what it applied; and a started receiver is served,
\* by one thread but for those a stop() gave up on, which apply little more
\* (PolicyFileWatcher._poll, KillSwitchFileWatcher._poll, ControlReceiver.start, stop).
THEOREM ThreadsAlwaysSafe == AllSpec => ThreadsSafe
<1>1. PolicyInv => Policy!AlwaysWellformed
  BY DEF PolicyInv, Parsed, Policy!AlwaysWellformed
<1> QED
  BY <1>1, EachItsOwn, PolicyAlways, LatestAlways, NothingIsHidden, SwitchAlways, ThreadsAlways,
     PTL DEF ThreadsSafe

\* In the composition, too, the breaker's fields agree and its refusals are bounded.
THEOREM BreakerAlwaysTrue == AllSpec => [](FieldsAgree /\ RefusalBounded)
BY EachItsOwn, FieldsAlwaysAgree, RefusalAlwaysBounded, PTL
================================================================================
