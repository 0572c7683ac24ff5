------------------------------ MODULE AsyncReceiver ------------------------------
(***************************************************************************)
(* The control receiver of wrap_async(): _async_control.py.  One task per  *)
(* start(), and the stop() that awaits it, share an event loop; an action  *)
(* goes from one await to the next.  Unlike the threads' receiver it has   *)
(* no prices, it is cancelled where a thread is given up, and what it asks *)
(* the engine and the state file is over before anything else runs.        *)
(*                                                                         *)
(* The n-th setting of the kill switch is n, the v-th policy version v; a  *)
(* policy's contents stand for its hash.  The breaker is a choice.         *)
(***************************************************************************)
EXTENDS Naturals, Integers, FiniteSets, SequencesExt

CONSTANTS Contents,             \* of policies, numbered as they first appear
          MaxStarts, MaxMoves,  \* bounds: start() calls; those and changes at
                                \* the control plane together
          None

AsyncReceiverAssumption ==
    /\ Contents \subseteq Nat /\ None \notin Contents /\ \A n \in Contents : 1..n \subseteq Contents
    /\ {MaxStarts, MaxMoves} \subseteq Nat

Loops == 1..MaxStarts

VARIABLES
    \* the control plane (external)
    kills, published, changes,
    \* the receiver
    owns_client, client_closed,
    starts,      \* how often start() made a task; its number is the task's
    current,     \* the task in _task, or 0
    task,        \* what each of them awaits, and what it has been sent
    stop_event,
    stopping,    \* the task that stop() awaits, or 0
    timed_out,   \* it has waited five seconds
    cache,       \* _last_installed_hash
    \* the engine, and the version in policy_state.json
    kill_switch, version, file,
    \* history: the cache was filled from the file; stop() forgot a task that it
    \* had not waited for
    seeded, slipped

server == <<kills, published, changes>>
engine == <<kill_switch, version>>
installs == <<cache, engine, file, seeded>>
vars == <<server, owns_client, client_closed, starts, current, task, stop_event, stopping,
          timed_out, installs, slipped>>

Off == [at |-> "off", news |-> <<>>]

\* Before the first start() the bootstrap may have installed the current policy, and
\* an earlier process may have left a version of it, or an older one, in the file.
Init ==
    /\ published \in {<<>>} \cup {[v \in 1..n |-> v] : n \in Contents}
    /\ kills = 0 /\ changes = 0 /\ kill_switch = 0
    /\ version \in {0, Len(published)} /\ file \in 0..Len(published)
    /\ owns_client \in BOOLEAN /\ client_closed = FALSE
    /\ starts = 0 /\ current = 0 /\ task = [l \in Loops |-> Off]
    /\ stop_event = FALSE /\ stopping = 0 /\ timed_out = FALSE
    /\ cache = None /\ seeded = FALSE /\ slipped = FALSE

-------------------------------------------------------------------------------
(* The control plane changes, and tells the streams that are open. *)

Absent == -1
Message(kill, policy) == [kill |-> kill, policy |-> policy]
Current == Message(kills, Len(published))

Tell(m) ==
    /\ changes + starts < MaxMoves /\ changes' = changes + 1
    /\ task' = [l \in Loops |-> IF task[l].at = "listening"
                                THEN [task[l] EXCEPT !.news = Append(@, m)] ELSE task[l]]
    /\ UNCHANGED <<owns_client, client_closed, starts, current, stop_event, stopping,
                   timed_out, installs, slipped>>

SetKill == kills' = kills + 1 /\ Tell(Message(kills', Absent)) /\ UNCHANGED published

Publish(c) ==
    /\ \A d \in Contents : d < c => d \in ToSet(published)
    /\ published' = Append(published, c)
    /\ Tell(Message(Absent, Len(published')))
    /\ UNCHANGED kills

-------------------------------------------------------------------------------
(* _handle_event(), _apply_policy_update() *)

\* Mutant of Remember: the hash of the first installation stays.
RememberFirst(v) == cache' = IF cache = None /\ v > version THEN published[v] ELSE cache

Remember(v) == cache' = IF v > version THEN published[v] ELSE cache

\* Contents that are cached are skipped; the engine takes only newer versions,
\* and those are cached and saved, unless the save fails.
Apply(v) ==
    IF v <= 0 \/ cache = published[v] THEN UNCHANGED <<cache, version, file, seeded>>
    ELSE /\ version' = IF v > version THEN v ELSE version
         /\ Remember(v)
         /\ seeded' = (seeded /\ v <= version)
         /\ \/ UNCHANGED file
            \/ v > version /\ file' = v

Handle(m) ==
    /\ kill_switch' = IF m.kill = Absent THEN kill_switch ELSE m.kill
    /\ Apply(m.policy)

-------------------------------------------------------------------------------
(* _run_loop(), _run_sse(), _poll_once() *)

Becomes(l, at) == task' = [task EXCEPT ![l] = [at |-> at, news |-> <<>>]]
quiet == <<server, owns_client, client_closed, starts, current, stop_event, stopping,
           timed_out, slipped>>

\* The condition of the loop; then the stream, or a wait if the breaker refuses.
Turn(l) == IF stop_event THEN Becomes(l, "off")
           ELSE Becomes(l, "connecting") \/ Becomes(l, "waiting")

\* The task that start() made runs for the first time.
Begin(l) == task[l].at = "created" /\ Turn(l) /\ UNCHANGED <<quiet, installs>>

Connected(l) ==
    /\ task[l].at = "connecting" /\ ~client_closed
    /\ task' = [task EXCEPT ![l] = [at |-> "listening", news |-> <<Current>>]]
    /\ UNCHANGED <<quiet, installs>>

\* 401 or 403 ends the loop for good.
Rejected(l) ==
    /\ task[l].at = "connecting" /\ ~client_closed
    /\ Becomes(l, "off")
    /\ UNCHANGED <<quiet, installs>>

\* Mutant of Receive: an event that comes while stop() waits is still applied.
ReceiveAnyway(l) ==
    /\ task[l].at = "listening" /\ task[l].news # <<>>
    /\ Handle(Head(task[l].news))
    /\ task' = [task EXCEPT ![l].news = Tail(@)]
    /\ UNCHANGED quiet

Receive(l) ==
    /\ task[l].at = "listening" /\ task[l].news # <<>>
    /\ UNCHANGED quiet
    /\ IF stop_event THEN Becomes(l, "off") /\ UNCHANGED installs
       ELSE /\ Handle(Head(task[l].news))
            /\ task' = [task EXCEPT ![l].news = Tail(@)]

\* The server closes the stream: the next one is opened at once.
StreamEnds(l) ==
    /\ task[l].at = "listening" /\ task[l].news = <<>>
    /\ Turn(l)
    /\ UNCHANGED <<quiet, installs>>

\* Any other failure, a closed client's too, is followed by one poll, also after
\* stop(); what was on its way is lost.
Fails(l) ==
    /\ task[l].at \in {"connecting", "listening"}
    /\ Becomes(l, "polling")
    /\ UNCHANGED <<quiet, installs>>

Answered(l) ==
    /\ task[l].at = "polling" /\ task[l].news = <<>> /\ ~client_closed
    /\ task' = [task EXCEPT ![l].news = <<Current>>]
    /\ UNCHANGED <<quiet, installs>>

\* The wait for the stop event returns at once if it is set.
PollOver(l) ==
    /\ task[l].at = "polling"
    /\ \/ task[l].news # <<>> /\ Handle(Head(task[l].news))
       \/ UNCHANGED installs
    /\ Becomes(l, IF stop_event THEN "off" ELSE "waiting")
    /\ UNCHANGED quiet

\* The backoff is over, or the stop event was set.
Waited(l) ==
    /\ task[l].at \in {"waiting", "woken"}
    /\ IF task[l].at = "woken" THEN Becomes(l, "off") ELSE Turn(l)
    /\ UNCHANGED <<quiet, installs>>

\* The breaker lets the loop try.
Admitted(l) == (Begin(l) \/ Waited(l)) /\ task'[l].at = "connecting"

-------------------------------------------------------------------------------
(* start() and stop() *)

\* _restore_persisted_policy_version: the cache is filled by what the file holds,
\* also if the engine has a newer policy; an envelope that is too old is not
\* installed.
Restore ==
    \/ /\ file > 0
       /\ version' = IF file > version THEN file ELSE version
       /\ cache' = published[file] /\ seeded' = TRUE
       /\ UNCHANGED <<kill_switch, file>>
    \/ (file = 0 \/ file > version) /\ UNCHANGED installs

\* Mutant of start: it does not look whether the task is done.
start_anyway ==
    /\ starts < MaxStarts /\ changes + starts < MaxMoves
    /\ Restore
    /\ starts' = starts + 1 /\ current' = starts' /\ stop_event' = FALSE
    /\ Becomes(starts', "created")
    /\ UNCHANGED <<server, owns_client, client_closed, stopping, timed_out, slipped>>

start ==
    /\ IF current = 0 THEN TRUE ELSE task[current].at = "off"
    /\ starts < MaxStarts /\ changes + starts < MaxMoves
    /\ Restore
    /\ starts' = starts + 1 /\ current' = starts' /\ stop_event' = FALSE
    /\ Becomes(starts', "created")
    /\ UNCHANGED <<server, owns_client, client_closed, stopping, timed_out, slipped>>

\* A sleeping loop wakes.  Without a task there is nothing to wait for.
stop ==
    /\ stopping = 0
    /\ stop_event' = TRUE /\ stopping' = current /\ timed_out' = FALSE
    /\ task' = [l \in Loops |-> IF task[l].at = "waiting" THEN [task[l] EXCEPT !.at = "woken"]
                                ELSE task[l]]
    /\ client_closed' = (client_closed \/ (current = 0 /\ owns_client))
    /\ UNCHANGED <<server, owns_client, starts, current, installs, slipped>>

\* After five seconds the task is cancelled, whatever it awaits.
StopTimesOut ==
    /\ ~timed_out
    /\ IF stopping = 0 THEN FALSE ELSE task[stopping].at # "off"
    /\ timed_out' = TRUE
    /\ Becomes(stopping, "off")
    /\ UNCHANGED <<server, owns_client, client_closed, starts, current, stop_event, stopping,
                   installs, slipped>>

Stopped ==
    /\ stopping' = 0 /\ current' = 0 /\ slipped' = (slipped \/ current # stopping)
    /\ client_closed' = (client_closed \/ owns_client)
    /\ UNCHANGED <<server, owns_client, starts, stop_event, timed_out, installs>>

\* Mutant of StopReturns: it does not wait for the task.
StopReturnsEarly == stopping # 0 /\ Stopped /\ UNCHANGED task

\* stop() resumes once the task is done, which a start() may have seen first: the task
\* of that one is cancelled in turn if stop() had timed out, and forgotten otherwise.
StopReturns ==
    /\ IF stopping = 0 THEN FALSE ELSE task[stopping].at = "off"
    /\ IF timed_out /\ current # stopping
       THEN /\ stopping' = current /\ timed_out' = FALSE
            /\ Becomes(current, "off")
            /\ UNCHANGED <<server, owns_client, client_closed, starts, current, stop_event,
                           installs, slipped>>
       ELSE Stopped /\ UNCHANGED task

-------------------------------------------------------------------------------
Changes == SetKill \/ \E c \in Contents : Publish(c)

LoopStep(l) ==
    \/ Begin(l) \/ Connected(l) \/ Rejected(l) \/ Receive(l) \/ StreamEnds(l) \/ Fails(l)
    \/ Answered(l) \/ PollOver(l) \/ Waited(l)

Next ==
    \/ Changes \/ start \/ stop \/ StopTimesOut \/ StopReturns
    \/ \E l \in Loops : LoopStep(l)

Spec == Init /\ [][Next]_vars

\* Steps taken because timers fire, callbacks run and requests end.
Obliged(l) ==
    \/ Begin(l) \/ PollOver(l) \/ Waited(l) \/ StopTimesOut \/ StopReturns
    \/ task[l].at = "connecting" /\ LoopStep(l)
    \/ client_closed /\ task[l].at = "listening" /\ Fails(l)

-------------------------------------------------------------------------------
\* Every variable has its type (class AsyncControlReceiver).
TypeOK ==
    /\ kills \in 0..MaxMoves /\ changes \in 0..MaxMoves /\ published \in Seq(Contents)
    /\ {owns_client, client_closed, stop_event, timed_out, seeded, slipped} \subseteq BOOLEAN
    /\ starts \in 0..MaxStarts /\ current \in 0..starts /\ stopping \in 0..starts
    /\ \A l \in Loops : task[l].at \in {"off", "created", "connecting", "listening",
                                        "polling", "waiting", "woken"}
    /\ cache \in Contents \cup {None} /\ kill_switch \in 0..kills
    /\ {version, file} \subseteq 0..Len(published)

\* What the cache calls installed is in force, but for what it was filled with from
\* the file (_apply_policy_update, _restore_persisted_policy_version).
CacheOfVersion == cache # None => seeded \/ (version > 0 /\ cache = published[version])

Running == {l \in Loops : task[l].at # "off"}

\* However start() and stop() overlap, one loop runs at a time, and none once
\* stop() has returned; unless a start() came between the end of the task and the
\* return of stop(), which then forgets the new one (start, stop).
StopsWhatStarted ==
    slipped \/ /\ Cardinality(Running) <= 1
               /\ stop_event /\ stopping = 0 => Running = {}

\* While stop() waits, no event is applied; only the answer of a poll that is under way
\* may be, and nothing after stop() has returned (_run_sse, _run_loop).
NothingAfterStop ==
    [][stop_event' /\ ~slipped /\ engine' # engine => \E l \in Loops : task[l].at = "polling"]_vars

\* A receiver that runs, on a client that is open, ends up with what the control plane
\* last said, however connections break; except that a cache filled from the file keeps
\* the contents it names from being installed (_run_loop, _apply_policy_update).
Agrees ==
    \/ Running = {} \/ stop_event \/ client_closed \/ slipped
    \/ /\ kill_switch = kills
       /\ published # <<>> => \/ seeded /\ cache = Last(published)
                              \/ version > 0 /\ published[version] = Last(published)

\* After stop() the task comes to an end, also one that is in the middle of a request
\* (stop).
Unwound == ~stop_event \/ slipped \/ (Running = {} /\ stopping = 0)
=================================================================================
