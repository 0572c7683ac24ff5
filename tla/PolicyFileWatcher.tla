--------------------------- MODULE PolicyFileWatcher ---------------------------
(***************************************************************************)
(* The watcher that reloads the engine's policy from a local file          *)
(* (wrappers/python/src/checkrd/watchers.py).  Its poll is not atomic: the *)
(* file may change between any two of its steps, stat, read, stat again,   *)
(* reload, note the mtime.  With the polling backend one thread polls for  *)
(* ever.  With the watchdog backend that thread polls once, and a second   *)
(* one, the observer, polls once per file event; no lock keeps the two     *)
(* apart.                                                                  *)
(*                                                                         *)
(* The contents of the file are the number of the write, and so is its     *)
(* modification time, unless the write carries an old time with it (a      *)
(* restored backup, a clock too coarse or set back).                       *)
(***************************************************************************)
EXTENDS Naturals, FiniteSets

CONSTANTS Backends,   \* backends in use, of "poll" and "watchdog"
          MaxWrites,  \* bound on the writes to the file
          MaxBackdated, \* and on those with an old modification time
          NoFile      \* the file is missing; the mtime of a missing file (None)

\* Of the constants.
WatcherAssumption ==
    /\ Backends \subseteq {"poll", "watchdog"}
    /\ {MaxWrites, MaxBackdated} \subseteq Nat /\ NoFile \notin Nat

\* With the polling backend the observer never gets an event.
Threads == {"worker", "observer"}
Contents == 0..MaxWrites

VARIABLES
    backend,        \* _backend
    file,           \* contents of the file, or NoFile
    writes,         \* writes so far
    backdated,      \* which writes carry an old modification time
    wellformed,     \* which contents parse as a policy
    in_force,       \* contents of the policy the engine enforces
    installer,      \* history: what installed it, "init" or "poll"
    last_mtime,     \* _last_mtime
    pc,             \* per thread: the next step of its poll
    current_mtime,  \* per thread: local variables of _poll
    content,
    settled_mtime,
    overtaken,      \* history: the other thread reloaded between the last noting
                    \* thread's reload and its note
    events,         \* file events the observer has not handled yet
    unsafe          \* history: writes made before construction, or between a
                    \* poll's read and its second stat

env == <<backend, file, writes, backdated, wellformed>>
locals == <<current_mtime, content, settled_mtime>>
vars == <<env, in_force, installer, last_mtime, pc, locals, overtaken, events, unsafe>>

\* The engine has been initialised with the file's contents; the watcher is
\* about to be constructed.
Init ==
    /\ backend \in Backends
    /\ file = 0 /\ writes = 0 /\ backdated = {}
    /\ wellformed \in {good \in SUBSET Contents : 0 \in good}
    /\ in_force = 0 /\ installer = "init"
    /\ last_mtime = NoFile
    /\ pc = [t \in Threads |-> IF t = "worker" THEN "construct" ELSE "waiting"]
    /\ current_mtime = [t \in Threads |-> NoFile]
    /\ content = [t \in Threads |-> NoFile]
    /\ settled_mtime = [t \in Threads |-> NoFile]
    /\ overtaken = FALSE /\ events = 0 /\ unsafe = {}

\* _safe_mtime() of given contents; an old modification time is that of the
\* first contents.
Mtime(n) == IF n \in backdated THEN 0 ELSE n
SafeMtime == IF file = NoFile THEN NoFile ELSE Mtime(file)

Goto(t, step) == pc' = [pc EXCEPT ![t] = step]

\* Events are observed from the moment the worker has started the observer.
Observed ==
    IF backend = "watchdog" /\ pc["worker"] \notin {"construct", "start"}
    THEN events + 1 ELSE events

-------------------------------------------------------------------------------
(* The operator's side. *)

Write ==
    /\ writes < MaxWrites
    /\ writes' = writes + 1
    /\ file' = writes + 1
    /\ backdated' \in {B \in {backdated, backdated \cup {writes + 1}} :
                          Cardinality(B) <= MaxBackdated}
    /\ events' = Observed
    /\ unsafe' = IF \E t \in Threads : pc[t] \in {"construct", "settle"}
                 THEN unsafe \cup {writes + 1} ELSE unsafe
    /\ UNCHANGED <<backend, wellformed, in_force, installer, last_mtime, pc, locals>>
    /\ UNCHANGED overtaken

Remove ==
    /\ file # NoFile
    /\ writes < MaxWrites
    /\ file' = NoFile
    /\ events' = Observed
    /\ UNCHANGED <<backend, writes, backdated, wellformed, in_force, installer, last_mtime>>
    /\ UNCHANGED <<pc, locals, overtaken, unsafe>>

-------------------------------------------------------------------------------
(* The watcher. *)

\* __init__ captures the mtime.
Construct ==
    /\ pc["worker"] = "construct"
    /\ last_mtime' = SafeMtime
    /\ Goto("worker", "start")
    /\ UNCHANGED <<env, in_force, installer, locals, events, overtaken, unsafe>>

\* start() runs the worker, which, with watchdog, starts the observer.
Start ==
    /\ pc["worker"] = "start"
    /\ Goto("worker", "stat")
    /\ UNCHANGED <<env, in_force, installer, last_mtime, locals, events, overtaken, unsafe>>

\* Where a thread goes after a poll: the polling worker polls again, the
\* watchdog's worker is done, the observer waits for an event.
After(t) == IF t = "observer" THEN "waiting"
            ELSE IF backend = "poll" THEN "stat" ELSE "done"

\* _poll returns, and its local variables are gone.
Return(t) ==
    /\ Goto(t, After(t))
    /\ current_mtime' = [current_mtime EXCEPT ![t] = NoFile]
    /\ content' = [content EXCEPT ![t] = NoFile]
    /\ settled_mtime' = [settled_mtime EXCEPT ![t] = NoFile]

\* The observer takes an event; a worker that dies stops it (_run_watchdog, finally).
Wake ==
    /\ pc["observer"] = "waiting" /\ pc["worker"] # "dead"
    /\ events > 0
    /\ events' = events - 1
    /\ Goto("observer", "stat")
    /\ UNCHANGED <<env, in_force, installer, last_mtime, locals, overtaken, unsafe>>

\* The first stat; the mtime of a missing file is NoFile.
Stat(t) ==
    /\ pc[t] = "stat"
    /\ current_mtime' = [current_mtime EXCEPT ![t] = SafeMtime]
    /\ Goto(t, "compare")
    /\ UNCHANGED <<env, in_force, installer, last_mtime, content, settled_mtime, events,
                   overtaken, unsafe>>

\* A file that is missing ends the poll, and is noted to be; one that is there for the
\* first time is read.
Compare(t) ==
    /\ pc[t] = "compare"
    /\ last_mtime' = IF current_mtime[t] = NoFile THEN NoFile ELSE last_mtime
    /\ Goto(t, IF current_mtime[t] = NoFile THEN After(t)
               ELSE IF last_mtime = NoFile THEN "read" ELSE "newer")
    /\ UNCHANGED <<env, in_force, installer, locals, events, overtaken, unsafe>>

\* "current_mtime <= self._last_mtime" reads the field a second time: if the other thread
\* has found the file missing since, None is compared, and the TypeError ends the thread.
Newer(t) ==
    /\ pc[t] = "newer"
    /\ IF last_mtime = NoFile \/ current_mtime[t] > last_mtime
       THEN Goto(t, IF last_mtime = NoFile THEN "dead" ELSE "read") /\ UNCHANGED locals
       ELSE Return(t)
    /\ UNCHANGED <<env, in_force, installer, last_mtime, events, overtaken, unsafe>>

\* Mutant of Read: what was read is not checked.
ReadUnchecked(t) ==
    /\ pc[t] = "read"
    /\ IF file # NoFile
       THEN /\ content' = [content EXCEPT ![t] = file]
            /\ Goto(t, "settle") /\ UNCHANGED <<current_mtime, settled_mtime>>
       ELSE Return(t)
    /\ UNCHANGED <<env, in_force, installer, last_mtime, events, overtaken, unsafe>>

\* A file that is gone or does not parse ends the poll: the previous policy
\* stays, and so does _last_mtime.
Read(t) ==
    /\ pc[t] = "read"
    /\ IF file # NoFile /\ file \in wellformed
       THEN /\ content' = [content EXCEPT ![t] = file]
            /\ Goto(t, "settle") /\ UNCHANGED <<current_mtime, settled_mtime>>
       ELSE Return(t)
    /\ UNCHANGED <<env, in_force, installer, last_mtime, events, overtaken, unsafe>>

\* Mutant of Settle: the second stat is believed even if the file is gone.
SettleOnly(t) ==
    /\ pc[t] = "settle"
    /\ settled_mtime' = [settled_mtime EXCEPT ![t] = SafeMtime]
    /\ Goto(t, "reload")
    /\ UNCHANGED <<env, in_force, installer, last_mtime, current_mtime, content, events,
                   overtaken, unsafe>>

\* The second stat, or the first one if the file is gone since.
Settle(t) ==
    /\ pc[t] = "settle"
    /\ settled_mtime' =
          [settled_mtime EXCEPT ![t] = IF file # NoFile THEN SafeMtime ELSE current_mtime[t]]
    /\ Goto(t, "reload")
    /\ UNCHANGED <<env, in_force, installer, last_mtime, current_mtime, content, events,
                   overtaken, unsafe>>

\* reload_policy().
Reload(t) ==
    /\ pc[t] = "reload"
    /\ in_force' = content[t]
    /\ installer' = "poll"
    /\ Goto(t, "note")
    /\ UNCHANGED <<env, last_mtime, locals, events, overtaken, unsafe>>

\* Mutant of Note: the mtime is taken after the reload.
NoteStats(t) ==
    /\ pc[t] = "note"
    /\ last_mtime' = IF file # NoFile THEN SafeMtime ELSE settled_mtime[t]
    /\ overtaken' = (in_force # content[t])
    /\ Return(t)
    /\ UNCHANGED <<env, in_force, installer, events, unsafe>>

\* _last_mtime, after the reload: no lock is held from one to the other.
Note(t) ==
    /\ pc[t] = "note"
    /\ last_mtime' = settled_mtime[t]
    /\ overtaken' = (in_force # content[t])
    /\ Return(t)
    /\ UNCHANGED <<env, in_force, installer, events, unsafe>>

Step(t) ==
    \/ Stat(t) \/ Compare(t) \/ Newer(t)
    \/ Read(t) \/ Settle(t) \/ Reload(t) \/ Note(t)

Next ==
    \/ Write
    \/ Remove
    \/ Construct
    \/ Start
    \/ Wake
    \/ \E t \in Threads : Step(t)

Spec == Init /\ [][Next]_vars

\* The threads keep running; nobody has to touch the file.
Fairness ==
    /\ WF_vars(Construct)
    /\ WF_vars(Start)
    /\ WF_vars(Wake)
    /\ \A t \in Threads : WF_vars(Step(t))

FairSpec == Spec /\ Fairness
-------------------------------------------------------------------------------
\* Every variable has its type, and a poll that got as far as the reload has
\* contents to install and an mtime to note.
TypeOK ==
    /\ backend \in Backends
    /\ file \in Contents \cup {NoFile}
    /\ writes \in Contents
    /\ wellformed \subseteq Contents /\ backdated \subseteq Contents
    /\ in_force \in Contents
    /\ installer \in {"init", "poll"}
    /\ last_mtime \in Contents \cup {NoFile}
    /\ pc \in [Threads -> {"construct", "start", "waiting", "stat", "compare", "newer", "read",
                         "settle", "reload", "note", "done", "dead"}]
    /\ current_mtime \in [Threads -> Contents \cup {NoFile}]
    /\ content \in [Threads -> Contents \cup {NoFile}]
    /\ settled_mtime \in [Threads -> Contents \cup {NoFile}]
    /\ \A t \in Threads :
          pc[t] \in {"reload", "note"} => {content[t], settled_mtime[t]} \subseteq Contents
    /\ overtaken \in BOOLEAN
    /\ events \in 0..2 * MaxWrites
    /\ unsafe \subseteq Contents

\* "a malformed file never breaks a running agent" (watchers.py:174): the
\* policy in force always parsed, however the file changes during a poll.
AlwaysWellformed == in_force \in wellformed

\* A thread has reloaded and not yet noted the mtime.
Noting == \E t \in Threads : pc[t] = "note"

\* What is installed and when hides no change: whatever the two threads did with
\* earlier contents, once neither is between its reload and its note, a file that is
\* newer than the policy in force has an mtime that the next poll takes for new, unless
\* the write was unsafe or carried an old modification time, or the mtime was noted for
\* contents that the other thread had replaced by then (_poll).
NothingHidden ==
    \A n \in Contents :
        (file = n /\ n \notin unsafe \cup backdated /\ in_force < n /\ ~Noting /\ ~overtaken)
            => last_mtime = NoFile \/ SafeMtime > last_mtime

\* With the polling backend, a well-formed change is put in force unless the
\* file changes again, the write was unsafe or carried an old modification
\* time; what a poll did with earlier contents, malformed or backdated ones
\* included, does not hide it.
ChangesApplied ==
    \A n \in Contents :
        (backend = "poll" /\ file = n /\ n \in wellformed /\ n \notin unsafe \cup backdated)
            ~> (in_force >= n \/ file # n)

\* "we record the mtime that matches the bytes we installed"
\* (watchers.py:332).
MtimeMatchesInstalled ==
    installer = "poll" /\ last_mtime # NoFile /\ ~Noting => last_mtime = Mtime(in_force)
===============================================================================
