----------------------------- MODULE JsFileWatcher -----------------------------
(***************************************************************************)
(* The two file watchers of the JavaScript SDK (watchers.ts): a policy     *)
(* file, and the sentinel of the kill switch.  Both are the same machine:  *)
(* start() polls once and sets a timer, the timer polls, stop() clears it. *)
(* A poll awaits the file system, whose answers may be late, so a slow     *)
(* poll overlaps the next, and start() may be overtaken by stop().         *)
(*                                                                         *)
(* A file is written as a whole.  Every write has an mtime and contents of *)
(* its own; putting a file back brings its mtime back with it.             *)
(***************************************************************************)
EXTENDS Naturals

CONSTANTS WatcherKinds,  \* "policy", "switch"
          Slots,         \* polls at a time
          MaxWrites, MaxStarts,
          NoFile, None

JsWatcherAssumption ==
    /\ WatcherKinds \subseteq {"policy", "switch"}
    /\ MaxWrites \in Nat /\ MaxStarts \in Nat
    /\ NoFile \notin Nat /\ None \notin Nat \cup {NoFile, "present", "absent"}

VARIABLES
    kind,        \* which watcher it is (input)
    wellformed,  \* the writes that parse (input)
    file,        \* the write whose result the file is, or NoFile
    writes,
    running,
    timer,       \* this.timer
    lost_timer,  \* a timer that no field refers to any more
    last,        \* lastMtime, or lastActive; or None
    poll,        \* what each poll awaits and what it has been told
    applied,     \* what the engine was last told: a write, or a presence
    starts,
    overtaken,   \* history: stop() was called before start() had set its timer
    missed       \* history: why the file may not be in force
fields == <<running, timer, lost_timer, last, starts, overtaken>>
vars == <<kind, wellformed, file, writes, fields, poll, applied, missed>>

NoPoll == [at |-> "off", told |-> None, starting |-> FALSE]
Present(f) == IF f = NoFile THEN "absent" ELSE "present"

\* What a poll asks the file system.
Seen(f) == IF kind = "switch" THEN Present(f) ELSE f

\* The application has loaded the policy, or the switch is off, before start().
Init ==
    /\ kind \in WatcherKinds
    /\ wellformed \in IF kind = "policy" THEN {w \in SUBSET (0..MaxWrites) : 0 \in w}
                      ELSE {{}}
    /\ file = (IF kind = "policy" THEN 0 ELSE NoFile) /\ writes = 0
    /\ running = FALSE /\ timer = "null" /\ lost_timer = FALSE
    /\ last = None /\ starts = 0 /\ overtaken = FALSE
    /\ poll = [p \in Slots |-> NoPoll]
    /\ applied = IF kind = "policy" THEN 0 ELSE "absent"
    /\ missed = FALSE

-------------------------------------------------------------------------------
(* The file system, external.  A file that changes before the watcher has *)
(* first seen it is not reloaded: the first poll only notes the mtime.     *)

Change(f) ==
    /\ file' = f /\ f # file
    /\ missed' = (missed \/ (kind = "policy" /\ last = None))
    /\ UNCHANGED <<kind, wellformed, fields, poll, applied>>

Write ==
    /\ writes < MaxWrites
    /\ writes' = writes + 1
    /\ Change(writes')

Remove == Change(NoFile) /\ UNCHANGED writes
PutBack == \E f \in 0..writes : file = NoFile /\ Change(f) /\ UNCHANGED writes

-------------------------------------------------------------------------------
\* A poll begins in a free slot.
Begin(p, starting) ==
    /\ poll[p] = NoPoll
    /\ poll' = [poll EXCEPT ![p] = [at |-> "look", told |-> None, starting |-> starting]]

start(p) ==
    /\ ~running /\ running' = TRUE
    /\ starts < MaxStarts /\ starts' = starts + 1
    /\ Begin(p, TRUE)
    /\ UNCHANGED <<kind, wellformed, file, writes, timer, lost_timer, last, applied,
                   overtaken, missed>>

\* Mutant of stop: the timer goes on.
stop_keeps_timer ==
    /\ running /\ running' = FALSE
    /\ UNCHANGED <<kind, wellformed, file, writes, timer, lost_timer, last, starts, overtaken,
                   poll, applied, missed>>

stop ==
    /\ running /\ running' = FALSE
    /\ timer' = "null"
    /\ overtaken' = (overtaken \/ \E p \in Slots : poll[p].starting)
    /\ UNCHANGED <<kind, wellformed, file, writes, lost_timer, last, starts,
                   poll, applied, missed>>

TimerFires(p) ==
    /\ timer = "set" \/ lost_timer
    /\ Begin(p, FALSE)
    /\ UNCHANGED <<kind, wellformed, file, writes, fields, applied, missed>>

\* The file system looks at the file, or reads it, and answers when it likes.
Look(p) ==
    /\ poll[p].at = "look"
    /\ poll' = [poll EXCEPT ![p].at = "looked", ![p].told = Seen(file)]
    /\ UNCHANGED <<kind, wellformed, file, writes, fields, applied, missed>>

Read(p) ==
    /\ poll[p].at = "read"
    /\ poll' = [poll EXCEPT ![p].at = "have read", ![p].told = file]
    /\ UNCHANGED <<kind, wellformed, file, writes, fields, applied, missed>>

\* A poll is over; start()'s, too, which sets a timer in any case.
Over(p) ==
    /\ poll' = [poll EXCEPT ![p] = NoPoll]
    /\ IF poll[p].starting
       THEN timer' = "set" /\ lost_timer' = (lost_timer \/ timer = "set")
       ELSE UNCHANGED <<timer, lost_timer>>
    /\ UNCHANGED <<kind, wellformed, file, writes, running, starts, overtaken>>

\* Mutant of Unchanged: only a later mtime is a change.
UnchangedUnlessLater(p) ==
    /\ poll[p].at = "looked"
    /\ \/ poll[p].told = last
       \/ kind = "policy" /\ (poll[p].told = NoFile \/ last = None)
       \/ kind = "policy" /\ {poll[p].told, last} \subseteq Nat /\ poll[p].told < last
    /\ last' = IF kind = "policy" /\ last = None /\ poll[p].told # NoFile
               THEN poll[p].told ELSE last
    /\ Over(p) /\ UNCHANGED <<applied, missed>>

\* The poll finds no file, or the first mtime, or nothing new.
Unchanged(p) ==
    /\ poll[p].at = "looked"
    /\ \/ kind = "policy" /\ (poll[p].told = NoFile \/ last = None)
       \/ poll[p].told = last
    /\ last' = IF kind = "policy" /\ last = None /\ poll[p].told # NoFile
               THEN poll[p].told ELSE last
    /\ Over(p) /\ UNCHANGED <<applied, missed>>

\* A new mtime is noted before the file is read.
Changed(p) ==
    /\ kind = "policy"
    /\ poll[p].at = "looked"
    /\ poll[p].told \notin {NoFile, last} /\ last # None
    /\ last' = poll[p].told
    /\ poll' = [poll EXCEPT ![p].at = "read"]
    /\ UNCHANGED <<kind, wellformed, file, writes, running, timer, lost_timer, starts,
                   overtaken, applied, missed>>

\* Mutant of Toggled: a sentinel that is taken away does not release the switch.
ToggledOnce(p) ==
    /\ kind = "switch"
    /\ poll[p].at = "looked" /\ poll[p].told # last
    /\ last' = poll[p].told
    /\ applied' = IF poll[p].told = "present" THEN "present" ELSE applied
    /\ Over(p) /\ UNCHANGED missed

\* A new presence is noted and the switch set.
Toggled(p) ==
    /\ kind = "switch"
    /\ poll[p].at = "looked" /\ poll[p].told # last
    /\ last' = poll[p].told /\ applied' = poll[p].told
    /\ Over(p) /\ UNCHANGED missed

\* What was read is put in force, if it parses.  It may not be what the file
\* is by now: a write since then has an mtime that the next poll finds, unless
\* another poll has already noted it; and a file that could not be read, or
\* that is put back as it was, has the mtime that is noted.
Reload(p) ==
    /\ poll[p].at = "have read"
    /\ applied' = IF poll[p].told \in wellformed THEN poll[p].told ELSE applied
    /\ missed' = (poll[p].told # last)
    /\ last' = last
    /\ Over(p)

Step(p) == Look(p) \/ Read(p) \/ Unchanged(p) \/ Changed(p) \/ Toggled(p) \/ Reload(p)

Next ==
    \/ Write \/ Remove \/ PutBack
    \/ stop
    \/ \E p \in Slots : start(p) \/ TimerFires(p) \/ Step(p)

\* The file system answers, and timers fire when a slot is free.
Fairness ==
    \A p \in Slots : WF_vars(Step(p)) /\ WF_vars(TimerFires(p))

Spec == Init /\ [][Next]_vars /\ Fairness
-------------------------------------------------------------------------------
(* Properties. *)

TypeOK ==
    /\ kind \in WatcherKinds /\ wellformed \subseteq 0..MaxWrites
    /\ writes \in 0..MaxWrites /\ file \in 0..writes \cup {NoFile}
    /\ {running, lost_timer, overtaken, missed} \subseteq BOOLEAN
    /\ timer \in {"null", "set"} /\ starts \in 0..MaxStarts
    /\ LET What == IF kind = "policy" THEN 0..writes ELSE {"present", "absent"}
       IN  /\ last \in What \cup {None} /\ applied \in What
           /\ poll \in [Slots -> [at : {"off", "look", "looked", "read", "have read"},
                                  told : What \cup {NoFile, None}, starting : BOOLEAN]]

\* However its polls overlap, what the watcher has noted is what it has applied: with no
\* poll between its look and its reload, the policy in force is the one whose mtime is
\* noted, if it parses and none was missed, and the switch is as the sentinel was last
\* seen (pollOnce of either class).  So nothing is taken for unchanged that is not in
\* force.
NotedInForce ==
    /\ kind = "policy" /\ ~missed /\ last \in wellformed
          /\ (\A p \in Slots : poll[p].at \notin {"read", "have read"})
       => applied = last
    /\ kind = "switch" => applied = IF last = None THEN "absent" ELSE last

\* A running watcher ends up with the policy that the file holds, if it parses,
\* and with the switch as the sentinel has it, however slowly the file system
\* answers; but for a policy that was missed (pollOnce of either class).
Follows ==
    []<>(\/ ~running \/ missed
         \/ kind = "policy" /\ (file \in wellformed => applied = file)
         \/ kind = "switch" /\ applied = Present(file))

\* A stopped watcher comes to rest, unless stop() overtook a start(), whose
\* timer then goes on for ever (start, stop).
WindsDown ==
    []<>(\/ running \/ overtaken
         \/ timer = "null" /\ ~lost_timer /\ \A p \in Slots : poll[p] = NoPoll)
===============================================================================
