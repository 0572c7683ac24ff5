------------------------- MODULE KillSwitchFileWatcher -------------------------
(***************************************************************************)
(* The watcher that makes the engine's kill switch follow a sentinel file  *)
(* (wrappers/python/src/checkrd/watchers.py).  As in PolicyFileWatcher,    *)
(* the file may change between any two steps of a poll, and the watchdog   *)
(* backend polls from two threads.  The control receiver, when there is    *)
(* one, sets the same switch.                                              *)
(***************************************************************************)
EXTENDS Naturals

CONSTANTS Backends,    \* backends in use, of "poll" and "watchdog"
          MaxChanges,  \* bound on the creations and removals of the file
          MaxFailures, \* bound on the calls of set_kill_switch that raise
          MaxRemote    \* bound on the control receiver's settings

\* Of the constants.
SentinelAssumption ==
    Backends \subseteq {"poll", "watchdog"} /\ {MaxChanges, MaxFailures, MaxRemote} \subseteq Nat

\* With the polling backend the observer never gets an event.
Threads == {"worker", "observer"}
Switch == {"on", "off"}

VARIABLES
    backend,       \* _backend
    file,          \* "on": the sentinel file exists
    kill_switch,   \* the engine's kill switch
    last_present,  \* _last_present
    pc,            \* per thread: the next step of its poll
    present,       \* per thread: local variable of _poll
    events,        \* file events the observer has not handled yet
    changes, failures, remote  \* bounded counts

counts == <<changes, failures, remote>>
vars == <<backend, file, kill_switch, last_present, pc, present, events, counts>>

Init ==
    /\ backend \in Backends
    /\ file \in Switch
    /\ kill_switch = "off" /\ last_present = "off"
    /\ pc = [t \in Threads |-> IF t = "worker" THEN "construct" ELSE "waiting"]
    /\ present = [t \in Threads |-> "off"]
    /\ events = 0
    /\ changes = 0 /\ failures = 0 /\ remote = 0

Goto(t, step) == pc' = [pc EXCEPT ![t] = step]

-------------------------------------------------------------------------------
(* touch and rm, and the control receiver. *)

Observed ==
    IF backend = "watchdog" /\ pc["worker"] \notin {"construct", "start"}
    THEN events + 1 ELSE events

Toggle ==
    /\ changes < MaxChanges
    /\ changes' = changes + 1
    /\ file' = IF file = "on" THEN "off" ELSE "on"
    /\ events' = Observed
    /\ UNCHANGED <<backend, kill_switch, last_present, pc, present, failures, remote>>

RemoteSet ==
    /\ remote < MaxRemote
    /\ remote' = remote + 1
    /\ kill_switch' \in Switch
    /\ UNCHANGED <<backend, file, last_present, pc, present, events, changes, failures>>

-------------------------------------------------------------------------------
(* The watcher. *)

\* _safe_set: an exception of set_kill_switch is logged and swallowed.
SafeSet(active) ==
    \/ kill_switch' = active /\ UNCHANGED failures
    \/ /\ failures < MaxFailures
       /\ failures' = failures + 1
       /\ UNCHANGED kill_switch

\* Mutant of Construct: the initial state is noted and not applied.
ConstructNotes ==
    /\ pc["worker"] = "construct"
    /\ last_present' = file
    /\ UNCHANGED <<kill_switch, failures>>
    /\ Goto("worker", "start")
    /\ UNCHANGED <<backend, file, present, events, changes, remote>>

\* __init__ notes whether the file exists, and kills at once if it does.
Construct ==
    /\ pc["worker"] = "construct"
    /\ last_present' = file
    /\ IF file = "on" THEN SafeSet("on") ELSE UNCHANGED <<kill_switch, failures>>
    /\ Goto("worker", "start")
    /\ UNCHANGED <<backend, file, present, events, changes, remote>>

\* start() runs the worker, which, with watchdog, starts the observer.
Start ==
    /\ pc["worker"] = "start"
    /\ Goto("worker", "look")
    /\ UNCHANGED <<backend, file, kill_switch, last_present, present, events, counts>>

After(t) == IF t = "observer" THEN "waiting"
            ELSE IF backend = "poll" THEN "look" ELSE "done"

Wake ==
    /\ pc["observer"] = "waiting"
    /\ events > 0
    /\ events' = events - 1
    /\ Goto("observer", "look")
    /\ UNCHANGED <<backend, file, kill_switch, last_present, present, counts>>

\* Only a transition is acted upon.
Look(t) ==
    /\ pc[t] = "look"
    /\ IF file = last_present
       THEN UNCHANGED present /\ Goto(t, After(t))
       ELSE present' = [present EXCEPT ![t] = file] /\ Goto(t, "set")
    /\ UNCHANGED <<backend, file, kill_switch, last_present, events, counts>>

\* Mutant of Set: the removal of the file is ignored.
SetOnly(t) ==
    /\ pc[t] = "set"
    /\ SafeSet("on")
    /\ Goto(t, "note")
    /\ UNCHANGED <<backend, file, last_present, present, events, changes, remote>>

Set(t) ==
    /\ pc[t] = "set"
    /\ SafeSet(present[t])
    /\ Goto(t, "note")
    /\ UNCHANGED <<backend, file, last_present, present, events, changes, remote>>

\* Mutant of Note: what is noted is the file as it is by now.
NoteLatest(t) ==
    /\ pc[t] = "note"
    /\ last_present' = file
    /\ Goto(t, After(t))
    /\ UNCHANGED <<backend, file, kill_switch, present, events, counts>>

\* _last_present follows, whether or not the switch could be set.
Note(t) ==
    /\ pc[t] = "note"
    /\ last_present' = present[t]
    /\ Goto(t, After(t))
    /\ UNCHANGED <<backend, file, kill_switch, present, events, counts>>

Step(t) == Look(t) \/ Set(t) \/ Note(t)

Next ==
    \/ Toggle
    \/ RemoteSet
    \/ Construct
    \/ Start
    \/ Wake
    \/ \E t \in Threads : Step(t)

Spec == Init /\ [][Next]_vars

\* The threads keep running.
Fairness ==
    /\ WF_vars(Construct)
    /\ WF_vars(Start)
    /\ WF_vars(Wake)
    /\ \A t \in Threads : WF_vars(Step(t))

FairSpec == Spec /\ Fairness
-------------------------------------------------------------------------------
Undisturbed == failures = 0 /\ remote = 0

\* No poll is under way; in particular, not in the observer when the worker's
\* only poll is.
BetweenPolls == \A t \in Threads : pc[t] \in {"start", "look", "waiting", "done"}

\* Every variable has its type, and a poll of the polling watcher that acts,
\* acts on a transition.
TypeOK ==
    /\ backend \in Backends
    /\ {file, kill_switch, last_present} \subseteq Switch
    /\ pc \in [Threads -> {"construct", "start", "waiting", "look", "set", "note", "done"}]
    /\ present \in [Threads -> Switch]
    /\ events \in 0..MaxChanges
    /\ changes \in 0..MaxChanges
    /\ failures \in 0..MaxFailures
    /\ remote \in 0..MaxRemote
    /\ (backend = "poll" /\ pc["worker"] \in {"set", "note"}) => present["worker"] # last_present

\* Between two polls of the polling watcher, when nothing failed and nobody
\* else set the switch, _last_present is the switch (watchers.py:397, 480), so
\* the transitions the watcher ignores are those that are applied already.
KnowsSwitch ==
    backend = "poll" /\ Undisturbed /\ BetweenPolls => last_present = kill_switch

\* "The presence of the file means 'kill switch ON' (deny all requests).  The
\* absence means 'kill switch OFF'" (watchers.py:354): with the polling
\* backend, the switch comes to agree with the file, unless the file changes
\* again or the switch is disturbed.
FollowsFile ==
    \A s \in Switch :
        (backend = "poll" /\ file = s /\ Undisturbed)
            ~> (kill_switch = s \/ file # s \/ ~Undisturbed)

\* The same with watchdog, for a change the observer alone has to act on: the
\* worker's only poll is over and has left _last_present right.
ObserverFollows ==
    \A s \in Switch :
        (/\ backend = "watchdog" /\ file = s /\ events > 0 /\ Undisturbed
         /\ BetweenPolls /\ pc["worker"] = "done" /\ last_present = kill_switch)
            ~> (kill_switch = s \/ file # s \/ ~Undisturbed)
===============================================================================
