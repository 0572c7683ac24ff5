------------------------------- MODULE StateFile -------------------------------
(***************************************************************************)
(* policy_state.json (_policy_state.py) between several writers: processes *)
(* that share a configuration directory, or one process whose stop() gave  *)
(* up on an old receiver.  Each loads the file when it starts, installs    *)
(* what the control plane publishes and saves it step by step; a save may  *)
(* fail or write too little, a process may be killed, and the power may    *)
(* fail, which leaves of the directory any of the states it had since it   *)
(* was last synced.                                                        *)
(*                                                                         *)
(* What counts of a file is the version a load makes of it, 0 when it is   *)
(* absent or not whole, and who wrote it.  Bundles differ in contents.     *)
(***************************************************************************)
EXTENDS Naturals

CONSTANTS Writers,
          MaxVersion, MaxFaults, MaxPowerFailures, \* bounds: versions
                        \* published, saves that fail and kills, and failures
                        \* of the power
          None

StateFileAssumption ==
    /\ None \notin Writers
    /\ {MaxVersion, MaxFaults, MaxPowerFailures} \subseteq Nat

VARIABLES
    latest,    \* the version published last
    file,      \* what the name policy_state.json stands for
    possible,  \* the files it may stand for after a power failure
    pc,        \* what each writer does
    engine,    \* the policy version of its engine
    temp,      \* what it has written to its temporary file
    saved,     \* history: the version it last saved completely
    unsaved,   \* history: its last save failed or wrote too little
    faults, power_failures
vars == <<latest, file, possible, pc, engine, temp, saved, unsaved, faults, power_failures>>
disk == <<file, possible>>
bounds == <<faults, power_failures>>

File(version, writer) == [version |-> version, by |-> writer]

Init ==
    /\ latest = 0
    /\ file = File(0, None) /\ possible = {file}
    /\ pc = [w \in Writers |-> "down"]
    /\ engine = [w \in Writers |-> 0] /\ temp = [w \in Writers |-> 0]
    /\ saved = [w \in Writers |-> 0] /\ unsaved = [w \in Writers |-> FALSE]
    /\ faults = 0 /\ power_failures = 0

Goes(w, from, to) == pc[w] = from /\ pc' = [pc EXCEPT ![w] = to]

-------------------------------------------------------------------------------
Publish ==
    /\ latest < MaxVersion
    /\ latest' = latest + 1
    /\ UNCHANGED <<disk, pc, engine, temp, saved, unsaved, bounds>>

\* A writer starts with what the file holds, or with nothing when the engine
\* refuses that as stale or badly signed by now, or had its first bundle from
\* the bootstrap.
load_persisted_state(w) ==
    /\ Goes(w, "down", "up")
    /\ \E v \in {0, file.version} : engine' = [engine EXCEPT ![w] = v]
    /\ UNCHANGED <<latest, disk, temp, saved, unsaved, bounds>>

\* Mutant of Install: a bundle may be installed and not saved.
InstallUnsaved(w) ==
    /\ pc[w] = "up" /\ pc' \in {pc, [pc EXCEPT ![w] = "temp"]}
    /\ engine[w] < latest
    /\ engine' = [engine EXCEPT ![w] = latest]
    /\ UNCHANGED <<latest, disk, temp, saved, unsaved, bounds>>

\* A newer bundle is installed, and its save begins with a temporary file.
Install(w) ==
    /\ Goes(w, "up", "temp")
    /\ engine[w] < latest
    /\ engine' = [engine EXCEPT ![w] = latest]
    /\ UNCHANGED <<latest, disk, temp, saved, unsaved, bounds>>

\* os.write, which may write less than all: its count is not looked at.
Write(w) ==
    /\ Goes(w, "temp", "written")
    /\ \/ temp' = [temp EXCEPT ![w] = engine[w]] /\ UNCHANGED <<unsaved, faults>>
       \/ /\ faults < MaxFaults /\ faults' = faults + 1
          /\ temp' = [temp EXCEPT ![w] = 0]
          /\ unsaved' = [unsaved EXCEPT ![w] = TRUE]
    /\ UNCHANGED <<latest, disk, engine, saved, power_failures>>

Sync(w) ==
    /\ Goes(w, "written", "synced")
    /\ UNCHANGED <<latest, disk, engine, temp, saved, unsaved, bounds>>

\* Mutant of Replace: the temporary file has not been synced.
ReplaceUnsynced(w) ==
    /\ Goes(w, "written", "replaced")
    /\ file' = File(temp[w], w)
    /\ possible' = possible \cup {file', File(0, w)}
    /\ UNCHANGED <<latest, engine, temp, saved, unsaved, bounds>>

\* os.replace.
Replace(w) ==
    /\ Goes(w, "synced", "replaced")
    /\ file' = File(temp[w], w)
    /\ possible' = possible \cup {file'}
    /\ UNCHANGED <<latest, engine, temp, saved, unsaved, bounds>>

Saved(w) ==
    /\ unsaved' = [unsaved EXCEPT ![w] = temp[w] = 0]
    /\ saved' = IF temp[w] = 0 THEN saved ELSE [saved EXCEPT ![w] = temp[w]]

\* Mutant of _fsync_parent_dir: the directory is not synced.
NoFsyncOfParentDir(w) ==
    /\ Goes(w, "replaced", "up")
    /\ Saved(w)
    /\ UNCHANGED <<latest, disk, engine, temp, bounds>>

\* The save is complete when the directory is synced.
_fsync_parent_dir(w) ==
    /\ Goes(w, "replaced", "up")
    /\ possible' = {file}
    /\ Saved(w)
    /\ UNCHANGED <<latest, file, engine, temp, bounds>>

\* A step up to os.replace raises; the temporary file is removed and the version
\* not saved.
Fail(w) ==
    /\ pc[w] \in {"temp", "written", "synced"} /\ pc' = [pc EXCEPT ![w] = "up"]
    /\ faults < MaxFaults /\ faults' = faults + 1
    /\ unsaved' = [unsaved EXCEPT ![w] = TRUE]
    /\ UNCHANGED <<latest, disk, engine, temp, saved, power_failures>>

\* A writer is killed between any two steps.
Kill(w) ==
    /\ pc[w] # "down" /\ pc' = [pc EXCEPT ![w] = "down"]
    /\ faults < MaxFaults /\ faults' = faults + 1
    /\ UNCHANGED <<latest, disk, engine, temp, saved, unsaved, power_failures>>

PowerFails ==
    /\ power_failures < MaxPowerFailures /\ power_failures' = power_failures + 1
    /\ pc' = [w \in Writers |-> "down"]
    /\ file' \in possible /\ possible' = {file'}
    /\ UNCHANGED <<latest, engine, temp, saved, unsaved, faults>>

Step(w) == Install(w) \/ Write(w) \/ Sync(w) \/ Replace(w) \/ _fsync_parent_dir(w)

Next ==
    \/ Publish \/ PowerFails
    \/ \E w \in Writers : load_persisted_state(w) \/ Step(w) \/ Fail(w) \/ Kill(w)

Spec == Init /\ [][Next]_vars /\ \A w \in Writers : WF_vars(Step(w))
-------------------------------------------------------------------------------
(* Properties. *)

TypeOK ==
    LET Files == [version : 0..latest, by : Writers \cup {None}]
    IN  /\ latest \in 0..MaxVersion
        /\ file \in possible /\ possible \subseteq Files
        /\ pc \in [Writers -> {"down", "up", "temp", "written", "synced", "replaced"}]
        /\ engine \in [Writers -> 0..latest] /\ temp \in [Writers -> 0..latest]
        /\ saved \in [Writers -> 0..latest] /\ unsaved \in [Writers -> BOOLEAN]
        /\ faults \in 0..MaxFaults /\ power_failures \in 0..MaxPowerFailures

\* After any crash the file is whole, or absent as it was before the first save,
\* but for a short write (persist_state).
FileWhole == \A f \in possible : f.version = 0 => f.by = None \/ unsaved[f.by]

\* After any crash it holds some writer's last complete save, or something newer
\* of the same writer: what is older than one writer's save was put there by a
\* slower one (persist_state, _fsync_parent_dir).
SavesSurvive ==
    \A f \in possible :
        IF f.by = None THEN \A w \in Writers : saved[w] = 0
        ELSE f.version >= saved[f.by] \/ unsaved[f.by]

\* A slower writer's older version gives way to the newest, unless that writer
\* ends or fails to save it (_apply_policy_update, persist_state).
CatchesUp ==
    []<>(\/ file.version = latest
         \/ file.by # None /\ (pc[file.by] = "down" \/ unsaved[file.by])
         \/ file.by = None /\ \A w \in Writers : pc[w] = "down" \/ unsaved[w])
===============================================================================
