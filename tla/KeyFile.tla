-------------------------------- MODULE KeyFile --------------------------------
(***************************************************************************)
(* identity.key, made by the first process that needs it: LocalIdentity's  *)
(* _ensure_loaded() and _load_existing() (identity.py), between processes  *)
(* that start together on one directory.  Each writes a key of its own to  *)
(* a temporary file and links that to the name, which succeeds once.       *)
(*                                                                         *)
(* A file is that of a key: whole, short (it is not 64 bytes), or mixed    *)
(* (64 bytes whose halves are not a pair).  Nothing is synced, so a power  *)
(* failure may leave any of them.  The user may delete a broken file, as   *)
(* the error says, and the directory may be on a file system without hard  *)
(* links.  A process has one thread that asks for its identity, and asks   *)
(* again after an error.                                                   *)
(***************************************************************************)
EXTENDS Naturals

CONSTANTS Processes, MaxKeys,  \* bound: keys made
          MaxIoFaults, MaxOutages, None

Forms == {"whole", "short", "mixed"}

KeyFileAssumption ==
    /\ {MaxKeys, MaxIoFaults, MaxOutages} \subseteq Nat
    /\ None \notin Nat \cup [key : Nat, form : Forms]

VARIABLES
    links,     \* whether the file system has hard links
    key_file,  \* what the name identity.key stands for, or None
    at,        \* what each process does
    temp_key,  \* what it has put into its temporary file, or None
    held,      \* _private_key and _public_key, as made or as read, or None
    warned,    \* history: processes that an error told of a pair that does not match
    keys_made,
    torn,      \* history: keys whose file was written short
    io_faults, outages
keyVars == <<links, key_file, at, temp_key, held, warned, keys_made, torn, io_faults, outages>>

Whole(key) == [key |-> key, form |-> "whole"]
Short(key) == [key |-> key, form |-> "short"]

KeyInit ==
    /\ links \in BOOLEAN /\ key_file = None
    /\ at = [p \in Processes |-> "new"]
    /\ temp_key = [p \in Processes |-> None] /\ held = [p \in Processes |-> None]
    /\ warned = {} /\ keys_made = 0 /\ torn = {} /\ io_faults = 0 /\ outages = 0

Moves(p, from, to) == at[p] = from /\ at' = [at EXCEPT ![p] = to]

-------------------------------------------------------------------------------
\* The first access, or one after an error that left no key.
Look(p) ==
    /\ at[p] \in {"new", "failed"} /\ held[p] = None
    /\ at' = [at EXCEPT ![p] = IF key_file = None THEN "making" ELSE "loading"]
    /\ UNCHANGED <<links, key_file, temp_key, held, warned, keys_made, torn, io_faults, outages>>

\* One after an error that left a key: it is used as it is.
AsksAgain(p) ==
    /\ Moves(p, "failed", "loaded") /\ held[p] # None
    /\ UNCHANGED <<links, key_file, temp_key, held, warned, keys_made, torn, io_faults, outages>>

\* Mutant of Make: the key is written under its final name.
MakeInPlace(p) ==
    /\ Moves(p, "making", "linking")
    /\ keys_made < MaxKeys /\ keys_made' = keys_made + 1
    /\ temp_key' = [temp_key EXCEPT ![p] = Whole(keys_made')]
    /\ key_file' = IF key_file = None THEN Short(keys_made') ELSE key_file
    /\ UNCHANGED <<links, held, warned, torn, io_faults, outages>>

\* A new key goes to the temporary file; os.write may write less than all, as its
\* count is not looked at.
Make(p) ==
    /\ Moves(p, "making", "linking")
    /\ keys_made < MaxKeys /\ keys_made' = keys_made + 1
    /\ \/ /\ temp_key' = [temp_key EXCEPT ![p] = Whole(keys_made')]
          /\ UNCHANGED <<torn, io_faults>>
       \/ /\ io_faults < MaxIoFaults /\ io_faults' = io_faults + 1
          /\ temp_key' = [temp_key EXCEPT ![p] = Short(keys_made')]
          /\ torn' = torn \cup {keys_made'}
    /\ UNCHANGED <<links, key_file, held, warned, outages>>

\* Any failure up to the link is taken for another process having been first.
MakeFails(p) ==
    /\ at[p] \in {"making", "linking"} /\ at' = [at EXCEPT ![p] = "loading"]
    /\ io_faults < MaxIoFaults /\ io_faults' = io_faults + 1
    /\ temp_key' = [temp_key EXCEPT ![p] = None]
    /\ UNCHANGED <<links, key_file, held, warned, keys_made, torn, outages>>

Linked(p) ==
    /\ Moves(p, "linking", "loaded")
    /\ key_file' = temp_key[p]
    /\ held' = [held EXCEPT ![p] = Whole(temp_key[p].key)]
    /\ temp_key' = [temp_key EXCEPT ![p] = None]
    /\ UNCHANGED <<links, warned, keys_made, torn, io_faults, outages>>

\* Mutant of Link: os.replace, which succeeds every time.
Rename(p) == Linked(p)

\* os.link: the winner keeps the key that it made, the others read the file.
Link(p) ==
    \/ links /\ key_file = None /\ Linked(p)
    \/ /\ ~links \/ key_file # None
       /\ Moves(p, "linking", "loading")
       /\ temp_key' = [temp_key EXCEPT ![p] = None]
       /\ UNCHANGED <<links, key_file, held, warned, keys_made, torn, io_faults, outages>>

\* Mutant of Refused: only a file that is absent is refused.
RefusedIfAbsent == key_file = None

\* A file that is gone or is not 64 bytes.
Refused == IF key_file = None THEN TRUE ELSE key_file.form = "short"

\* Any other is taken over, and then found not to match: the error comes after that.
_load_existing(p) ==
    /\ at[p] = "loading"
    /\ \/ /\ Refused
          /\ at' = [at EXCEPT ![p] = "failed"] /\ UNCHANGED <<held, warned>>
       \/ /\ ~Refused
          /\ held' = [held EXCEPT ![p] = key_file]
          /\ IF key_file.form = "mixed"
             THEN at' = [at EXCEPT ![p] = "failed"] /\ warned' = warned \cup {p}
             ELSE at' = [at EXCEPT ![p] = "loaded"] /\ UNCHANGED warned
    /\ UNCHANGED <<links, key_file, temp_key, keys_made, torn, io_faults, outages>>

-------------------------------------------------------------------------------
\* The process ends, wherever it is, and may be started again.
Ends(p) ==
    /\ at[p] # "new" /\ at' = [at EXCEPT ![p] = "new"]
    /\ temp_key' = [temp_key EXCEPT ![p] = None] /\ held' = [held EXCEPT ![p] = None]
    /\ warned' = warned \ {p}
    /\ UNCHANGED <<links, key_file, keys_made, torn, io_faults, outages>>

Outage ==
    /\ outages < MaxOutages /\ outages' = outages + 1
    /\ at' = [p \in Processes |-> "new"]
    /\ temp_key' = [p \in Processes |-> None] /\ held' = [p \in Processes |-> None]
    /\ warned' = {}
    /\ IF key_file = None THEN UNCHANGED key_file
       ELSE key_file' \in {None, key_file} \cup [key : {key_file.key}, form : {"short", "mixed"}]
    /\ UNCHANGED <<links, keys_made, torn, io_faults>>

\* "Delete the file to regenerate."
Delete ==
    /\ IF key_file = None THEN FALSE ELSE key_file.form # "whole"
    /\ \E p \in Processes : at[p] = "failed"
    /\ key_file' = None
    /\ UNCHANGED <<links, at, temp_key, held, warned, keys_made, torn, io_faults, outages>>

KeyNext ==
    \/ Outage \/ Delete
    \/ \E p \in Processes :
          \/ Look(p) \/ AsksAgain(p) \/ Make(p) \/ MakeFails(p) \/ Link(p) \/ Ends(p)
          \/ _load_existing(p)

-------------------------------------------------------------------------------
\* Every variable has its type (class LocalIdentity).
KeyTypeOK ==
    /\ links \in BOOLEAN /\ keys_made \in 0..MaxKeys /\ torn \subseteq 1..keys_made
    /\ key_file = None \/ key_file \in [key : 1..keys_made, form : Forms]
    /\ \A p \in Processes :
          /\ at[p] \in {"new", "making", "linking", "loading", "loaded", "failed"}
          /\ temp_key[p] # None <=> at[p] = "linking"
          /\ held[p] # None <=> at[p] = "loaded" \/ p \in warned
          /\ p \in warned => at[p] \in {"loaded", "failed"}
    /\ warned \subseteq Processes
    /\ io_faults \in 0..MaxIoFaults /\ outages \in 0..MaxOutages

\* Processes that start together end up with one key, the one in the file; but the
\* winner of the race keeps a key that its file does not hold if that was written
\* short, and one that an error has told of a pair that does not match uses that pair when
\* it asks again (_ensure_loaded, _load_existing).
OneKey ==
    \A p \in Processes :
        at[p] = "loaded" => \/ held[p].form = "whole" /\ key_file = held[p]
                            \/ held[p].form = "whole" /\ held[p].key \in torn
                            \/ held[p].form = "mixed" /\ p \in warned

\* Without hard links nobody ever has a key; with them nobody is refused one unless
\* the disk or the power failed (_ensure_loaded, _load_existing).
NoFalseAlarm ==
    /\ ~links => \A p \in Processes : held[p] = None
    /\ links /\ io_faults = 0 /\ outages = 0 => \A p \in Processes : at[p] # "failed"

\* Once linked, a key stays until the power fails or the user deletes a broken
\* file: no start of another process replaces it (_ensure_loaded).
KeyStays ==
    [][ key_file # None /\ key_file' # key_file
            => outages' # outages \/ key_file.form # "whole" ]_keyVars
===============================================================================
