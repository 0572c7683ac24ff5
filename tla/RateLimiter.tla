------------------------------ MODULE RateLimiter ------------------------------
(***************************************************************************)
(* The sliding-window rate limiter of the policy engine                    *)
(* (crates/core/src/ratelimit.rs).  One engine owns one limiter and every  *)
(* call runs under the wrapper's engine lock, so check() is one action.    *)
(* The timestamp it is given is not: the transports read the clock before  *)
(* they take the lock (wrappers/python/src/checkrd/transports/_httpx.py),  *)
(* so calls arrive with timestamps up to Skew behind the clock and out of  *)
(* order.                                                                  *)
(*                                                                         *)
(* The HashMap of windows is the set of its keys, tracked, and two         *)
(* functions that are only meaningful on it.                               *)
(***************************************************************************)
EXTENDS Naturals, Sequences, FiniteSets

CONSTANTS Keys,     \* the keys requests are counted under
          Limit,    \* Limit[k]: the limit of key k's rule
          Window,   \* WINDOW_MS
          MaxKeys,  \* MAX_KEYS
          Skew,     \* how far behind the clock a timestamp may arrive
          MaxTime   \* bound on the clock

ASSUME LimiterAssumption ==
    /\ IsFiniteSet(Keys)
    /\ Limit \in [Keys -> Nat]
    /\ Window \in Nat /\ Skew \in Nat /\ MaxTime \in Nat
    /\ MaxKeys \in Nat \ {0}

VARIABLES
    tracked,        \* the keys of the windows map
    timestamps,     \* a window's timestamps, oldest call first
    last_accessed,  \* a window's last_accessed
    now,            \* the host's clock
    verdict,        \* the last call of check() and its result
    admitted        \* history: timestamps admitted for a key since it was
                    \* last evicted with calls still in its window

vars == <<tracked, timestamps, last_accessed, now, verdict, admitted>>

Verdicts == [key : Keys, at : Nat, result : {"Allowed", "Exceeded"}]
NoVerdict == [result |-> "none"]

Init ==
    /\ tracked = {}
    /\ timestamps = [k \in Keys |-> <<>>]
    /\ last_accessed = [k \in Keys |-> 0]
    /\ now = 0
    /\ verdict = NoVerdict
    /\ admitted = [k \in Keys |-> <<>>]

-------------------------------------------------------------------------------
\* Mutant of Cutoff: the subtraction forgets one tick of the window.
CutoffLate(ts) == IF ts + 1 > Window THEN ts + 1 - Window ELSE 0

\* timestamp_ms.saturating_sub(WINDOW_MS)
Cutoff(ts) == IF ts > Window THEN ts - Window ELSE 0

\* Entries are popped from the front while they are older than the cutoff, so
\* an old entry behind a younger one stays.
IsExpiredPrefix(n, q, cutoff) ==
    /\ n \in 0..Len(q)
    /\ \A i \in 1..n : q[i] < cutoff
    /\ n < Len(q) => q[n + 1] >= cutoff

\* Mutant of Unexpired: nothing is popped.
UnexpiredKeepsAll(q, cutoff) == q

Unexpired(q, cutoff) ==
    LET n == CHOOSE n \in 0..Len(q) : IsExpiredPrefix(n, q, cutoff)
    IN SubSeq(q, n + 1, Len(q))

\* A key that has no window yet makes room for one.
Evicts(k) == k \notin tracked /\ Cardinality(tracked) >= MaxKeys

\* Phase 1 of evict() keeps the windows with a live timestamp.
Retained(k, cutoff) ==
    IF Evicts(k) THEN {j \in tracked : Unexpired(timestamps[j], cutoff) # <<>>}
                 ELSE tracked

\* Mutant of LeastRecent: the windows removed are the latest accessed.
MostRecent(removed, windows) ==
    /\ removed \subseteq windows
    /\ \A r \in removed, w \in windows \ removed : last_accessed[r] >= last_accessed[w]

\* Ties between equal last_accessed are broken by an unstable sort.
LeastRecent(removed, windows) ==
    /\ removed \subseteq windows
    /\ \A r \in removed, w \in windows \ removed : last_accessed[r] <= last_accessed[w]

\* The sets of windows phase 2 of evict() may remove: none while the map is
\* below capacity, else enough for one new key.
Removable(k, cutoff) ==
    LET windows == Retained(k, cutoff)
    IN {removed \in SUBSET windows :
           /\ LeastRecent(removed, windows)
           /\ Cardinality(removed) =
                 IF Evicts(k) /\ Cardinality(windows) >= MaxKeys
                 THEN Cardinality(windows) - MaxKeys + 1 ELSE 0}

\* Mutant of Swept: a removed window's timestamps survive it.
SweptKeepsRemoved(k, cutoff, kept) ==
    [j \in Keys |->
        IF j = k \/ Evicts(k) THEN Unexpired(timestamps[j], cutoff)
        ELSE timestamps[j]]

\* The timestamps check(k) finds once it has evicted and expired: eviction
\* expires every window, an ordinary call only its own.
Swept(k, cutoff, kept) ==
    [j \in Keys |->
        IF j \notin kept THEN <<>>
        ELSE IF j = k \/ Evicts(k) THEN Unexpired(timestamps[j], cutoff)
        ELSE timestamps[j]]

Check(k, ts) ==
    /\ ts <= now /\ now <= ts + Skew
    /\ \E removed \in Removable(k, Cutoff(ts)) :
        LET kept == Retained(k, Cutoff(ts)) \ removed
            swept == Swept(k, Cutoff(ts), kept)
            past == [j \in Keys |-> IF j \in removed THEN <<>> ELSE admitted[j]]
        IN /\ tracked' = kept \cup {k}
           /\ last_accessed' = [j \in Keys |-> IF j = k THEN ts
                                              ELSE IF j \in kept THEN last_accessed[j]
                                              ELSE 0]
           /\ \/ /\ Len(swept[k]) >= Limit[k]
                 /\ verdict' = [key |-> k, at |-> ts, result |-> "Exceeded"]
                 /\ timestamps' = swept
                 /\ admitted' = past
              \/ /\ Len(swept[k]) < Limit[k]
                 /\ verdict' = [key |-> k, at |-> ts, result |-> "Allowed"]
                 /\ timestamps' = [swept EXCEPT ![k] = Append(@, ts)]
                 /\ admitted' = [past EXCEPT ![k] = Append(@, ts)]
    /\ UNCHANGED now

\* The host's clock advances.
Tick ==
    /\ now < MaxTime
    /\ now' = now + 1
    /\ UNCHANGED <<tracked, timestamps, last_accessed, verdict, admitted>>

Next ==
    \/ Tick
    \/ \E k \in Keys, ts \in 0..MaxTime : Check(k, ts)

Spec == Init /\ [][Next]_vars
-------------------------------------------------------------------------------
\* Every variable has its type; a key without a window has no timestamps.
TypeOK ==
    /\ tracked \subseteq Keys
    /\ timestamps \in [Keys -> Seq(Nat)]
    /\ last_accessed \in [Keys -> Nat]
    /\ now \in 0..MaxTime
    /\ verdict \in Verdicts \cup {NoVerdict}
    /\ admitted \in [Keys -> Seq(Nat)]
    /\ \A k \in Keys \ tracked : timestamps[k] = <<>>

\* The core guarantee of the limiter (ratelimit.rs:246): a key's admitted
\* calls never put more than its limit into one window.  Any Limit + 1
\* consecutive admissions span more than Window, give or take the Skew with
\* which their timestamps reached the limiter, unless the key was evicted in
\* between with calls still in its window.
SlidingWindow ==
    \A k \in Keys : \A i \in 1..Len(admitted[k]) :
        i + Limit[k] <= Len(admitted[k]) =>
            admitted[k][i + Limit[k]] + Skew > admitted[k][i] + Window

\* A key recovers fully once its window has passed (ratelimit.rs:302): a call
\* is refused only if its last Limit admissions all lie within Window and
\* Skew of it.  A denied call, an eviction or another key never uses budget.
DenialJustified ==
    verdict.result = "Exceeded" =>
        LET past == admitted[verdict.key]
            limit == Limit[verdict.key]
        IN /\ Len(past) >= limit
           /\ \A i \in 1..Len(past) :
                 i > Len(past) - limit => past[i] + Window + Skew >= verdict.at

\* The map never holds more than MAX_KEYS windows, however many keys call.
TableBounded == Cardinality(tracked) <= MaxKeys

\* A key's unexpired admissions are forgotten only to make room for a new key
\* in a map that is full of windows with unexpired entries, and only if no
\* other window was accessed earlier.
OnlyOldestForgotten ==
    [][\A k \in Keys :
          admitted[k] # <<>> /\ admitted'[k] = <<>> =>
              /\ Cardinality(tracked) = MaxKeys /\ k \notin tracked'
              /\ \A j \in tracked \ {k} :
                     timestamps'[j] # <<>> /\ last_accessed[k] <= last_accessed[j]]_vars
===============================================================================
