----------------------------- MODULE HighWaterMark -----------------------------
(***************************************************************************)
(* What the engine promises about each kind of signed bundle, policies and *)
(* price tables alike: once one has been installed, or a version has been  *)
(* restored, only a strictly newer version ever becomes active.            *)
(***************************************************************************)
EXTENDS Naturals

CONSTANTS Versions,  \* the versions bundles carry
          None       \* no signed bundle is active

VARIABLES mark,    \* the highest version seen
          sealed,  \* whether the mark counts: "no" until the first bundle
          active   \* the version of the active signed bundle

vars == <<mark, sealed, active>>

Init == mark = 0 /\ sealed = "no" /\ active = None

\* The first bundle is the baseline, whatever its version; every later one is
\* strictly newer.
Install(v) ==
    /\ sealed = "no" \/ v > mark
    /\ mark' = v /\ sealed' = "yes" /\ active' = v

\* A version remembered from an earlier life of the installation.
Restore(v) ==
    /\ sealed = "no"
    /\ mark' = v /\ sealed' = "yes" /\ UNCHANGED active

\* Something that is not a signed bundle takes the active one's place.
Displace ==
    /\ active' = None
    /\ UNCHANGED <<mark, sealed>>

Next ==
    \/ \E v \in Versions : Install(v) \/ Restore(v)
    \/ Displace

Spec == Init /\ [][Next]_vars
-------------------------------------------------------------------------------
\* The active bundle is the newest ever seen.
ActiveIsMark == active # None => sealed = "yes" /\ active = mark
===============================================================================
