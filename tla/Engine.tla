-------------------------------- MODULE Engine --------------------------------
(***************************************************************************)
(* The policy engine: the state of one WebAssembly instance and the        *)
(* exported functions that change it (crates/core/src/interface.rs,        *)
(* pricing.rs, killswitch.rs).  The wrapper serialises the calls, so each  *)
(* is one action; their order is the host's and therefore arbitrary, and   *)
(* so is the clock each call is handed.                                    *)
(*                                                                         *)
(* A policy is known by where it came from; the rate limiter, which        *)
(* RateLimiter models, by the number of calls it has counted; an envelope  *)
(* by what the verification gauntlet tells apart.                          *)
(***************************************************************************)
EXTENDS Naturals

CONSTANTS Versions,    \* versions that bundles carry
          Times,       \* clock readings and signing times
          PolicyKeys,  \* keys trusted to sign policies
          PricingKeys, \* keys trusted to sign price tables
          MaxAge,      \* max_age_secs
          FutureSkew,  \* POLICY_BUNDLE_FUTURE_SKEW_SECS
          MaxCalls,    \* bound on the calls that are counted
          None         \* no signed bundle

ASSUME EngineAssumption ==
    /\ Versions \subseteq Nat /\ Times \subseteq Nat
    /\ MaxAge \in Nat /\ FutureSkew \in Nat /\ MaxCalls \in Nat
    /\ PolicyKeys \cap PricingKeys = {}
    /\ None \notin Nat

VARIABLES
    source,                   \* of the policy: "none" before init, "local", "signed"
    policy,                   \* the version of the signed policy in force, or None
    kill_switch,              \* "on" or "off"
    counted,                  \* calls the rate limiter has counted
    last_policy_version,
    signed_policy_installed,  \* "yes" or "no"
    last_pricing_version,
    signed_pricing_installed, \* "yes" or "no"
    active_pricing_bundle     \* its version, or None

policyVars == <<source, policy, last_policy_version, signed_policy_installed>>
pricingVars == <<last_pricing_version, signed_pricing_installed, active_pricing_bundle>>
vars == <<policyVars, pricingVars, kill_switch, counted>>

\* A DSSE envelope.  payload says what its verified bytes parse to.
Envelopes == [payload_type : {"policy", "pricing"},
              signer : PolicyKeys \cup PricingKeys,
              intact : {"yes", "no"},
              payload : {"valid", "invalid"},
              version : Versions,
              signed_at : Times]

\* A fresh WebAssembly instance: ENGINE is None.
Init ==
    /\ source = "none" /\ policy = None
    /\ kill_switch = "off"
    /\ counted = 0
    /\ last_policy_version = 0 /\ signed_policy_installed = "no"
    /\ last_pricing_version = 0 /\ signed_pricing_installed = "no"
    /\ active_pricing_bundle = None

initialized == source # "none"

-------------------------------------------------------------------------------
\* Mutant of init: a re-initialised engine starts its limiter and its policy
\* version over.
init_afresh ==
    /\ source' = "local" /\ policy' = None
    /\ counted' = 0
    /\ last_policy_version' = 0 /\ signed_policy_installed' = "no"
    /\ UNCHANGED <<kill_switch, pricingVars>>

\* init() with a policy and a key that parse, again on an initialised engine
\* too: everything but the policy and the identity is carried over.
init ==
    /\ source' = "local" /\ policy' = None
    /\ UNCHANGED <<kill_switch, counted, last_policy_version, signed_policy_installed,
                   pricingVars>>

set_kill_switch(active) ==
    /\ initialized
    /\ kill_switch' = active
    /\ UNCHANGED <<policyVars, pricingVars, counted>>

\* Mutant of reload_policy: the signed policy is still recorded as in force.
reload_policy_keeps_record ==
    /\ initialized
    /\ source' = "local"
    /\ UNCHANGED <<policy, kill_switch, counted, last_policy_version,
                   signed_policy_installed, pricingVars>>

\* reload_policy(): the unsigned path keeps the limiter and the version.
reload_policy ==
    /\ initialized
    /\ source' = "local" /\ policy' = None
    /\ UNCHANGED <<kill_switch, counted, last_policy_version, signed_policy_installed,
                   pricingVars>>

\* The envelope has a valid signature by a trusted key over this payload type.
Verifies(env, payload_type, trusted) ==
    /\ env.payload_type = payload_type
    /\ env.signer \in trusted
    /\ env.intact = "yes"

\* signed_at is neither ahead of the clock by more than the skew nor, in
\* saturating arithmetic, more than MaxAge behind it.
Timely(env, clock) ==
    /\ env.signed_at <= clock + FutureSkew
    /\ clock > env.signed_at => clock - env.signed_at <= MaxAge

Acceptable(env, payload_type, trusted, clock) ==
    /\ Verifies(env, payload_type, trusted)
    /\ env.payload = "valid"
    /\ Timely(env, clock)

\* The first signed policy is the baseline; later ones are strictly newer.
NewPolicy(version) ==
    signed_policy_installed = "no" \/ version > last_policy_version

\* A refused envelope leaves everything as it is.
reload_policy_signed(env, clock) ==
    /\ initialized
    /\ Acceptable(env, "policy", PolicyKeys, clock)
    /\ NewPolicy(env.version)
    /\ source' = "signed" /\ policy' = env.version
    /\ last_policy_version' = env.version
    /\ signed_policy_installed' = "yes"
    /\ UNCHANGED <<kill_switch, counted, pricingVars>>

\* Restores a persisted version, once, before any signed policy.
set_initial_policy_version(version) ==
    /\ initialized
    /\ signed_policy_installed = "no"
    /\ last_policy_version' = version
    /\ signed_policy_installed' = "yes"
    /\ UNCHANGED <<source, policy, kill_switch, counted, pricingVars>>

\* Mutant of NewPricing: the baseline flag is not consulted for version 0.
NewPricingUnlessZero(version) ==
    last_pricing_version = 0 \/ version > last_pricing_version

NewPricing(version) ==
    signed_pricing_installed = "no" \/ version > last_pricing_version

reload_pricing_signed(env, clock) ==
    /\ initialized
    /\ Acceptable(env, "pricing", PricingKeys, clock)
    /\ NewPricing(env.version)
    /\ last_pricing_version' = env.version
    /\ signed_pricing_installed' = "yes"
    /\ active_pricing_bundle' = env.version
    /\ UNCHANGED <<policyVars, kill_switch, counted>>

set_initial_pricing_version(version) ==
    /\ initialized
    /\ signed_pricing_installed = "no"
    /\ last_pricing_version' = version
    /\ signed_pricing_installed' = "yes"
    /\ UNCHANGED <<policyVars, kill_switch, counted, active_pricing_bundle>>

\* A call that the kill switch does not stop is counted by the rate limiter.
evaluate_request ==
    /\ initialized
    /\ kill_switch = "off"
    /\ counted < MaxCalls
    /\ counted' = counted + 1
    /\ UNCHANGED <<policyVars, pricingVars, kill_switch>>

Next ==
    \/ init
    \/ \E active \in {"on", "off"} : set_kill_switch(active)
    \/ reload_policy
    \/ \E env \in Envelopes, clock \in Times :
          \/ reload_policy_signed(env, clock)
          \/ reload_pricing_signed(env, clock)
    \/ \E version \in Versions :
          \/ set_initial_policy_version(version)
          \/ set_initial_pricing_version(version)
    \/ evaluate_request

Spec == Init /\ [][Next]_vars
-------------------------------------------------------------------------------
\* Every variable has its type; nothing happens to an engine before init().
TypeOK ==
    /\ source \in {"none", "local", "signed"}
    /\ policy \in Versions \cup {None}
    /\ kill_switch \in {"on", "off"}
    /\ counted \in 0..MaxCalls
    /\ last_policy_version \in Nat /\ last_pricing_version \in Nat
    /\ signed_policy_installed \in {"yes", "no"}
    /\ signed_pricing_installed \in {"yes", "no"}
    /\ active_pricing_bundle \in Versions \cup {None}
    /\ policy # None <=> source = "signed"

\* Policies and price tables each keep the promise of a high water mark
\* (interface.rs, last_policy_version and last_pricing_version), through
\* re-initialisation, unsigned reloads and restores in any order.
PolicyMark == INSTANCE HighWaterMark
    WITH mark <- last_policy_version, sealed <- signed_policy_installed, active <- policy
PricingMark == INSTANCE HighWaterMark
    WITH mark <- last_pricing_version, sealed <- signed_pricing_installed,
         active <- active_pricing_bundle

BundlesMarked == PolicyMark!Spec /\ PricingMark!Spec

\* The bundles in force are the ones the engine's versions speak of: the
\* wrapper persists get_active_policy_version() as the version of the policy
\* in force.
ActiveBundlesAreNewest == PolicyMark!ActiveIsMark /\ PricingMark!ActiveIsMark

\* No call loosens a defence of an initialised engine as a side effect
\* ("prevent bypass via repeated init() calls", interface.rs:292): the
\* counted calls and both versions never go back, and a kill switch that goes
\* off, like a lost price table, was asked for.
DefencesHold ==
    [][initialized =>
          /\ counted' >= counted
          /\ signed_policy_installed = "yes" => last_policy_version' >= last_policy_version
          /\ signed_pricing_installed = "yes" => last_pricing_version' >= last_pricing_version
          /\ active_pricing_bundle # None => active_pricing_bundle' # None
          /\ kill_switch' # kill_switch => UNCHANGED <<policyVars, pricingVars, counted>>]_vars
===============================================================================
