---------------------------- MODULE ControlReceiver ----------------------------
(***************************************************************************)
(* One installation of the Python SDK against a control plane: the boot    *)
(* sequence (bootstrap_policy, then ControlReceiver.start), the receiver's *)
(* thread with its event stream and its polling fall-back, and the state   *)
(* files that outlive the process (control.py, _policy_bootstrap.py,       *)
(* _policy_state.py, _pricing_state.py).  The engine is module Engine.     *)
(*                                                                         *)
(* A published policy is its version, with the contents (yaml) its hash    *)
(* stands for and the time it was signed; a price table its version and    *)
(* its signing time.  The bundles are well-formed, carry their hash, and   *)
(* are signed by a trusted key.  The circuit breaker only postpones an     *)
(* attempt, as the waits do, and is left out.  A crash loses the process   *)
(* and keeps the files.                                                    *)
(***************************************************************************)
EXTENDS Naturals, Sequences

CONSTANTS Bootstraps,   \* whether a policy= argument may be missing
          Yamls,        \* contents of policies
          MaxPolicies, MaxPrices, MaxKills, \* bounds on what is published
          MaxTime,      \* bound on the clock
          MaxAge,       \* _POLICY_BUNDLE_MAX_AGE_SECS, in ticks
          MaxIncidents, \* bound on crashes and reloads of a local file together
          MaxPersistFailures,
          MaxLags,      \* bound on answers with an earlier policy
          None

ASSUME ReceiverAssumption ==
    /\ Bootstraps \subseteq {"yes", "no"}
    /\ {MaxPolicies, MaxPrices, MaxKills, MaxTime, MaxAge, MaxIncidents,
        MaxPersistFailures, MaxLags} \subseteq Nat
    /\ None \notin Nat \cup Yamls

VARIABLES
    bootstrap, \* "yes" if no policy= argument was given
    \* the control plane
    policies,  \* published policies, the version is the index
    prices,    \* signing times of the published price tables
    kill,      \* whether the agent is killed
    kills,     \* settings of it so far
    clock,
    stream,    \* events on their way to the receiver
    \* the process
    pc,        \* the next step of its boot sequence or of the receiver's thread
    origin,    \* of the message being applied: "bootstrap", "sse", "poll"
    msg,       \* the message being applied
    last_installed_hash,         \* a yaml, or None
    last_installed_pricing_hash, \* a version, or None
    \* the state files: a version, or 0
    policy_state,
    pricing_state,
    crashes, persist_failures, lags, reloads,
    \* the engine
    source, policy, kill_switch, counted, last_policy_version,
    signed_policy_installed, last_pricing_version, signed_pricing_installed,
    active_pricing_bundle

Wasm == INSTANCE Engine
    WITH Versions <- Nat, Times <- Nat, FutureSkew <- 0, MaxCalls <- 0,
         PolicyKeys <- {"policy key"}, PricingKeys <- {"pricing key"}

engine == <<source, policy, kill_switch, counted, last_policy_version,
            signed_policy_installed, last_pricing_version, signed_pricing_installed,
            active_pricing_bundle>>
server == <<bootstrap, policies, prices, kill, kills, clock>>
caches == <<last_installed_hash, last_installed_pricing_hash>>
files == <<policy_state, pricing_state>>
counts == <<crashes, persist_failures, lags, reloads>>
receiver == <<pc, origin, msg, stream>>
vars == <<server, receiver, caches, files, counts, engine>>

\* What a message says: a field may be absent (0 for the versions).
Message(k, v, p) == [kill |-> k, policy |-> v, price |-> p]
Current == Message(kill, Len(policies), Len(prices))
NoMessage == Message("absent", 0, 0)

\* Steps of a thread that has the event stream open.
Subscribed ==
    \/ pc = "listen"
    \/ origin = "sse" /\ pc \in {"kill", "policy", "save", "price", "save price"}

Init ==
    /\ bootstrap \in Bootstraps
    /\ policies = <<>> /\ prices = <<>> /\ kill = "off" /\ kills = 0 /\ clock = 0
    /\ stream = <<>>
    /\ pc = "boot" /\ origin = "bootstrap" /\ msg = NoMessage
    /\ last_installed_hash = None /\ last_installed_pricing_hash = None
    /\ policy_state = 0 /\ pricing_state = 0
    /\ crashes = 0 /\ persist_failures = 0 /\ lags = 0 /\ reloads = 0
    /\ Wasm!Init

-------------------------------------------------------------------------------
(* The control plane publishes, and tells the receivers that listen. *)

Tell(m) == stream' = IF Subscribed THEN Append(stream, m) ELSE stream

client == <<bootstrap, pc, origin, msg, caches, files, counts, engine>>

PublishPolicy(yaml) ==
    /\ Len(policies) < MaxPolicies
    /\ policies' = Append(policies, [yaml |-> yaml, signed_at |-> clock])
    /\ Tell(Message("absent", Len(policies) + 1, 0))
    /\ UNCHANGED <<prices, kill, kills, clock, client>>

PublishPrices ==
    /\ Len(prices) < MaxPrices
    /\ prices' = Append(prices, clock)
    /\ Tell(Message("absent", 0, Len(prices) + 1))
    /\ UNCHANGED <<policies, kill, kills, clock, client>>

SetKill ==
    /\ kills < MaxKills
    /\ kills' = kills + 1
    /\ kill' = IF kill = "on" THEN "off" ELSE "on"
    /\ Tell(Message(kill', 0, 0))
    /\ UNCHANGED <<policies, prices, clock, client>>

Tick ==
    /\ clock < MaxTime
    /\ clock' = clock + 1
    /\ UNCHANGED <<policies, prices, kill, kills, stream, client>>

\* Answers of a server that lags: an earlier policy, or an earlier price table.
Lagging ==
    {[Current EXCEPT !.policy = v] : v \in 1..Len(policies) - 1} \cup
    {[Current EXCEPT !.price = p] : p \in 1..Len(prices) - 1}

Answers == {Current} \cup (IF lags < MaxLags THEN Lagging ELSE {})
CountLag(m) == lags' = IF m = Current THEN lags ELSE lags + 1

-------------------------------------------------------------------------------
(* The boot sequence. *)

world == <<server, counts>>

\* A fresh engine, with the caller's policy or the deny-all baseline.
Boot ==
    /\ pc = "boot"
    /\ Wasm!init
    /\ pc' = IF bootstrap = "yes" THEN "fetch" ELSE "restore"
    /\ UNCHANGED <<world, origin, msg, stream, caches, files>>

\* bootstrap_policy asks for the state once; a failure is logged.
Fetch ==
    /\ pc = "fetch"
    /\ origin' = "bootstrap"
    /\ \/ /\ \E m \in Answers : msg' = m /\ CountLag(m)
          /\ pc' = "kill"
       \/ msg' = NoMessage /\ pc' = "restore" /\ UNCHANGED lags
    /\ UNCHANGED <<server, crashes, persist_failures, reloads, stream, caches, files, engine>>

PolicyEnvelope(v) ==
    [payload_type |-> "policy", signer |-> "policy key", intact |-> "yes",
     payload |-> "valid", version |-> v, signed_at |-> policies[v].signed_at]
PriceEnvelope(v) ==
    [payload_type |-> "pricing", signer |-> "pricing key", intact |-> "yes",
     payload |-> "valid", version |-> v, signed_at |-> prices[v]]

\* What reload_policy_signed and reload_pricing_signed accept.
PolicyAccepted(v) ==
    /\ Wasm!Acceptable(PolicyEnvelope(v), "policy", {"policy key"}, clock)
    /\ Wasm!NewPolicy(v)
PriceAccepted(v) ==
    /\ Wasm!Acceptable(PriceEnvelope(v), "pricing", {"pricing key"}, clock)
    /\ Wasm!NewPricing(v)

\* Mutant of RestorePolicy: the persisted policy is not looked at.
RestoreNothing ==
    /\ pc = "restore"
    /\ pc' = "restore price"
    /\ UNCHANGED <<world, origin, msg, stream, caches, files, engine>>

\* _restore_persisted_policy_version.  If the engine is as new as the file,
\* only the cache is seeded; a persisted policy that the engine refuses is
\* dropped.
RestorePolicy ==
    /\ pc = "restore"
    /\ pc' = "restore price"
    /\ IF policy_state = 0 THEN UNCHANGED <<last_installed_hash, engine>>
       ELSE IF last_policy_version >= policy_state
       THEN last_installed_hash' = policies[policy_state].yaml /\ UNCHANGED engine
       ELSE IF PolicyAccepted(policy_state)
       THEN /\ last_installed_hash' = policies[policy_state].yaml
            /\ Wasm!reload_policy_signed(PolicyEnvelope(policy_state), clock)
       ELSE UNCHANGED <<last_installed_hash, engine>>
    /\ UNCHANGED <<world, origin, msg, stream, last_installed_pricing_hash, files>>

\* _restore_persisted_pricing_version: only the version comes back.  Then the
\* thread starts.
RestorePricing ==
    /\ pc = "restore price"
    /\ pc' = "connect"
    /\ IF pricing_state > 0 /\ signed_pricing_installed = "no"
       THEN Wasm!set_initial_pricing_version(pricing_state)
       ELSE UNCHANGED engine
    /\ UNCHANGED <<world, origin, msg, stream, caches, files>>

-------------------------------------------------------------------------------
(* _run_loop and _run_sse. *)

\* The stream opens with an init event; it can also fail to open, or be
\* refused for ever with a 401 or 403.
Connect ==
    /\ pc = "connect"
    /\ \E m \in Answers : stream' = <<m>> /\ CountLag(m)
    /\ pc' = "listen"
    /\ UNCHANGED <<server, crashes, persist_failures, reloads, origin, msg, caches, files, engine>>

ConnectFails ==
    /\ pc = "connect"
    /\ pc' = "poll"
    /\ UNCHANGED <<world, origin, msg, stream, caches, files, engine>>

AuthRejected ==
    /\ pc = "connect"
    /\ pc' = "dead"
    /\ UNCHANGED <<world, origin, msg, stream, caches, files, engine>>

\* Mutant of Receive: only changes of the policy are applied, never what init
\* brings along.
ReceiveChanges ==
    /\ pc = "listen"
    /\ stream # <<>>
    /\ msg' = IF Head(stream).kill = "absent" THEN Head(stream)
              ELSE [Head(stream) EXCEPT !.policy = 0]
    /\ stream' = Tail(stream)
    /\ origin' = "sse" /\ pc' = "kill"
    /\ UNCHANGED <<world, caches, files, engine>>

Receive ==
    /\ pc = "listen"
    /\ stream # <<>>
    /\ msg' = Head(stream) /\ stream' = Tail(stream)
    /\ origin' = "sse" /\ pc' = "kill"
    /\ UNCHANGED <<world, caches, files, engine>>

\* The server closes the stream; the loop starts over at once.
CleanDisconnect ==
    /\ pc = "listen"
    /\ pc' = "connect"
    /\ stream' = <<>>
    /\ UNCHANGED <<world, origin, msg, caches, files, engine>>

\* Mutant of BrokenStream: the events that were on their way stay.
BrokenStreamKeeps ==
    /\ pc = "listen"
    /\ pc' = "poll"
    /\ UNCHANGED <<world, stream, origin, msg, caches, files, engine>>

\* The stream breaks: poll once, wait, start over.
BrokenStream ==
    /\ pc = "listen"
    /\ pc' = "poll"
    /\ stream' = <<>>
    /\ UNCHANGED <<world, origin, msg, caches, files, engine>>

Poll ==
    /\ pc = "poll"
    /\ origin' = "poll"
    /\ \/ /\ \E m \in Answers : msg' = m /\ CountLag(m)
          /\ pc' = "kill"
       \/ msg' = NoMessage /\ pc' = "connect" /\ UNCHANGED lags
    /\ UNCHANGED <<server, crashes, persist_failures, reloads, stream, caches, files, engine>>

-------------------------------------------------------------------------------
(* Applying a message: the kill switch, then the policy, then the prices.  *)
(* bootstrap_policy does the first two, and keeps no cache.                *)

\* Mutant of ApplyKill: only a kill_switch event sets the switch.
ApplyKillEvents ==
    /\ pc = "kill"
    /\ pc' = "policy"
    /\ IF msg.kill = "absent" \/ msg.policy # 0
       THEN UNCHANGED engine ELSE Wasm!set_kill_switch(msg.kill)
    /\ UNCHANGED <<world, origin, msg, stream, caches, files>>

ApplyKill ==
    /\ pc = "kill"
    /\ pc' = "policy"
    /\ IF msg.kill = "absent" THEN UNCHANGED engine ELSE Wasm!set_kill_switch(msg.kill)
    /\ UNCHANGED <<world, origin, msg, stream, caches, files>>

InstallsPolicy ==
    /\ msg.policy # 0
    /\ origin # "bootstrap" => last_installed_hash # policies[msg.policy].yaml
    /\ PolicyAccepted(msg.policy)

ApplyPolicy ==
    /\ pc = "policy"
    /\ InstallsPolicy
    /\ Wasm!reload_policy_signed(PolicyEnvelope(msg.policy), clock)
    /\ last_installed_hash' = IF origin = "bootstrap" THEN last_installed_hash
                              ELSE policies[msg.policy].yaml
    /\ pc' = "save"
    /\ UNCHANGED <<world, origin, msg, stream, last_installed_pricing_hash, files>>

SkipPolicy ==
    /\ pc = "policy"
    /\ ~InstallsPolicy
    /\ pc' = "price"
    /\ UNCHANGED <<world, origin, msg, stream, caches, files, engine>>

\* persist_state, which may fail without consequence.
SavePolicy ==
    /\ pc = "save"
    /\ pc' = "price"
    /\ \/ /\ policy_state' = last_policy_version
          /\ UNCHANGED persist_failures
       \/ /\ persist_failures < MaxPersistFailures
          /\ persist_failures' = persist_failures + 1
          /\ UNCHANGED policy_state
    /\ UNCHANGED <<server, crashes, lags, reloads, origin, msg, stream, caches,
                   pricing_state, engine>>

InstallsPrice ==
    /\ origin # "bootstrap"
    /\ msg.price # 0
    /\ last_installed_pricing_hash # msg.price
    /\ PriceAccepted(msg.price)

ApplyPrice ==
    /\ pc = "price"
    /\ InstallsPrice
    /\ Wasm!reload_pricing_signed(PriceEnvelope(msg.price), clock)
    /\ last_installed_pricing_hash' = msg.price
    /\ pc' = "save price"
    /\ UNCHANGED <<world, origin, msg, stream, last_installed_hash, files>>

\* Where the thread goes on after a message.
Return == CASE origin = "bootstrap" -> "restore"
            [] origin = "sse" -> "listen"
            [] origin = "poll" -> "connect"

SkipPrice ==
    /\ pc = "price"
    /\ ~InstallsPrice
    /\ pc' = Return
    /\ msg' = NoMessage
    /\ UNCHANGED <<world, origin, stream, caches, files, engine>>

SavePrice ==
    /\ pc = "save price"
    /\ pc' = Return
    /\ msg' = NoMessage
    /\ \/ pricing_state' = last_pricing_version /\ UNCHANGED persist_failures
       \/ /\ persist_failures < MaxPersistFailures
          /\ persist_failures' = persist_failures + 1
          /\ UNCHANGED pricing_state
    /\ UNCHANGED <<server, crashes, lags, reloads, origin, stream, caches,
                   policy_state, engine>>

-------------------------------------------------------------------------------
\* The process ends, at any step, and is started again with a new engine.
Crash ==
    /\ crashes + reloads < MaxIncidents
    /\ crashes' = crashes + 1
    /\ pc' = "boot" /\ origin' = "bootstrap" /\ msg' = NoMessage
    /\ stream' = <<>>
    /\ last_installed_hash' = None /\ last_installed_pricing_hash' = None
    /\ source' = "none" /\ policy' = None /\ kill_switch' = "off" /\ counted' = 0
    /\ last_policy_version' = 0 /\ signed_policy_installed' = "no"
    /\ last_pricing_version' = 0 /\ signed_pricing_installed' = "no"
    /\ active_pricing_bundle' = None
    /\ UNCHANGED <<server, files, persist_failures, lags, reloads>>

\* The watcher of a policy file installs it, whatever the receiver is about; the
\* receiver's cache is not told.
LocalReload ==
    /\ crashes + reloads < MaxIncidents
    /\ reloads' = reloads + 1
    /\ Wasm!reload_policy
    /\ UNCHANGED <<server, receiver, caches, files, crashes, persist_failures, lags>>

ProcessStep ==
    \/ Boot \/ Fetch \/ RestorePolicy \/ RestorePricing
    \/ Poll
    \/ ApplyKill \/ ApplyPolicy \/ SkipPolicy \/ SavePolicy
    \/ ApplyPrice \/ SkipPrice \/ SavePrice

Next ==
    \/ \E yaml \in Yamls : PublishPolicy(yaml)
    \/ PublishPrices
    \/ SetKill
    \/ Tick
    \/ ProcessStep
    \/ Connect \/ ConnectFails \/ AuthRejected
    \/ Receive \/ CleanDisconnect \/ BrokenStream
    \/ Crash \/ LocalReload

Spec == Init /\ [][Next]_vars

\* The thread keeps running.  The network is not down for ever: a connection
\* that is tried again and again opens in the end, and a stream that is opened
\* again and again delivers an event in the end.
Fairness ==
    /\ WF_vars(ProcessStep)
    /\ WF_vars(Connect \/ ConnectFails)
    /\ SF_vars(Connect)
    /\ SF_vars(Receive)

FairSpec == Spec /\ Fairness
-------------------------------------------------------------------------------
Steps == {"boot", "fetch", "restore", "restore price", "connect", "listen", "poll",
          "kill", "policy", "save", "price", "save price", "dead"}

Kinds == {"on", "off", "absent"}
Policies == 0..MaxPolicies
Prices == 0..MaxPrices

\* Every variable has its type; the files name bundles that were published,
\* and only an open stream has events on their way.
TypeOK ==
    /\ policies \in Seq([yaml : Yamls, signed_at : 0..MaxTime])
    /\ prices \in Seq(0..MaxTime)
    /\ kill \in {"on", "off"}
    /\ clock \in 0..MaxTime
    /\ bootstrap \in Bootstraps
    /\ pc \in Steps /\ origin \in {"bootstrap", "sse", "poll"}
    /\ msg \in [kill : Kinds, policy : Policies, price : Prices]
    /\ stream \in Seq([kill : Kinds, policy : Policies, price : Prices])
    /\ stream # <<>> => Subscribed
    /\ last_installed_hash \in Yamls \cup {None}
    /\ last_installed_pricing_hash \in Prices \cup {None}
    /\ policy_state \in 0..Len(policies) /\ pricing_state \in 0..Len(prices)
    /\ policy \in 1..Len(policies) \cup {None}
    /\ active_pricing_bundle \in 1..Len(prices) \cup {None}

\* "With it, the monotonic check spans the full life of the installation"
\* (control.py:166): no policy and no price table older than the persisted one
\* ever becomes active, restarts included.
SpansRestarts ==
    [][/\ policy' \notin {None, policy} => policy' >= policy_state
       /\ active_pricing_bundle' \notin {None, active_pricing_bundle} =>
             active_pricing_bundle' >= pricing_state]_vars

\* It does span them wherever the caller gave a policy: no crash between an
\* installation and its save, failed save, stale bundle or lagging server
\* brings an older bundle back.
SpansRestartsOnceRestored ==
    [][bootstrap = "no" =>
          /\ policy' \notin {None, policy} => policy' >= policy_state
          /\ active_pricing_bundle' \notin {None, active_pricing_bundle} =>
                active_pricing_bundle' >= pricing_state]_vars

\* The kill switch ends up where the control plane has it, whatever was lost
\* on the way, unless the API key was rejected.
KillSwitchAgrees == <>[](pc = "dead" \/ kill_switch = kill)

\* The signed policy in force has the contents v has.
InForce(v) == policy # None /\ policies[policy].yaml = policies[v].yaml

Stale(signed_at) == clock - signed_at > MaxAge

\* What a local file has replaced does not come back: the newest policy is
\* taken for installed by the cache, or refused for its version.
Displaced(v) ==
    /\ source = "local" /\ reloads > 0
    /\ last_installed_hash = policies[v].yaml \/ last_policy_version >= v

\* Where the save of a bootstrapped policy failed, the cache is seeded with an older
\* file's contents (_restore_persisted_policy_version), and a policy that has them
\* again is taken for installed.
Missaved(v) ==
    /\ bootstrap = "yes" /\ persist_failures > 0
    /\ last_installed_hash = policies[v].yaml

\* The newest published policy is in force, or why it is not.
Settled(v) ==
    \/ Stale(policies[v].signed_at) \/ Displaced(v) \/ Missaved(v) \/ InForce(v)

\* The contents of the newest published policy end up in force, whether they
\* come by event, by poll, by bootstrap or from the file, unless the bundle is
\* stale, the API key was rejected, a local file replaced it, a failed save makes
\* the cache mistake it, or the server itself answered with an earlier policy, which
\* nothing corrects while the stream stays open.
PolicyAgrees ==
    LET newest == Len(policies)
    IN <>[](pc = "dead" \/ newest = 0 \/ lags > 0 \/ Settled(newest))

\* The stream is open and every event of it has been applied.
Heard == pc = "listen" /\ stream = <<>>

\* An open stream that has nothing left to say has said whether calls are stopped
\* (_run_sse, _handle_event).
HeardKill == Heard => kill_switch = kill

\* It has put the newest policy in force, or there is one of the reasons above why not,
\* whatever the order of events, polls, crashes, reloads and failed saves before
\* (_run_sse, _handle_event, _apply_policy_update).
HeardPolicy ==
    LET newest == Len(policies)
    IN Heard => newest = 0 \/ lags > 0 \/ Settled(newest)

\* The kill switch and the policy end up as the control plane has them, and an open
\* stream has said all (_run_loop, _handle_event, _poll_once).
ObeysControlPlane ==
    /\ KillSwitchAgrees /\ PolicyAgrees
    /\ [](HeardKill /\ HeardPolicy)

\* "The fresh price table arrives via the control plane after connect."
\* (control.py:295)
PricesAgree ==
    LET newest == Len(prices)
    IN <>[](\/ pc = "dead" \/ newest = 0
            \/ Stale(prices[newest]) \/ active_pricing_bundle = newest)
===============================================================================
