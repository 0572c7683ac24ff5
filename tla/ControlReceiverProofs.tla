------------------------- MODULE ControlReceiverProofs -------------------------
(***************************************************************************)
(* What ControlReceiver promises for every number of bundles, crashes and  *)
(* failed saves: its types, and that an installation which restored its    *)
(* files never lets an older bundle in.  The second is not inductive: what *)
(* the engine holds has to be tied to the files at every step of the       *)
(* receiver (PolicyRestored, PricingRestored), and bundles have to be      *)
(* published in the order of their signatures (Dated), for one too old to  *)
(* be restored must keep out everything before it.                         *)
(***************************************************************************)
EXTENDS ControlReceiver, SequenceTheorems, TLAPS

\* Messages speak of bundles that were published.
Known == [kill : Kinds, policy : 0..Len(policies), price : 0..Len(prices)]

\* What the control plane holds.
Published ==
    /\ policies \in Seq([yaml : Yamls, signed_at : 0..MaxTime]) /\ Len(policies) <= MaxPolicies
    /\ prices \in Seq(0..MaxTime) /\ Len(prices) <= MaxPrices
    /\ kill \in {"on", "off"} /\ clock \in 0..MaxTime
    /\ bootstrap \in Bootstraps

\* What the receiver is about.
Received ==
    /\ pc \in Steps /\ origin \in {"bootstrap", "sse", "poll"}
    /\ msg \in Known /\ stream \in Seq(Known)
    /\ stream # <<>> => Subscribed

\* What is persisted, cached and in force.
Held ==
    /\ last_installed_hash \in Yamls \cup {None}
    /\ last_installed_pricing_hash \in 1..Len(prices) \cup {None}
    /\ policy_state \in 0..Len(policies) /\ pricing_state \in 0..Len(prices)
    /\ policy \in 1..Len(policies) \cup {None}
    /\ last_policy_version \in 0..Len(policies) /\ last_pricing_version \in 0..Len(prices)
    /\ active_pricing_bundle \in 1..Len(prices) \cup {None}

\* The type invariant, with what TypeOK lacks to be inductive: messages and versions of
\* the engine speak of published bundles.
Types == Published /\ Received /\ Held

\* Published bundles are counted by numbers within the bounds.
LEMMA Lengths ==
  ASSUME Published
  PROVE  /\ MaxPolicies \in Nat /\ MaxPrices \in Nat
         /\ Len(policies) \in 0..MaxPolicies /\ Len(prices) \in 0..MaxPrices
         /\ \A v \in 1..Len(policies) : policies[v] \in [yaml : Yamls, signed_at : 0..MaxTime]
  <1>1. /\ policies \in Seq([yaml : Yamls, signed_at : 0..MaxTime]) /\ Len(policies) <= MaxPolicies
        /\ prices \in Seq(0..MaxTime) /\ Len(prices) <= MaxPrices
    BY DEF Published
  <1>2. Len(policies) \in Nat /\ Len(prices) \in Nat
    BY <1>1, LenProperties
  <1>3. MaxPolicies \in Nat /\ MaxPrices \in Nat
    BY ReceiverAssumption
  <1>4. \A v \in 1..Len(policies) : policies[v] \in [yaml : Yamls, signed_at : 0..MaxTime]
    BY <1>1, ElementOfSeq
  <1> QED
    BY <1>1, <1>2, <1>3, <1>4

\* The inductive types are the types that the run checks.
LEMMA TypesImply == Types => TypeOK
  <1> SUFFICES ASSUME Types
               PROVE  TypeOK
    OBVIOUS
  <1>1. Known \subseteq [kill : Kinds, policy : Policies, price : Prices]
    BY Lengths DEF Types, Known, Policies, Prices
  <1>2. stream \in Seq([kill : Kinds, policy : Policies, price : Prices])
    BY <1>1, SeqMonotonic DEF Types, Received
  <1>3. 1..Len(prices) \subseteq Prices
    BY Lengths DEF Types, Prices
  <1> QED
    BY <1>1, <1>2, <1>3 DEF Types, Published, Received, Held, TypeOK

\* They hold of an installation that starts.
LEMMA TypesStart == Init => Types
  <1> SUFFICES ASSUME Init
               PROVE  Types
    OBVIOUS
  <1>1. /\ \A S : <<>> \in Seq(S)
        /\ Len(policies) = 0 /\ Len(prices) = 0
    BY EmptySeq DEF Init
  <1>2. NoMessage \in Known
    BY <1>1 DEF NoMessage, Message, Known, Kinds
  <1> QED
    BY <1>1, <1>2, ReceiverAssumption DEF Init, Types, Published, Received, Held, Steps, Wasm!Init

\* Answers of the control plane, lagging or not, speak of published bundles.
LEMMA AnswersKnown ==
  ASSUME Published
  PROVE  Answers \subseteq Known /\ NoMessage \in Known
  <1>1. Current \in Known /\ NoMessage \in Known
    BY Lengths DEF Published, Current, Known, Message, NoMessage, Kinds
  <1>2. \A v \in 1..Len(policies) - 1 : [Current EXCEPT !.policy = v] \in Known
    BY <1>1, Lengths DEF Known
  <1>3. \A p \in 1..Len(prices) - 1 : [Current EXCEPT !.price = p] \in Known
    BY <1>1, Lengths DEF Known
  <1>4. Lagging \subseteq Known
    BY <1>2, <1>3 DEF Lagging
  <1> QED
    BY <1>1, <1>4 DEF Answers

\* Who publishes leaves the process alone but for the stream; the others publish nothing.
LEMMA WhoMoves ==
  ASSUME Next
  PROVE  \/ \E yaml \in Yamls : PublishPolicy(yaml)
         \/ PublishPrices \/ SetKill \/ Tick
         \/ ProcessStep \/ Connect \/ ConnectFails \/ AuthRejected
               \/ Receive \/ CleanDisconnect \/ BrokenStream \/ Crash \/ LocalReload
  BY DEF Next

\* The process publishes nothing.
LEMMA ServerRests ==
  ASSUME \/ ProcessStep \/ Connect \/ ConnectFails \/ AuthRejected
         \/ Receive \/ CleanDisconnect \/ BrokenStream \/ Crash \/ LocalReload
  PROVE  UNCHANGED server
  <1> USE DEF world
  <1>1. ProcessStep => UNCHANGED server
    BY DEF ProcessStep, Boot, Fetch, RestorePolicy, RestorePricing, Poll, ApplyKill, ApplyPolicy,
           SkipPolicy, SavePolicy, ApplyPrice, SkipPrice, SavePrice
  <1> QED
    BY <1>1 DEF Connect, ConnectFails, AuthRejected, Receive, CleanDisconnect, BrokenStream,
                Crash, LocalReload

\* Publications keep the types of what is published.
LEMMA PublishedMoves == Published /\ [Next]_vars => Published'
  <1> SUFFICES ASSUME Published, [Next]_vars
               PROVE  Published'
    OBVIOUS
  <1>1. ASSUME NEW yaml \in Yamls, PublishPolicy(yaml)
        PROVE  Published'
    <2>1. [yaml |-> yaml, signed_at |-> clock] \in [yaml : Yamls, signed_at : 0..MaxTime]
      BY DEF Published
    <2>2. policies' \in Seq([yaml : Yamls, signed_at : 0..MaxTime])
          /\ Len(policies') = Len(policies) + 1
      BY <1>1, <2>1, AppendProperties DEF PublishPolicy, Published
    <2> QED
      BY <1>1, <2>2, Lengths DEF PublishPolicy, Published, client
  <1>2. CASE PublishPrices
    <2>1. prices' \in Seq(0..MaxTime) /\ Len(prices') = Len(prices) + 1
      BY <1>2, AppendProperties DEF PublishPrices, Published
    <2> QED
      BY <1>2, <2>1, Lengths DEF PublishPrices, Published, client
  <1>3. CASE SetKill
    BY <1>3 DEF SetKill, Published, client
  <1>4. CASE Tick
    BY <1>4, ReceiverAssumption DEF Tick, Published, client
  <1>5. CASE UNCHANGED server
    BY <1>5 DEF server, Published
  <1> QED
    BY <1>1, <1>2, <1>3, <1>4, <1>5, WhoMoves, ServerRests DEF vars

\* Messages and events keep speaking of published bundles, and events are lost with
\* their stream.
LEMMA ReceivedMoves == Published /\ Received /\ [Next]_vars => Received'
  <1> SUFFICES ASSUME Published, Received, [Next]_vars
               PROVE  Received'
    OBVIOUS
  <1>1. Answers \subseteq Known /\ NoMessage \in Known
    BY AnswersKnown
  <1>2. ASSUME Known \subseteq Known', UNCHANGED <<pc, origin, msg>>,
               NEW m \in Known', Tell(m)
        PROVE  Received'
    <2>1. msg' \in Known' /\ stream \in Seq(Known')
      BY <1>2, SeqMonotonic DEF Received
    <2>2. stream' \in Seq(Known') /\ (stream' # <<>> => Subscribed')
      BY <1>2, <2>1, AppendProperties DEF Tell, Received, Subscribed
    <2> QED
      BY <1>2, <2>1, <2>2 DEF Received
  <1>3. ASSUME NEW yaml \in Yamls, PublishPolicy(yaml)
        PROVE  Received'
    <2>1. Len(policies') = Len(policies) + 1
      BY <1>3, AppendProperties DEF PublishPolicy, Published
    <2>2. Known \subseteq Known' /\ Message("absent", Len(policies) + 1, 0) \in Known'
      BY <1>3, <2>1, Lengths DEF PublishPolicy, Known, Message, Kinds
    <2> QED
      BY <1>2, <1>3, <2>2 DEF PublishPolicy, client
  <1>4. CASE PublishPrices
    <2>1. Len(prices') = Len(prices) + 1
      BY <1>4, AppendProperties DEF PublishPrices, Published
    <2>2. Known \subseteq Known' /\ Message("absent", 0, Len(prices) + 1) \in Known'
      BY <1>4, <2>1, Lengths DEF PublishPrices, Known, Message, Kinds
    <2> QED
      BY <1>2, <1>4, <2>2 DEF PublishPrices, client
  <1>5. CASE SetKill
    <2>1. Known' = Known
      BY <1>5 DEF SetKill, Known
    <2>2. Message(kill', 0, 0) \in Known
      BY <1>5, Lengths DEF SetKill, Published, Known, Message, Kinds
    <2> QED
      BY <1>2, <1>5, <2>1, <2>2 DEF SetKill, client
  <1>6. CASE UNCHANGED <<policies, prices, receiver>>
    BY <1>6 DEF receiver, Received, Known, Subscribed
  <1>7. Tick \/ LocalReload => UNCHANGED <<policies, prices, receiver>>
    BY DEF Tick, client, LocalReload, server, receiver
  <1>8. ASSUME UNCHANGED server,
               \/ ProcessStep \/ Connect \/ ConnectFails \/ AuthRejected
               \/ Receive \/ CleanDisconnect \/ BrokenStream \/ Crash
        PROVE  Received'
    <2>1. Known' = Known
      BY <1>8 DEF server, Known
    <2> USE <1>1, <1>8, <2>1 DEF Received, Subscribed, Steps
    <2>2. CASE Boot \/ RestorePolicy \/ RestorePricing
      BY <2>2 DEF Boot, RestorePolicy, RestorePricing
    <2>3. CASE Fetch \/ Poll
      BY <2>3 DEF Fetch, Poll
    <2>4. CASE ApplyKill \/ ApplyPolicy \/ SkipPolicy \/ SavePolicy \/ ApplyPrice
      BY <2>4 DEF ApplyKill, ApplyPolicy, SkipPolicy, SavePolicy, ApplyPrice
    <2>5. CASE SkipPrice \/ SavePrice
      BY <2>5 DEF SkipPrice, SavePrice, Return
    <2>6. CASE Connect
      BY <2>6 DEF Connect
    <2>7. CASE ConnectFails \/ AuthRejected
      BY <2>7 DEF ConnectFails, AuthRejected
    <2>8. CASE Receive
      <3>1. Head(stream) \in Known /\ Tail(stream) \in Seq(Known)
        BY <2>8, HeadTailProperties DEF Receive
      <3> QED
        BY <2>8, <3>1 DEF Receive
    <2>9. CASE CleanDisconnect \/ BrokenStream \/ Crash
      BY <2>9, EmptySeq DEF CleanDisconnect, BrokenStream, Crash
    <2> QED
      BY <2>2, <2>3, <2>4, <2>5, <2>6, <2>7, <2>8, <2>9 DEF ProcessStep
  <1> QED
    BY <1>3, <1>4, <1>5, <1>6, <1>7, <1>8, WhoMoves, ServerRests DEF vars, server

\* What a signed reload changes.
LEMMA PolicyReloads ==
  ASSUME Published, NEW v \in 1..Len(policies),
         Wasm!reload_policy_signed(PolicyEnvelope(v), clock)
  PROVE  /\ Wasm!NewPolicy(v) /\ ~Stale(policies[v].signed_at)
         /\ policy' = v /\ last_policy_version' = v /\ signed_policy_installed' = "yes"
         /\ source' = "signed"
         /\ UNCHANGED Wasm!pricingVars /\ UNCHANGED kill_switch
  <1>1. PolicyEnvelope(v).version = v /\ PolicyEnvelope(v).signed_at = policies[v].signed_at
    BY DEF PolicyEnvelope
  <1>2. policies[v].signed_at \in Nat /\ clock \in Nat /\ MaxAge \in Nat
    BY Lengths, ReceiverAssumption DEF Published
  <1>3. ~Stale(policies[v].signed_at)
    <2>1. Wasm!Timely(PolicyEnvelope(v), clock)
      BY DEF Wasm!reload_policy_signed, Wasm!Acceptable
    <2> QED
      BY <1>1, <1>2, <2>1 DEF Wasm!Timely, Stale
  <1> QED
    BY <1>1, <1>3 DEF Wasm!reload_policy_signed, Wasm!pricingVars

\* A price table the engine accepts is newer than the one it has, and raises its version.
LEMMA PricesReload ==
  ASSUME NEW v, Wasm!reload_pricing_signed(PriceEnvelope(v), clock)
  PROVE  /\ Wasm!NewPricing(v)
         /\ last_pricing_version' = v /\ signed_pricing_installed' = "yes"
         /\ active_pricing_bundle' = v
         /\ UNCHANGED Wasm!policyVars /\ UNCHANGED kill_switch
  <1>1. PriceEnvelope(v).version = v
    BY DEF PriceEnvelope
  <1> QED
    BY <1>1 DEF Wasm!reload_pricing_signed, Wasm!policyVars

\* What is persisted, cached and in force was published.
LEMMA HeldMoves == Types /\ [Next]_vars => Held'
  <1> SUFFICES ASSUME Published, Received, Held, [Next]_vars
               PROVE  Held'
    BY DEF Types
  <1>1. /\ Len(policies) \in Nat /\ Len(prices) \in Nat
        /\ \A v \in 1..Len(policies) : policies[v].yaml \in Yamls
    BY Lengths
  <1> USE DEF caches, files, engine, Wasm!policyVars, Wasm!pricingVars
  <1>2. ASSUME NEW yaml \in Yamls, PublishPolicy(yaml)
        PROVE  Held'
    <2>1. Len(policies') = Len(policies) + 1
      BY <1>2, AppendProperties DEF PublishPolicy, Published
    <2> QED
      BY <1>1, <1>2, <2>1 DEF PublishPolicy, client, Held
  <1>3. CASE PublishPrices
    <2>1. Len(prices') = Len(prices) + 1
      BY <1>3, AppendProperties DEF PublishPrices, Published
    <2> QED
      BY <1>1, <1>3, <2>1 DEF PublishPrices, client, Held
  <1>4. CASE SetKill \/ Tick \/ UNCHANGED vars
    BY <1>4 DEF SetKill, Tick, client, vars, server, Held
  <1>5. CASE UNCHANGED server /\ ProcessStep
    <2>1. UNCHANGED <<policies, prices>>
      BY <1>5 DEF server
    <2> USE <2>1 DEF Held
    <2>2. CASE Boot \/ Fetch \/ SkipPolicy \/ Poll \/ SkipPrice
      BY <2>2 DEF Boot, Wasm!init, Fetch, SkipPolicy, Poll, SkipPrice
    <2>3. CASE RestorePolicy
      <3>1. \/ UNCHANGED engine
            \/ Wasm!reload_policy_signed(PolicyEnvelope(policy_state), clock) /\ policy_state # 0
        BY <2>3 DEF RestorePolicy
      <3>2. \/ UNCHANGED last_installed_hash
            \/ last_installed_hash' = policies[policy_state].yaml /\ policy_state # 0
        BY <2>3 DEF RestorePolicy
      <3>3. UNCHANGED <<policy_state, pricing_state, last_installed_pricing_hash>>
        BY <2>3 DEF RestorePolicy
      <3>4. policy_state # 0 => policy_state \in 1..Len(policies)
        BY <1>1
      <3>5. CASE UNCHANGED engine
        BY <1>1, <3>2, <3>3, <3>4, <3>5
      <3>6. CASE policy_state # 0 /\ Wasm!reload_policy_signed(PolicyEnvelope(policy_state), clock)
        BY <1>1, <3>2, <3>3, <3>4, <3>6, PolicyReloads
      <3> QED
        BY <3>1, <3>5, <3>6
    <2>4. CASE RestorePricing
      BY <1>1, <2>4 DEF RestorePricing, Wasm!set_initial_pricing_version
    <2>5. CASE ApplyKill
      BY <2>5 DEF ApplyKill, Wasm!set_kill_switch
    <2>6. CASE ApplyPolicy
      <3>1. /\ msg.policy \in 1..Len(policies)
            /\ Wasm!reload_policy_signed(PolicyEnvelope(msg.policy), clock)
        BY <1>1, <2>6 DEF ApplyPolicy, InstallsPolicy, Received, Known
      <3> QED
        BY <1>1, <2>6, <3>1, PolicyReloads DEF ApplyPolicy
    <2>7. CASE ApplyPrice
      <3>1. msg.price \in 0..Len(prices)
        BY DEF Received, Known
      <3>2. msg.price # 0
        BY <2>7 DEF ApplyPrice, InstallsPrice
      <3>3. msg.price \in 1..Len(prices)
        BY <1>1, <3>1, <3>2
      <3>4. Wasm!reload_pricing_signed(PriceEnvelope(msg.price), clock)
        BY <2>7 DEF ApplyPrice
      <3>5. /\ last_installed_pricing_hash' = msg.price
            /\ last_pricing_version' = msg.price /\ active_pricing_bundle' = msg.price
            /\ UNCHANGED <<last_installed_hash, policy_state, pricing_state, policy,
                           last_policy_version>>
        BY <2>7, <3>4, PricesReload DEF ApplyPrice
      <3> QED
        BY <1>1, <3>3, <3>5
    <2>8. CASE SavePolicy \/ SavePrice
      BY <2>8 DEF SavePolicy, SavePrice
    <2> QED
      BY <1>5, <2>2, <2>3, <2>4, <2>5, <2>6, <2>7, <2>8 DEF ProcessStep
  <1>6. CASE UNCHANGED server /\ (Connect \/ ConnectFails \/ AuthRejected \/ Receive
                                   \/ CleanDisconnect \/ BrokenStream \/ Crash \/ LocalReload)
    BY <1>6 DEF Connect, ConnectFails, AuthRejected, Receive, CleanDisconnect, BrokenStream,
                world, Crash, LocalReload, Wasm!reload_policy, server, Held
  <1> QED
    BY <1>2, <1>3, <1>4, <1>5, <1>6, WhoMoves, ServerRests

\* The type invariant is inductive.
LEMMA TypesMove == Types /\ [Next]_vars => Types'
  BY PublishedMoves, ReceivedMoves, HeldMoves DEF Types
-------------------------------------------------------------------------------

\* The control plane signs what it publishes when it publishes it.
Dated ==
    \A v \in 1..Len(policies) :
        /\ policies[v].signed_at <= clock
        /\ \A w \in 1..v : policies[w].signed_at <= policies[v].signed_at

\* Steps that apply a message.
Applying == {"kill", "policy", "save", "price", "save price"}

\* A receiver without bootstrap has an engine of its own until it has restored.
Fresh ==
    /\ signed_policy_installed \in {"yes", "no"} /\ signed_pricing_installed \in {"yes", "no"}
    /\ signed_policy_installed = "no" => last_policy_version = 0
    /\ pc = "save" => signed_policy_installed = "yes"
    /\ pc = "save price" => signed_pricing_installed = "yes"
    /\ bootstrap = "no" =>
          /\ pc # "fetch"
          /\ pc \in Applying => origin # "bootstrap"
          /\ pc \in {"boot", "restore"} => signed_policy_installed = "no"
          /\ pc \in {"boot", "restore", "restore price"} => signed_pricing_installed = "no"

\* A restored engine refuses what is older than the persisted policy, for its version
\* or because it is too old itself.
PolicyRestored ==
    bootstrap = "no" /\ pc \notin {"boot", "restore"} =>
        \/ policy_state = 0
        \/ signed_policy_installed = "yes" /\ last_policy_version >= policy_state
        \/ Stale(policies[policy_state].signed_at)

\* Steps before the price file was looked at.
Restoring == {"boot", "restore", "restore price"}

\* A restored engine refuses price tables older than the persisted one.
PricingRestored ==
    bootstrap = "no" /\ pc \notin Restoring =>
        \/ pricing_state = 0
        \/ signed_pricing_installed = "yes" /\ last_pricing_version >= pricing_state

\* The inductive invariant.
IInv == Types /\ Dated /\ Fresh /\ PolicyRestored /\ PricingRestored

\* The clock does not run backwards, so bundles are signed in their order.
LEMMA DatedMoves == Published /\ Dated /\ [Next]_vars => Dated'
  <1> SUFFICES ASSUME Published, Dated, [Next]_vars
               PROVE  Dated'
    OBVIOUS
  <1>1. ASSUME NEW yaml \in Yamls, PublishPolicy(yaml)
        PROVE  Dated'
    <2> DEFINE new == [yaml |-> yaml, signed_at |-> clock]
    <2>1. new \in [yaml : Yamls, signed_at : 0..MaxTime]
      BY DEF Published
    <2>2. /\ Len(policies') = Len(policies) + 1 /\ Len(policies) \in Nat
          /\ \A v \in 1..Len(policies) : policies'[v] = policies[v]
          /\ policies'[Len(policies) + 1] = new
          /\ clock' = clock
      BY <1>1, <2>1, AppendProperties, Lengths DEF PublishPolicy, Published
    <2>3. \A v \in 1..Len(policies) : policies[v].signed_at <= clock
      BY DEF Dated
    <2>4. ASSUME NEW v \in 1..Len(policies')
          PROVE  /\ policies'[v].signed_at <= clock'
                 /\ \A w \in 1..v : policies'[w].signed_at <= policies'[v].signed_at
      <3>1. CASE v \in 1..Len(policies)
        <4>1. \A w \in 1..v : w \in 1..Len(policies) /\ policies'[w] = policies[w]
          BY <2>2, <3>1
        <4> QED
          BY <2>2, <3>1, <4>1 DEF Dated
      <3>2. CASE v = Len(policies) + 1
        <4>1. policies'[v].signed_at = clock /\ clock <= clock
          BY <2>2, <3>2, ReceiverAssumption DEF Published
        <4>2. ASSUME NEW w \in 1..v
              PROVE  policies'[w].signed_at <= clock
          <5>1. w = v \/ w \in 1..Len(policies)
            BY <2>2, <3>2
          <5> QED
            BY <2>2, <2>3, <4>1, <5>1
        <4> QED
          BY <2>2, <4>1, <4>2
      <3> QED
        BY <2>2, <3>1, <3>2
    <2> QED
      BY <2>4 DEF Dated
  <1>2. CASE Tick
    BY <1>2, Lengths, ReceiverAssumption DEF Tick, client, Dated, Published
  <1>3. CASE UNCHANGED <<policies, clock>>
    BY <1>3 DEF Dated
  <1> QED
    BY <1>1, <1>2, <1>3, WhoMoves, ServerRests DEF vars, server, PublishPrices, SetKill

\* Until its files are looked at, an engine without a bootstrap has installed nothing.
LEMMA FreshMoves == Types /\ Fresh /\ [Next]_vars => Fresh'
  <1> SUFFICES ASSUME Published, Received, Held, Fresh, [Next]_vars
               PROVE  Fresh'
    BY DEF Types
  <1>1. Len(policies) \in Nat /\ Len(prices) \in Nat
    BY Lengths
  <1>2. policy_state # 0 => policy_state \in 1..Len(policies)
    <2>1. policy_state \in 0..Len(policies)
      BY DEF Held
    <2> QED
      BY <1>1, <2>1
  <1> USE DEF engine, Wasm!policyVars, Wasm!pricingVars, Applying
  <1>3. CASE UNCHANGED <<bootstrap, pc, origin, engine>>
    BY <1>3 DEF Fresh
  <1>4. (\/ \E yaml \in Yamls : PublishPolicy(yaml)
         \/ PublishPrices \/ SetKill \/ Tick \/ UNCHANGED vars)
           => UNCHANGED <<bootstrap, pc, origin, engine>>
    BY DEF PublishPolicy, PublishPrices, SetKill, Tick, client, vars, server, receiver
  <1>5. ASSUME UNCHANGED bootstrap, ProcessStep
        PROVE  Fresh'
    <2> USE <1>5 DEF Fresh
    <2>1. CASE Boot
      BY <2>1 DEF Boot, Wasm!init
    <2>2. CASE Fetch \/ SkipPolicy \/ Poll
      BY <2>2 DEF Fetch, SkipPolicy, Poll
    <2>3. CASE SkipPrice \/ SavePrice
      BY <2>3 DEF SkipPrice, SavePrice, Return, Received
    <2>4. CASE RestorePolicy
      <3>1. CASE UNCHANGED engine
        BY <2>4, <3>1 DEF RestorePolicy
      <3>2. CASE policy_state \in 1..Len(policies)
                 /\ Wasm!reload_policy_signed(PolicyEnvelope(policy_state), clock)
        BY <2>4, <3>2, PolicyReloads DEF RestorePolicy
      <3>3. \/ UNCHANGED engine
            \/ policy_state # 0 /\ Wasm!reload_policy_signed(PolicyEnvelope(policy_state), clock)
        BY <2>4 DEF RestorePolicy
      <3> QED
        BY <1>2, <3>1, <3>2, <3>3
    <2>5. CASE RestorePricing
      BY <2>5 DEF RestorePricing, Wasm!set_initial_pricing_version
    <2>6. CASE ApplyKill
      BY <2>6 DEF ApplyKill, Wasm!set_kill_switch
    <2>7. CASE ApplyPolicy
      <3>1. msg.policy \in 1..Len(policies)
        BY <1>1, <2>7 DEF ApplyPolicy, InstallsPolicy, Received, Known
      <3> QED
        BY <2>7, <3>1, PolicyReloads DEF ApplyPolicy
    <2>8. CASE ApplyPrice
      BY <2>8, PricesReload DEF ApplyPrice
    <2>9. CASE SavePolicy
      BY <2>9 DEF SavePolicy
    <2> QED
      BY <1>5, <2>1, <2>2, <2>3, <2>4, <2>5, <2>6, <2>7, <2>8, <2>9 DEF ProcessStep
  <1>6. CASE UNCHANGED bootstrap /\ (Connect \/ ConnectFails \/ AuthRejected \/ Receive
                                      \/ CleanDisconnect \/ BrokenStream \/ Crash \/ LocalReload)
    BY <1>6 DEF Connect, ConnectFails, AuthRejected, Receive, CleanDisconnect, BrokenStream,
                Crash, LocalReload, Wasm!reload_policy, receiver, Fresh
  <1> QED
    BY <1>3, <1>4, <1>5, <1>6, WhoMoves, ServerRests DEF server

\* A bundle too old to be installed stays so.
LEMMA StaleStays ==
  ASSUME Published, Published', [Next]_vars, NEW v \in 1..Len(policies),
         Stale(policies[v].signed_at)
  PROVE  v \in 1..Len(policies') /\ Stale(policies[v].signed_at)'
  <1>1. /\ Len(policies) \in Nat /\ policies[v].signed_at \in Nat
        /\ clock \in Nat /\ MaxAge \in Nat
    BY Lengths, ReceiverAssumption DEF Published
  <1>2. ASSUME NEW yaml \in Yamls, PublishPolicy(yaml)
        PROVE  v \in 1..Len(policies') /\ policies'[v] = policies[v] /\ clock' = clock
    BY <1>1, <1>2, AppendProperties DEF PublishPolicy, Published
  <1>3. CASE Tick
    BY <1>1, <1>3 DEF Tick, Stale
  <1>4. CASE UNCHANGED <<policies, clock>>
    BY <1>4 DEF Stale
  <1> QED
    BY <1>2, <1>3, <1>4, WhoMoves, ServerRests DEF vars, server, PublishPrices, SetKill, Stale

\* What an engine that has restored accepts is no older than what is persisted: a bundle
\* older than a stale one is stale itself.
LEMMA NewerThanKept ==
  ASSUME Types, Dated, Fresh, PolicyRestored, bootstrap = "no", pc \notin {"boot", "restore"},
         NEW v \in 1..Len(policies),
         Wasm!NewPolicy(v), ~Stale(policies[v].signed_at)
  PROVE  v >= policy_state
  <1>0. /\ Len(policies) \in Nat /\ policies[v].signed_at \in Nat
        /\ clock \in Nat /\ MaxAge \in Nat
    <2>1. policies[v] \in [yaml : Yamls, signed_at : 0..MaxTime]
      BY Lengths DEF Types
    <2>2. MaxTime \in Nat /\ MaxAge \in Nat
      BY ReceiverAssumption
    <2> QED
      BY <2>1, <2>2, Lengths DEF Types, Published
  <1>1. /\ Len(policies) \in Nat /\ policies[v].signed_at \in Nat
        /\ clock \in Nat /\ MaxAge \in Nat
        /\ policy_state \in 0..Len(policies) /\ last_policy_version \in 0..Len(policies)
    BY <1>0 DEF Types, Held
  <1>2. CASE policy_state = 0
    BY <1>1, <1>2
  <1>3. CASE signed_policy_installed = "yes" /\ last_policy_version >= policy_state
    BY <1>1, <1>3 DEF Wasm!NewPolicy
  <1>4. CASE policy_state # 0 /\ Stale(policies[policy_state].signed_at)
    <2> SUFFICES ASSUME v < policy_state
                 PROVE  FALSE
      BY <1>1
    <2>1. policy_state \in 1..Len(policies) /\ v \in 1..policy_state
      BY <1>1, <1>4
    <2>2. policies[v].signed_at <= policies[policy_state].signed_at
      BY <2>1 DEF Dated
    <2>3. policies[policy_state].signed_at \in Nat
      BY <2>1, Lengths, ReceiverAssumption DEF Types
    <2> QED
      BY <1>1, <1>4, <2>2, <2>3 DEF Stale
  <1> QED
    BY <1>2, <1>3, <1>4 DEF PolicyRestored

\* No restoration, installation, save, failed save or crash lets the engine fall behind
\* the persisted policy.
LEMMA PolicyRestoredMoves ==
  ASSUME Types, Types', Dated, Fresh, PolicyRestored, [Next]_vars
  PROVE  PolicyRestored'
  <1>1. /\ Len(policies) \in Nat
        /\ policy_state \in 0..Len(policies) /\ last_policy_version \in 0..Len(policies)
    BY Lengths DEF Types, Held
  <1>2. UNCHANGED bootstrap
    BY WhoMoves, ServerRests
       DEF vars, server, PublishPolicy, PublishPrices, SetKill, Tick, client
  <1> SUFFICES ASSUME bootstrap = "no", pc' \notin {"boot", "restore"}
               PROVE  PolicyRestored'
    BY <1>2 DEF PolicyRestored
  <1> DEFINE Safe == \/ policy_state = 0
                     \/ signed_policy_installed = "yes" /\ last_policy_version >= policy_state
                     \/ Stale(policies[policy_state].signed_at)
  <1>3. Safe' => PolicyRestored'
    BY DEF PolicyRestored
  <1>4. pc \notin {"boot", "restore"} => Safe
    BY DEF PolicyRestored
  <1>5. ASSUME Safe, UNCHANGED <<policy_state, last_policy_version, signed_policy_installed>>
        PROVE  Safe'
    <2> PICK v \in Nat : v = policy_state
      BY <1>1
    <2>1. v # 0 /\ Stale(policies[v].signed_at) => Stale(policies[v].signed_at)'
      BY <1>1, StaleStays DEF Types
    <2> QED
      BY <1>5, <2>1
  <1>6. CASE Boot
    BY <1>6 DEF Boot
  <1> HIDE DEF Safe
  <1>7. CASE RestorePolicy
    <2>1. UNCHANGED <<policies, clock, policy_state>>
      BY <1>7 DEF RestorePolicy, world, server, files
    <2>2. signed_policy_installed = "no" /\ last_policy_version = 0
      BY <1>7 DEF RestorePolicy, Fresh
    <2>3. CASE policy_state = 0
      BY <1>3, <2>1, <2>3 DEF Safe
    <2>4. CASE policy_state # 0
      <3>1. Wasm!NewPolicy(policy_state) /\ policy_state \in 1..Len(policies)
        BY <1>1, <2>2, <2>4 DEF Wasm!NewPolicy
      <3>2. CASE PolicyAccepted(policy_state)
        <4>1. ~(last_policy_version >= policy_state)
          BY <1>1, <2>2, <2>4
        <4>2. Wasm!reload_policy_signed(PolicyEnvelope(policy_state), clock)
          BY <1>7, <2>4, <3>2, <4>1 DEF RestorePolicy
        <4>3. last_policy_version' = policy_state /\ signed_policy_installed' = "yes"
          BY <3>1, <4>2, PolicyReloads DEF Types
        <4> QED
          BY <1>1, <1>3, <2>1, <4>3 DEF Safe
      <3>3. CASE ~PolicyAccepted(policy_state)
        <4>1. ~Wasm!Timely(PolicyEnvelope(policy_state), clock)
          BY <3>1, <3>3
             DEF PolicyAccepted, PolicyEnvelope, Wasm!Acceptable, Wasm!Verifies
        <4>2. Stale(policies[policy_state].signed_at)
          <5>1. policies[policy_state].signed_at <= clock
            BY <3>1 DEF Dated
          <5>2. policies[policy_state].signed_at \in Nat /\ clock \in Nat
            BY <3>1, Lengths, ReceiverAssumption DEF Types, Published
          <5> QED
            BY <4>1, <5>1, <5>2, ReceiverAssumption DEF PolicyEnvelope, Wasm!Timely, Stale
        <4> QED
          BY <1>3, <2>1, <4>2 DEF Safe, Stale
      <3> QED
        BY <3>2, <3>3
    <2> QED
      BY <2>3, <2>4
  <1>8. CASE ApplyPolicy
    <2>1. msg.policy \in 1..Len(policies)
      BY <1>1, <1>8 DEF ApplyPolicy, InstallsPolicy, Types, Received, Known
    <2>2. /\ Wasm!NewPolicy(msg.policy) /\ ~Stale(policies[msg.policy].signed_at)
          /\ last_policy_version' = msg.policy /\ signed_policy_installed' = "yes"
      BY <1>8, <2>1, PolicyReloads DEF ApplyPolicy, Types
    <2>3. msg.policy >= policy_state
      BY <1>8, <2>1, <2>2, NewerThanKept DEF ApplyPolicy
    <2> QED
      BY <1>3, <1>8, <2>2, <2>3 DEF Safe, ApplyPolicy, files
  <1>9. CASE SavePolicy
    <2>1. signed_policy_installed' = "yes" /\ last_policy_version' = last_policy_version
          /\ policy_state' \in {policy_state, last_policy_version}
      BY <1>9 DEF SavePolicy, engine, Fresh
    <2>2. CASE policy_state' = last_policy_version
      BY <1>1, <1>3, <2>1, <2>2 DEF Safe
    <2>3. CASE policy_state' = policy_state
      BY <1>3, <1>4, <1>5, <1>9, <2>1, <2>3 DEF SavePolicy, Fresh
    <2> QED
      BY <2>1, <2>2, <2>3
  <1>10. CASE Crash
    BY <1>10 DEF Crash
  <1>11. CASE pc = "fetch"
    BY <1>11 DEF Fresh
  <1>12. (\/ \E yaml \in Yamls : PublishPolicy(yaml)
          \/ PublishPrices \/ SetKill \/ Tick \/ UNCHANGED vars)
           => UNCHANGED <<pc, policy_state, last_policy_version, signed_policy_installed>>
    BY DEF PublishPolicy, PublishPrices, SetKill, Tick, client, vars, receiver, files, engine
  <1>13. ASSUME \/ RestorePricing \/ Poll \/ ApplyKill \/ SkipPolicy
                \/ ApplyPrice \/ SkipPrice \/ SavePrice
                \/ Connect \/ ConnectFails \/ AuthRejected
                \/ Receive \/ CleanDisconnect \/ BrokenStream \/ LocalReload
         PROVE  /\ UNCHANGED <<policy_state, last_policy_version, signed_policy_installed>>
                /\ pc \in {"boot", "restore"} => pc' = pc
    BY <1>13, PricesReload
       DEF RestorePricing, Poll, ApplyKill, SkipPolicy, ApplyPrice, SkipPrice, SavePrice,
           Connect, ConnectFails, AuthRejected, Receive, CleanDisconnect, BrokenStream,
           LocalReload, Wasm!set_initial_pricing_version, Wasm!set_kill_switch,
           Wasm!reload_policy, files, engine, receiver, Wasm!policyVars
  <1> QED
    BY <1>3, <1>4, <1>5, <1>6, <1>7, <1>8, <1>9, <1>10, <1>11, <1>12, <1>13, WhoMoves
       DEF ProcessStep, Fetch

\* Nor behind the persisted price table.
LEMMA PricingRestoredMoves ==
  ASSUME Types, Fresh, PricingRestored, [Next]_vars
  PROVE  PricingRestored'
  <1>1. pricing_state \in Nat /\ last_pricing_version \in Nat
    BY Lengths DEF Types, Held
  <1>2. UNCHANGED bootstrap
    BY WhoMoves, ServerRests
       DEF vars, server, PublishPolicy, PublishPrices, SetKill, Tick, client
  <1> SUFFICES ASSUME bootstrap = "no", pc' \notin Restoring
               PROVE  PricingRestored'
    BY <1>2 DEF PricingRestored
  <1> DEFINE Safe == \/ pricing_state = 0
                     \/ signed_pricing_installed = "yes" /\ last_pricing_version >= pricing_state
  <1>3. Safe' => PricingRestored'
    BY DEF PricingRestored
  <1>4. pc \notin Restoring => Safe
    BY DEF PricingRestored
  <1>5. ASSUME Safe, UNCHANGED <<pricing_state, last_pricing_version, signed_pricing_installed>>
        PROVE  Safe'
    BY <1>5
  <1>6. CASE Boot \/ RestorePolicy
    BY <1>6 DEF Boot, RestorePolicy, Restoring
  <1> HIDE DEF Safe
  <1>7. CASE RestorePricing
    <2>1. signed_pricing_installed = "no"
      BY <1>7 DEF RestorePricing, Fresh
    <2>2. pricing_state > 0 =>
             signed_pricing_installed' = "yes" /\ last_pricing_version' = pricing_state
      BY <1>7, <2>1 DEF RestorePricing, Wasm!set_initial_pricing_version
    <2>3. UNCHANGED pricing_state
      BY <1>7 DEF RestorePricing, files
    <2>4. CASE pricing_state = 0
      BY <1>3, <2>3, <2>4 DEF Safe
    <2>5. CASE pricing_state # 0
      BY <1>1, <1>3, <2>2, <2>3, <2>5 DEF Safe
    <2> QED
      BY <1>1, <2>4, <2>5
  <1>8. CASE ApplyPrice
    <2>1. msg.price \in 0..Len(prices)
      BY <1>8 DEF Types, Received, Known
    <2>2. /\ Wasm!NewPricing(msg.price)
          /\ last_pricing_version' = msg.price /\ signed_pricing_installed' = "yes"
          /\ pc \notin Restoring /\ pricing_state' = pricing_state
      BY <1>8, PricesReload DEF ApplyPrice, files, Restoring
    <2>3. CASE pricing_state = 0
      BY <1>3, <2>2, <2>3 DEF Safe
    <2>4. CASE signed_pricing_installed = "yes" /\ last_pricing_version >= pricing_state
      <3>1. msg.price >= pricing_state
        BY <1>1, <2>1, <2>2, <2>4 DEF Wasm!NewPricing
      <3> QED
        BY <1>3, <2>2, <3>1 DEF Safe
    <2> QED
      BY <1>4, <2>2, <2>3, <2>4 DEF Safe
  <1>9. CASE SavePrice
    <2>1. /\ signed_pricing_installed' = "yes" /\ last_pricing_version' = last_pricing_version
          /\ pricing_state' \in {pricing_state, last_pricing_version}
          /\ pc \notin Restoring
      BY <1>9 DEF SavePrice, engine, Fresh, Restoring
    <2>2. CASE pricing_state' = last_pricing_version
      BY <1>1, <1>3, <2>1, <2>2 DEF Safe
    <2>3. CASE pricing_state' = pricing_state
      <3>1. signed_pricing_installed = "yes"
        BY <1>9 DEF SavePrice, Fresh
      <3>2. UNCHANGED <<pricing_state, last_pricing_version, signed_pricing_installed>>
        BY <2>1, <2>3, <3>1
      <3> QED
        BY <1>3, <1>4, <1>5, <2>1, <3>2
    <2> QED
      BY <2>1, <2>2, <2>3
  <1>10. CASE Crash
    BY <1>10 DEF Crash, Restoring
  <1>11. CASE pc = "fetch"
    BY <1>11 DEF Fresh, Restoring
  <1>12. (\/ \E yaml \in Yamls : PublishPolicy(yaml)
          \/ PublishPrices \/ SetKill \/ Tick \/ UNCHANGED vars)
           => UNCHANGED <<pc, pricing_state, last_pricing_version, signed_pricing_installed>>
    BY DEF PublishPolicy, PublishPrices, SetKill, Tick, client, vars, receiver, files, engine,
           Restoring
  <1>13. ASSUME \/ Poll \/ ApplyKill \/ ApplyPolicy \/ SkipPolicy \/ SavePolicy \/ SkipPrice
                \/ Connect \/ ConnectFails \/ AuthRejected
                \/ Receive \/ CleanDisconnect \/ BrokenStream \/ LocalReload
         PROVE  /\ UNCHANGED <<pricing_state, last_pricing_version, signed_pricing_installed>>
                /\ pc \in Restoring => pc' = pc
    BY <1>13
       DEF Poll, ApplyKill, ApplyPolicy, SkipPolicy, SavePolicy, SkipPrice,
           Connect, ConnectFails, AuthRejected, Receive, CleanDisconnect, BrokenStream,
           LocalReload, Wasm!reload_policy_signed, Wasm!set_kill_switch,
           Wasm!reload_policy, files, engine, receiver, Wasm!pricingVars, Restoring
  <1> QED
    BY <1>3, <1>4, <1>5, <1>6, <1>7, <1>8, <1>9, <1>10, <1>11, <1>12, <1>13, WhoMoves
       DEF ProcessStep, Fetch

\* The invariant holds of every behaviour.
LEMMA Invariance == Spec => []IInv
  <1>1. Init => IInv
    <2> SUFFICES ASSUME Init
                 PROVE  IInv
      OBVIOUS
    <2>1. Len(policies) = 0 /\ policy_state = 0 /\ pricing_state = 0
      BY DEF Init
    <2>2. Dated
      BY <2>1 DEF Dated
    <2>3. Fresh
      BY DEF Init, Wasm!Init, Fresh, Applying
    <2> QED
      BY <2>1, <2>2, <2>3, TypesStart DEF IInv, PolicyRestored, PricingRestored, Restoring
  <1>2. IInv /\ [Next]_vars => IInv'
    BY TypesMove, DatedMoves, FreshMoves, PolicyRestoredMoves, PricingRestoredMoves
       DEF IInv, Types
  <1> QED
    BY <1>1, <1>2, PTL DEF Spec

\* The receiver, its files and its engine keep their types: the files name published
\* bundles, and only an open stream has events on their way.
THEOREM ReceiverTypeCorrect == Spec => []TypeOK
  <1>1. IInv => TypeOK
    BY TypesImply DEF IInv
  <1> QED
    BY <1>1, Invariance, PTL

\* With a policy= argument no policy and no price table older than the persisted one
\* ever becomes active, across crashes between installation and save, failed saves, stale
\* bundles and lagging servers (_restore_persisted_policy_version, _apply_policy_update).
THEOREM RestoredSpansRestarts == Spec => SpansRestartsOnceRestored
  <1>1. ASSUME IInv, [Next]_vars, bootstrap = "no"
        PROVE  /\ policy' \notin {None, policy} => policy' >= policy_state
               /\ active_pricing_bundle' \notin {None, active_pricing_bundle} =>
                     active_pricing_bundle' >= pricing_state
    <2>1. /\ Len(policies) \in Nat /\ Len(prices) \in Nat
          /\ policy_state \in 0..Len(policies) /\ pricing_state \in 0..Len(prices)
          /\ last_pricing_version \in 0..Len(prices)
      BY <1>1, Lengths DEF IInv, Types, Held
    <2>2. CASE ApplyPolicy
      <3>1. msg.policy \in 1..Len(policies)
        BY <1>1, <2>1, <2>2 DEF ApplyPolicy, InstallsPolicy, IInv, Types, Received, Known
      <3>2. /\ Wasm!NewPolicy(msg.policy) /\ ~Stale(policies[msg.policy].signed_at)
            /\ policy' = msg.policy /\ active_pricing_bundle' = active_pricing_bundle
        BY <1>1, <2>2, <3>1, PolicyReloads DEF ApplyPolicy, IInv, Types, Wasm!pricingVars
      <3>3. msg.policy >= policy_state
        BY <1>1, <2>2, <3>1, <3>2, NewerThanKept DEF ApplyPolicy, IInv
      <3> QED
        BY <3>2, <3>3
    <2>3. CASE ApplyPrice
      <3>1. msg.price \in 0..Len(prices) /\ pc = "price"
        BY <1>1, <2>3 DEF ApplyPrice, IInv, Types, Received, Known
      <3>2. /\ Wasm!NewPricing(msg.price)
            /\ active_pricing_bundle' = msg.price /\ policy' = policy
        BY <2>3, PricesReload DEF ApplyPrice, Wasm!policyVars
      <3>3. \/ pricing_state = 0
            \/ signed_pricing_installed = "yes" /\ last_pricing_version >= pricing_state
        BY <1>1, <3>1 DEF IInv, PricingRestored, Restoring
      <3>4. msg.price >= pricing_state
        BY <2>1, <3>1, <3>2, <3>3 DEF Wasm!NewPricing
      <3> QED
        BY <3>2, <3>4
    <2>4. CASE RestorePolicy
      <3>1. CASE UNCHANGED engine
        BY <3>1 DEF engine
      <3>2. CASE policy_state \in 1..Len(policies)
                 /\ Wasm!reload_policy_signed(PolicyEnvelope(policy_state), clock)
        <4>1. policy' = policy_state /\ active_pricing_bundle' = active_pricing_bundle
          BY <1>1, <3>2, PolicyReloads DEF IInv, Types, Wasm!pricingVars
        <4> QED
          BY <2>1, <4>1
      <3>3. \/ UNCHANGED engine
            \/ policy_state # 0 /\ Wasm!reload_policy_signed(PolicyEnvelope(policy_state), clock)
        BY <2>4 DEF RestorePolicy
      <3>4. policy_state # 0 => policy_state \in 1..Len(policies)
        BY <2>1
      <3> QED
        BY <3>1, <3>2, <3>3, <3>4
    <2>5. ~(ApplyPolicy \/ ApplyPrice \/ RestorePolicy) =>
             /\ policy' \in {policy, None}
             /\ active_pricing_bundle' \in {active_pricing_bundle, None}
      BY <1>1
         DEF Next, ProcessStep, vars, PublishPolicy, PublishPrices, SetKill, Tick, client, engine,
             Boot, Wasm!init, Fetch, RestorePricing, Wasm!set_initial_pricing_version,
             Connect, ConnectFails, AuthRejected, Receive, CleanDisconnect, BrokenStream, Poll,
             ApplyKill, Wasm!set_kill_switch, SkipPolicy, SavePolicy, SkipPrice, SavePrice,
             Crash, LocalReload, Wasm!reload_policy, Wasm!policyVars, Wasm!pricingVars
    <2> QED
      BY <2>2, <2>3, <2>4, <2>5
  <1> QED
    BY <1>1, Invariance, PTL DEF Spec, SpansRestartsOnceRestored
-------------------------------------------------------------------------------
(* What an open stream leaves to say.                                      *)

\* What the engine has installed is what its version and the receiver's cache say,
\* unless a local file has replaced it since, or a bootstrapped policy was not saved.
Provenance ==
    /\ reloads \in Nat /\ persist_failures \in Nat /\ lags \in Nat
    /\ source # "local" /\ last_policy_version > 0 => policy = last_policy_version
    /\ source # "local" /\ last_installed_hash # None =>
          \/ policy # None /\ policies[policy].yaml = last_installed_hash
          \/ bootstrap = "yes" /\ persist_failures > 0
    /\ source = "local" /\ (last_installed_hash # None \/ last_policy_version > 0)
          => reloads > 0

\* Steps before the policy file was looked at.
Bootstrapping == origin = "bootstrap" /\ pc \in Applying
Booting == pc \in {"boot", "fetch", "restore"} \/ Bootstrapping

\* Until then the cache is empty, and what the bootstrap installed is in the file once
\* its save is over, unless that failed.
Booted ==
    /\ pc = "boot" => last_policy_version = 0
    /\ Booting => last_installed_hash = None
    /\ pc = "fetch" \/ Bootstrapping => bootstrap = "yes"
    /\ Booting /\ pc # "save" /\ last_policy_version > policy_state =>
          bootstrap = "yes" /\ persist_failures > 0

\* The invariant that the promise of the stream rests on, so far.
Kept == IInv /\ Provenance /\ Booted

\* Published policies stay as they are.
LEMMA PoliciesStay ==
  ASSUME Published, NEW yaml \in Yamls, PublishPolicy(yaml)
  PROVE  /\ Len(policies') = Len(policies) + 1 /\ Len(policies) \in Nat
         /\ \A v \in 1..Len(policies) : policies'[v] = policies[v]
  <1>1. [yaml |-> yaml, signed_at |-> clock] \in [yaml : Yamls, signed_at : 0..MaxTime]
    BY DEF Published
  <1> QED
    BY <1>1, AppendProperties, Lengths DEF PublishPolicy, Published

\* The steps that touch neither the cache nor the engine's policy.
LEMMA Leaves ==
  ASSUME Types,
         \/ Fetch \/ RestorePricing \/ Poll \/ ApplyKill \/ SkipPolicy \/ SavePolicy
         \/ ApplyPrice \/ SkipPrice \/ SavePrice
         \/ Connect \/ ConnectFails \/ AuthRejected \/ Receive
         \/ CleanDisconnect \/ BrokenStream
  PROVE  /\ UNCHANGED <<policies, bootstrap, kill, clock, last_installed_hash, source, policy,
                        last_policy_version, signed_policy_installed, reloads>>
         /\ persist_failures' \in {persist_failures, persist_failures + 1}
         /\ lags' \in {lags, lags + 1}
  <1>1. UNCHANGED <<policies, bootstrap, kill, clock>>
    BY ServerRests DEF ProcessStep, server
  <1>2. ApplyPrice => UNCHANGED Wasm!policyVars
    BY PricesReload DEF ApplyPrice
  <1>3. UNCHANGED <<last_installed_hash, source, policy, last_policy_version,
                    signed_policy_installed, reloads>>
    BY <1>2
       DEF Fetch, RestorePricing, Poll, ApplyKill, SkipPolicy, SavePolicy, ApplyPrice, SkipPrice,
           SavePrice, Connect, ConnectFails, AuthRejected, Receive, CleanDisconnect, BrokenStream,
           world, counts, caches, engine, Wasm!policyVars, Wasm!set_kill_switch,
           Wasm!set_initial_pricing_version
  <1>4. persist_failures' \in {persist_failures, persist_failures + 1}
    BY DEF Fetch, RestorePricing, Poll, ApplyKill, SkipPolicy, SavePolicy, ApplyPrice, SkipPrice,
           SavePrice, Connect, ConnectFails, AuthRejected, Receive, CleanDisconnect, BrokenStream,
           world, counts
  <1>5. lags' \in {lags, lags + 1}
    BY DEF Fetch, RestorePricing, Poll, ApplyKill, SkipPolicy, SavePolicy, ApplyPrice, SkipPrice,
           SavePrice, Connect, ConnectFails, AuthRejected, Receive, CleanDisconnect, BrokenStream,
           world, counts, CountLag
  <1> QED
    BY <1>1, <1>3, <1>4, <1>5

\* Restoring the policy fills the cache, and the engine if the file is newer.
LEMMA Restores ==
  ASSUME Types, RestorePolicy
  PROVE  /\ pc = "restore" /\ pc' = "restore price"
         /\ UNCHANGED <<policies, bootstrap, reloads, persist_failures, lags, policy_state>>
         /\ \/ UNCHANGED <<last_installed_hash, source, policy, last_policy_version>>
            \/ /\ policy_state \in 1..Len(policies)
               /\ last_installed_hash' = policies[policy_state].yaml
               /\ \/ /\ last_policy_version >= policy_state
                     /\ UNCHANGED <<source, policy, last_policy_version>>
                  \/ /\ source' = "signed" /\ policy' = policy_state
                     /\ last_policy_version' = policy_state
  <1>1. /\ pc = "restore" /\ pc' = "restore price"
        /\ UNCHANGED <<policies, bootstrap, reloads, persist_failures, lags, policy_state>>
    BY DEF RestorePolicy, world, server, counts, files
  <1>2. policy_state # 0 => policy_state \in 1..Len(policies)
    BY Lengths DEF Types, Held
  <1>3. \/ UNCHANGED <<last_installed_hash, engine>>
        \/ /\ policy_state # 0
           /\ last_installed_hash' = policies[policy_state].yaml
           /\ \/ last_policy_version >= policy_state /\ UNCHANGED engine
              \/ Wasm!reload_policy_signed(PolicyEnvelope(policy_state), clock)
    BY DEF RestorePolicy
  <1>4. UNCHANGED engine => UNCHANGED <<source, policy, last_policy_version>>
    BY DEF engine
  <1>5. ASSUME policy_state # 0, Wasm!reload_policy_signed(PolicyEnvelope(policy_state), clock)
        PROVE  source' = "signed" /\ policy' = policy_state /\ last_policy_version' = policy_state
    BY <1>2, <1>5, PolicyReloads DEF Types
  <1> QED
    BY <1>1, <1>2, <1>3, <1>4, <1>5

\* Applying a policy.
LEMMA Applies ==
  ASSUME Types, ApplyPolicy
  PROVE  /\ pc = "policy" /\ pc' = "save" /\ msg.policy \in 1..Len(policies)
         /\ UNCHANGED <<policies, bootstrap, kill, clock, reloads, persist_failures, lags,
                        policy_state, origin, msg, stream, kill_switch>>
         /\ source' = "signed" /\ policy' = msg.policy /\ last_policy_version' = msg.policy
         /\ last_installed_hash' = IF origin = "bootstrap" THEN last_installed_hash
                                   ELSE policies[msg.policy].yaml
  <1>1. msg.policy \in 1..Len(policies)
    BY Lengths DEF ApplyPolicy, InstallsPolicy, Types, Received, Known
  <1>2. /\ source' = "signed" /\ policy' = msg.policy /\ last_policy_version' = msg.policy
        /\ UNCHANGED kill_switch
    BY <1>1, PolicyReloads DEF ApplyPolicy, Types
  <1> QED
    BY <1>1, <1>2 DEF ApplyPolicy, world, server, counts, files

\* Every step keeps version, cache and policy together.
LEMMA ProvenanceMoves == Kept /\ [Next]_vars => Provenance'
  <1> SUFFICES ASSUME Types, Provenance, Booted, [Next]_vars
               PROVE  Provenance'
    BY DEF Kept, IInv
  <1>1. /\ Len(policies) \in Nat /\ last_policy_version \in Nat /\ policy_state \in Nat
        /\ policy \in 1..Len(policies) \cup {None} /\ None \notin Nat
    BY Lengths, ReceiverAssumption DEF Types, Held
  <1>2. ASSUME NEW yaml \in Yamls, PublishPolicy(yaml)
        PROVE  Provenance'
    <2>1. UNCHANGED <<bootstrap, reloads, persist_failures, lags, source, policy,
                      last_policy_version, last_installed_hash>>
      BY <1>2 DEF PublishPolicy, client, counts, caches, engine
    <2>2. policy # None => policies'[policy] = policies[policy]
      BY <1>1, <1>2, PoliciesStay DEF Types
    <2> QED
      BY <2>1, <2>2 DEF Provenance
  <1>3. CASE PublishPrices \/ SetKill \/ Tick \/ UNCHANGED vars
    <2>1. UNCHANGED <<policies, bootstrap, reloads, persist_failures, lags, source, policy,
                      last_policy_version, last_installed_hash>>
      BY <1>3 DEF PublishPrices, SetKill, Tick, client, vars, server, counts, caches, engine
    <2> QED
      BY <2>1 DEF Provenance
  <1>4. CASE \/ Fetch \/ RestorePricing \/ Poll \/ ApplyKill \/ SkipPolicy \/ SavePolicy
             \/ ApplyPrice \/ SkipPrice \/ SavePrice
             \/ Connect \/ ConnectFails \/ AuthRejected \/ Receive
             \/ CleanDisconnect \/ BrokenStream
    <2>1. /\ UNCHANGED <<policies, bootstrap, last_installed_hash, source, policy,
                         last_policy_version, reloads>>
          /\ persist_failures' \in {persist_failures, persist_failures + 1}
          /\ lags' \in {lags, lags + 1}
      BY <1>4, Leaves
    <2> QED
      BY <2>1 DEF Provenance
  <1>5. CASE Boot
    <2>1. /\ UNCHANGED <<policies, bootstrap, last_installed_hash, last_policy_version,
                         reloads, persist_failures, lags>>
          /\ source' = "local" /\ pc = "boot"
      BY <1>5 DEF Boot, Wasm!init, world, server, counts, caches
    <2>2. last_installed_hash = None /\ last_policy_version = 0
      BY <2>1 DEF Booted, Booting
    <2> QED
      BY <2>1, <2>2 DEF Provenance
  <1>6. CASE Crash
    <2>1. /\ UNCHANGED <<policies, bootstrap, reloads, persist_failures, lags>>
          /\ source' = "none" /\ last_installed_hash' = None /\ last_policy_version' = 0
      BY <1>6 DEF Crash, server
    <2> QED
      BY <2>1 DEF Provenance
  <1>7. CASE LocalReload
    <2>1. /\ UNCHANGED <<persist_failures, lags>>
          /\ source' = "local" /\ reloads' = reloads + 1
      BY <1>7 DEF LocalReload, Wasm!reload_policy
    <2> QED
      BY <2>1 DEF Provenance
  <1>8. CASE ApplyPolicy
    <2>1. /\ pc = "policy" /\ msg.policy \in 1..Len(policies)
          /\ UNCHANGED <<policies, reloads, persist_failures, lags>>
          /\ source' = "signed" /\ policy' = msg.policy /\ last_policy_version' = msg.policy
          /\ last_installed_hash' = IF origin = "bootstrap" THEN last_installed_hash
                                    ELSE policies[msg.policy].yaml
      BY <1>8, Applies
    <2>2. origin = "bootstrap" => last_installed_hash = None
      BY <2>1 DEF Booted, Booting, Bootstrapping, Applying
    <2> QED
      BY <1>1, <2>1, <2>2 DEF Provenance
  <1>9. CASE RestorePolicy
    <2>1. /\ pc = "restore"
          /\ UNCHANGED <<policies, bootstrap, reloads, persist_failures, lags, policy_state>>
          /\ \/ UNCHANGED <<last_installed_hash, source, policy, last_policy_version>>
             \/ /\ policy_state \in 1..Len(policies)
                /\ last_installed_hash' = policies[policy_state].yaml
                /\ \/ /\ last_policy_version >= policy_state
                      /\ UNCHANGED <<source, policy, last_policy_version>>
                   \/ /\ source' = "signed" /\ policy' = policy_state
                      /\ last_policy_version' = policy_state
      BY <1>9, Restores
    <2>2. last_policy_version > policy_state => bootstrap = "yes" /\ persist_failures > 0
      BY <2>1 DEF Booted, Booting
    <2> QED
      BY <1>1, <2>1, <2>2 DEF Provenance
  <1> QED
    BY <1>2, <1>3, <1>4, <1>5, <1>6, <1>7, <1>8, <1>9, WhoMoves DEF ProcessStep

\* The boot sequence looks at the file with an empty cache.
LEMMA BootedMoves == Kept /\ [Next]_vars => Booted'
  <1> SUFFICES ASSUME Types, Provenance, Booted, [Next]_vars
               PROVE  Booted'
    BY DEF Kept, IInv
  <1>1. /\ last_policy_version \in Nat /\ policy_state \in Nat /\ persist_failures \in Nat
    BY Lengths DEF Types, Held, Provenance
  <1>2. CASE \/ \E yaml \in Yamls : PublishPolicy(yaml)
             \/ PublishPrices \/ SetKill \/ Tick \/ UNCHANGED vars
    <2>1. UNCHANGED <<bootstrap, pc, origin, last_policy_version, last_installed_hash,
                      persist_failures, policy_state>>
      BY <1>2 DEF PublishPolicy, PublishPrices, SetKill, Tick, client, vars, server, receiver,
                  counts, caches, files, engine
    <2> QED
      BY <2>1 DEF Booted, Booting, Bootstrapping
  <1>3. CASE \/ Fetch \/ RestorePricing \/ Poll \/ ApplyKill \/ SkipPolicy \/ SavePolicy
             \/ ApplyPrice \/ SkipPrice \/ SavePrice
             \/ Connect \/ ConnectFails \/ AuthRejected \/ Receive
             \/ CleanDisconnect \/ BrokenStream
    <2>1. /\ UNCHANGED <<bootstrap, last_installed_hash, last_policy_version>>
          /\ persist_failures' \in {persist_failures, persist_failures + 1}
      BY <1>3, Leaves
    <2>0. persist_failures > 0 => persist_failures' > 0
      BY <1>1, <2>1
    <2>2. CASE Fetch
      BY <1>1, <2>1, <2>2 DEF Fetch, files, Booted, Booting, Bootstrapping, Applying
    <2>3. CASE \/ RestorePricing \/ Poll \/ Connect \/ ConnectFails \/ AuthRejected
               \/ Receive \/ CleanDisconnect \/ BrokenStream
      <3>1. /\ pc' \in {"connect", "kill", "listen", "poll", "dead"}
            /\ pc' = "kill" => origin' # "bootstrap"
        BY <2>3 DEF RestorePricing, Poll, Connect, ConnectFails, AuthRejected, Receive,
                    CleanDisconnect, BrokenStream
      <3> QED
        BY <3>1 DEF Booted, Booting, Bootstrapping, Applying
    <2>4. CASE ApplyKill \/ SkipPolicy \/ ApplyPrice
      <3>1. /\ pc \in {"kill", "policy", "price"} /\ pc' \in {"policy", "price", "save price"}
            /\ UNCHANGED <<origin, policy_state>>
        BY <2>4 DEF ApplyKill, SkipPolicy, ApplyPrice, files
      <3>2. /\ Bootstrapping' => Bootstrapping
            /\ Booting' => Booting /\ pc # "save"
            /\ pc' \notin {"boot", "fetch"}
        BY <3>1 DEF Booting, Bootstrapping, Applying
      <3> QED
        BY <2>0, <2>1, <3>1, <3>2 DEF Booted
    <2>5. CASE SavePolicy
      <3>1. /\ pc = "save" /\ pc' = "price" /\ UNCHANGED origin
            /\ policy_state' = last_policy_version \/ persist_failures' = persist_failures + 1
        BY <2>5 DEF SavePolicy
      <3> QED
        BY <1>1, <2>1, <3>1 DEF Booted, Booting, Bootstrapping, Applying
    <2>6. CASE SkipPrice \/ SavePrice
      <3>1. /\ pc \in {"price", "save price"} /\ UNCHANGED <<origin, policy_state>>
            /\ pc' = Return
        BY <2>6 DEF SkipPrice, SavePrice, files
      <3>2. \/ origin = "bootstrap" /\ pc' = "restore"
            \/ origin # "bootstrap" /\ pc' \in {"listen", "connect"}
        BY <3>1 DEF Return, Types, Received
      <3>3. /\ Bootstrapping' => Bootstrapping
            /\ Booting' => Booting /\ pc # "save"
            /\ pc' \notin {"boot", "fetch"}
        BY <3>1, <3>2 DEF Booting, Bootstrapping, Applying
      <3> QED
        BY <2>0, <2>1, <3>1, <3>3 DEF Booted
    <2> QED
      BY <1>3, <2>2, <2>3, <2>4, <2>5, <2>6
  <1>4. CASE Boot
    <2>1. /\ UNCHANGED <<bootstrap, last_installed_hash, last_policy_version, origin>>
          /\ pc = "boot" /\ pc' = IF bootstrap = "yes" THEN "fetch" ELSE "restore"
      BY <1>4 DEF Boot, Wasm!init, world, server, caches
    <2>2. last_policy_version' = 0 /\ policy_state' \in Nat
      BY <1>1, <1>4, <2>1 DEF Boot, files, Booted
    <2> QED
      BY <2>1, <2>2 DEF Booted, Booting, Bootstrapping, Applying
  <1>5. CASE Crash
    <2>1. /\ pc' = "boot" /\ last_policy_version' = 0 /\ last_installed_hash' = None
          /\ policy_state' \in Nat
      BY <1>1, <1>5 DEF Crash, files
    <2>2. ~(last_policy_version' > policy_state')
      BY <2>1
    <2>3. ~Bootstrapping'
      BY <2>1 DEF Bootstrapping, Applying
    <2> QED
      BY <2>1, <2>2, <2>3 DEF Booted
  <1>6. CASE LocalReload
    <2>1. UNCHANGED <<bootstrap, pc, origin, last_policy_version, last_installed_hash,
                      persist_failures, policy_state>>
      BY <1>6 DEF LocalReload, Wasm!reload_policy, server, receiver, caches, files
    <2> QED
      BY <2>1 DEF Booted, Booting, Bootstrapping
  <1>7. CASE ApplyPolicy
    <2>1. /\ pc = "policy" /\ pc' = "save" /\ UNCHANGED <<origin, bootstrap>>
          /\ origin = "bootstrap" => last_installed_hash' = last_installed_hash
      BY <1>7, Applies
    <2> QED
      BY <2>1 DEF Booted, Booting, Bootstrapping, Applying
  <1>8. CASE RestorePolicy
    <2>1. pc' = "restore price"
      BY <1>8 DEF RestorePolicy
    <2> QED
      BY <2>1 DEF Booted, Booting, Bootstrapping, Applying
  <1> QED
    BY <1>2, <1>3, <1>4, <1>5, <1>6, <1>7, <1>8, WhoMoves DEF ProcessStep

\* What the last event of a stream that speaks of the policy, or of the switch, says.
LastPolicy(s, v) ==
    \E i \in 1..Len(s) : s[i].policy = v /\ \A j \in 1..Len(s) : j > i => s[j].policy = 0
NoPolicyIn(s) == \A i \in 1..Len(s) : s[i].policy = 0
LastKill(s, k) ==
    \E i \in 1..Len(s) : s[i].kill = k /\ \A j \in 1..Len(s) : j > i => s[j].kill = "absent"
NoKillIn(s) == \A i \in 1..Len(s) : s[i].kill = "absent"

\* An event that is told comes last.
LEMMA Told ==
  ASSUME NEW S, NEW s \in Seq(S), NEW m \in S
  PROVE  /\ LastPolicy(Append(s, m), m.policy) /\ LastKill(Append(s, m), m.kill)
         /\ \A v : m.policy = 0 /\ LastPolicy(s, v) => LastPolicy(Append(s, m), v)
         /\ m.policy = 0 /\ NoPolicyIn(s) => NoPolicyIn(Append(s, m))
         /\ \A k : m.kill = "absent" /\ LastKill(s, k) => LastKill(Append(s, m), k)
         /\ m.kill = "absent" /\ NoKillIn(s) => NoKillIn(Append(s, m))
  <1> DEFINE t == Append(s, m)
  <1>1. /\ Len(t) = Len(s) + 1 /\ Len(s) \in Nat /\ t[Len(s) + 1] = m
        /\ \A i \in 1..Len(s) : t[i] = s[i]
    BY AppendProperties, LenProperties
  <1> HIDE DEF t
  <1>2. LastPolicy(t, m.policy) /\ LastKill(t, m.kill)
    <2>1. Len(s) + 1 \in 1..Len(t) /\ \A j \in 1..Len(t) : ~(j > Len(s) + 1)
      BY <1>1
    <2> QED
      BY <1>1, <2>1 DEF LastPolicy, LastKill
  <1>3. ASSUME NEW v, m.policy = 0, LastPolicy(s, v) PROVE LastPolicy(t, v)
    <2>1. PICK i \in 1..Len(s) : s[i].policy = v
                                 /\ \A j \in 1..Len(s) : j > i => s[j].policy = 0
      BY <1>3 DEF LastPolicy
    <2>2. i \in 1..Len(t) /\ t[i].policy = v
      BY <1>1, <2>1
    <2>3. ASSUME NEW j \in 1..Len(t), j > i PROVE t[j].policy = 0
      <3>1. j \in 1..Len(s) \/ j = Len(s) + 1
        BY <1>1
      <3> QED
        BY <1>1, <1>3, <2>1, <2>3, <3>1
    <2> QED
      BY <2>2, <2>3 DEF LastPolicy
  <1>4. ASSUME NEW k, m.kill = "absent", LastKill(s, k) PROVE LastKill(t, k)
    <2>1. PICK i \in 1..Len(s) : s[i].kill = k
                                 /\ \A j \in 1..Len(s) : j > i => s[j].kill = "absent"
      BY <1>4 DEF LastKill
    <2>2. i \in 1..Len(t) /\ t[i].kill = k
      BY <1>1, <2>1
    <2>3. ASSUME NEW j \in 1..Len(t), j > i PROVE t[j].kill = "absent"
      <3>1. j \in 1..Len(s) \/ j = Len(s) + 1
        BY <1>1
      <3> QED
        BY <1>1, <1>4, <2>1, <2>3, <3>1
    <2> QED
      BY <2>2, <2>3 DEF LastKill
  <1>5. ASSUME NEW i \in 1..Len(t)
        PROVE  (i \in 1..Len(s) /\ t[i] = s[i]) \/ t[i] = m
    BY <1>1
  <1>6. /\ m.policy = 0 /\ NoPolicyIn(s) => NoPolicyIn(t)
        /\ m.kill = "absent" /\ NoKillIn(s) => NoKillIn(t)
    BY <1>5 DEF NoPolicyIn, NoKillIn
  <1> QED
    BY <1>2, <1>3, <1>4, <1>6 DEF t

\* An event that is taken was the last to speak, or is not missed.
LEMMA Taken ==
  ASSUME NEW S, NEW s \in Seq(S), s # <<>>
  PROVE  /\ \A v : LastPolicy(s, v) =>
               LastPolicy(Tail(s), v) \/ (Head(s).policy = v /\ NoPolicyIn(Tail(s)))
         /\ NoPolicyIn(s) => Head(s).policy = 0 /\ NoPolicyIn(Tail(s))
         /\ \A k : LastKill(s, k) =>
               LastKill(Tail(s), k) \/ (Head(s).kill = k /\ NoKillIn(Tail(s)))
         /\ NoKillIn(s) => Head(s).kill = "absent" /\ NoKillIn(Tail(s))
  <1> DEFINE t == Tail(s)
  <1>1. /\ Len(t) = Len(s) - 1 /\ Len(s) \in Nat \ {0} /\ Head(s) = s[1]
        /\ \A i \in 1..Len(t) : t[i] = s[i + 1]
    BY HeadTailProperties, LenProperties, EmptySeq
  <1> HIDE DEF t
  <1>2. \A i \in 1..Len(t) : i + 1 \in 1..Len(s)
    BY <1>1
  <1>3. 1 \in 1..Len(s)
    BY <1>1
  <1>4. ASSUME NEW v, LastPolicy(s, v)
        PROVE  LastPolicy(t, v) \/ (Head(s).policy = v /\ NoPolicyIn(t))
    <2>1. PICK i \in 1..Len(s) : s[i].policy = v
                                 /\ \A j \in 1..Len(s) : j > i => s[j].policy = 0
      BY <1>4 DEF LastPolicy
    <2>2. CASE i = 1
      <3>1. \A j \in 1..Len(t) : j + 1 > i
        BY <1>1, <2>2
      <3> QED
        BY <1>1, <1>2, <2>1, <2>2, <3>1 DEF NoPolicyIn
    <2>3. CASE i # 1
      <3>1. i - 1 \in 1..Len(t) /\ t[i - 1] = s[i]
        <4>1. i - 1 \in 1..Len(t) /\ (i - 1) + 1 = i
          BY <1>1, <2>3
        <4> QED
          BY <1>1, <4>1
      <3>2. ASSUME NEW j \in 1..Len(t), j > i - 1 PROVE t[j].policy = 0
        <4>1. j + 1 > i
          BY <1>1, <3>2
        <4> QED
          BY <1>1, <1>2, <2>1, <4>1
      <3> QED
        BY <2>1, <3>1, <3>2 DEF LastPolicy
    <2> QED
      BY <2>2, <2>3
  <1>5. ASSUME NEW k, LastKill(s, k)
        PROVE  LastKill(t, k) \/ (Head(s).kill = k /\ NoKillIn(t))
    <2>1. PICK i \in 1..Len(s) : s[i].kill = k
                                 /\ \A j \in 1..Len(s) : j > i => s[j].kill = "absent"
      BY <1>5 DEF LastKill
    <2>2. CASE i = 1
      <3>1. \A j \in 1..Len(t) : j + 1 > i
        BY <1>1, <2>2
      <3> QED
        BY <1>1, <1>2, <2>1, <2>2, <3>1 DEF NoKillIn
    <2>3. CASE i # 1
      <3>1. i - 1 \in 1..Len(t) /\ t[i - 1] = s[i]
        <4>1. i - 1 \in 1..Len(t) /\ (i - 1) + 1 = i
          BY <1>1, <2>3
        <4> QED
          BY <1>1, <4>1
      <3>2. ASSUME NEW j \in 1..Len(t), j > i - 1 PROVE t[j].kill = "absent"
        <4>1. j + 1 > i
          BY <1>1, <3>2
        <4> QED
          BY <1>1, <1>2, <2>1, <4>1
      <3> QED
        BY <2>1, <3>1, <3>2 DEF LastKill
    <2> QED
      BY <2>2, <2>3
  <1>6. NoPolicyIn(s) => Head(s).policy = 0 /\ NoPolicyIn(t)
    BY <1>1, <1>2, <1>3 DEF NoPolicyIn
  <1>7. NoKillIn(s) => Head(s).kill = "absent" /\ NoKillIn(t)
    BY <1>1, <1>2, <1>3 DEF NoKillIn
  <1> QED
    BY <1>4, <1>5, <1>6, <1>7 DEF t

\* A stream opens with the state as it is, unless the server lags; the switch does not.
LEMMA Opens ==
  ASSUME Types, lags \in Nat, Connect
  PROVE  /\ LastKill(stream', kill)
         /\ lags' = 0 => LastPolicy(stream', Len(policies))
  <1>1. PICK m \in Answers : stream' = <<m>> /\ CountLag(m)
    BY DEF Connect
  <1>2. /\ Len(<<m>>) = 1 /\ <<m>>[1] = m
    OBVIOUS
  <1>3. LastKill(<<m>>, m.kill) /\ LastPolicy(<<m>>, m.policy)
    BY <1>2 DEF LastKill, LastPolicy
  <1>4. Current.kill = kill /\ Current.policy = Len(policies)
    BY DEF Current, Message
  <1>5. m.kill = kill
    <2>1. \A v : [Current EXCEPT !.policy = v].kill = kill /\ [Current EXCEPT !.price = v].kill = kill
      BY DEF Current, Message
    <2> QED
      BY <1>4, <2>1 DEF Answers, Lagging
  <1>6. lags' = 0 => m = Current
    BY <1>1 DEF CountLag
  <1> QED
    BY <1>1, <1>3, <1>4, <1>5, <1>6

\* The policy is known to the receiver: by the cache, or by its version.  Or it is stale.
Remembered(v) ==
    \/ Stale(policies[v].signed_at)
    \/ last_installed_hash = policies[v].yaml
    \/ last_policy_version >= v

\* While a stream is open, the switch of the control plane is what the last event says,
\* or the message that is being applied, or it is set already.
KillComes ==
    Subscribed =>
        \/ LastKill(stream, kill)
        \/ NoKillIn(stream) /\ pc = "kill" /\ msg.kill = kill
        \/ NoKillIn(stream) /\ (pc = "kill" => msg.kill = "absent") /\ kill_switch = kill

\* The same of the newest policy.
PolicyComes ==
    Subscribed /\ lags = 0 /\ Len(policies) > 0 =>
        \/ LastPolicy(stream, Len(policies))
        \/ NoPolicyIn(stream) /\ pc \in {"kill", "policy"} /\ msg.policy = Len(policies)
        \/ /\ NoPolicyIn(stream) /\ (pc \in {"kill", "policy"} => msg.policy = 0)
           /\ Remembered(Len(policies))

\* A policy that is remembered is in force, or there is a reason.
LEMMA RememberedSettles ==
  ASSUME Kept, Len(policies) > 0, Remembered(Len(policies))
  PROVE  Settled(Len(policies))
  <1>1. /\ Len(policies) \in Nat /\ last_policy_version \in 0..Len(policies)
        /\ None \notin Nat /\ None \notin Yamls
        /\ Len(policies) \in 1..Len(policies)
        /\ \A v \in 1..Len(policies) : policies[v].yaml \in Yamls
    BY Lengths, ReceiverAssumption DEF Kept, IInv, Types, Held
  <1>2. policies[Len(policies)].yaml # None
    BY <1>1
  <1>3. CASE last_policy_version >= Len(policies)
    <2>1. last_policy_version = Len(policies)
      BY <1>1, <1>3
    <2> QED
      BY <1>1, <2>1 DEF Kept, Provenance, Settled, Displaced, InForce
  <1>4. CASE last_installed_hash = policies[Len(policies)].yaml
    BY <1>2, <1>4 DEF Kept, Provenance, Settled, Displaced, InForce, Missaved
  <1> QED
    BY <1>3, <1>4 DEF Remembered, Settled

\* A policy that is not installed is remembered.
LEMMA NotInstalled ==
  ASSUME Kept, Len(policies) > 0, msg.policy = Len(policies), ~InstallsPolicy
  PROVE  Remembered(Len(policies))
  <1> DEFINE v == Len(policies)
  <1>1. /\ v \in Nat /\ v \in 1..Len(policies) /\ policies[v].signed_at \in Nat /\ clock \in Nat
        /\ policies[v].signed_at <= clock /\ MaxAge \in Nat /\ last_policy_version \in Nat
    BY Lengths, ReceiverAssumption DEF Kept, IInv, Types, Published, Held, Dated
  <1> HIDE DEF v
  <1>2. msg.policy # 0
    BY <1>1 DEF v
  <1>3. CASE last_installed_hash = policies[v].yaml
    BY <1>3 DEF Remembered, v
  <1>4. CASE ~PolicyAccepted(v)
    <2>1. CASE ~Wasm!NewPolicy(v)
      BY <1>1, <2>1 DEF Wasm!NewPolicy, Remembered, v
    <2>2. CASE ~Wasm!Acceptable(PolicyEnvelope(v), "policy", {"policy key"}, clock)
      <3>1. /\ PolicyEnvelope(v).payload_type = "policy"
            /\ PolicyEnvelope(v).signer = "policy key" /\ PolicyEnvelope(v).intact = "yes"
            /\ PolicyEnvelope(v).payload = "valid"
            /\ PolicyEnvelope(v).signed_at = policies[v].signed_at
        BY DEF PolicyEnvelope
      <3>2. ~Wasm!Timely(PolicyEnvelope(v), clock)
        BY <2>2, <3>1 DEF Wasm!Acceptable, Wasm!Verifies
      <3> DEFINE signed == policies[v].signed_at
      <3>3. ~(signed <= clock + 0 /\ (clock > signed => clock - signed <= MaxAge))
        BY <3>1, <3>2 DEF Wasm!Timely
      <3>4. signed \in Nat /\ signed <= clock
        BY <1>1
      <3> HIDE DEF signed
      <3>5. clock - signed > MaxAge
        BY <1>1, <3>3, <3>4
      <3>6. Stale(signed)
        BY <3>5 DEF Stale
      <3> QED
        BY <3>6 DEF Remembered, signed, v
    <2> QED
      BY <1>4, <2>1, <2>2 DEF PolicyAccepted
  <1> QED
    BY <1>2, <1>3, <1>4 DEF InstallsPolicy, v

\* The steps after which no stream is open.
LEMMA Closes ==
  ASSUME \/ Boot \/ Fetch \/ RestorePolicy \/ RestorePricing \/ Poll \/ ConnectFails
         \/ AuthRejected \/ CleanDisconnect \/ BrokenStream \/ Crash
  PROVE  ~Subscribed'
  BY DEF Boot, Fetch, RestorePolicy, RestorePricing, Poll, ConnectFails, AuthRejected,
         CleanDisconnect, BrokenStream, Crash, Subscribed

\* The steps that apply a message do not touch the stream.
LEMMA AppliesOnly ==
  ASSUME Types,
         ApplyKill \/ ApplyPolicy \/ SkipPolicy \/ SavePolicy \/ ApplyPrice \/ SkipPrice \/ SavePrice
  PROVE  /\ UNCHANGED <<stream, policies, kill, clock, lags>>
         /\ Subscribed' => Subscribed
         /\ pc \in Applying /\ pc' # "kill" /\ (pc' = "policy" => pc = "kill" /\ ApplyKill)
         /\ ~ApplyKill => pc # "kill" /\ UNCHANGED kill_switch
  <1>1. UNCHANGED <<policies, kill, clock, lags>>
    BY DEF ApplyKill, ApplyPolicy, SkipPolicy, SavePolicy, ApplyPrice, SkipPrice, SavePrice,
           world, server, counts
  <1>2. UNCHANGED <<stream, origin>> /\ pc \in Applying
    BY DEF ApplyKill, ApplyPolicy, SkipPolicy, SavePolicy, ApplyPrice, SkipPrice, SavePrice,
           Applying
  <1>3. pc' \in {"policy", "save", "price", "save price", Return}
        /\ (pc' = "policy" => ApplyKill /\ pc = "kill")
        /\ Return \in {"restore", "listen", "connect"}
        /\ (Return = "listen" => origin = "sse")
    <2>1. Return \in {"restore", "listen", "connect"} /\ (Return = "listen" => origin = "sse")
      BY DEF Return, Types, Received
    <2> QED
      BY <2>1 DEF ApplyKill, ApplyPolicy, SkipPolicy, SavePolicy, ApplyPrice, SkipPrice, SavePrice
  <1>4. Subscribed' => Subscribed
    BY <1>2, <1>3 DEF Subscribed, Applying
  <1>5. ~ApplyKill => pc # "kill"
    BY DEF ApplyPolicy, SkipPolicy, SavePolicy, ApplyPrice, SkipPrice, SavePrice
  <1>6. ~ApplyKill => UNCHANGED kill_switch
    <2>1. ApplyPolicy => UNCHANGED kill_switch
      BY Applies
    <2>2. ApplyPrice => UNCHANGED kill_switch
      BY PricesReload DEF ApplyPrice
    <2> QED
      BY <2>1, <2>2 DEF SkipPolicy, SavePolicy, SkipPrice, SavePrice, engine
  <1> QED
    BY <1>1, <1>2, <1>3, <1>4, <1>5, <1>6

\* The switch keeps coming.
LEMMA KillKeepsComing == Kept /\ KillComes /\ [Next]_vars => KillComes'
  <1> SUFFICES ASSUME Kept, KillComes, [Next]_vars, Subscribed'
               PROVE  \/ LastKill(stream', kill')
                      \/ NoKillIn(stream') /\ pc' = "kill" /\ msg'.kill = kill'
                      \/ /\ NoKillIn(stream') /\ (pc' = "kill" => msg'.kill = "absent")
                         /\ kill_switch' = kill'
    BY DEF KillComes, NoKillIn, LastKill
  <1>1. /\ Types /\ Published /\ stream \in Seq(Known) /\ lags \in Nat
        /\ kill \in {"on", "off"}
    BY DEF Kept, IInv, Types, Received, Published, Provenance
  <1>2. ASSUME NEW m \in Known', Tell(m), m.kill = "absent", Known \subseteq Known',
               UNCHANGED <<kill, pc, origin, msg, kill_switch>>
        PROVE  \/ LastKill(stream', kill')
               \/ NoKillIn(stream') /\ pc' = "kill" /\ msg'.kill = kill'
               \/ /\ NoKillIn(stream') /\ (pc' = "kill" => msg'.kill = "absent")
                  /\ kill_switch' = kill'
    <2>1. Subscribed
      BY <1>2 DEF Subscribed
    <2>2. stream' = Append(stream, m) /\ stream \in Seq(Known')
      BY <1>1, <1>2, <2>1, SeqMonotonic DEF Tell
    <2>3. /\ LastKill(stream, kill) => LastKill(stream', kill)
          /\ NoKillIn(stream) => NoKillIn(stream')
      BY <1>2, <2>2, Told
    <2> QED
      BY <1>2, <2>1, <2>3 DEF KillComes
  <1>3. ASSUME NEW yaml \in Yamls, PublishPolicy(yaml)
        PROVE  \/ LastKill(stream', kill')
               \/ NoKillIn(stream') /\ pc' = "kill" /\ msg'.kill = kill'
               \/ /\ NoKillIn(stream') /\ (pc' = "kill" => msg'.kill = "absent")
                  /\ kill_switch' = kill'
    <2> DEFINE m == Message("absent", Len(policies) + 1, 0)
    <2>1. m \in Known' /\ Known \subseteq Known' /\ m.kill = "absent"
      BY <1>1, <1>3, PoliciesStay, Lengths DEF PublishPolicy, Known, Message, Kinds
    <2>2. Tell(m) /\ UNCHANGED <<kill, pc, origin, msg, kill_switch>>
      BY <1>3 DEF PublishPolicy, client, engine
    <2> HIDE DEF m
    <2> QED
      BY <1>2, <2>1, <2>2
  <1>4. CASE PublishPrices
    <2> DEFINE m == Message("absent", 0, Len(prices) + 1)
    <2>1. Len(prices') = Len(prices) + 1
      BY <1>4, AppendProperties DEF PublishPrices, Kept, IInv, Types, Published
    <2>2. m \in Known' /\ Known \subseteq Known' /\ m.kill = "absent"
      BY <1>1, <1>4, <2>1, Lengths DEF PublishPrices, Known, Message, Kinds
    <2>3. Tell(m) /\ UNCHANGED <<kill, pc, origin, msg, kill_switch>>
      BY <1>4 DEF PublishPrices, client, engine
    <2> HIDE DEF m
    <2> QED
      BY <1>2, <2>2, <2>3
  <1>5. CASE SetKill
    <2> DEFINE m == Message(kill', 0, 0)
    <2>1. m \in Known /\ m.kill = kill'
      BY <1>1, <1>5, Lengths DEF SetKill, Known, Message, Kinds
    <2>2. Tell(m) /\ UNCHANGED <<pc, origin>>
      BY <1>5 DEF SetKill, client
    <2>3. stream' = Append(stream, m)
      BY <2>2 DEF Tell, Subscribed
    <2> HIDE DEF m
    <2> QED
      BY <1>1, <2>1, <2>3, Told
  <1>6. CASE Tick \/ LocalReload \/ UNCHANGED vars
    <2>1. UNCHANGED <<stream, kill, pc, origin, msg, kill_switch>>
      BY <1>6 DEF Tick, LocalReload, Wasm!reload_policy, client, vars, server, receiver, engine
    <2>2. Subscribed
      BY <2>1 DEF Subscribed
    <2> QED
      BY <2>1, <2>2 DEF KillComes
  <1>7. CASE Connect
    <2>1. UNCHANGED kill
      BY <1>7 DEF Connect, server
    <2> QED
      BY <1>1, <1>7, <2>1, Opens
  <1>8. CASE Receive
    <2>1. /\ pc = "listen" /\ pc' = "kill" /\ stream # <<>>
          /\ msg' = Head(stream) /\ stream' = Tail(stream) /\ UNCHANGED <<kill, kill_switch>>
      BY <1>8 DEF Receive, world, server, engine
    <2>2. /\ LastKill(stream, kill) =>
               LastKill(Tail(stream), kill) \/ (Head(stream).kill = kill /\ NoKillIn(Tail(stream)))
          /\ NoKillIn(stream) => Head(stream).kill = "absent" /\ NoKillIn(Tail(stream))
      BY <1>1, <2>1, Taken
    <2> QED
      BY <2>1, <2>2 DEF KillComes, Subscribed
  <1>9. CASE ApplyKill
    <2>1. /\ UNCHANGED <<stream, kill>> /\ Subscribed /\ pc' # "kill" /\ pc = "kill"
      BY <1>1, <1>9, AppliesOnly DEF ApplyKill
    <2>2. /\ msg.kill # "absent" => kill_switch' = msg.kill
          /\ msg.kill = "absent" => kill_switch' = kill_switch
      BY <1>9 DEF ApplyKill, Wasm!set_kill_switch, engine
    <2> QED
      BY <1>1, <2>1, <2>2 DEF KillComes
  <1>10. CASE ApplyPolicy \/ SkipPolicy \/ SavePolicy \/ ApplyPrice \/ SkipPrice \/ SavePrice
    <2>1. ~ApplyKill
      BY <1>10 DEF ApplyKill, ApplyPolicy, SkipPolicy, SavePolicy, ApplyPrice, SkipPrice, SavePrice
    <2>2. /\ UNCHANGED <<stream, kill, kill_switch>> /\ Subscribed /\ pc' # "kill" /\ pc # "kill"
      BY <1>1, <1>10, <2>1, AppliesOnly
    <2> QED
      BY <2>2 DEF KillComes
  <1> QED
    BY <1>3, <1>4, <1>5, <1>6, <1>7, <1>8, <1>9, <1>10, Closes, WhoMoves DEF ProcessStep

\* So does the newest policy.
LEMMA PolicyKeepsComing == Kept /\ PolicyComes /\ [Next]_vars => PolicyComes'
  <1> DEFINE comes == \/ LastPolicy(stream, Len(policies))
                      \/ /\ NoPolicyIn(stream) /\ pc \in {"kill", "policy"}
                         /\ msg.policy = Len(policies)
                      \/ /\ NoPolicyIn(stream) /\ (pc \in {"kill", "policy"} => msg.policy = 0)
                         /\ Remembered(Len(policies))
  <1> SUFFICES ASSUME Kept, PolicyComes, [Next]_vars,
                      Subscribed', lags' = 0, Len(policies') > 0
               PROVE  comes'
    BY DEF PolicyComes
  <1>1. /\ Types /\ Published /\ stream \in Seq(Known) /\ lags \in Nat
        /\ Len(policies) \in Nat
        /\ msg.policy \in Nat
    BY Lengths DEF Kept, IInv, Types, Received, Provenance, Known
  <1>2. PolicyComes => (Subscribed /\ lags = 0 /\ Len(policies) > 0 => comes)
    BY DEF PolicyComes
  <1>3. Remembered(Len(policies))' <=>
            \/ Stale(policies[Len(policies)].signed_at)'
            \/ last_installed_hash' = policies'[Len(policies')].yaml
            \/ last_policy_version' >= Len(policies')
    BY DEF Remembered
  <1>4. ASSUME UNCHANGED <<policies, clock, last_installed_hash, last_policy_version>>
        PROVE  Remembered(Len(policies))' <=> Remembered(Len(policies))
    BY <1>4 DEF Remembered, Stale
  <1>5. ASSUME NEW m \in Known', Tell(m), m.policy = 0, Known \subseteq Known',
               UNCHANGED <<policies, clock, last_installed_hash, last_policy_version, lags,
                           pc, origin, msg>>
        PROVE  comes'
    <2>1. Subscribed
      BY <1>5 DEF Subscribed
    <2>2. stream' = Append(stream, m) /\ stream \in Seq(Known')
      BY <1>1, <1>5, <2>1, SeqMonotonic DEF Tell
    <2>3. /\ LastPolicy(stream, Len(policies)) => LastPolicy(stream', Len(policies))
          /\ NoPolicyIn(stream) => NoPolicyIn(stream')
      BY <1>5, <2>2, Told
    <2> QED
      BY <1>2, <1>4, <1>5, <2>1, <2>3
  <1>6. ASSUME NEW yaml \in Yamls, PublishPolicy(yaml)
        PROVE  comes'
    <2> DEFINE m == Message("absent", Len(policies) + 1, 0)
    <2>1. Len(policies') = Len(policies) + 1
      BY <1>1, <1>6, PoliciesStay
    <2>2. m \in Known' /\ Known \subseteq Known' /\ m.policy = Len(policies')
      BY <1>1, <1>6, <2>1, Lengths DEF PublishPolicy, Known, Message, Kinds
    <2>3. Tell(m) /\ UNCHANGED <<pc, origin>>
      BY <1>6 DEF PublishPolicy, client
    <2>4. stream' = Append(stream, m) /\ stream \in Seq(Known')
      BY <1>1, <2>2, <2>3, SeqMonotonic DEF Tell, Subscribed
    <2> HIDE DEF m
    <2>5. LastPolicy(stream', Len(policies'))
      BY <2>2, <2>4, Told
    <2> QED
      BY <2>5
  <1>7. CASE PublishPrices
    <2> DEFINE m == Message("absent", 0, Len(prices) + 1)
    <2>1. Len(prices') = Len(prices) + 1
      BY <1>7, AppendProperties DEF PublishPrices, Kept, IInv, Types, Published
    <2>2. m \in Known' /\ Known \subseteq Known' /\ m.policy = 0
      BY <1>1, <1>7, <2>1, Lengths DEF PublishPrices, Known, Message, Kinds
    <2>3. Tell(m) /\ UNCHANGED <<policies, clock, last_installed_hash, last_policy_version, lags,
                                 pc, origin, msg>>
      BY <1>7 DEF PublishPrices, client, caches, counts, engine
    <2> HIDE DEF m
    <2> QED
      BY <1>5, <2>2, <2>3
  <1>8. CASE SetKill
    <2> DEFINE m == Message(kill', 0, 0)
    <2>1. m \in Known' /\ Known \subseteq Known' /\ m.policy = 0
      BY <1>1, <1>8, Lengths DEF SetKill, Known, Message, Kinds, Published
    <2>2. Tell(m) /\ UNCHANGED <<policies, clock, last_installed_hash, last_policy_version, lags,
                                 pc, origin, msg>>
      BY <1>8 DEF SetKill, client, caches, counts, engine
    <2> HIDE DEF m
    <2> QED
      BY <1>5, <2>1, <2>2
  <1>9. CASE Tick
    <2>1. UNCHANGED <<stream, policies, last_installed_hash, last_policy_version, lags,
                      pc, origin, msg>> /\ clock' = clock + 1
      BY <1>9 DEF Tick, client, caches, counts, engine
    <2>2. Subscribed
      BY <2>1 DEF Subscribed
    <2>3. /\ clock \in Nat /\ MaxAge \in Nat
          /\ Len(policies) > 0 => policies[Len(policies)].signed_at \in Nat
      BY <1>1, Lengths, ReceiverAssumption DEF Published
    <2>4. Len(policies) > 0 /\ Remembered(Len(policies)) => Remembered(Len(policies))'
      BY <2>1, <2>3 DEF Remembered, Stale
    <2> QED
      BY <1>2, <2>1, <2>2, <2>4
  <1>10. CASE LocalReload \/ UNCHANGED vars
    <2>1. UNCHANGED <<stream, policies, clock, last_installed_hash, last_policy_version, lags,
                      pc, origin, msg>>
      BY <1>10 DEF LocalReload, Wasm!reload_policy, vars, server, receiver, caches, counts, engine
    <2>2. Subscribed
      BY <2>1 DEF Subscribed
    <2> QED
      BY <1>2, <1>4, <2>1, <2>2
  <1>11. CASE Connect
    <2>1. UNCHANGED policies
      BY <1>11 DEF Connect, server
    <2> QED
      BY <1>1, <1>11, <2>1, Opens
  <1>12. CASE Receive
    <2>1. /\ pc = "listen" /\ pc' = "kill" /\ stream # <<>>
          /\ msg' = Head(stream) /\ stream' = Tail(stream)
          /\ UNCHANGED <<policies, clock, last_installed_hash, last_policy_version, lags>>
      BY <1>12 DEF Receive, world, server, counts, caches, engine
    <2>2. /\ LastPolicy(stream, Len(policies)) =>
               \/ LastPolicy(Tail(stream), Len(policies))
               \/ Head(stream).policy = Len(policies) /\ NoPolicyIn(Tail(stream))
          /\ NoPolicyIn(stream) => Head(stream).policy = 0 /\ NoPolicyIn(Tail(stream))
      BY <1>1, <2>1, Taken
    <2>3. comes
      BY <1>2, <2>1 DEF Subscribed
    <2> QED
      BY <1>4, <2>1, <2>2, <2>3
  <1>13. CASE ApplyKill \/ SkipPolicy \/ SavePolicy \/ ApplyPrice \/ SkipPrice \/ SavePrice
    <2>1. /\ UNCHANGED <<stream, policies, clock, lags>> /\ Subscribed
          /\ pc' # "kill" /\ (pc' = "policy" => pc = "kill" /\ ApplyKill)
      BY <1>1, <1>13, AppliesOnly
    <2>2. UNCHANGED <<last_installed_hash, last_policy_version>>
      BY <1>1, <1>13, Leaves
    <2>3. ApplyKill => pc = "kill" /\ pc' = "policy" /\ UNCHANGED msg
      BY DEF ApplyKill
    <2>4. SkipPolicy => pc = "policy" /\ pc' = "price" /\ ~InstallsPolicy
      BY DEF SkipPolicy
    <2>5. SavePolicy \/ ApplyPrice \/ SkipPrice \/ SavePrice => pc \notin {"kill", "policy"}
      BY DEF SavePolicy, ApplyPrice, SkipPrice, SavePrice
    <2>6. SkipPolicy /\ msg.policy = Len(policies) => Remembered(Len(policies))
      BY <2>1, <2>4, NotInstalled
    <2>7. comes
      BY <1>2, <2>1
    <2>8. CASE ApplyKill
      BY <1>4, <2>1, <2>2, <2>3, <2>7, <2>8
    <2>9. CASE SkipPolicy
      BY <1>4, <2>1, <2>2, <2>4, <2>6, <2>7, <2>9
    <2>10. CASE SavePolicy \/ ApplyPrice \/ SkipPrice \/ SavePrice
      <3>1. pc' \notin {"kill", "policy"}
        BY <2>1, <2>5, <2>10
      <3> QED
        BY <1>4, <2>1, <2>2, <2>5, <2>7, <2>10, <3>1
    <2> QED
      BY <1>13, <2>8, <2>9, <2>10
  <1>14. CASE ApplyPolicy
    <2>1. /\ UNCHANGED <<stream, policies, clock, lags>> /\ Subscribed
      BY <1>1, <1>14, AppliesOnly
    <2>2. /\ pc = "policy" /\ pc' = "save" /\ msg.policy \in 1..Len(policies)
          /\ last_policy_version' = msg.policy
      BY <1>1, <1>14, Applies
    <2>3. comes /\ msg.policy # 0
      BY <1>1, <1>2, <2>1, <2>2
    <2>4. CASE LastPolicy(stream, Len(policies))
      BY <2>1, <2>4
    <2>5. CASE NoPolicyIn(stream) /\ msg.policy = Len(policies)
      <3>1. Remembered(Len(policies))'
        BY <1>1, <1>3, <2>1, <2>2, <2>5
      <3> QED
        BY <2>1, <2>2, <2>5, <3>1
    <2> QED
      BY <2>2, <2>3, <2>4, <2>5
  <1> HIDE DEF comes
  <1> QED
    BY <1>6, <1>7, <1>8, <1>9, <1>10, <1>11, <1>12, <1>13, <1>14, Closes, WhoMoves
       DEF ProcessStep

\* For any number of publications, crashes, local reloads, failed saves and lagging
\* answers: an open stream that has nothing left to say leaves the switch as the control
\* plane has it, and the newest policy in force unless it is stale, a local file replaced
\* it, a failed save makes the cache mistake it, or the server lagged (_run_sse,
\* _handle_event, _apply_policy_update, _restore_persisted_policy_version).
THEOREM StreamSaysAll == Spec => [](HeardKill /\ HeardPolicy)
  <1>1. Init => Provenance /\ Booted /\ KillComes /\ PolicyComes
    BY DEF Init, Wasm!Init, Provenance, Booted, Booting, Bootstrapping, KillComes, PolicyComes,
           Subscribed, Applying
  <1>2. /\ IInv /\ Provenance /\ Booted /\ KillComes /\ PolicyComes /\ [Next]_vars
        => (Provenance /\ Booted /\ KillComes /\ PolicyComes)'
    BY ProvenanceMoves, BootedMoves, KillKeepsComing, PolicyKeepsComing DEF Kept
  <1>3. IInv /\ Provenance /\ Booted /\ KillComes /\ PolicyComes => HeardKill /\ HeardPolicy
    <2> SUFFICES ASSUME Kept, KillComes, PolicyComes, pc = "listen", stream = <<>>
                 PROVE  /\ kill_switch = kill
                        /\ Len(policies) = 0 \/ lags > 0 \/ Settled(Len(policies))
      BY DEF Kept, Heard, HeardKill, HeardPolicy
    <2>1. Len(stream) = 0 /\ Len(policies) \in Nat /\ lags \in Nat
      BY Lengths, EmptySeq DEF Kept, IInv, Types, Provenance
    <2>2. ~LastKill(stream, kill) /\ ~LastPolicy(stream, Len(policies))
      BY <2>1 DEF LastKill, LastPolicy
    <2>3. Len(policies) > 0 /\ lags = 0 => Remembered(Len(policies))
      BY <2>2 DEF PolicyComes, Subscribed
    <2> QED
      BY <2>1, <2>2, <2>3, RememberedSettles DEF KillComes, Subscribed
  <1> QED
    BY <1>1, <1>2, <1>3, Invariance, PTL DEF Spec
==============================================================================
