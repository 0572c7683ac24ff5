------------------------------ MODULE EngineProofs ------------------------------
(***************************************************************************)
(* Proofs about Engine and about the verification of an envelope that its  *)
(* signed reloads rest on, for any versions, clocks, keys and freshness    *)
(* limits, and for any envelopes and trust lists; and about the two        *)
(* receivers that share an event loop with their application, for any      *)
(* contents and numbers of starts, polls and changes.                      *)
(***************************************************************************)
EXTENDS MCEngine, SequenceTheorems, FiniteSetTheorems, TLAPS

\* The types hold at first.
LEMMA EngineTypesStart == Init => TypeOK
BY EngineAssumption DEF Init, TypeOK

\* Each call keeps them.
LEMMA EngineTypesKept == TypeOK /\ [Next]_vars => TypeOK'
<1> USE EngineAssumption DEF TypeOK
<1> SUFFICES ASSUME TypeOK, [Next]_vars
             PROVE  TypeOK'
  OBVIOUS
<1>1. CASE init
  BY <1>1 DEF init, pricingVars
<1>2. ASSUME NEW active \in {"on", "off"}, set_kill_switch(active)
      PROVE  TypeOK'
  BY <1>2 DEF set_kill_switch, policyVars, pricingVars
<1>3. CASE reload_policy
  BY <1>3 DEF reload_policy, pricingVars
<1>4. ASSUME NEW env \in Envelopes, NEW clock \in Times, reload_policy_signed(env, clock)
      PROVE  TypeOK'
  BY <1>4 DEF reload_policy_signed, pricingVars, Envelopes
<1>5. ASSUME NEW env \in Envelopes, NEW clock \in Times, reload_pricing_signed(env, clock)
      PROVE  TypeOK'
  BY <1>5 DEF reload_pricing_signed, policyVars, Envelopes
<1>6. ASSUME NEW version \in Versions, set_initial_policy_version(version)
      PROVE  TypeOK'
  BY <1>6 DEF set_initial_policy_version, pricingVars
<1>7. ASSUME NEW version \in Versions, set_initial_pricing_version(version)
      PROVE  TypeOK'
  BY <1>7 DEF set_initial_pricing_version, policyVars
<1>8. CASE evaluate_request
  BY <1>8 DEF evaluate_request, policyVars, pricingVars
<1>9. CASE UNCHANGED vars
  BY <1>9 DEF vars, policyVars, pricingVars
<1>10. QED
  BY <1>1, <1>2, <1>3, <1>4, <1>5, <1>6, <1>7, <1>8, <1>9 DEF Next

\* Every variable keeps its type, and a signed policy is in force exactly when
\* one is recorded.
THEOREM EngineTypeCorrect == Spec => []TypeOK
BY EngineTypesStart, EngineTypesKept, PTL DEF Spec

\* Whatever is called in whatever order, policies keep the promise of a high
\* water mark.
LEMMA PolicyAlwaysMarked == Spec => PolicyMark!Spec
<1>1. Init => PolicyMark!Init
  BY DEF Init, PolicyMark!Init
<1>2. [Next]_vars => [PolicyMark!Next]_(PolicyMark!vars)
  <2> SUFFICES ASSUME [Next]_vars
               PROVE  PolicyMark!Next \/ UNCHANGED PolicyMark!vars
    OBVIOUS
  <2> USE DEF PolicyMark!Next, PolicyMark!vars
  <2>1. CASE init \/ reload_policy
    BY <2>1 DEF init, reload_policy, PolicyMark!Displace
  <2>2. ASSUME NEW env \in Envelopes, NEW clock \in Times, reload_policy_signed(env, clock)
        PROVE  \E v \in Versions : PolicyMark!Install(v)
    BY <2>2 DEF reload_policy_signed, NewPolicy, PolicyMark!Install, Envelopes
  <2>3. ASSUME NEW version \in Versions, set_initial_policy_version(version)
        PROVE  PolicyMark!Restore(version)
    BY <2>3 DEF set_initial_policy_version, PolicyMark!Restore
  <2>4. ASSUME UNCHANGED policyVars
        PROVE  UNCHANGED PolicyMark!vars
    BY <2>4 DEF policyVars
  <2>5. CASE UNCHANGED vars
    BY <2>4, <2>5 DEF vars
  <2>6. QED
    BY <2>1, <2>2, <2>3, <2>4, <2>5
       DEF Next, set_kill_switch, reload_pricing_signed, set_initial_pricing_version,
           evaluate_request
<1>3. QED
  BY <1>1, <1>2, PTL DEF Spec, PolicyMark!Spec

\* And so do price tables.
LEMMA PricingAlwaysMarked == Spec => PricingMark!Spec
<1>1. Init => PricingMark!Init
  BY DEF Init, PricingMark!Init
<1>2. [Next]_vars => [PricingMark!Next]_(PricingMark!vars)
  <2> SUFFICES ASSUME [Next]_vars
               PROVE  PricingMark!Next \/ UNCHANGED PricingMark!vars
    OBVIOUS
  <2> USE DEF PricingMark!Next, PricingMark!vars
  <2>1. ASSUME NEW env \in Envelopes, NEW clock \in Times, reload_pricing_signed(env, clock)
        PROVE  \E v \in Versions : PricingMark!Install(v)
    BY <2>1 DEF reload_pricing_signed, NewPricing, PricingMark!Install, Envelopes
  <2>2. ASSUME NEW version \in Versions, set_initial_pricing_version(version)
        PROVE  PricingMark!Restore(version)
    BY <2>2 DEF set_initial_pricing_version, PricingMark!Restore
  <2>3. ASSUME UNCHANGED pricingVars
        PROVE  UNCHANGED PricingMark!vars
    BY <2>3 DEF pricingVars
  <2>4. CASE UNCHANGED vars
    BY <2>3, <2>4 DEF vars
  <2>5. QED
    BY <2>1, <2>2, <2>3, <2>4
       DEF Next, init, set_kill_switch, reload_policy, reload_policy_signed,
           set_initial_policy_version, evaluate_request
<1>3. QED
  BY <1>1, <1>2, PTL DEF Spec, PricingMark!Spec

\* The engine implements the two high water marks: the abstract specification of
\* either holds of every behaviour.
THEOREM BundlesAlwaysMarked == Spec => BundlesMarked
BY PolicyAlwaysMarked, PricingAlwaysMarked, PTL DEF BundlesMarked

\* What a high water mark promises of the active bundle: it is the newest.
LEMMA MarkKeepsActive ==
    /\ PolicyMark!ActiveIsMark /\ [PolicyMark!Next]_(PolicyMark!vars) => PolicyMark!ActiveIsMark'
    /\ PricingMark!ActiveIsMark /\ [PricingMark!Next]_(PricingMark!vars) => PricingMark!ActiveIsMark'
  BY DEF PolicyMark!ActiveIsMark, PolicyMark!Next, PolicyMark!vars, PolicyMark!Install,
         PolicyMark!Restore, PolicyMark!Displace,
         PricingMark!ActiveIsMark, PricingMark!Next, PricingMark!vars, PricingMark!Install,
         PricingMark!Restore, PricingMark!Displace

\* The policy and the price table in force are the newest the engine has seen.
THEOREM ActiveBundlesAlwaysNewest == Spec => []ActiveBundlesAreNewest
<1>1. PolicyMark!Init /\ PricingMark!Init => ActiveBundlesAreNewest
  BY DEF PolicyMark!Init, PricingMark!Init, ActiveBundlesAreNewest,
         PolicyMark!ActiveIsMark, PricingMark!ActiveIsMark
<1>2. /\ ActiveBundlesAreNewest
      /\ [PolicyMark!Next]_(PolicyMark!vars) /\ [PricingMark!Next]_(PricingMark!vars)
      => ActiveBundlesAreNewest'
  BY MarkKeepsActive DEF ActiveBundlesAreNewest
<1>3. QED
  BY <1>1, <1>2, PolicyAlwaysMarked, PricingAlwaysMarked, PTL
     DEF PolicyMark!Spec, PricingMark!Spec

\* No call loosens a defence of the engine as a side effect.
THEOREM DefencesAlwaysHold == Spec => DefencesHold
<1> DEFINE Held ==
      initialized =>
          /\ counted' >= counted
          /\ signed_policy_installed = "yes" => last_policy_version' >= last_policy_version
          /\ signed_pricing_installed = "yes" => last_pricing_version' >= last_pricing_version
          /\ active_pricing_bundle # None => active_pricing_bundle' # None
          /\ kill_switch' # kill_switch => UNCHANGED <<policyVars, pricingVars, counted>>
<1>1. TypeOK /\ [Next]_vars => [Held]_vars
  <2> SUFFICES ASSUME TypeOK, Next
               PROVE  Held
    OBVIOUS
  <2>0. /\ counted \in Nat /\ last_policy_version \in Nat /\ last_pricing_version \in Nat
        /\ Versions \subseteq Nat /\ None \notin Nat
    BY EngineAssumption DEF TypeOK
  <2>1. CASE init \/ reload_policy
    BY <2>0, <2>1 DEF init, reload_policy, pricingVars
  <2>2. ASSUME NEW active \in {"on", "off"}, set_kill_switch(active)
        PROVE  Held
    BY <2>0, <2>2 DEF set_kill_switch, policyVars, pricingVars
  <2>3. ASSUME NEW env \in Envelopes, NEW clock \in Times, reload_policy_signed(env, clock)
        PROVE  Held
    BY <2>0, <2>3 DEF reload_policy_signed, NewPolicy, pricingVars, Envelopes
  <2>4. ASSUME NEW env \in Envelopes, NEW clock \in Times, reload_pricing_signed(env, clock)
        PROVE  Held
    BY <2>0, <2>4 DEF reload_pricing_signed, NewPricing, policyVars, Envelopes
  <2>5. ASSUME NEW version \in Versions, set_initial_policy_version(version)
        PROVE  Held
    BY <2>0, <2>5 DEF set_initial_policy_version, pricingVars
  <2>6. ASSUME NEW version \in Versions, set_initial_pricing_version(version)
        PROVE  Held
    BY <2>0, <2>6 DEF set_initial_pricing_version, policyVars
  <2>7. CASE evaluate_request
    BY <2>0, <2>7 DEF evaluate_request, policyVars, pricingVars
  <2>8. QED
    BY <2>1, <2>2, <2>3, <2>4, <2>5, <2>6, <2>7 DEF Next
<1>2. QED
  BY <1>1, EngineTypeCorrect, PTL DEF Spec, DefencesHold
-------------------------------------------------------------------------------
(* That the verification of an envelope judges it rightly.  The invariant  *)
(* says what the loop has found out about the pairs of signatures and keys *)
(* that are behind it: none of them vouches, nothing among them is         *)
(* malformed, and the two flags say what was seen.                         *)

Behind(q) == Before(q, <<sig, trusted>>)

\* Before the loop, nothing is known; in it, the envelope has no other flaw.
Beginning ==
    /\ sig = 0 => trusted = 0 /\ saw_known_keyid = FALSE /\ window_failure = "none"
    /\ sig # 0 => Flaw = "none"
    /\ sig > Len(envelope.signatures) => trusted = 0

\* The signatures behind can be read, the present one too once it is decoded.
Readable ==
    \A i \in 1 .. Len(envelope.signatures) :
        i < sig \/ (i = sig /\ trusted # 0) => envelope.signatures[i].by # Malformed

\* The pairs behind did not end the loop.
Passed ==
    \A q \in Pairs : Behind(q) /\ Hinted(q) /\ Trusted(q) => ~Unreadable(q) /\ ~Vouches(q)

\* The flags are true of the pairs behind.
Seen ==
    /\ saw_known_keyid = FALSE => \A q \in Pairs : Behind(q) => ~Hinted(q)
    /\ window_failure = "none" => \A q \in Pairs : Behind(q) /\ Hinted(q) => Trusted(q)
    /\ window_failure = "KeyExpired" =>
          \E q \in Pairs : Hinted(q) /\ now >= trusted_keys[q[2]].valid_until
    /\ window_failure = "KeyNotYetValid" =>
          \E q \in Pairs : Hinted(q) /\ now < trusted_keys[q[2]].valid_from

VInv == VerifyTypeOK /\ Beginning /\ Readable /\ Passed /\ Seen /\ EnvelopesJudged

\* What the types say of the call.
LEMMA CallTyped ==
    ASSUME envelope \in SignedEnvelopes, trusted_keys \in TrustLists, now \in Clocks
    PROVE  /\ Len(envelope.signatures) \in Nat /\ Len(trusted_keys) \in Nat
           /\ now \in Nat
           /\ \A j \in 1 .. Len(trusted_keys) :
                 trusted_keys[j].valid_from \in Nat /\ trusted_keys[j].valid_until \in Nat
<1> DEFINE Sig == [keyid : KeyIds \cup {NoHint}, by : PublicKeys \cup {Malformed},
                    over : {"this payload", "another"}]
           Key == [keyid : KeyIds, public_key : PublicKeys \cup {Malformed},
                   valid_from : Nat, valid_until : Nat]
<1>1. envelope.signatures \in Seq(Sig) /\ trusted_keys \in Seq(Key) /\ now \in Nat
  BY DsseAssumption
<1>2. \A k \in Key : k.valid_from \in Nat /\ k.valid_until \in Nat
  OBVIOUS
<1> HIDE DEF Sig, Key
<1>3. \A j \in 1 .. Len(trusted_keys) : trusted_keys[j] \in Key
  BY <1>1
<1>4. Len(envelope.signatures) \in Nat /\ Len(trusted_keys) \in Nat
  BY <1>1
<1>5. QED
  BY <1>1, <1>2, <1>3, <1>4

\* The parts of the invariant speak of the call and of where the loop is only.
LEMMA Unmoved ==
    ASSUME VInv, UNCHANGED <<call, sig, trusted, saw_known_keyid, window_failure>>
    PROVE  Beginning' /\ Readable' /\ Passed' /\ Seen'
BY DEF VInv, call, Beginning, Readable, Passed, Seen, Behind, Before, Pairs, Flaw,
       Hinted, Trusted, Unreadable, Vouches

\* A verdict on the call as it is.
LEMMA Judged ==
    ASSUME VInv, NEW v \in {"accepted"} \cup Errors, Return(v),
           v = "accepted" => Flaw = "none" /\ \E q \in Pairs : Vouches(q) /\ Reached(q),
           v \in Errors /\ Flaw = "none" => \A q \in Pairs : Vouches(q) => ~Reached(q),
           v = "UnknownKeyid" => \A q \in Pairs : ~Hinted(q),
           v = "KeyExpired" =>
              \E q \in Pairs : Hinted(q) /\ now >= trusted_keys[q[2]].valid_until,
           v = "KeyNotYetValid" =>
              \E q \in Pairs : Hinted(q) /\ now < trusted_keys[q[2]].valid_from,
           v = "SignatureInvalid" /\ Flaw = "none" =>
              \A q \in Pairs : Hinted(q) => Trusted(q)
    PROVE  VInv'
<1>1. Beginning' /\ Readable' /\ Passed' /\ Seen'
  BY Unmoved DEF Return
<1>2. VerifyTypeOK'
  BY DEF VInv, VerifyTypeOK, Return, call
<1>3. verdict' = v /\ UNCHANGED <<envelope, trusted_keys, now>>
  BY DEF Return, call
<1>4. EnvelopesJudged'
  <2>1. Flaw' = Flaw /\ Pairs' = Pairs
    BY <1>3 DEF Flaw, Pairs
  <2>2. \A q : (Hinted(q)' <=> Hinted(q)) /\ (Trusted(q)' <=> Trusted(q))
               /\ (Unreadable(q)' <=> Unreadable(q))
    BY <1>3 DEF Hinted, Trusted, Unreadable
  <2>3. \A q : (Vouches(q)' <=> Vouches(q)) /\ (Reached(q)' <=> Reached(q))
    BY <1>3, <2>1, <2>2 DEF Vouches, Reached
  <2>4. QED
    BY <1>3, <2>1, <2>2, <2>3 DEF EnvelopesJudged
<1>5. QED
  BY <1>1, <1>2, <1>4 DEF VInv

\* The pair the loop is at, and what is behind the next one.
LEMMA NextPair ==
    ASSUME VInv, AtKey, sig <= Len(envelope.signatures),
           sig' = sig, trusted' = trusted + 1, UNCHANGED call
    PROVE  /\ <<sig, trusted>> \in Pairs
           /\ \A q \in Pairs : Before(q, <<sig', trusted'>>) <=>
                                   Behind(q) \/ q = <<sig, trusted>>
BY CallTyped DEF VInv, VerifyTypeOK, AtKey, Pairs, Behind, Before

-------------------------------------------------------------------------------
\* The loop comes to the next key and has learned what it may know of this one.
LEMMA KeyPassed ==
    ASSUME VInv, AtKey, sig <= Len(envelope.signatures),
           verdict = "pending", verdict' = verdict,
           sig' = sig, trusted' = trusted + 1, UNCHANGED call,
           Hinted(<<sig, trusted>>) /\ Trusted(<<sig, trusted>>) =>
               ~Unreadable(<<sig, trusted>>) /\ ~Vouches(<<sig, trusted>>),
           saw_known_keyid' = FALSE => saw_known_keyid = FALSE /\ ~Hinted(<<sig, trusted>>),
           saw_known_keyid' \in BOOLEAN,
           window_failure' \in {"none", "KeyExpired", "KeyNotYetValid"},
           window_failure' = "none" =>
               window_failure = "none"
               /\ (Hinted(<<sig, trusted>>) => Trusted(<<sig, trusted>>)),
           window_failure' = "KeyExpired" =>
               window_failure = "KeyExpired"
               \/ (Hinted(<<sig, trusted>>) /\ now >= trusted_keys[trusted].valid_until),
           window_failure' = "KeyNotYetValid" =>
               window_failure = "KeyNotYetValid"
               \/ (Hinted(<<sig, trusted>>) /\ now < trusted_keys[trusted].valid_from)
    PROVE  VInv'
<1> DEFINE here == <<sig, trusted>>
<1>1. here \in Pairs /\ here[2] = trusted
  BY NextPair
<1>2. Pairs' = Pairs /\ Flaw' = Flaw /\ UNCHANGED <<envelope, trusted_keys, now>>
  BY DEF Pairs, Flaw, call
<1>3. \A q : (Hinted(q)' <=> Hinted(q)) /\ (Trusted(q)' <=> Trusted(q))
             /\ (Unreadable(q)' <=> Unreadable(q)) /\ (Vouches(q)' <=> Vouches(q))
  BY <1>2 DEF Hinted, Trusted, Unreadable, Vouches
<1>4. \A q \in Pairs : Behind(q)' => Behind(q) \/ q = here
  BY NextPair DEF Behind
<1> HIDE DEF here
<1>5. VerifyTypeOK'
  BY <1>2, CallTyped DEF VInv, VerifyTypeOK, AtKey
<1>6. Beginning'
  BY <1>2 DEF VInv, Beginning, AtKey
<1>7. Readable'
  BY <1>2, CallTyped DEF VInv, Readable, AtKey
<1>8. Passed'
  BY <1>1, <1>2, <1>3, <1>4 DEF VInv, Passed, here
<1>9. Seen'
  <2>1. saw_known_keyid' = FALSE => \A q \in Pairs' : Behind(q)' => ~Hinted(q)'
    BY <1>2, <1>3, <1>4 DEF VInv, Seen, here
  <2>2. window_failure' = "none" =>
            \A q \in Pairs' : Behind(q)' /\ Hinted(q)' => Trusted(q)'
    BY <1>2, <1>3, <1>4 DEF VInv, Seen, here
  <2>3. window_failure' = "KeyExpired" =>
            \E q \in Pairs' : Hinted(q)' /\ now' >= trusted_keys'[q[2]].valid_until
    BY <1>1, <1>2, <1>3 DEF VInv, Seen, here
  <2>4. window_failure' = "KeyNotYetValid" =>
            \E q \in Pairs' : Hinted(q)' /\ now' < trusted_keys'[q[2]].valid_from
    BY <1>1, <1>2, <1>3 DEF VInv, Seen, here
  <2>5. QED
    BY <2>1, <2>2, <2>3, <2>4 DEF Seen
<1>10. EnvelopesJudged'
  BY DEF EnvelopesJudged, Errors
<1>11. QED
  BY <1>5, <1>6, <1>7, <1>8, <1>9, <1>10 DEF VInv

-------------------------------------------------------------------------------
\* Nothing is behind the loop at first.
LEMMA VerifyStarts == VerifyInit => VInv
<1> SUFFICES ASSUME VerifyInit PROVE VInv
  OBVIOUS
<1>1. VerifyTypeOK
  <2>1. Len(envelope.signatures) \in Nat /\ Len(trusted_keys) \in Nat
    BY CallTyped DEF VerifyInit
  <2>2. sig \in 0 .. Len(envelope.signatures) + 1 /\ trusted \in 0 .. Len(trusted_keys) + 1
    BY <2>1 DEF VerifyInit
  <2>3. QED
    BY <2>2 DEF VerifyInit, VerifyTypeOK
<1>2. Beginning /\ Readable
  BY <1>1, CallTyped DEF VerifyInit, Beginning, Readable
<1>3. \A q \in Pairs : ~Behind(q)
  BY <1>1, CallTyped DEF VerifyInit, Behind, Before, Pairs
<1>4. Passed /\ Seen
  BY <1>3 DEF VerifyInit, Passed, Seen
<1>5. EnvelopesJudged
  BY DEF VerifyInit, EnvelopesJudged, Errors
<1>6. QED
  BY <1>1, <1>2, <1>4, <1>5 DEF VInv

\* The loop goes on to a place with the same pairs behind it.
LEMMA SamePairs ==
    ASSUME VInv, verdict = "pending", verdict' = verdict,
           UNCHANGED <<call, saw_known_keyid, window_failure>>,
           sig' \in 0 .. Len(envelope.signatures) + 1,
           trusted' \in 0 .. Len(trusted_keys) + 1,
           \A q \in Pairs : Before(q, <<sig', trusted'>>) <=> Behind(q),
           sig' # 0, Flaw = "none", sig' > Len(envelope.signatures) => trusted' = 0,
           \A i \in 1 .. Len(envelope.signatures) :
               i < sig' \/ (i = sig' /\ trusted' # 0) => envelope.signatures[i].by # Malformed
    PROVE  VInv'
<1>1. Pairs' = Pairs /\ Flaw' = Flaw /\ UNCHANGED <<envelope, trusted_keys, now>>
  BY DEF Pairs, Flaw, call
<1>2. \A q : (Hinted(q)' <=> Hinted(q)) /\ (Trusted(q)' <=> Trusted(q))
             /\ (Unreadable(q)' <=> Unreadable(q)) /\ (Vouches(q)' <=> Vouches(q))
  BY <1>1 DEF Hinted, Trusted, Unreadable, Vouches
<1>3. \A q \in Pairs : Behind(q)' <=> Behind(q)
  BY DEF Behind
<1>4. VerifyTypeOK' /\ Beginning' /\ Readable'
  BY <1>1 DEF VInv, VerifyTypeOK, Beginning, Readable
<1>5. Passed'
  BY <1>1, <1>2, <1>3 DEF VInv, Passed
<1>6. Seen'
  BY <1>1, <1>2, <1>3 DEF VInv, Seen
<1>7. EnvelopesJudged'
  BY DEF EnvelopesJudged, Errors
<1>8. QED
  BY <1>4, <1>5, <1>6, <1>7 DEF VInv

\* Every step keeps the invariant.
LEMMA VerifyStep == VInv /\ [VerifyNext]_verifyVars => VInv'
<1> SUFFICES ASSUME VInv, [VerifyNext]_verifyVars PROVE VInv'
  OBVIOUS
<1> USE CallTyped
<1>typed. /\ VerifyTypeOK /\ sig \in Nat /\ trusted \in Nat
          /\ Len(envelope.signatures) \in Nat /\ Len(trusted_keys) \in Nat
  BY DEF VInv, VerifyTypeOK
<1>1. CASE UNCHANGED verifyVars
  <2>1. Beginning' /\ Readable' /\ Passed' /\ Seen'
    BY <1>1, Unmoved DEF verifyVars
  <2>2. verdict' = verdict /\ Flaw' = Flaw /\ Pairs' = Pairs
        /\ UNCHANGED <<envelope, trusted_keys, now, sig, trusted, saw_known_keyid, window_failure>>
    BY <1>1 DEF verifyVars, call, Flaw, Pairs
  <2>3. \A q : (Hinted(q)' <=> Hinted(q)) /\ (Trusted(q)' <=> Trusted(q))
               /\ (Unreadable(q)' <=> Unreadable(q))
    BY <2>2 DEF Hinted, Trusted, Unreadable
  <2>4. \A q : (Vouches(q)' <=> Vouches(q)) /\ (Reached(q)' <=> Reached(q))
    BY <2>2, <2>3 DEF Vouches, Reached
  <2>5. EnvelopesJudged' /\ VerifyTypeOK'
    BY <2>2, <2>3, <2>4 DEF VInv, EnvelopesJudged, VerifyTypeOK
  <2>6. QED
    BY <2>1, <2>5 DEF VInv
<1>2. CASE VerifyNext
  <2>p. verdict = "pending"
    BY <1>2 DEF VerifyNext
  <2>1. CASE Refuse
    <3>1. Return(Flaw) /\ Flaw # "none"
          /\ Flaw \in {"PayloadTypeMismatch", "NoSignatures", "SignatureInvalid",
                        "MalformedEncoding"}
      BY <2>1 DEF Refuse, Flaw
    <3>2. QED
      BY <3>1, Judged DEF Errors
  <2>2. CASE Begin
    <3>1. \A q \in Pairs : Before(q, <<sig', trusted'>>) <=> Behind(q)
      BY <2>2, <1>typed DEF Begin, VInv, Beginning, Behind, Before, Pairs
    <3>2. QED
      BY <2>2, <2>p, <3>1, <1>typed, SamePairs DEF Begin
  <2>3. CASE BadSignature
    <3>1. Return("MalformedEncoding") /\ sig \in 1 .. Len(envelope.signatures) /\ trusted = 0
          /\ envelope.signatures[sig].by = Malformed
      BY <2>3 DEF BadSignature, AtSignature
    <3>2. \A q \in Pairs : Vouches(q) => ~Reached(q)
      <4>1. SUFFICES ASSUME NEW q \in Pairs, Vouches(q), Reached(q) PROVE FALSE
        OBVIOUS
      <4>2. q[1] \in Nat /\ q[2] \in Nat /\ q[2] >= 1
        BY <1>typed DEF Pairs
      <4>3. sig \notin 1 .. q[1]
        BY <3>1, <4>1 DEF Reached
      <4>4. Behind(q)
        BY <3>1, <4>2, <4>3 DEF Behind, Before
      <4>5. QED
        BY <4>1, <4>4 DEF VInv, Passed, Vouches
    <3>3. QED
      BY <3>1, <3>2, Judged DEF Errors
  <2>4. CASE Decoded
    <3>1. \A q \in Pairs : Before(q, <<sig', trusted'>>) <=> Behind(q)
      BY <2>4, <1>typed DEF Decoded, AtSignature, Behind, Before, Pairs, call
    <3>2. Flaw = "none"
      BY <2>4 DEF Decoded, AtSignature, VInv, Beginning
    <3>3. \A i \in 1 .. Len(envelope.signatures) :
              i < sig' \/ (i = sig' /\ trusted' # 0) => envelope.signatures[i].by # Malformed
      BY <2>4, <1>typed DEF Decoded, AtSignature, VInv, Readable
    <3>4. QED
      BY <2>4, <2>p, <3>1, <3>2, <3>3, <1>typed, SamePairs DEF Decoded, AtSignature
  <2> DEFINE here == <<sig, trusted>>
  <2>5. CASE NextSignature
    <3>1. trusted = Len(trusted_keys) + 1 /\ trusted # 0 /\ sig # 0
          /\ sig' = sig + 1 /\ trusted' = 0
      BY <2>5, <1>typed DEF NextSignature
    <3>2. sig <= Len(envelope.signatures)
      BY <3>1, <1>typed DEF VInv, Beginning
    <3>3. \A q \in Pairs : Before(q, <<sig', trusted'>>) <=> Behind(q)
      BY <3>1, <1>typed DEF Behind, Before, Pairs
    <3>4. \A i \in 1 .. Len(envelope.signatures) :
              i < sig' => envelope.signatures[i].by # Malformed
      BY <3>1, <1>typed DEF VInv, Readable
    <3>5. Flaw = "none"
      BY <3>1 DEF VInv, Beginning
    <3>6. QED
      BY <2>5, <2>p, <3>1, <3>2, <3>3, <3>4, <3>5, <1>typed, SamePairs DEF NextSignature
  <2>6. CASE Conclude
    <3>1. sig > Len(envelope.signatures) /\ trusted = 0
      BY <2>6 DEF Conclude
    <3>2. \A q \in Pairs : Behind(q)
      BY <3>1, <1>typed DEF Pairs, Behind, Before
    <3>3. \A q \in Pairs : ~Vouches(q)
      BY <3>2 DEF VInv, Passed, Vouches
    <3>4. CASE saw_known_keyid = FALSE
      <4>1. Return("UnknownKeyid") /\ \A q \in Pairs : ~Hinted(q)
        BY <2>6, <3>2, <3>4 DEF Conclude, VInv, Seen
      <4>2. QED
        BY <3>3, <4>1, Judged DEF Errors
    <3>5. CASE saw_known_keyid = TRUE /\ window_failure # "none"
      <4>1. Return(window_failure) /\ window_failure \in {"KeyExpired", "KeyNotYetValid"}
        BY <2>6, <3>5, <1>typed DEF Conclude, VerifyTypeOK
      <4>2. /\ window_failure = "KeyExpired" =>
                  \E q \in Pairs : Hinted(q) /\ now >= trusted_keys[q[2]].valid_until
            /\ window_failure = "KeyNotYetValid" =>
                  \E q \in Pairs : Hinted(q) /\ now < trusted_keys[q[2]].valid_from
        BY DEF VInv, Seen
      <4>3. QED
        BY <3>3, <4>1, <4>2, Judged DEF Errors
    <3>6. CASE saw_known_keyid = TRUE /\ window_failure = "none"
      <4>1. Return("SignatureInvalid") /\ \A q \in Pairs : Hinted(q) => Trusted(q)
        BY <2>6, <3>2, <3>6 DEF Conclude, VInv, Seen
      <4>2. QED
        BY <3>3, <4>1, Judged DEF Errors
    <3>7. QED
      BY <3>4, <3>5, <3>6, <1>typed DEF VerifyTypeOK
  <2>k. AtKey => /\ sig <= Len(envelope.signatures) /\ here \in Pairs
                 /\ (Named(sig, trusted) <=> Hinted(here))
                 /\ (InWindow(trusted) <=> Trusted(here))
    <3>1. SUFFICES ASSUME AtKey
                   PROVE  /\ sig <= Len(envelope.signatures) /\ here \in Pairs
                          /\ (Named(sig, trusted) <=> Hinted(here))
                          /\ (InWindow(trusted) <=> Trusted(here))
      OBVIOUS
    <3>3. sig <= Len(envelope.signatures)
      BY <3>1, <1>typed DEF AtKey, VInv, Beginning
    <3>4. here \in Pairs
      BY <3>1, <3>3, <1>typed DEF AtKey, Pairs
    <3>5. Named(sig, trusted) <=> Hinted(here)
      BY DEF Named, Hinted
    <3>6. now \in Nat /\ trusted_keys[trusted].valid_from \in Nat
          /\ trusted_keys[trusted].valid_until \in Nat
      BY <3>1, <1>typed, CallTyped DEF AtKey, VerifyTypeOK
    <3>7. InWindow(trusted) <=> Trusted(here)
      BY <3>6 DEF InWindow, TooEarly, TooLate, Trusted
    <3>8. QED
      BY <3>3, <3>4, <3>5, <3>7
  <2>7. CASE OtherKeyid
    <3>1. AtKey /\ ~Hinted(here) /\ trusted' = trusted + 1
          /\ UNCHANGED <<call, sig, saw_known_keyid, window_failure, verdict>>
      BY <2>7, <2>k DEF OtherKeyid
    <3>2. QED
      BY <2>p, <2>k, <3>1, <1>typed, KeyPassed DEF VerifyTypeOK
  <2>8. CASE NotYetValid
    <3>1. /\ AtKey /\ Hinted(here) /\ now < trusted_keys[trusted].valid_from
          /\ trusted' = trusted + 1 /\ saw_known_keyid' = TRUE
          /\ window_failure' = "KeyNotYetValid" /\ UNCHANGED <<call, sig, verdict>>
      BY <2>8, <2>k DEF NotYetValid, Known, TooEarly
    <3>2. ~Trusted(here)
      BY <2>8, <2>k DEF NotYetValid, InWindow
    <3>3. QED
      BY <2>p, <2>k, <3>1, <3>2, <1>typed, KeyPassed
  <2>9. CASE Expired
    <3>1. /\ AtKey /\ Hinted(here) /\ now >= trusted_keys[trusted].valid_until
          /\ trusted' = trusted + 1 /\ saw_known_keyid' = TRUE
          /\ window_failure' = "KeyExpired" /\ UNCHANGED <<call, sig, verdict>>
      BY <2>9, <2>k DEF Expired, Known, TooLate
    <3>2. ~Trusted(here)
      BY <2>9, <2>k DEF Expired, InWindow
    <3>3. QED
      BY <2>p, <2>k, <3>1, <3>2, <1>typed, KeyPassed
  <2>10. CASE BadKey
    <3>1. /\ AtKey /\ Hinted(here) /\ Trusted(here) /\ Unreadable(here)
          /\ here \in Pairs /\ Return("MalformedEncoding")
      BY <2>10, <2>k DEF BadKey, Unreadable
    <3>2. \A q \in Pairs : Vouches(q) => ~Reached(q)
      <4>1. SUFFICES ASSUME NEW q \in Pairs, Vouches(q), Reached(q) PROVE FALSE
        OBVIOUS
      <4>2. q # here /\ ~Before(here, q)
        BY <3>1, <4>1 DEF Vouches, Reached
      <4>3. Behind(q)
        BY <3>1, <4>2, <1>typed DEF Behind, Before, Pairs
      <4>4. QED
        BY <4>1, <4>3 DEF VInv, Passed, Vouches
    <3>3. QED
      BY <3>1, <3>2, Judged DEF Errors
  <2>11. CASE Verified
    <3>1. /\ AtKey /\ here \in Pairs /\ Vouches(here) /\ Return("accepted")
      BY <2>11, <2>k DEF Verified, Vouches, Genuine, Unreadable
    <3>2. Reached(here)
      <4>1. \A i \in 1 .. here[1] : envelope.signatures[i].by # Malformed
        BY <3>1, <2>k, <1>typed DEF VInv, Readable, AtKey
      <4>2. \A r \in Pairs : Before(r, here) /\ Hinted(r) /\ Trusted(r) => ~Unreadable(r)
        BY DEF VInv, Passed, Behind
      <4>3. QED
        BY <4>1, <4>2 DEF Reached
    <3>3. Flaw = "none"
      BY <3>1 DEF AtKey, VInv, Beginning
    <3>4. QED
      BY <3>1, <3>2, <3>3, Judged DEF Errors
  <2>12. CASE WrongKey
    <3>1. /\ AtKey /\ Hinted(here) /\ Trusted(here) /\ ~Unreadable(here) /\ ~Vouches(here)
          /\ trusted' = trusted + 1 /\ saw_known_keyid' = TRUE
          /\ UNCHANGED <<call, sig, window_failure, verdict>>
      BY <2>12, <2>k DEF WrongKey, Known, Unreadable, Vouches, Genuine
    <3>2. QED
      BY <2>p, <2>k, <3>1, <1>typed, KeyPassed DEF VerifyTypeOK
  <2>13. QED
    BY <1>2, <2>1, <2>2, <2>3, <2>4, <2>5, <2>6, <2>7, <2>8, <2>9, <2>10, <2>11, <2>12
       DEF VerifyNext
<1>3. QED
  BY <1>1, <1>2

\* The loop's indices, flags and verdict keep their types
\* (verify_dsse_envelope never looks outside its lists).
THEOREM VerificationTypeCorrect == VerifySpec => []VerifyTypeOK
<1>1. VInv => VerifyTypeOK
  BY DEF VInv
<1>2. QED
  BY VerifyStarts, VerifyStep, <1>1, PTL DEF VerifySpec

\* An envelope is accepted exactly when a trusted key vouches for it before
\* anything malformed is met, and refused for the reason it is refused for
\* (verify_dsse_envelope), whatever its signatures and the trust list are.
THEOREM EnvelopesAlwaysJudged == VerifySpec => []EnvelopesJudged
<1>1. VInv => EnvelopesJudged
  BY DEF VInv
<1>2. QED
  BY VerifyStarts, VerifyStep, <1>1, PTL DEF VerifySpec
-------------------------------------------------------------------------------
(* The JavaScript receiver. *)

\* What the server can have sent so far.
JsMessage == [kill : -1..js_kills, policy : -1..Len(js_published["policy"]),
              pricing : -1..Len(js_published["pricing"]), deactivated : BOOLEAN]

JsTyped ==
    /\ js_kills \in Nat /\ js_changes \in 0..MaxMoves /\ js_kills <= js_changes
    /\ js_active \in BOOLEAN /\ js_published \in [Receiver!BundleKinds -> Seq(Contents)]
    /\ js_running \in BOOLEAN /\ js_starts \in 0..MaxStarts /\ js_abort \in 0..MaxStarts
    /\ js_loader \in Loaders

JsHolds ==
    /\ js_switch \in 0..js_kills /\ js_seen \in 0..js_kills /\ js_denied \in BOOLEAN
    /\ js_version \in [Receiver!BundleKinds -> Nat]
    /\ \A k \in Receiver!BundleKinds : js_version[k] <= Len(js_published[k])
    /\ js_cache \in [Receiver!BundleKinds -> Contents \cup {None}]
    /\ Receiver!CacheOfVersion

JsTasks == js_task \in [Receiver!Tasks ->
    [at : {"off", "polling", "connecting", "listening", "sleeping", "waiting"},
     signal : 0..MaxStarts, news : Seq(JsMessage)]]

JsPending ==
    \A b \in js_pending : /\ b.kind \in Receiver!BundleKinds
                          /\ b.version \in Int /\ b.version <= Len(js_published[b.kind])

\* Before the first start() nothing is under way and nothing is cached, so the
\* bootstrap makes no cache stale.
JsFresh ==
    js_starts = 0 =>
        /\ ~js_running /\ js_pending = {}
        /\ \A p \in Receiver!Tasks : js_task[p].at = "off"
        /\ \A k \in Receiver!BundleKinds : js_cache[k] = None

JsInv == JsTyped /\ JsHolds /\ JsTasks /\ JsPending /\ JsFresh

\* Two kinds, whose bundles are counted.
LEMMA JsLengths ==
  ASSUME JsTyped
  PROVE  \A k \in Receiver!BundleKinds :
            Len(js_published[k]) \in Nat /\ js_published[k] \in Seq(Contents)
  BY DEF JsTyped

\* A message says of each kind at most what has been published.
LEMMA JsSays ==
  ASSUME JsTyped, NEW m \in JsMessage
  PROVE  /\ m.kill \in -1..js_kills /\ m.deactivated \in BOOLEAN
         /\ \A k \in Receiver!BundleKinds : m[k] \in Int /\ m[k] <= Len(js_published[k])
  <1>1. Len(js_published["policy"]) \in Nat /\ Len(js_published["pricing"]) \in Nat
    BY JsLengths DEF Receiver!BundleKinds
  <1>2. /\ m["policy"] \in -1..Len(js_published["policy"])
        /\ m["pricing"] \in -1..Len(js_published["pricing"])
    BY DEF JsMessage
  <1>3. m.kill \in -1..js_kills /\ m.deactivated \in BOOLEAN
    BY DEF JsMessage
  <1> QED
    BY <1>1, <1>2, <1>3 DEF Receiver!BundleKinds

\* With what is in force goes what is cached.
LEMMA JsInstalls ==
  ASSUME JsTyped, JsHolds, UNCHANGED <<js_published, js_kills>>, NEW deny \in BOOLEAN,
         NEW vs, DOMAIN vs \subseteq Receiver!BundleKinds,
         \A k \in DOMAIN vs : vs[k] \in Int /\ vs[k] <= Len(js_published[k]),
         Receiver!Install(vs, deny), Receiver!Remember(vs),
         js_switch' \in 0..js_kills, js_seen' \in 0..js_kills
  PROVE  JsHolds'
  <1>0. \A k \in Receiver!BundleKinds :
           Len(js_published[k]) \in Nat /\ js_published[k] \in Seq(Contents)
    BY JsLengths
  <1>1. Receiver!Newer(vs) = {k \in DOMAIN vs : vs[k] > js_version[k]}
    BY DEF Receiver!Newer
  <1>2. /\ js_version' = [k \in Receiver!BundleKinds |->
                             IF k \in Receiver!Newer(vs) THEN vs[k] ELSE js_version[k]]
        /\ js_denied' = (deny \/ (js_denied /\ "policy" \notin Receiver!Newer(vs)))
    BY DEF Receiver!Install
  <1>3. js_cache' = [k \in Receiver!BundleKinds |->
                        IF k \in Receiver!Newer(vs) THEN js_published[k][vs[k]] ELSE js_cache[k]]
    BY DEF Receiver!Remember
  <1>4. \A k \in Receiver!Newer(vs) :
           /\ vs[k] \in Nat /\ vs[k] > 0 /\ vs[k] <= Len(js_published[k])
           /\ js_published[k][vs[k]] \in Contents
    BY <1>0, <1>1 DEF JsHolds
  <1>5. /\ js_version' \in [Receiver!BundleKinds -> Nat]
        /\ \A k \in Receiver!BundleKinds : js_version'[k] <= Len(js_published'[k])
    BY <1>2, <1>4 DEF JsHolds
  <1>6. js_cache' \in [Receiver!BundleKinds -> Contents \cup {None}]
    BY <1>3, <1>4 DEF JsHolds
  <1>7. ASSUME NEW k \in Receiver!BundleKinds, js_cache'[k] # None
        PROVE  js_version'[k] > 0 /\ js_cache'[k] = js_published'[k][js_version'[k]]
    <2>1. CASE k \in Receiver!Newer(vs)
      BY <2>1, <1>2, <1>3, <1>4
    <2>2. CASE k \notin Receiver!Newer(vs)
      BY <2>2, <1>2, <1>3, <1>7 DEF JsHolds, Receiver!CacheOfVersion
    <2> QED
      BY <2>1, <2>2
  <1>8. Receiver!CacheOfVersion'
    BY <1>7 DEF Receiver!CacheOfVersion
  <1>9. js_denied' \in BOOLEAN
    BY <1>2
  <1> QED
    BY <1>5, <1>6, <1>8, <1>9 DEF JsHolds

\* The kill switch holds what it was set to once.
LEMMA JsSwitched ==
  ASSUME JsTyped, JsHolds, NEW kill \in -1..js_kills, Receiver!Hold(kill)
  PROVE  js_switch' \in 0..js_kills /\ js_seen' \in 0..js_kills
  BY DEF JsTyped, JsHolds, Receiver!Hold, Receiver!Absent

\* What an event installs, now or once the trust list is loaded.
LEMMA JsHandles ==
  ASSUME JsTyped, JsHolds, JsPending, NEW m \in JsMessage, Receiver!Handle(m),
         UNCHANGED <<js_kills, js_published>>
  PROVE  JsHolds' /\ JsPending'
  <1>1. js_switch' \in 0..js_kills /\ js_seen' \in 0..js_kills
    BY JsSays, JsSwitched DEF Receiver!Handle
  <1>2. /\ Receiver!Wanted(m) \subseteq Receiver!BundleKinds
        /\ \A k \in Receiver!Wanted(m) : m[k] \in Int /\ m[k] <= Len(js_published[k])
    BY JsSays DEF Receiver!Wanted
  <1>3. CASE js_loader = "sync"
    <2> DEFINE vs == [k \in Receiver!Wanted(m) |-> m[k]]
    <2>1. /\ Receiver!Install(vs, m.deactivated) /\ Receiver!Remember(vs) /\ UNCHANGED js_pending
      BY <1>3 DEF Receiver!Handle
    <2>2. /\ DOMAIN vs \subseteq Receiver!BundleKinds
          /\ \A k \in DOMAIN vs : vs[k] \in Int /\ vs[k] <= Len(js_published[k])
      BY <1>2
    <2>3. m.deactivated \in BOOLEAN
      BY JsSays
    <2> HIDE DEF vs
    <2>4. JsHolds'
      BY <2>1, <2>2, <2>3, <1>1, JsInstalls
    <2>5. JsPending'
      BY <2>1 DEF JsPending
    <2> QED
      BY <2>4, <2>5
  <1>4. CASE js_loader # "sync"
    <2>1. /\ js_pending' = js_pending \cup
                               {[kind |-> k, version |-> m[k]] : k \in Receiver!Wanted(m)}
          /\ js_denied' = (js_denied \/ m.deactivated)
          /\ UNCHANGED <<js_version, js_cache>>
      BY <1>4 DEF Receiver!Handle
    <2>2. JsPending'
      BY <2>1, <1>2 DEF JsPending
    <2>3. js_denied' \in BOOLEAN
      BY <2>1, JsSays DEF JsHolds
    <2> QED
      BY <2>1, <2>2, <2>3, <1>1 DEF JsHolds, Receiver!CacheOfVersion
  <1> QED
    BY <1>3, <1>4

\* What has been sent can still have been sent.
LEMMA JsOnlyMore ==
  ASSUME JsTyped, JsTyped', js_kills <= js_kills',
         \A k \in Receiver!BundleKinds : Len(js_published[k]) <= Len(js_published'[k])
  PROVE  JsMessage \subseteq JsMessage'
  <1>1. Len(js_published["policy"]) \in Nat /\ Len(js_published["pricing"]) \in Nat
    BY JsLengths DEF Receiver!BundleKinds
  <1>2. Len(js_published["policy"])' \in Nat /\ Len(js_published["pricing"])' \in Nat
    BY DEF JsTyped, Receiver!BundleKinds
  <1>3. /\ Len(js_published["policy"]) <= Len(js_published["policy"])'
        /\ Len(js_published["pricing"]) <= Len(js_published["pricing"])'
    BY DEF Receiver!BundleKinds
  <1>4. -1..js_kills \subseteq -1..js_kills'
    BY DEF JsTyped
  <1>5. /\ -1..Len(js_published["policy"]) \subseteq -1..Len(js_published["policy"])'
        /\ -1..Len(js_published["pricing"]) \subseteq -1..Len(js_published["pricing"])'
    BY <1>1, <1>2, <1>3
  <1> QED
    BY <1>4, <1>5 DEF JsMessage

\* What the server answers with is a message.
LEMMA JsCurrent ==
  ASSUME JsTyped
  PROVE  Receiver!Current \in JsMessage
  <1>1. Len(js_published["policy"]) \in Nat /\ Len(js_published["pricing"]) \in Nat
    BY JsLengths DEF Receiver!BundleKinds
  <1> QED
    BY <1>1 DEF JsTyped, Receiver!Current, Receiver!Message, JsMessage

\* What a task can be like.
JsPlace ==
    [at : {"off", "polling", "connecting", "listening", "sleeping", "waiting"},
     signal : 0..MaxStarts, news : Seq(JsMessage)]

\* A task that goes on to its next wait.
LEMMA JsBecomes ==
  ASSUME JsTasks, NEW l \in Receiver!Tasks, NEW place \in JsPlace, Receiver!Becomes(l, place),
         UNCHANGED <<js_kills, js_published>>
  PROVE  JsTasks'
  BY DEF JsTasks, JsPlace, JsMessage, Receiver!Becomes

\* What a task awaits next, with the signal of that moment.
LEMMA JsAwaits ==
  ASSUME js_abort' \in 0..MaxStarts,
         NEW at \in {"off", "polling", "connecting", "listening", "sleeping", "waiting"}
  PROVE  Receiver!Awaits(at) \in JsPlace /\ Receiver!Awaits(at).at = at
  BY EmptySeq DEF Receiver!Awaits, JsPlace

\* A task that is over.
LEMMA JsIdles ==
  Receiver!Idle \in JsPlace
  BY ReceiverAssumed, EmptySeq DEF Receiver!Idle, JsPlace, Receiver!JsReceiverAssumption

\* A loop sleeps, and a poll may go along.
LEMMA JsSleeps ==
  ASSUME JsTasks, NEW l \in Receiver!Loops, Receiver!Sleeps(l), js_abort' \in 0..MaxStarts,
         UNCHANGED <<js_kills, js_published>>
  PROVE  JsTasks'
  <1>1. Receiver!Awaits("sleeping") \in JsPlace /\ Receiver!Awaits("waiting") \in JsPlace
    BY JsAwaits
  <1>2. \A p \in Receiver!Tasks : js_task[p] \in JsPlace
    BY DEF JsTasks, JsPlace
  <1>3. js_task' \in [Receiver!Tasks -> JsPlace]
    BY <1>1, <1>2 DEF Receiver!Sleeps
  <1> QED
    BY <1>3 DEF JsTasks, JsPlace, JsMessage

\* The next round of a loop.
LEMMA JsRounds ==
  ASSUME JsTasks, NEW l \in Receiver!Loops, Receiver!Round(l), js_abort' \in 0..MaxStarts,
         UNCHANGED <<js_kills, js_published>>
  PROVE  JsTasks'
  <1>1. l \in Receiver!Tasks
    BY DEF Receiver!Tasks
  <1> QED
    BY <1>1, JsSleeps, JsBecomes, JsAwaits, JsIdles DEF Receiver!Round

\* A task that is under way has been started.
LEMMA JsStarted ==
  ASSUME JsInv, NEW l \in Receiver!Tasks, js_task[l].at # "off", UNCHANGED js_starts
  PROVE  JsFresh'
  BY DEF JsInv, JsFresh

\* Nothing but the tasks moves.
LEMMA JsQuiet ==
  ASSUME JsInv, UNCHANGED Receiver!quiet
  PROVE  /\ JsTyped' /\ JsHolds' /\ JsPending' /\ js_abort' \in 0..MaxStarts
         /\ UNCHANGED <<js_kills, js_published, js_starts>>
  BY DEF JsInv, JsTyped, JsHolds, JsPending, Receiver!CacheOfVersion, Receiver!quiet,
         Receiver!server, Receiver!installs, Receiver!engine

\* An answer is heard by whoever asked.
LEMMA JsHears ==
  ASSUME JsInv, NEW p \in Receiver!Tasks, js_task[p].at # "off", js_task[p].news # <<>>,
         UNCHANGED <<Receiver!server, js_running, js_abort, js_starts, js_loader>>,
         Receiver!Handle(Head(js_task[p].news))
  PROVE  /\ JsTyped' /\ JsHolds' /\ JsPending' /\ js_abort' \in 0..MaxStarts
         /\ UNCHANGED <<js_kills, js_published, js_starts>>
  <1>1. Head(js_task[p].news) \in JsMessage
    BY DEF JsInv, JsTasks
  <1>2. UNCHANGED <<js_kills, js_published, js_active, js_changes>>
    BY DEF Receiver!server
  <1>3. JsHolds' /\ JsPending'
    BY <1>1, <1>2, JsHandles DEF JsInv
  <1> QED
    BY <1>2, <1>3 DEF JsInv, JsTyped

\* Each step of a loop keeps the invariant.
LEMMA JsLoopSteps ==
  ASSUME JsInv, NEW l \in Receiver!Loops, Receiver!LoopStep(l)
  PROVE  JsInv'
  <1>1. l \in Receiver!Tasks /\ js_task[l] \in JsPlace
    BY DEF JsInv, JsTasks, JsPlace, Receiver!Tasks
  <1>2. js_task[l].at # "off"
    BY DEF Receiver!LoopStep, Receiver!Connected, Receiver!ConnectFails, Receiver!Receive,
           Receiver!Broken, Receiver!Closed, Receiver!Woken, Receiver!SleepAborted
  <1>3. CASE UNCHANGED Receiver!quiet /\ (\/ Receiver!Fails(l) \/ Receiver!Sleeps(l) \/ Receiver!Round(l)
                                \/ Receiver!Becomes(l, Receiver!Idle))
    <2>1. JsTyped' /\ JsHolds' /\ JsPending' /\ UNCHANGED js_starts
      BY <1>3, JsQuiet
    <2>2. JsTasks'
      BY <1>1, <1>3, JsQuiet, JsSleeps, JsRounds, JsBecomes, JsIdles DEF JsInv, Receiver!Fails
    <2> QED
      BY <1>1, <1>2, <2>1, <2>2, JsStarted DEF JsInv
  <1>4. CASE Receiver!Connected(l)
    <2>1. JsTyped' /\ JsHolds' /\ JsPending' /\ UNCHANGED <<js_kills, js_published, js_starts>>
      BY <1>4, JsQuiet DEF Receiver!Connected
    <2>2. <<Receiver!Current>> \in Seq(JsMessage)
      BY JsCurrent DEF JsInv
    <2>3. [js_task[l] EXCEPT !.at = "listening", !.news = <<Receiver!Current>>] \in JsPlace
      BY <1>1, <2>2 DEF JsPlace
    <2>4. JsTasks'
      BY <1>1, <1>4, <2>1, <2>3, JsBecomes DEF JsInv, Receiver!Connected
    <2> QED
      BY <1>1, <1>2, <2>1, <2>4, JsStarted DEF JsInv
  <1>5. CASE Receiver!Receive(l)
    <2>1. /\ JsTyped' /\ JsHolds' /\ JsPending'
          /\ UNCHANGED <<js_kills, js_published, js_starts>>
      BY <1>1, <1>2, <1>5, JsHears DEF Receiver!Receive
    <2>2. Tail(js_task[l].news) \in Seq(JsMessage)
      BY <1>1, <1>5 DEF Receiver!Receive, JsPlace
    <2>3. [js_task[l] EXCEPT !.news = Tail(@)] \in JsPlace
      BY <1>1, <2>2 DEF JsPlace
    <2>4. JsTasks'
      BY <1>1, <1>5, <2>1, <2>3, JsBecomes DEF JsInv, Receiver!Receive
    <2> QED
      BY <1>1, <1>2, <2>1, <2>4, JsStarted DEF JsInv
  <1> QED
    BY <1>3, <1>4, <1>5 DEF Receiver!LoopStep, Receiver!ConnectFails, Receiver!Fails,
       Receiver!Broken, Receiver!Closed, Receiver!Woken, Receiver!SleepAborted

\* Each step of a poll keeps the invariant.
LEMMA JsPollSteps ==
  ASSUME JsInv, NEW p \in Receiver!Tasks,
         \/ Receiver!Answered(p) \/ Receiver!PollOver(p)
         \/ p \in Receiver!Polls /\ Receiver!Waited(p)
  PROVE  JsInv'
  <1>1. js_task[p] \in JsPlace /\ js_task[p].at # "off"
    BY DEF JsInv, JsTasks, JsPlace, Receiver!Answered, Receiver!PollOver, Receiver!Waited
  <1>2. CASE Receiver!Answered(p)
    <2>1. JsTyped' /\ JsHolds' /\ JsPending' /\ UNCHANGED <<js_kills, js_published, js_starts>>
      BY <1>2, JsQuiet DEF Receiver!Answered
    <2>2. <<Receiver!Current>> \in Seq(JsMessage)
      BY JsCurrent DEF JsInv
    <2>3. [js_task[p] EXCEPT !.news = <<Receiver!Current>>] \in JsPlace
      BY <1>1, <2>2 DEF JsPlace
    <2>4. JsTasks'
      BY <1>2, <2>1, <2>3, JsBecomes DEF JsInv, Receiver!Answered
    <2> QED
      BY <1>1, <2>1, <2>4, JsStarted DEF JsInv
  <1>3. CASE Receiver!PollOver(p)
    <2>1. /\ JsTyped' /\ JsHolds' /\ JsPending' /\ js_abort' \in 0..MaxStarts
          /\ UNCHANGED <<js_kills, js_published, js_starts>>
      <3>1. UNCHANGED <<Receiver!server, js_running, js_abort, js_starts, js_loader>>
        BY <1>3 DEF Receiver!PollOver
      <3>2. CASE UNCHANGED Receiver!installs
        BY <3>1, <3>2, JsQuiet DEF Receiver!quiet
      <3>3. CASE js_task[p].news # <<>> /\ Receiver!Handle(Head(js_task[p].news))
        BY <1>1, <3>1, <3>3, JsHears
      <3> QED
        BY <1>3, <3>2, <3>3 DEF Receiver!PollOver
    <2>2. JsTasks'
      BY <1>3, <2>1, JsBecomes, JsAwaits, JsIdles DEF JsInv, Receiver!PollOver
    <2> QED
      BY <1>1, <2>1, <2>2, JsStarted DEF JsInv
  <1>4. CASE Receiver!Waited(p)
    <2>1. /\ JsTyped' /\ JsHolds' /\ JsPending' /\ js_abort' \in 0..MaxStarts
          /\ UNCHANGED <<js_kills, js_published, js_starts>>
      BY <1>4, JsQuiet DEF Receiver!Waited
    <2>2. JsTasks'
      BY <1>4, <2>1, JsBecomes, JsAwaits DEF JsInv, Receiver!Waited
    <2> QED
      BY <1>1, <2>1, <2>2, JsStarted DEF JsInv
  <1> QED
    BY <1>2, <1>3, <1>4

\* The control plane only ever adds, and tells whoever listens.
LEMMA JsTells ==
  ASSUME JsInv, NEW m \in JsMessage', Receiver!Tell(m), JsTyped', js_kills <= js_kills',
         \A k \in Receiver!BundleKinds :
            /\ Len(js_published[k]) <= Len(js_published'[k])
            /\ \A v \in 1..Len(js_published[k]) : js_published'[k][v] = js_published[k][v]
  PROVE  JsInv'
  <1>1. /\ js_changes + js_starts < MaxMoves
        /\ UNCHANGED <<js_running, js_abort, js_starts, js_loader, Receiver!installs>>
        /\ js_task' = [p \in Receiver!Tasks |-> IF js_task[p].at = "listening"
                         THEN [js_task[p] EXCEPT !.news = Append(@, m)] ELSE js_task[p]]
    BY DEF Receiver!Tell
  <1>2. UNCHANGED <<js_cache, js_pending, js_switch, js_version, js_denied, js_seen>>
    BY <1>1 DEF Receiver!installs, Receiver!engine
  <1>3. JsMessage \subseteq JsMessage'
    BY JsOnlyMore DEF JsInv
  <1>4. Seq(JsMessage) \subseteq Seq(JsMessage')
    BY <1>3
  <1>5. \A p \in Receiver!Tasks : /\ js_task[p] \in JsPlace
                                  /\ Append(js_task[p].news, m) \in Seq(JsMessage')
    BY <1>4 DEF JsInv, JsTasks, JsPlace
  <1>6. JsTasks'
    BY <1>1, <1>4, <1>5 DEF JsTasks, JsPlace
  <1>7. \A k \in Receiver!BundleKinds : Len(js_published[k]) \in Nat /\ Len(js_published'[k]) \in Nat
    BY DEF JsInv, JsTyped
  <1>8. JsPending'
    BY <1>2, <1>7 DEF JsInv, JsPending
  <1>9. Receiver!CacheOfVersion'
    <2> SUFFICES ASSUME NEW k \in Receiver!BundleKinds, js_cache'[k] # None
                 PROVE  js_version'[k] > 0 /\ js_cache'[k] = js_published'[k][js_version'[k]]
      BY DEF Receiver!CacheOfVersion
    <2>1. /\ js_version[k] > 0 /\ js_cache[k] = js_published[k][js_version[k]]
          /\ js_version[k] \in 1..Len(js_published[k])
      BY <1>2, <1>7 DEF JsInv, JsHolds, Receiver!CacheOfVersion
    <2> QED
      BY <1>2, <2>1
  <1>10. JsHolds'
    BY <1>2, <1>7, <1>9 DEF JsInv, JsHolds, JsTyped
  <1>11. JsFresh'
    BY <1>1, <1>2 DEF JsInv, JsFresh, JsTasks, Receiver!Tasks
  <1> QED
    BY <1>6, <1>8, <1>10, <1>11 DEF JsInv

\* Each change at the control plane keeps the invariant.
LEMMA JsChanges ==
  ASSUME JsInv, Receiver!Changes
  PROVE  JsInv'
  <1>1. /\ MaxStarts \in Nat /\ MaxMoves \in Nat
        /\ \A k \in Receiver!BundleKinds : js_published[k] \in Seq(Contents)
                                            /\ Len(js_published[k]) \in Nat
    BY ReceiverAssumed, JsLengths DEF Receiver!JsReceiverAssumption, JsInv
  <1>2. Len(js_published["policy"]) \in Nat /\ Len(js_published["pricing"]) \in Nat
    BY <1>1 DEF Receiver!BundleKinds
  <1>3. CASE Receiver!SetKill
    <2>1. /\ js_kills' = js_kills + 1 /\ UNCHANGED <<js_published, js_active>>
          /\ Receiver!Tell(Receiver!Message(js_kills', -1, -1, FALSE))
      BY <1>3 DEF Receiver!SetKill, Receiver!Absent
    <2>2. JsTyped'
      BY <1>1, <2>1 DEF JsInv, JsTyped, Receiver!Tell
    <2>3. Receiver!Message(js_kills', -1, -1, FALSE) \in JsMessage'
      BY <1>2, <2>1, <2>2 DEF Receiver!Message, JsMessage, JsTyped
    <2>4. /\ js_kills <= js_kills'
          /\ \A k \in Receiver!BundleKinds :
                /\ Len(js_published[k]) <= Len(js_published'[k])
                /\ \A v \in 1..Len(js_published[k]) : js_published'[k][v] = js_published[k][v]
      BY <1>1, <2>1 DEF JsInv, JsTyped
    <2> QED
      BY <2>1, <2>2, <2>3, <2>4, JsTells
  <1>4. ASSUME NEW k \in Receiver!BundleKinds, NEW c \in Contents, Receiver!Publish(k, c)
        PROVE  JsInv'
    <2>1. /\ js_published' = [js_published EXCEPT ![k] = Append(@, c)]
          /\ js_active' = (js_active \/ k = "policy") /\ UNCHANGED js_kills
      BY <1>4 DEF Receiver!Publish
    <2>2. /\ Append(js_published[k], c) \in Seq(Contents)
          /\ Len(Append(js_published[k], c)) = Len(js_published[k]) + 1
          /\ \A v \in 1..Len(js_published[k]) : Append(js_published[k], c)[v] = js_published[k][v]
      BY <1>1, AppendProperties
    <2>3. \A j \in Receiver!BundleKinds :
            /\ js_published'[j] \in Seq(Contents)
            /\ Len(js_published[j]) <= Len(js_published'[j])
            /\ \A v \in 1..Len(js_published[j]) : js_published'[j][v] = js_published[j][v]
      BY <1>1, <2>1, <2>2 DEF JsInv, JsTyped
    <2> DEFINE m == IF k = "policy"
                    THEN Receiver!Message(-1, Len(js_published'[k]), -1, FALSE)
                    ELSE Receiver!Message(-1, -1, Len(js_published'[k]), FALSE)
    <2>4. Receiver!Tell(m)
      BY <1>4 DEF Receiver!Publish, Receiver!Absent
    <2>told. /\ js_changes + js_starts < MaxMoves /\ js_changes' = js_changes + 1
             /\ UNCHANGED <<js_running, js_abort, js_starts, js_loader>>
      BY <2>4 DEF Receiver!Tell
    <2>5. JsTyped'
      BY <1>1, <2>1, <2>3, <2>told DEF JsInv, JsTyped
    <2>6. Len(js_published'["policy"]) \in Nat /\ Len(js_published'["pricing"]) \in Nat
      BY <2>3 DEF Receiver!BundleKinds
    <2>7. js_kills' \in Nat
      BY <2>5 DEF JsTyped
    <2>8. m \in JsMessage'
      BY <2>6, <2>7 DEF Receiver!BundleKinds, Receiver!Message, JsMessage
    <2> HIDE DEF m
    <2>9. js_kills <= js_kills'
      BY <2>1, <2>7
    <2> QED
      BY <2>3, <2>4, <2>5, <2>8, <2>9, JsTells
  <1>5. CASE Receiver!Deactivate
    <2>1. /\ Receiver!Tell(Receiver!Message(-1, -1, -1, TRUE)) /\ js_active' = FALSE
          /\ UNCHANGED <<js_kills, js_published>>
      BY <1>5 DEF Receiver!Deactivate, Receiver!Absent
    <2>told. /\ js_changes + js_starts < MaxMoves /\ js_changes' = js_changes + 1
             /\ UNCHANGED <<js_running, js_abort, js_starts, js_loader>>
      BY <2>1 DEF Receiver!Tell
    <2>off. js_active' \in BOOLEAN
      BY <2>1
    <2>2. JsTyped'
      BY <1>1, <2>1, <2>told, <2>off DEF JsInv, JsTyped
    <2>3. Receiver!Message(-1, -1, -1, TRUE) \in JsMessage'
      BY <1>2, <2>1, <2>2 DEF Receiver!Message, JsMessage, JsTyped
    <2>4. /\ js_kills <= js_kills'
          /\ \A k \in Receiver!BundleKinds :
                /\ Len(js_published[k]) <= Len(js_published'[k])
                /\ \A v \in 1..Len(js_published[k]) : js_published'[k][v] = js_published[k][v]
      BY <1>1, <2>1 DEF JsInv, JsTyped
    <2> QED
      BY <2>1, <2>2, <2>3, <2>4, JsTells
  <1> QED
    BY <1>3, <1>4, <1>5 DEF Receiver!Changes

\* start() and stop(), an answer of the loader and the bootstrap keep the invariant.
LEMMA JsRest ==
  ASSUME JsInv, Receiver!start \/ Receiver!stop \/ Receiver!Bootstrap
                \/ (\E b \in js_pending : Receiver!Loaded(b))
  PROVE  JsInv'
  <1>1. MaxStarts \in Nat /\ js_starts \in 0..MaxStarts
    BY ReceiverAssumed DEF Receiver!JsReceiverAssumption, JsInv, JsTyped
  <1>2. CASE Receiver!start
    <2>1. /\ js_running' = TRUE /\ js_starts' = js_starts + 1 /\ js_abort' = js_starts'
          /\ js_starts < MaxStarts
          /\ UNCHANGED <<Receiver!server, js_loader, Receiver!installs>>
          /\ Receiver!Round(js_starts')
      BY <1>2 DEF Receiver!start
    <2>2. UNCHANGED <<js_kills, js_published, js_active, js_changes, js_cache, js_pending,
                      js_switch, js_version, js_denied, js_seen>>
      BY <2>1 DEF Receiver!server, Receiver!installs, Receiver!engine
    <2>3. js_starts' \in Receiver!Loops /\ js_abort' \in 0..MaxStarts /\ js_starts' # 0
      BY <1>1, <2>1 DEF Receiver!Loops
    <2>4. JsTasks'
      BY <2>1, <2>2, <2>3, JsRounds DEF JsInv
    <2> QED
      BY <1>1, <2>1, <2>2, <2>3, <2>4
         DEF JsInv, JsTyped, JsHolds, JsPending, JsFresh, Receiver!CacheOfVersion
  <1>3. CASE Receiver!stop
    <2>1. /\ js_running' = FALSE /\ js_abort' = 0 /\ js_running
          /\ UNCHANGED <<Receiver!server, js_starts, js_task, js_loader, Receiver!installs>>
      BY <1>3 DEF Receiver!stop
    <2>2. UNCHANGED <<js_kills, js_published, js_active, js_changes, js_cache, js_pending,
                      js_switch, js_version, js_denied, js_seen>>
      BY <2>1 DEF Receiver!server, Receiver!installs, Receiver!engine
    <2>off. js_running' \in BOOLEAN
      BY <2>1
    <2>3. JsTyped'
      BY <1>1, <2>1, <2>2, <2>off DEF JsInv, JsTyped
    <2>fresh. JsPending' /\ JsFresh'
      BY <2>1, <2>2 DEF JsInv, JsPending, JsFresh
    <2>4. JsHolds'
      BY <2>2 DEF JsInv, JsHolds, Receiver!CacheOfVersion
    <2>5. JsTasks'
      BY <2>1, <2>2 DEF JsInv, JsTasks, JsMessage
    <2> QED
      BY <2>3, <2>4, <2>5, <2>fresh DEF JsInv
  <1>4. CASE Receiver!Bootstrap
    <2> DEFINE vs == [k \in {"policy"} |-> Receiver!Current.policy]
    <2>1. /\ js_starts = 0 /\ Receiver!Hold(js_kills) /\ Receiver!Install(vs, FALSE)
          /\ UNCHANGED <<Receiver!server, js_running, js_abort, js_starts, js_task, js_loader,
                         js_cache, js_pending>>
      BY <1>4 DEF Receiver!Bootstrap
    <2>2. UNCHANGED <<js_kills, js_published, js_active, js_changes>>
      BY <2>1 DEF Receiver!server
    <2>3. Receiver!Current.policy \in Int
          /\ Receiver!Current.policy <= Len(js_published["policy"])
      BY JsLengths DEF JsInv, JsTyped, Receiver!Current, Receiver!Message, Receiver!BundleKinds
    <2>4. js_kills \in -1..js_kills
      BY DEF JsInv, JsTyped
    <2>5. js_switch' \in 0..js_kills /\ js_seen' \in 0..js_kills
      BY <2>1, <2>4, JsSwitched DEF JsInv
    <2>6. /\ js_version' = [k \in Receiver!BundleKinds |->
                               IF k \in Receiver!Newer(vs) THEN vs[k] ELSE js_version[k]]
          /\ js_denied' = (FALSE \/ (js_denied /\ "policy" \notin Receiver!Newer(vs)))
          /\ Receiver!Newer(vs) = {k \in {"policy"} : vs[k] > js_version[k]}
      BY <2>1 DEF Receiver!Install, Receiver!Newer
    <2>7. \A k \in Receiver!BundleKinds :
             js_version'[k] \in Nat /\ js_version'[k] <= Len(js_published[k])
      BY <2>3, <2>6 DEF JsInv, JsHolds, Receiver!BundleKinds
    <2>8. \A k \in Receiver!BundleKinds : js_cache'[k] = None
      BY <2>1 DEF JsInv, JsFresh
    <2>9. js_version' \in [Receiver!BundleKinds -> Nat] /\ js_denied' \in BOOLEAN
      BY <2>6, <2>7
    <2>10. JsHolds'
      BY <2>1, <2>2, <2>5, <2>7, <2>8, <2>9 DEF JsInv, JsHolds, Receiver!CacheOfVersion
    <2> QED
      BY <2>1, <2>2, <2>10 DEF JsInv, JsTyped, JsPending, JsFresh, JsTasks, JsMessage
  <1>5. ASSUME NEW b \in js_pending, Receiver!Loaded(b) PROVE JsInv'
    <2> DEFINE vs == [k \in {b.kind} |-> b.version]
    <2>1. /\ Receiver!Install(vs, FALSE) /\ Receiver!Remember(vs) /\ js_pending' = js_pending \ {b}
          /\ UNCHANGED <<Receiver!server, js_running, js_abort, js_starts, js_task, js_loader,
                         js_switch, js_seen>>
      BY <1>5 DEF Receiver!Loaded
    <2>2. UNCHANGED <<js_kills, js_published, js_active, js_changes>>
      BY <2>1 DEF Receiver!server
    <2>3. /\ DOMAIN vs \subseteq Receiver!BundleKinds
          /\ \A k \in DOMAIN vs : vs[k] \in Int /\ vs[k] <= Len(js_published[k])
      BY DEF JsInv, JsPending
    <2>4. js_switch' \in 0..js_kills /\ js_seen' \in 0..js_kills
      BY <2>1 DEF JsInv, JsHolds
    <2> HIDE DEF vs
    <2>5. JsHolds'
      BY <2>1, <2>2, <2>3, <2>4, JsInstalls DEF JsInv
    <2> QED
      BY <2>1, <2>2, <2>5 DEF JsInv, JsTyped, JsPending, JsFresh, JsTasks, JsMessage
  <1> QED
    BY <1>2, <1>3, <1>4, <1>5

\* The JavaScript receiver starts and goes on as its invariant says.
LEMMA JsStarts == Receiver!Init => JsInv
  <1> SUFFICES ASSUME Receiver!Init PROVE JsInv
    OBVIOUS
  <1>0. MaxStarts \in Nat /\ MaxMoves \in Nat
    BY ReceiverAssumed DEF Receiver!JsReceiverAssumption
  <1>1. \A k \in Receiver!BundleKinds :
           js_published[k] = <<>> /\ js_cache[k] = None /\ js_version[k] = 0
    BY DEF Receiver!Init
  <1>2. JsTyped
    <2>1. js_published \in [Receiver!BundleKinds -> Seq(Contents)]
      BY EmptySeq DEF Receiver!Init
    <2>2. js_active \in BOOLEAN /\ js_running \in BOOLEAN /\ js_loader \in Loaders
      BY DEF Receiver!Init
    <2> QED
      BY <1>0, <2>1, <2>2 DEF Receiver!Init, JsTyped
  <1>3. JsHolds
    <2>1. /\ js_cache \in [Receiver!BundleKinds -> Contents \cup {None}]
          /\ js_version \in [Receiver!BundleKinds -> Nat]
      BY DEF Receiver!Init
    <2>2. \A k \in Receiver!BundleKinds : js_version[k] <= Len(js_published[k])
      BY <1>1, EmptySeq
    <2>3. js_switch \in 0..js_kills /\ js_seen \in 0..js_kills
      BY DEF Receiver!Init
    <2>4. js_denied \in BOOLEAN
      BY DEF Receiver!Init
    <2> QED
      BY <1>1, <2>1, <2>2, <2>3, <2>4 DEF JsHolds, Receiver!CacheOfVersion
  <1>4. JsTasks
    BY JsIdles DEF Receiver!Init, JsTasks, JsPlace
  <1>5. JsPending /\ JsFresh
    BY <1>1 DEF Receiver!Init, JsPending, JsFresh, Receiver!Idle
  <1> QED
    BY <1>2, <1>3, <1>4, <1>5 DEF JsInv

\* No step leaves the invariant.
LEMMA JsGoesOn ==
  ASSUME JsInv, [Receiver!Next]_(Receiver!vars)
  PROVE  JsInv'
  <1>1. CASE UNCHANGED Receiver!vars
    BY <1>1 DEF JsInv, JsTyped, JsHolds, JsTasks, JsPending, JsFresh, JsMessage,
       Receiver!CacheOfVersion, Receiver!vars, Receiver!server, Receiver!installs, Receiver!engine
  <1>2. CASE Receiver!Next
    <2>1. \A f \in Receiver!Polls : f \in Receiver!Tasks
      BY DEF Receiver!Tasks
    <2> QED
      BY <1>2, <2>1, JsChanges, JsRest, JsPollSteps, JsLoopSteps DEF Receiver!Next
  <1> QED
    BY <1>1, <1>2

\* The invariant tells the types and what is cached.
LEMMA JsMeans ==
  ASSUME JsInv
  PROVE  Receiver!TypeOK /\ Receiver!CacheOfVersion
  <1>1. MaxStarts \in Nat /\ MaxMoves \in Nat
    BY ReceiverAssumed DEF Receiver!JsReceiverAssumption
  <1>2. js_kills \in 0..MaxMoves
    BY <1>1 DEF JsInv, JsTyped
  <1>3. \A k \in Receiver!BundleKinds : js_version[k] \in 0..Len(js_published[k])
    BY JsLengths DEF JsInv, JsHolds
  <1> QED
    BY <1>2, <1>3 DEF JsInv, JsTyped, JsHolds, JsTasks, Receiver!TypeOK

-------------------------------------------------------------------------------
(* The asyncio receiver. *)

AioPlaces == {"off", "created", "connecting", "listening", "polling", "waiting", "woken"}
AioMessage == [kill : -1..py_kills, policy : -1..Len(py_published)]
AioPlace == [at : AioPlaces, news : Seq(AioMessage)]

AioTyped ==
    /\ py_kills \in Nat /\ py_changes \in 0..MaxMoves /\ py_kills <= py_changes
    /\ py_published \in Seq(Contents)
    /\ owns_client \in BOOLEAN /\ client_closed \in BOOLEAN /\ stop_event \in BOOLEAN
    /\ timed_out \in BOOLEAN /\ slipped \in BOOLEAN
    /\ py_starts \in 0..MaxStarts /\ current \in 0..py_starts /\ stopping \in 0..py_starts

AioHolds ==
    /\ py_switch \in 0..py_kills
    /\ py_version \in 0..Len(py_published) /\ file \in 0..Len(py_published)
    /\ py_cache \in Contents \cup {None} /\ seeded \in BOOLEAN
    /\ Asyncio!CacheOfVersion

AioTasks == py_task \in [Asyncio!Loops -> AioPlace]

\* Unless stop() forgot one, the only task that can run is the one in _task, and there
\* is none once stop() has returned.
AioOne ==
    slipped \/ /\ \A l \in Asyncio!Loops : py_task[l].at # "off" => l = current
               /\ stop_event /\ stopping = 0 => current = 0

AioInv == AioTyped /\ AioHolds /\ AioTasks /\ AioOne

\* What an update of the policy leaves in force, cached and saved.
LEMMA AioApplies ==
  ASSUME AioTyped, AioHolds, NEW m \in AioMessage, Asyncio!Handle(m),
         UNCHANGED <<py_kills, py_published>>
  PROVE  AioHolds'
  <1> DEFINE v == m.policy
  <1>0. Len(py_published) \in Nat
    BY DEF AioTyped
  <1>1. m.kill \in -1..py_kills /\ v \in -1..Len(py_published)
    BY DEF AioMessage
  <1>2. py_switch' \in 0..py_kills
    BY <1>1 DEF AioTyped, AioHolds, Asyncio!Handle, Asyncio!Absent
  <1>3. Asyncio!Apply(v)
    BY DEF Asyncio!Handle
  <1> HIDE DEF v
  <1>4. CASE UNCHANGED <<py_cache, py_version, file, seeded>>
    BY <1>2, <1>4 DEF AioHolds, Asyncio!CacheOfVersion
  <1>5. CASE /\ v > 0 /\ py_version' = (IF v > py_version THEN v ELSE py_version)
             /\ py_cache' = (IF v > py_version THEN py_published[v] ELSE py_cache)
             /\ seeded' = (seeded /\ v <= py_version)
             /\ (UNCHANGED file \/ (v > py_version /\ file' = v))
    <2>1. v \in 1..Len(py_published) /\ py_published[v] \in Contents
      BY <1>0, <1>1, <1>5 DEF AioTyped
    <2>2. py_version' \in 0..Len(py_published) /\ file' \in 0..Len(py_published)
      BY <1>0, <1>5, <2>1 DEF AioHolds
    <2>3. py_cache' \in Contents \cup {None}
      BY <1>5, <2>1 DEF AioHolds
    <2>4. seeded' \in BOOLEAN
      BY <1>5
    <2>5. Asyncio!CacheOfVersion'
      BY <1>0, <1>5, <2>1 DEF AioHolds, Asyncio!CacheOfVersion
    <2> QED
      BY <1>2, <2>2, <2>3, <2>4, <2>5 DEF AioHolds
  <1> QED
    BY <1>1, <1>3, <1>4, <1>5, <1>0 DEF Asyncio!Apply, Asyncio!Remember

\* What a task awaits, and has been sent.
LEMMA AioBecomes ==
  ASSUME AioTasks, NEW l \in Asyncio!Loops, NEW place \in AioPlace,
         py_task' = [py_task EXCEPT ![l] = place], UNCHANGED <<py_kills, py_published>>
  PROVE  AioTasks'
  BY DEF AioTasks, AioPlace, AioMessage

\* A task that awaits something has heard nothing yet.
LEMMA AioWaits ==
  ASSUME NEW at \in AioPlaces
  PROVE  [at |-> at, news |-> <<>>] \in AioPlace
  BY EmptySeq DEF AioPlace

\* What the server answers with.
LEMMA AioAnswer ==
  ASSUME AioTyped, NEW at \in AioPlaces
  PROVE  [at |-> at, news |-> <<Asyncio!Current>>] \in AioPlace
  <1>1. Asyncio!Current \in AioMessage
    BY DEF AioTyped, Asyncio!Current, Asyncio!Message, AioMessage
  <1>2. <<Asyncio!Current>> \in Seq(AioMessage)
    BY <1>1
  <1> QED
    BY <1>2 DEF AioPlace

\* A step of a loop changes only what it awaits and, if it hears of something, what the
\* engine and the cache hold.
LEMMA AioStep ==
  ASSUME AioInv, NEW l \in Asyncio!Loops, Asyncio!LoopStep(l)
  PROVE  /\ py_task[l].at # "off" /\ UNCHANGED Asyncio!quiet
         /\ \E place \in AioPlace : py_task' = [py_task EXCEPT ![l] = place]
         /\ \/ UNCHANGED Asyncio!installs
            \/ py_task[l].news # <<>> /\ Asyncio!Handle(Head(py_task[l].news))
         /\ UNCHANGED Asyncio!engine \/ ~stop_event \/ py_task[l].at = "polling"
  <1>0. py_task[l] \in AioPlace /\ py_task \in [Asyncio!Loops -> AioPlace]
    BY DEF AioInv, AioTasks
  <1>1. ASSUME NEW at \in AioPlaces, Asyncio!Becomes(l, at)
        PROVE  \E place \in AioPlace : py_task' = [py_task EXCEPT ![l] = place]
    BY <1>1, AioWaits DEF Asyncio!Becomes
  <1>2. ASSUME Asyncio!Turn(l)
        PROVE  \E place \in AioPlace : py_task' = [py_task EXCEPT ![l] = place]
    BY <1>1, <1>2 DEF Asyncio!Turn, AioPlaces
  <1>3. UNCHANGED Asyncio!installs => UNCHANGED Asyncio!engine
    BY DEF Asyncio!installs
  <1>4. CASE Asyncio!Begin(l) \/ Asyncio!StreamEnds(l)
    BY <1>2, <1>3, <1>4 DEF Asyncio!Begin, Asyncio!StreamEnds
  <1>5. CASE Asyncio!Connected(l)
    BY <1>3, <1>5, AioAnswer DEF Asyncio!Connected, AioInv, AioPlaces
  <1>6. CASE Asyncio!Rejected(l) \/ Asyncio!Fails(l)
    BY <1>1, <1>3, <1>6 DEF Asyncio!Rejected, Asyncio!Fails, AioPlaces
  <1>7. CASE Asyncio!Receive(l)
    <2>1. py_task[l].at = "listening" /\ py_task[l].news # <<>> /\ UNCHANGED Asyncio!quiet
      BY <1>7 DEF Asyncio!Receive
    <2>2. CASE stop_event
      BY <1>1, <1>3, <1>7, <2>1, <2>2 DEF Asyncio!Receive, AioPlaces
    <2>3. CASE ~stop_event
      <3>1. /\ Asyncio!Handle(Head(py_task[l].news))
            /\ py_task' = [py_task EXCEPT ![l].news = Tail(@)]
        BY <1>7, <2>3 DEF Asyncio!Receive
      <3>2. Tail(py_task[l].news) \in Seq(AioMessage)
        BY <1>0, <2>1 DEF AioPlace
      <3>3. [py_task[l] EXCEPT !.news = Tail(@)] \in AioPlace
        BY <1>0, <3>2 DEF AioPlace
      <3>4. py_task' = [py_task EXCEPT ![l] = [py_task[l] EXCEPT !.news = Tail(@)]]
        BY <1>0, <3>1
      <3> QED
        BY <2>1, <2>3, <3>1, <3>3, <3>4
    <2> QED
      BY <2>2, <2>3
  <1>8. CASE Asyncio!Answered(l)
    <2>1. /\ py_task[l].at = "polling" /\ UNCHANGED <<Asyncio!quiet, Asyncio!installs>>
          /\ py_task' = [py_task EXCEPT ![l].news = <<Asyncio!Current>>]
      BY <1>8 DEF Asyncio!Answered
    <2> DEFINE answer == <<Asyncio!Current>>
    <2> HIDE DEF answer
    <2>2. [py_task[l] EXCEPT !.news = answer] = [at |-> "polling", news |-> answer]
      BY <1>0, <2>1 DEF AioPlace
    <2>told. py_task' = [py_task EXCEPT ![l] = [py_task[l] EXCEPT !.news = answer]]
      BY <1>0, <2>1 DEF answer
    <2>3. py_task' = [py_task EXCEPT ![l] = [at |-> "polling", news |-> <<Asyncio!Current>>]]
      BY <2>2, <2>told DEF answer
    <2>4. [at |-> "polling", news |-> <<Asyncio!Current>>] \in AioPlace
      BY AioAnswer DEF AioInv, AioPlaces
    <2> QED
      BY <1>3, <2>1, <2>3, <2>4
  <1>9. CASE Asyncio!PollOver(l)
    BY <1>1, <1>9 DEF Asyncio!PollOver, AioPlaces
  <1>10. CASE Asyncio!Waited(l)
    BY <1>1, <1>2, <1>3, <1>10 DEF Asyncio!Waited, AioPlaces
  <1> QED
    BY <1>4, <1>5, <1>6, <1>7, <1>8, <1>9, <1>10 DEF Asyncio!LoopStep

\* Each step of a loop keeps the invariant.
LEMMA AioLoopSteps ==
  ASSUME AioInv, NEW l \in Asyncio!Loops, Asyncio!LoopStep(l)
  PROVE  AioInv'
  <1>1. PICK place \in AioPlace : py_task' = [py_task EXCEPT ![l] = place]
    BY AioStep
  <1>2. /\ py_task[l].at # "off"
        /\ UNCHANGED <<py_kills, py_published, py_changes, owns_client, client_closed, py_starts,
                       current, stop_event, stopping, timed_out, slipped>>
    BY AioStep DEF Asyncio!quiet, Asyncio!server
  <1>3. AioTyped'
    BY <1>2 DEF AioInv, AioTyped
  <1>4. AioTasks'
    BY <1>1, <1>2, AioBecomes DEF AioInv
  <1>5. AioHolds'
    <2>1. CASE UNCHANGED Asyncio!installs
      BY <1>2, <2>1 DEF AioInv, AioHolds, Asyncio!CacheOfVersion, Asyncio!installs, Asyncio!engine
    <2>2. CASE py_task[l].news # <<>> /\ Asyncio!Handle(Head(py_task[l].news))
      <3>1. py_task[l] \in AioPlace
        BY DEF AioInv, AioTasks
      <3>2. Head(py_task[l].news) \in AioMessage
        BY <2>2, <3>1 DEF AioPlace
      <3> QED
        BY <1>2, <2>2, <3>2, AioApplies DEF AioInv
    <2> QED
      BY <2>1, <2>2, AioStep
  <1>6. AioOne'
    <2>1. \A k \in Asyncio!Loops : py_task'[k].at # "off" => py_task[k].at # "off"
      BY <1>1, <1>2 DEF AioInv, AioTasks
    <2> QED
      BY <1>2, <2>1 DEF AioInv, AioOne
  <1> QED
    BY <1>3, <1>4, <1>5, <1>6 DEF AioInv

\* The control plane only ever adds, and tells whoever listens.
LEMMA AioTells ==
  ASSUME AioInv, NEW m \in AioMessage', Asyncio!Tell(m),
         py_kills' \in Nat, py_kills <= py_kills', py_kills' <= py_kills + 1,
         py_published' \in Seq(Contents), Len(py_published) <= Len(py_published'),
         \A v \in 1..Len(py_published) : py_published'[v] = py_published[v]
  PROVE  AioInv'
  <1>1. /\ py_changes + py_starts < MaxMoves /\ py_changes' = py_changes + 1
        /\ UNCHANGED <<owns_client, client_closed, py_starts, current, stop_event, stopping,
                       timed_out, slipped, py_cache, py_switch, py_version, file, seeded>>
        /\ py_task' = [l \in Asyncio!Loops |-> IF py_task[l].at = "listening"
                         THEN [py_task[l] EXCEPT !.news = Append(@, m)] ELSE py_task[l]]
    BY DEF Asyncio!Tell, Asyncio!installs, Asyncio!engine
  <1>2. MaxMoves \in Nat /\ Len(py_published) \in Nat /\ Len(py_published') \in Nat
    BY AsyncioAssumed DEF Asyncio!AsyncReceiverAssumption, AioInv, AioTyped
  <1>3. AioTyped'
    BY <1>1, <1>2 DEF AioInv, AioTyped
  <1>4. AioMessage \subseteq AioMessage'
    <2>1. /\ -1..py_kills \subseteq -1..py_kills'
          /\ -1..Len(py_published) \subseteq -1..Len(py_published')
      BY <1>2 DEF AioInv, AioTyped
    <2> QED
      BY <2>1 DEF AioMessage
  <1>5. Seq(AioMessage) \subseteq Seq(AioMessage')
    BY <1>4
  <1>6. \A l \in Asyncio!Loops : /\ py_task[l] \in AioPlace
                                 /\ Append(py_task[l].news, m) \in Seq(AioMessage')
    BY <1>5 DEF AioInv, AioTasks, AioPlace
  <1>7. AioTasks'
    BY <1>1, <1>5, <1>6 DEF AioTasks, AioPlace
  <1>8. AioHolds'
    <2>1. Asyncio!CacheOfVersion'
      BY <1>1, <1>2 DEF AioInv, AioHolds, Asyncio!CacheOfVersion
    <2> QED
      BY <1>1, <1>2, <2>1 DEF AioInv, AioHolds, AioTyped
  <1>9. AioOne'
    <2>1. \A l \in Asyncio!Loops : py_task'[l].at = py_task[l].at
      BY <1>1, <1>6 DEF AioPlace
    <2> QED
      BY <1>1, <2>1 DEF AioInv, AioOne
  <1> QED
    BY <1>3, <1>7, <1>8, <1>9 DEF AioInv

\* Each change at the control plane keeps the invariant.
LEMMA AioChanges ==
  ASSUME AioInv, Asyncio!Changes
  PROVE  AioInv'
  <1>1. py_kills \in Nat /\ py_published \in Seq(Contents) /\ Len(py_published) \in Nat
    BY DEF AioInv, AioTyped
  <1>2. CASE Asyncio!SetKill
    <2> DEFINE m == Asyncio!Message(py_kills', -1)
    <2>1. py_kills' = py_kills + 1 /\ Asyncio!Tell(m) /\ UNCHANGED py_published
      BY <1>2 DEF Asyncio!SetKill, Asyncio!Absent
    <2>2. m \in AioMessage'
      BY <1>1, <2>1 DEF Asyncio!Message, AioMessage
    <2>3. /\ py_kills' \in Nat /\ py_kills <= py_kills' /\ py_kills' <= py_kills + 1
          /\ py_published' \in Seq(Contents) /\ Len(py_published) <= Len(py_published')
          /\ \A v \in 1..Len(py_published) : py_published'[v] = py_published[v]
      BY <1>1, <2>1
    <2> HIDE DEF m
    <2> QED
      BY <2>1, <2>2, <2>3, AioTells
  <1>3. ASSUME NEW c \in Contents, Asyncio!Publish(c) PROVE AioInv'
    <2> DEFINE m == Asyncio!Message(-1, Len(py_published'))
    <2>1. py_published' = Append(py_published, c) /\ Asyncio!Tell(m) /\ UNCHANGED py_kills
      BY <1>3 DEF Asyncio!Publish, Asyncio!Absent
    <2>2. /\ py_published' \in Seq(Contents) /\ Len(py_published') = Len(py_published) + 1
          /\ \A v \in 1..Len(py_published) : py_published'[v] = py_published[v]
      BY <1>1, <2>1, AppendProperties
    <2>3. m \in AioMessage'
      BY <1>1, <2>1, <2>2 DEF Asyncio!Message, AioMessage
    <2>4. /\ py_kills' \in Nat /\ py_kills <= py_kills' /\ py_kills' <= py_kills + 1
          /\ Len(py_published) <= Len(py_published')
      BY <1>1, <2>1, <2>2
    <2> HIDE DEF m
    <2> QED
      BY <2>1, <2>2, <2>3, <2>4, AioTells
  <1> QED
    BY <1>2, <1>3 DEF Asyncio!Changes

\* start() makes a task only if none is left that may run.
LEMMA AioBegins ==
  ASSUME AioInv, Asyncio!start
  PROVE  AioInv'
  <1>1. /\ IF current = 0 THEN TRUE ELSE py_task[current].at = "off"
        /\ py_starts < MaxStarts
        /\ py_starts' = py_starts + 1 /\ current' = py_starts' /\ stop_event' = FALSE
        /\ py_task' = [py_task EXCEPT ![py_starts'] = [at |-> "created", news |-> <<>>]]
        /\ UNCHANGED <<py_kills, py_published, py_changes, owns_client, client_closed, stopping,
                       timed_out, slipped>>
        /\ Asyncio!Restore
    BY DEF Asyncio!start, Asyncio!Becomes, Asyncio!server
  <1>2. MaxStarts \in Nat /\ py_starts' \in Asyncio!Loops /\ Len(py_published) \in Nat
    BY <1>1, AsyncioAssumed DEF Asyncio!AsyncReceiverAssumption, AioInv, AioTyped, Asyncio!Loops
  <1>3. AioTyped'
    <2>1. py_starts' \in 0..MaxStarts /\ current' \in 0..py_starts' /\ stopping' \in 0..py_starts'
      BY <1>1, <1>2 DEF AioInv, AioTyped
    <2>2. stop_event' \in BOOLEAN
      BY <1>1
    <2> QED
      BY <1>1, <2>1, <2>2 DEF AioInv, AioTyped
  <1>4. AioHolds'
    <2>1. CASE UNCHANGED Asyncio!installs
      BY <1>1, <2>1 DEF AioInv, AioHolds, Asyncio!CacheOfVersion, Asyncio!installs, Asyncio!engine
    <2>2. CASE /\ file > 0 /\ py_version' = (IF file > py_version THEN file ELSE py_version)
               /\ py_cache' = py_published[file] /\ seeded' = TRUE
               /\ UNCHANGED <<py_switch, file>>
      <3>1. file \in 1..Len(py_published) /\ py_published[file] \in Contents
        BY <1>2, <2>2 DEF AioInv, AioHolds, AioTyped
      <3>2. py_version' \in 0..Len(py_published) /\ py_cache' \in Contents \cup {None}
        BY <1>2, <2>2, <3>1 DEF AioInv, AioHolds
      <3>3. Asyncio!CacheOfVersion' /\ seeded' \in BOOLEAN
        BY <2>2 DEF Asyncio!CacheOfVersion
      <3> QED
        BY <1>1, <2>2, <3>2, <3>3 DEF AioInv, AioHolds
    <2> QED
      BY <1>1, <2>1, <2>2 DEF Asyncio!Restore
  <1>5. AioTasks'
    BY <1>1, <1>2, AioBecomes, AioWaits DEF AioInv, AioPlaces
  <1>6. AioOne'
    <2>1. SUFFICES ASSUME ~slipped PROVE AioOne'
      BY <1>1 DEF AioOne
    <2>2. \A l \in Asyncio!Loops : py_task[l].at = "off"
      BY <1>1, <2>1 DEF AioInv, AioOne, Asyncio!Loops
    <2>3. \A l \in Asyncio!Loops : py_task'[l].at # "off" => l = current'
      BY <1>1, <2>2 DEF AioInv, AioTasks
    <2> QED
      BY <1>1, <2>3 DEF AioOne
  <1> QED
    BY <1>3, <1>4, <1>5, <1>6 DEF AioInv

\* The engine, the cache and the file stay as they are.
LEMMA AioRests ==
  ASSUME AioInv, UNCHANGED <<py_kills, py_published>>, UNCHANGED Asyncio!installs
  PROVE  AioHolds'
  BY DEF AioInv, AioHolds, Asyncio!CacheOfVersion, Asyncio!installs, Asyncio!engine

\* stop() only tells the tasks; what it waits for is the one in _task.
LEMMA AioStops ==
  ASSUME AioInv, Asyncio!stop
  PROVE  AioInv'
  <1>1. /\ stopping = 0 /\ stop_event' = TRUE /\ stopping' = current /\ timed_out' = FALSE
        /\ py_task' = [l \in Asyncio!Loops |-> IF py_task[l].at = "waiting"
                         THEN [py_task[l] EXCEPT !.at = "woken"] ELSE py_task[l]]
        /\ client_closed' = (client_closed \/ (current = 0 /\ owns_client))
        /\ UNCHANGED <<py_kills, py_published, py_changes, owns_client, py_starts, current, slipped>>
        /\ UNCHANGED Asyncio!installs
    BY DEF Asyncio!stop, Asyncio!server
  <1>2. stop_event' \in BOOLEAN /\ timed_out' \in BOOLEAN /\ client_closed' \in BOOLEAN
    BY <1>1
  <1>3. AioTyped'
    BY <1>1, <1>2 DEF AioInv, AioTyped
  <1>4. \A l \in Asyncio!Loops : py_task[l] \in AioPlace
    BY DEF AioInv, AioTasks
  <1>5. \A l \in Asyncio!Loops : py_task'[l] \in AioPlace
                                 /\ (py_task'[l].at # "off" => py_task[l].at # "off")
    BY <1>1, <1>4 DEF AioPlace, AioPlaces
  <1>6. AioTasks'
    BY <1>1, <1>5 DEF AioTasks, AioPlace, AioMessage
  <1>7. AioOne'
    BY <1>1, <1>5 DEF AioInv, AioOne
  <1> QED
    BY <1>1, <1>3, <1>6, <1>7, AioRests DEF AioInv

\* The task that stop() gives up on is over.
LEMMA AioTimesOut ==
  ASSUME AioInv, Asyncio!StopTimesOut
  PROVE  AioInv'
  <1>1. /\ stopping # 0 /\ timed_out' = TRUE
        /\ py_task' = [py_task EXCEPT ![stopping] = [at |-> "off", news |-> <<>>]]
        /\ UNCHANGED <<py_kills, py_published, py_changes, owns_client, client_closed, py_starts,
                       current, stop_event, stopping, slipped>>
        /\ UNCHANGED Asyncio!installs
    BY DEF Asyncio!StopTimesOut, Asyncio!Becomes, Asyncio!server
  <1>2. timed_out' \in BOOLEAN
    BY <1>1
  <1>3. AioTyped'
    BY <1>1, <1>2 DEF AioInv, AioTyped
  <1>4. stopping \in Asyncio!Loops
    BY <1>1, AsyncioAssumed DEF Asyncio!AsyncReceiverAssumption, AioInv, AioTyped, Asyncio!Loops
  <1>5. AioTasks'
    BY <1>1, <1>4, AioBecomes, AioWaits DEF AioInv, AioPlaces
  <1>6. \A l \in Asyncio!Loops : py_task'[l].at # "off" => py_task[l].at # "off"
    BY <1>1, <1>4 DEF AioInv, AioTasks
  <1>7. AioOne'
    BY <1>1, <1>6 DEF AioInv, AioOne
  <1> QED
    BY <1>1, <1>3, <1>5, <1>7, AioRests DEF AioInv

\* stop() returns once its task is over, or cancels the one that came after it.
LEMMA AioReturns ==
  ASSUME AioInv, Asyncio!StopReturns
  PROVE  AioInv'
  <1>1. stopping # 0 /\ py_task[stopping].at = "off"
    BY DEF Asyncio!StopReturns
  <1>2. CASE timed_out /\ current # stopping
    <2>1. /\ stopping' = current /\ timed_out' = FALSE
          /\ py_task' = [py_task EXCEPT ![current] = [at |-> "off", news |-> <<>>]]
          /\ UNCHANGED <<py_kills, py_published, py_changes, owns_client, client_closed, py_starts,
                         current, stop_event, slipped>>
          /\ UNCHANGED Asyncio!installs
      BY <1>2 DEF Asyncio!StopReturns, Asyncio!Becomes, Asyncio!server
    <2>2. timed_out' \in BOOLEAN
      BY <2>1
    <2>3. AioTyped'
      BY <2>1, <2>2 DEF AioInv, AioTyped
    <2>4. AioTasks' /\ (\A l \in Asyncio!Loops : py_task'[l].at # "off" => py_task[l].at # "off")
      <3>1. CASE current \in Asyncio!Loops
        <4>1. AioTasks'
          BY <2>1, <3>1, AioBecomes, AioWaits DEF AioInv, AioPlaces
        <4>2. \A l \in Asyncio!Loops : py_task'[l].at # "off" => py_task[l].at # "off"
          BY <2>1, <3>1 DEF AioInv, AioTasks
        <4> QED
          BY <4>1, <4>2
      <3>2. CASE current \notin Asyncio!Loops
        <4>1. py_task' = py_task
          BY <2>1, <3>2 DEF AioInv, AioTasks
        <4> QED
          BY <2>1, <4>1 DEF AioInv, AioTasks, AioPlace, AioMessage
      <3> QED
        BY <3>1, <3>2
    <2>5. AioOne'
      BY <2>1, <2>4 DEF AioInv, AioOne
    <2> QED
      BY <2>1, <2>3, <2>4, <2>5, AioRests DEF AioInv
  <1>3. CASE ~(timed_out /\ current # stopping)
    <2>1. /\ stopping' = 0 /\ current' = 0 /\ slipped' = (slipped \/ current # stopping)
          /\ client_closed' = (client_closed \/ owns_client)
          /\ UNCHANGED <<py_kills, py_published, py_changes, owns_client, py_starts, stop_event,
                         timed_out, py_task>>
          /\ UNCHANGED Asyncio!installs
      BY <1>3 DEF Asyncio!StopReturns, Asyncio!Stopped, Asyncio!server
    <2>2. client_closed' \in BOOLEAN /\ slipped' \in BOOLEAN
      BY <2>1
    <2>3. AioTyped'
      BY <2>1, <2>2 DEF AioInv, AioTyped
    <2>4. AioTasks'
      BY <2>1 DEF AioInv, AioTasks, AioPlace, AioMessage
    <2>5. AioOne'
      BY <1>1, <2>1 DEF AioInv, AioOne
    <2> QED
      BY <2>1, <2>3, <2>4, <2>5, AioRests DEF AioInv
  <1> QED
    BY <1>2, <1>3

\* The asyncio receiver starts and goes on as its invariant says.
LEMMA AioStarts == Asyncio!Init => AioInv
  <1> SUFFICES ASSUME Asyncio!Init PROVE AioInv
    OBVIOUS
  <1>0. /\ MaxStarts \in Nat /\ MaxMoves \in Nat /\ Contents \subseteq Nat
        /\ \A n \in Contents : 1..n \subseteq Contents
    BY AsyncioAssumed DEF Asyncio!AsyncReceiverAssumption
  <1>1. py_published \in Seq(Contents)
    <2>1. CASE py_published = <<>>
      BY <2>1, EmptySeq
    <2>2. ASSUME NEW n \in Contents, py_published = [v \in 1..n |-> v]
          PROVE  py_published \in Seq(Contents)
      BY <1>0, <2>2
    <2> QED
      BY <2>1, <2>2 DEF Asyncio!Init
  <1>2. Len(py_published) \in Nat
    BY <1>1
  <1>3. AioTyped
    <2>1. client_closed \in BOOLEAN /\ stop_event \in BOOLEAN /\ timed_out \in BOOLEAN
          /\ slipped \in BOOLEAN /\ owns_client \in BOOLEAN
      BY DEF Asyncio!Init
    <2> QED
      BY <1>0, <1>1, <2>1 DEF Asyncio!Init, AioTyped
  <1>4. AioHolds
    <2>1. seeded \in BOOLEAN /\ py_cache = None /\ py_switch = 0 /\ py_kills = 0
      BY DEF Asyncio!Init
    <2>2. py_version \in 0..Len(py_published) /\ file \in 0..Len(py_published)
      BY <1>2 DEF Asyncio!Init
    <2> QED
      BY <2>1, <2>2 DEF AioHolds, Asyncio!CacheOfVersion
  <1>5. AioTasks
    BY AioWaits DEF Asyncio!Init, AioTasks, AioPlaces, Asyncio!Off
  <1>6. AioOne
    BY DEF Asyncio!Init, AioOne, Asyncio!Off
  <1> QED
    BY <1>3, <1>4, <1>5, <1>6 DEF AioInv

\* No step leaves the invariant.
LEMMA AioGoesOn ==
  ASSUME AioInv, [Asyncio!Next]_(Asyncio!vars)
  PROVE  AioInv'
  <1>1. CASE UNCHANGED Asyncio!vars
    <2>1. UNCHANGED <<py_kills, py_published, py_changes, owns_client, client_closed, py_starts,
                      current, stop_event, stopping, timed_out, slipped, py_task>>
          /\ UNCHANGED Asyncio!installs
      BY <1>1 DEF Asyncio!vars, Asyncio!server
    <2>2. AioHolds'
      BY <2>1, AioRests
    <2>3. AioTyped' /\ AioOne'
      BY <2>1 DEF AioInv, AioTyped, AioOne
    <2>4. AioTasks'
      BY <2>1 DEF AioInv, AioTasks, AioPlace, AioMessage
    <2> QED
      BY <2>2, <2>3, <2>4 DEF AioInv
  <1>2. CASE Asyncio!Next
    BY <1>2, AioChanges, AioBegins, AioStops, AioTimesOut, AioReturns, AioLoopSteps
       DEF Asyncio!Next
  <1> QED
    BY <1>1, <1>2

\* The invariant tells the types, what is cached, and that one loop runs at most.
LEMMA AioMeans ==
  ASSUME AioInv
  PROVE  Asyncio!TypeOK /\ Asyncio!CacheOfVersion /\ Asyncio!StopsWhatStarted
  <1>1. Asyncio!TypeOK
    <2>1. py_kills \in 0..MaxMoves
      BY AsyncioAssumed DEF Asyncio!AsyncReceiverAssumption, AioInv, AioTyped
    <2>2. {owns_client, client_closed, stop_event, timed_out, seeded, slipped} \subseteq BOOLEAN
      BY DEF AioInv, AioTyped, AioHolds
    <2> QED
      BY <2>1, <2>2 DEF AioInv, AioTyped, AioHolds, AioTasks, AioPlace, AioPlaces, Asyncio!TypeOK
  <1>2. ASSUME ~slipped
        PROVE  /\ Cardinality(Asyncio!Running) <= 1
               /\ stop_event /\ stopping = 0 => Asyncio!Running = {}
    <2>1. Asyncio!Running \subseteq {current}
      BY <1>2 DEF AioInv, AioOne, Asyncio!Running
    <2>2. Cardinality(Asyncio!Running) <= 1
      <3>1. IsFiniteSet({current}) /\ Cardinality({current}) = 1
        BY FS_Singleton
      <3>2. Cardinality(Asyncio!Running) <= Cardinality({current})
        BY <2>1, <3>1, FS_Subset
      <3> QED
        BY <3>1, <3>2
    <2>3. stop_event /\ stopping = 0 => Asyncio!Running = {}
      <3>1. stop_event /\ stopping = 0 => current = 0 /\ 0 \notin Asyncio!Loops
        BY <1>2 DEF AioInv, AioOne, Asyncio!Loops
      <3> QED
        BY <2>1, <3>1 DEF Asyncio!Running
    <2> QED
      BY <2>2, <2>3
  <1>3. Asyncio!StopsWhatStarted
    <2>1. CASE slipped
      BY <2>1 DEF Asyncio!StopsWhatStarted
    <2>2. CASE ~slipped
      <3>1. /\ Cardinality(Asyncio!Running) <= 1
            /\ stop_event /\ stopping = 0 => Asyncio!Running = {}
        BY <1>2, <2>2
      <3>2. Asyncio!Cardinality(Asyncio!Running) = Cardinality(Asyncio!Running)
        BY Zenon DEF Asyncio!Cardinality, Cardinality
      <3> QED
        BY <3>1, <3>2 DEF Asyncio!StopsWhatStarted
    <2> QED
      BY <2>1, <2>2
  <1>4. Asyncio!CacheOfVersion
    BY DEF AioInv, AioHolds
  <1> QED
    BY <1>1, <1>3, <1>4

\* What changes the engine while the stop event is set is a poll that was under way.
LEMMA AioLast ==
  ASSUME AioInv, Asyncio!Next, stop_event', Asyncio!engine' # Asyncio!engine
  PROVE  \E l \in Asyncio!Loops : py_task[l].at = "polling"
  <1>1. CASE Asyncio!Changes
    <2>1. UNCHANGED Asyncio!installs
      BY <1>1 DEF Asyncio!Changes, Asyncio!SetKill, Asyncio!Publish, Asyncio!Tell
    <2> QED
      BY <2>1 DEF Asyncio!installs
  <1>2. CASE Asyncio!start
    BY <1>2 DEF Asyncio!start
  <1>3. CASE Asyncio!stop \/ Asyncio!StopTimesOut
    BY <1>3 DEF Asyncio!stop, Asyncio!StopTimesOut, Asyncio!installs
  <1>4. CASE Asyncio!StopReturns
    BY <1>4 DEF Asyncio!StopReturns, Asyncio!Stopped, Asyncio!installs
  <1>5. ASSUME NEW l \in Asyncio!Loops, Asyncio!LoopStep(l)
        PROVE  py_task[l].at = "polling"
    <2>1. UNCHANGED Asyncio!engine \/ ~stop_event \/ py_task[l].at = "polling"
      BY <1>5, AioStep
    <2>2. stop_event' = stop_event
      BY <1>5, AioStep DEF Asyncio!quiet
    <2> QED
      BY <2>1, <2>2
  <1> QED
    BY <1>1, <1>2, <1>3, <1>4, <1>5 DEF Asyncio!Next

-------------------------------------------------------------------------------
(* The composition. *)

\* Whichever part moves, each of them behaves as its own module says.
LEMMA EachItsOwn == AllSpec => Spec /\ VerifySpec /\ Receiver!Spec /\ Asyncio!Spec
  <1>1. AllInit => Init /\ VerifyInit /\ Receiver!Init /\ Asyncio!Init
    BY SomeCall DEF AllInit, VerifyInit
  <1>2. ASSUME [AllNext]_allVars
        PROVE  /\ [Next]_vars /\ [VerifyNext]_verifyVars
               /\ [Receiver!Next]_(Receiver!vars) /\ [Asyncio!Next]_(Asyncio!vars)
    <2> USE DEF jsVars, asyncVars, Receiver!vars, Receiver!server, Receiver!installs,
            Receiver!engine, Asyncio!vars, Asyncio!server, Asyncio!installs, Asyncio!engine
    <2>1. CASE EngineMoves(Next)
      BY <2>1 DEF EngineMoves
    <2>2. CASE EnvelopeMoves(VerifyNext)
      BY <2>2 DEF EnvelopeMoves
    <2>3. CASE ReceiverMoves(Receiver!Next)
      BY <2>3 DEF ReceiverMoves
    <2>4. CASE AsyncioMoves(Asyncio!Next)
      BY <2>4 DEF AsyncioMoves
    <2>5. CASE UNCHANGED allVars
      BY <2>5 DEF allVars
    <2> QED
      BY <1>2, <2>1, <2>2, <2>3, <2>4, <2>5 DEF AllNext
  <1> QED
    BY <1>1, <1>2, PTL DEF AllSpec, Spec, VerifySpec, Receiver!Spec, Asyncio!Spec

\* The invariants hold of each receiver's own specification.
LEMMA JsAlways == Receiver!Spec => []JsInv
  <1>1. JsInv /\ [Receiver!Next]_(Receiver!vars) => JsInv'
    BY JsGoesOn
  <1> QED
    BY JsStarts, <1>1, PTL DEF Receiver!Spec

\* Likewise for asyncio's.
LEMMA AioAlways == Asyncio!Spec => []AioInv
  <1>1. AioInv /\ [Asyncio!Next]_(Asyncio!vars) => AioInv'
    BY AioGoesOn
  <1> QED
    BY AioStarts, <1>1, PTL DEF Asyncio!Spec

\* Every variable of the engine, of the verification, and of the receivers keeps its
\* type.
THEOREM EngineTypesHold == AllSpec => []AllTypeOK
  <1>1. TypeOK /\ VerifyTypeOK /\ JsInv /\ AioInv => AllTypeOK
    BY JsMeans, AioMeans DEF AllTypeOK
  <1> QED
    BY <1>1, EachItsOwn, EngineTypeCorrect, VerificationTypeCorrect, JsAlways, AioAlways, PTL

\* What a receiver believes installed is in force, and a stopped one is silent, whatever
\* polls, streams, trust lists, starts and stops overlap (installSignedPolicy,
\* _apply_policy_update, start, stop, _run_sse).
THEOREM ReceiversAlwaysSafe == AllSpec => ReceiversSafe
  <1>1. JsInv /\ AioInv => Receiver!CacheOfVersion /\ Asyncio!CacheOfVersion
                           /\ Asyncio!StopsWhatStarted
    BY JsMeans, AioMeans
  <1>2. AioInv /\ [Asyncio!Next]_(Asyncio!vars)
          => [stop_event' /\ ~slipped /\ Asyncio!engine' # Asyncio!engine
                => \E l \in Asyncio!Loops : py_task[l].at = "polling"]_(Asyncio!vars)
    BY AioLast
  <1>3. Asyncio!Spec => Asyncio!NothingAfterStop
    BY <1>2, AioAlways, PTL DEF Asyncio!Spec, Asyncio!NothingAfterStop
  <1> QED
    BY <1>1, <1>3, EachItsOwn, JsAlways, AioAlways, PTL DEF ReceiversSafe
\* In the composition, too, the engine keeps its promises and every envelope is judged as
\* it should be (reload_policy_signed, reload_pricing_signed, verify_dsse_envelope).
THEOREM EngineAlwaysTrue ==
    AllSpec => BundlesMarked /\ []ActiveBundlesAreNewest /\ DefencesHold /\ []EnvelopesJudged
  BY EachItsOwn, BundlesAlwaysMarked, ActiveBundlesAlwaysNewest, DefencesAlwaysHold,
     EnvelopesAlwaysJudged, PTL
=============================================================================
