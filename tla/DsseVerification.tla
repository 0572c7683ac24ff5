---------------------------- MODULE DsseVerification ----------------------------
(***************************************************************************)
(* How the engine decides whether an envelope is signed by a key it trusts *)
(* (verify_dsse_envelope, crates/core/src/dsse_verify.rs): the checks in   *)
(* their order, and the loop over signatures and keys, one action per way  *)
(* through its body.  Engine keeps of all this the outcome, Verifies.      *)
(*                                                                         *)
(* Cryptography is what a signature was made with and what it was made     *)
(* over.  Whatever cannot be decoded is Malformed.                         *)
(***************************************************************************)
EXTENDS Naturals, Sequences

CONSTANTS SignedEnvelopes,  \* the envelopes and the trust lists that arrive
          TrustLists,
          Clocks,           \* readings of the clock
          Expected,         \* the payload type the caller expects
          MaxSignatures,    \* MAX_ENVELOPE_SIGNATURES
          KeyIds, PublicKeys, NoHint, Malformed

ASSUME DsseAssumption ==
    /\ Clocks \subseteq Nat /\ MaxSignatures \in Nat
    /\ \A e \in SignedEnvelopes :
          e.signatures \in Seq([keyid : KeyIds \cup {NoHint}, by : PublicKeys \cup {Malformed},
                                over : {"this payload", "another"}])
    /\ \A list \in TrustLists :
          list \in Seq([keyid : KeyIds, public_key : PublicKeys \cup {Malformed},
                        valid_from : Nat, valid_until : Nat])

VARIABLES
    envelope, trusted_keys, now,  \* the call
    sig, trusted,                 \* loop indices; 0 is before the loop
    saw_known_keyid,
    window_failure,               \* the latest, or "none"
    verdict                       \* "pending", "accepted", or the error

call == <<envelope, trusted_keys, now>>
verifyVars == <<call, sig, trusted, saw_known_keyid, window_failure, verdict>>

VerifyInit ==
    /\ envelope \in SignedEnvelopes /\ trusted_keys \in TrustLists /\ now \in Clocks
    /\ sig = 0 /\ trusted = 0
    /\ saw_known_keyid = FALSE /\ window_failure = "none"
    /\ verdict = "pending"

Return(v) ==
    /\ verdict' = v
    /\ UNCHANGED <<call, sig, trusted, saw_known_keyid, window_failure>>

\* The keyid is a hint that narrows the keys to try; none means all of them.
Named(i, j) == envelope.signatures[i].keyid \in {NoHint, trusted_keys[j].keyid}

TooEarly(j) == now < trusted_keys[j].valid_from

\* Mutant of TooLate: a key is trusted at valid_until, too.
PastValidUntil(j) == now > trusted_keys[j].valid_until

TooLate(j) == now >= trusted_keys[j].valid_until
InWindow(j) == ~TooEarly(j) /\ ~TooLate(j)

\* Mutant of Genuine: what the signature was made over does not matter.
MadeByKey(i, j) == envelope.signatures[i].by = trusted_keys[j].public_key

\* The signature verifies over the expected payload type and the payload.
Genuine(i, j) ==
    /\ envelope.signatures[i].by = trusted_keys[j].public_key
    /\ envelope.signatures[i].over = "this payload"

-------------------------------------------------------------------------------
\* What is wrong with an envelope before any signature is looked at.
Flaw ==
    IF envelope.payload_type # Expected THEN "PayloadTypeMismatch"
    ELSE IF envelope.signatures = <<>> THEN "NoSignatures"
    ELSE IF Len(envelope.signatures) > MaxSignatures THEN "SignatureInvalid"
    ELSE IF envelope.payload = Malformed THEN "MalformedEncoding"
    ELSE "none"

Refuse ==
    /\ sig = 0 /\ Flaw # "none"
    /\ Return(Flaw)

Begin ==
    /\ sig = 0 /\ Flaw = "none"
    /\ sig' = 1 /\ trusted' = 0
    /\ UNCHANGED <<call, saw_known_keyid, window_failure, verdict>>

AtSignature == sig \in 1 .. Len(envelope.signatures) /\ trusted = 0
AtKey == sig # 0 /\ trusted \in 1 .. Len(trusted_keys)

BadSignature ==
    /\ AtSignature
    /\ envelope.signatures[sig].by = Malformed
    /\ Return("MalformedEncoding")

Decoded ==
    /\ AtSignature
    /\ envelope.signatures[sig].by # Malformed
    /\ trusted' = 1
    /\ UNCHANGED <<call, sig, saw_known_keyid, window_failure, verdict>>

\* On to the next key, after a known one.
Known(failure) ==
    /\ trusted' = trusted + 1 /\ saw_known_keyid' = TRUE
    /\ window_failure' = failure
    /\ UNCHANGED <<call, sig, verdict>>

OtherKeyid ==
    /\ AtKey /\ ~Named(sig, trusted)
    /\ trusted' = trusted + 1
    /\ UNCHANGED <<call, sig, saw_known_keyid, window_failure, verdict>>

NotYetValid ==
    /\ AtKey /\ Named(sig, trusted) /\ TooEarly(trusted)
    /\ Known("KeyNotYetValid")

Expired ==
    /\ AtKey /\ Named(sig, trusted) /\ ~TooEarly(trusted) /\ TooLate(trusted)
    /\ Known("KeyExpired")

BadKey ==
    /\ AtKey /\ Named(sig, trusted) /\ InWindow(trusted)
    /\ trusted_keys[trusted].public_key = Malformed
    /\ Return("MalformedEncoding")

Verified ==
    /\ AtKey /\ Named(sig, trusted) /\ InWindow(trusted)
    /\ trusted_keys[trusted].public_key # Malformed
    /\ Genuine(sig, trusted)
    /\ Return("accepted")

\* Mutant of WrongKey: the first key a signature does not fit ends its turn.
WrongKeyGivesUp ==
    /\ AtKey /\ Named(sig, trusted) /\ InWindow(trusted)
    /\ trusted_keys[trusted].public_key # Malformed
    /\ ~Genuine(sig, trusted)
    /\ trusted' = Len(trusted_keys) + 1 /\ saw_known_keyid' = TRUE
    /\ UNCHANGED <<call, sig, window_failure, verdict>>

WrongKey ==
    /\ AtKey /\ Named(sig, trusted) /\ InWindow(trusted)
    /\ trusted_keys[trusted].public_key # Malformed
    /\ ~Genuine(sig, trusted)
    /\ Known(window_failure)

NextSignature ==
    /\ sig # 0 /\ trusted = Len(trusted_keys) + 1
    /\ sig' = sig + 1 /\ trusted' = 0
    /\ UNCHANGED <<call, saw_known_keyid, window_failure, verdict>>

\* No signature verified: the most specific error.
Conclude ==
    /\ sig > Len(envelope.signatures) /\ trusted = 0
    /\ Return(IF ~saw_known_keyid THEN "UnknownKeyid"
              ELSE IF window_failure # "none" THEN window_failure
              ELSE "SignatureInvalid")

VerifyNext ==
    /\ verdict = "pending"
    /\ \/ Refuse \/ Begin \/ BadSignature \/ Decoded
       \/ OtherKeyid \/ NotYetValid \/ Expired \/ BadKey \/ Verified \/ WrongKey
       \/ NextSignature \/ Conclude

VerifySpec == VerifyInit /\ [][VerifyNext]_verifyVars
-------------------------------------------------------------------------------
Errors == {"PayloadTypeMismatch", "NoSignatures", "UnknownKeyid", "KeyExpired",
           "KeyNotYetValid", "MalformedEncoding", "SignatureInvalid"}

\* The call stays as it was, and the indices stay near its sequences.
VerifyTypeOK ==
    /\ envelope \in SignedEnvelopes /\ trusted_keys \in TrustLists /\ now \in Clocks
    /\ sig \in 0 .. Len(envelope.signatures) + 1
    /\ trusted \in 0 .. Len(trusted_keys) + 1
    /\ saw_known_keyid \in BOOLEAN
    /\ window_failure \in {"none", "KeyExpired", "KeyNotYetValid"}
    /\ verdict \in {"pending", "accepted"} \cup Errors

Pairs == (1 .. Len(envelope.signatures)) \X (1 .. Len(trusted_keys))

\* A key that may be tried for a signature, and one that is trusted now.
Hinted(q) == envelope.signatures[q[1]].keyid \in {NoHint, trusted_keys[q[2]].keyid}
Trusted(q) == now \in trusted_keys[q[2]].valid_from .. trusted_keys[q[2]].valid_until - 1
Unreadable(q) == trusted_keys[q[2]].public_key = Malformed

\* A signature and a key that settle the matter (rule 4 of the doc comment).
Vouches(q) ==
    /\ Hinted(q) /\ Trusted(q) /\ ~Unreadable(q)
    /\ envelope.signatures[q[1]].by = trusted_keys[q[2]].public_key
    /\ envelope.signatures[q[1]].over = "this payload"

Before(q, r) == q[1] < r[1] \/ (q[1] = r[1] /\ q[2] < r[2])

\* Nothing the loop comes to before a pair stops it with MalformedEncoding.
Reached(q) ==
    /\ \A i \in 1 .. q[1] : envelope.signatures[i].by # Malformed
    /\ \A r \in Pairs : Before(r, q) /\ Hinted(r) /\ Trusted(r) => ~Unreadable(r)

\* An envelope is accepted exactly when, in a message of the expected type with
\* not too many signatures, some signature vouches for the payload before the
\* loop meets anything malformed, in whatever order the signatures, the keys of a
\* rotation and the keys out of their window stand; and the error says why not:
\* no key was known, a known one was out of its window, or none fitted.
EnvelopesJudged ==
    /\ verdict = "accepted" => Flaw = "none" /\ \E q \in Pairs : Vouches(q) /\ Reached(q)
    /\ verdict \in Errors /\ Flaw = "none" => \A q \in Pairs : Vouches(q) => ~Reached(q)
    /\ verdict = "UnknownKeyid" => \A q \in Pairs : ~Hinted(q)
    /\ verdict = "KeyExpired" =>
          \E q \in Pairs : Hinted(q) /\ now >= trusted_keys[q[2]].valid_until
    /\ verdict = "KeyNotYetValid" =>
          \E q \in Pairs : Hinted(q) /\ now < trusted_keys[q[2]].valid_from
    /\ verdict = "SignatureInvalid" /\ Flaw = "none" =>
          \A q \in Pairs : Hinted(q) => Trusted(q)
===============================================================================
