------------------------------- MODULE MCEngine -------------------------------
(* One engine, three versions (one of them 0, the engine's initial value), a   *)
(* key for each kind of bundle; the verification of an envelope; and the two   *)
(* receivers that share an event loop with their application, JavaScript's and *)
(* asyncio's, whose engines need to be known by versions only.  In each        *)
(* behaviour one of the four moves.                                            *)
EXTENDS Engine, DsseVerification, SequencesExt

CONSTANTS policyKey, pricingKey,
          Contents, Loaders, MaxStarts, MaxPolls, MaxMoves

VARIABLES
    moving,  \* "engine", "envelope", "receiver" or "asyncio"
    js_kills, js_published, js_active, js_changes, js_running, js_abort, js_starts,
    js_task, js_cache, js_loader, js_pending, js_switch, js_version, js_denied, js_seen,
    py_kills, py_published, py_changes, owns_client, client_closed, py_starts, current,
    py_task, stop_event, stopping, timed_out, py_cache, py_switch, py_version, file, seeded,
    slipped

MCPolicyKeys == {policyKey}
MCPricingKeys == {pricingKey}
MCVersions == 0..2
MCTimes == 0..3

\* One key pair, two names for it; trusted now, from the next tick on, or until
\* this one.  A signature made with it, over something else, or unreadable.
MCKeyIds == {"k1", "k2"}
MCPublicKeys == {"key"}
MCClocks == {1}
Windows == {<<1, 2>>, <<2, 3>>, <<0, 1>>}
MCTrustLists == BoundedSeq(
    {[keyid |-> k, public_key |-> p, valid_from |-> w[1], valid_until |-> w[2]] :
        k \in MCKeyIds, p \in {"key", Malformed}, w \in Windows}, 2)
Signature(k, b, o) == [keyid |-> k, by |-> b, over |-> o]
Signatures == {Signature(k, "key", o) : k \in {"k1", NoHint}, o \in {"this payload", "another"}}
                 \cup {Signature(NoHint, Malformed, "another")}
TooMany == [i \in 1..3 |-> Signature("k1", "key", "this payload")]
Envelope(type, payload, signatures) ==
    [payload_type |-> type, payload |-> payload, signatures |-> signatures]
MCSignedEnvelopes ==
    {Envelope("policy", "payload", q) : q \in BoundedSeq(Signatures, 2) \cup {TooMany}} \cup
    {Envelope(type, Malformed, <<Signature("k1", "key", "this payload")>>) :
        type \in {"policy", "pricing"}}

MCContents == 1..2
MCLoaders == {"sync", "async"}

Receiver == INSTANCE JsReceiver WITH
    kills <- js_kills, published <- js_published, active <- js_active,
    changes <- js_changes, running <- js_running, abort <- js_abort, starts <- js_starts,
    task <- js_task, cache <- js_cache, loader <- js_loader, pending <- js_pending,
    kill_switch <- js_switch, version <- js_version, denied <- js_denied, seen <- js_seen

Asyncio == INSTANCE AsyncReceiver WITH
    kills <- py_kills, published <- py_published, changes <- py_changes,
    starts <- py_starts, task <- py_task, cache <- py_cache,
    kill_switch <- py_switch, version <- py_version

ASSUME ReceiverAssumed == Receiver!JsReceiverAssumption
ASSUME AsyncioAssumed == Asyncio!AsyncReceiverAssumption

\* The call that is there when no envelope moves.
ASSUME SomeCall ==
    Envelope("policy", "payload", <<>>) \in SignedEnvelopes /\ <<>> \in TrustLists /\ 1 \in Clocks

jsVars == <<js_kills, js_published, js_active, js_changes, js_running, js_abort, js_starts,
            js_task, js_cache, js_loader, js_pending, js_switch, js_version, js_denied,
            js_seen>>
asyncVars == <<py_kills, py_published, py_changes, owns_client, client_closed, py_starts,
               current, py_task, stop_event, stopping, timed_out, py_cache, py_switch,
               py_version, file, seeded, slipped>>
allVars == <<moving, vars, verifyVars, jsVars, asyncVars>>

EngineMoves(A) == moving = "engine" /\ A /\ UNCHANGED <<moving, verifyVars, jsVars, asyncVars>>
EnvelopeMoves(A) == moving = "envelope" /\ A /\ UNCHANGED <<moving, vars, jsVars, asyncVars>>
ReceiverMoves(A) == moving = "receiver" /\ A /\ UNCHANGED <<moving, vars, verifyVars, asyncVars>>
AsyncioMoves(A) == moving = "asyncio" /\ A /\ UNCHANGED <<moving, vars, verifyVars, jsVars>>

AllInit ==
    /\ moving \in {"engine", "envelope", "receiver", "asyncio"}
    /\ Receiver!Init
    /\ moving # "receiver" => js_loader = "sync"
    /\ Asyncio!Init
    /\ moving # "asyncio" => py_published = <<>> /\ owns_client
    /\ Init
    /\ IF moving = "envelope" THEN VerifyInit
       ELSE /\ envelope = Envelope("policy", "payload", <<>>) /\ trusted_keys = <<>> /\ now = 1
            /\ sig = 0 /\ trusted = 0 /\ saw_known_keyid = FALSE
            /\ window_failure = "none" /\ verdict = "pending"

AllNext ==
    \/ EngineMoves(Next)
    \/ EnvelopeMoves(VerifyNext)
    \/ ReceiverMoves(Receiver!Next)
    \/ AsyncioMoves(Asyncio!Next)

\* Timers fire, requests end, and aborts and cancellations are noticed; a server that
\* is asked again and again is reached in the end, the breaker lets it be asked, and
\* what it sends is read.  Since one receiver moves in a behaviour, fairness of the
\* step of either is fairness of both.
Obliged(p) == \/ ReceiverMoves(Receiver!Obliged(p))
              \/ p \in Asyncio!Loops /\ AsyncioMoves(Asyncio!Obliged(p))
Admitted(l) == ReceiverMoves(Receiver!Admitted(l)) \/ AsyncioMoves(Asyncio!Admitted(l))
Connected(l) == ReceiverMoves(Receiver!Connected(l)) \/ AsyncioMoves(Asyncio!Connected(l))
Receive(l) == ReceiverMoves(Receiver!Receive(l)) \/ AsyncioMoves(Asyncio!Receive(l))

AllFairness ==
    /\ \A p \in Receiver!Tasks : WF_allVars(Obliged(p))
    /\ \A l \in Receiver!Loops :
          SF_allVars(Admitted(l)) /\ SF_allVars(Connected(l)) /\ SF_allVars(Receive(l))

AllSpec == AllInit /\ [][AllNext]_allVars /\ AllFairness

\* Every variable of the engine, of the verification, and of the receivers has its
\* type.
AllTypeOK == TypeOK /\ VerifyTypeOK /\ Receiver!TypeOK /\ Asyncio!TypeOK

\* What a receiver believes installed is what the engine has, whatever polls,
\* streams and trust lists it awaited in between (installSignedPolicy,
\* _apply_policy_update), and asyncio's stop() leaves no task and no late event behind
\* unless a start() overtook it (start, stop, _run_sse).
ReceiversSafe ==
    /\ [](Receiver!CacheOfVersion /\ Asyncio!CacheOfVersion /\ Asyncio!StopsWhatStarted)
    /\ Asyncio!NothingAfterStop

\* Besides, a running receiver ends up with what the control plane last said, however
\* connections break and loops and polls overlap, but for the exceptions its module
\* names.  The loops and polls of a stopped one end, also those whose requests no
\* signal can abort any more (loop, stop, pollWhileWaiting).  The one that does not
\* move agrees and is at rest from the beginning.
ReceiversObey ==
    /\ ReceiversSafe
    /\ []<>(Receiver!Agrees /\ Asyncio!Agrees)
    /\ []<>(Receiver!Unwound /\ Asyncio!Unwound)
===============================================================================
