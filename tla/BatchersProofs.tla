----------------------------- MODULE BatchersProofs -----------------------------
(***************************************************************************)
(* Proofs about the telemetry batchers, for any events, callers, batch     *)
(* size, queue bounds and number of attempts: TelemetryBatcher first, then *)
(* JsBatcher and AsyncBatcher with their refinement of Delivery, and the   *)
(* composition with SharedBreaker that MCBatchers makes.                   *)
(***************************************************************************)
EXTENDS MCBatchers, FiniteSetTheorems, SequenceTheorems, TLAPS

\* The batch of a thread that settles leaves no other trace in the types.
LEMMA SettleType ==
  ASSUME NEW t \in Threads, NEW f \in DropReasons \cup {"sent", "raised"},
         TypeOK, Settle(t, f)
  PROVE  /\ fate' \in [Events -> Fates]
         /\ batch' \in [Threads -> SUBSET Events]
         /\ attempt' \in [Threads -> 0..MaxAttempts-1]
         /\ pc' \in [Threads -> Labels]
         /\ closing' \subseteq Callers
         /\ closed' \in BOOLEAN
         /\ known' \subseteq Threads
         /\ owed' \subseteq Fated("accepted")'
<1> USE BatcherAssumption DEF TypeOK, Settle, Goto, Fated, Labels, Fates
<1>1. fate' \in [Events -> Fates]
  OBVIOUS
<1>2. attempt' \in [Threads -> 0..MaxAttempts-1]
  OBVIOUS
<1>3. owed' \subseteq Fated("accepted")'
  OBVIOUS
<1>4. batch' \in [Threads -> SUBSET Events] /\ closed' \in BOOLEAN
  OBVIOUS
<1> QED
  BY <1>1, <1>2, <1>3, <1>4

\* A count of dropped events stays a number.
LEMMA DropType ==
  ASSUME NEW t \in Threads, NEW reason \in DropReasons, TypeOK, Drop(t, reason)
  PROVE  dropped' \in [DropReasons -> Nat]
<1>1. batch[t] \subseteq Events
  BY DEF TypeOK
<1>2. Cardinality(batch[t]) \in Nat
  BY <1>1, BatcherAssumption, FS_Subset, FS_CardinalityType
<1> QED
  BY <1>2 DEF Drop, TypeOK

\* Every variable keeps its type, for any number of callers, whatever they do.
THEOREM BatcherTypeCorrect == Spec => []TypeOK
<1> USE BatcherAssumption
<1>1. Init => TypeOK
  <2> SUFFICES ASSUME Init
               PROVE  TypeOK
    OBVIOUS
  <2>1. /\ buffer \subseteq Events
        /\ closing \subseteq Callers
        /\ known \subseteq Threads
        /\ owed \subseteq Fated("accepted")
        /\ queue_bytes \in Int
        /\ sent \in Nat
        /\ forks \in 0..MaxForks
    BY DEF Init
  <2>2. /\ flush_event \in BOOLEAN
        /\ stopped \in BOOLEAN
        /\ closed \in BOOLEAN
    BY DEF Init
  <2>3. /\ dropped \in [DropReasons -> Nat]
        /\ batch \in [Threads -> SUBSET Events]
        /\ attempt \in [Threads -> 0..MaxAttempts-1]
        /\ seen \in [Threads -> Nat]
        /\ copies \in [Events -> Nat]
        /\ kind \in [Events -> Kinds]
    BY DEF Init
  <2>4. /\ pc \in [Threads -> Labels]
        /\ fate \in [Events -> Fates]
    BY DEF Init, Labels, Fates
  <2> QED
    BY <2>1, <2>2, <2>3, <2>4 DEF TypeOK
<1>2. TypeOK /\ [Next]_vars => TypeOK'
  <2> SUFFICES ASSUME TypeOK, [Next]_vars
               PROVE  TypeOK'
    OBVIOUS
  <2> USE DEF queueVars, sendVars, histVars
  <2>1. ASSUME NEW e \in Events, Refuse(e)
        PROVE  TypeOK'
    BY <2>1 DEF Refuse, Emits, TypeOK, Fates, DropReasons, Fated
  <2>2. ASSUME NEW e \in Events, Accept(e)
        PROVE  TypeOK'
    BY <2>2 DEF Accept, Emits, TypeOK, Fates, DropReasons, Fated
  <2>3. CASE CheckStopped \/ Wait \/ Clear
    BY <2>3 DEF CheckStopped, Wait, Clear, Goto, TypeOK, Labels, Fated
  <2>4. CASE WorkerDrains
    <3>1. CASE buffer = {}
      BY <2>4, <3>1 DEF WorkerDrains, Goto, TypeOK, Labels, Fated
    <3>2. CASE buffer # {}
      <4>1. batch' \in [Threads -> SUBSET Events] /\ pc' = [pc EXCEPT ![Worker] = "sending"]
        BY <2>4, <3>2 DEF WorkerDrains, Drain, Goto, TypeOK, Labels
      <4>2. buffer' = {} /\ queue_bytes' = 0
        BY <2>4, <3>2 DEF WorkerDrains, Drain
      <4>3. UNCHANGED <<flush_event, stopped, sent, dropped, attempt, seen, known,
                        copies, closing, kind, owed, forks, fate, closed>>
        BY <2>4 DEF WorkerDrains
      <4>4. pc' \in [Threads -> Labels]
        BY <4>1 DEF TypeOK, Labels
      <4> QED
        BY <4>1, <4>2, <4>3, <4>4 DEF TypeOK, Fated
    <3> QED
      BY <3>1, <3>2
  <2>5. ASSUME NEW c \in Callers, flush(c)
        PROVE  TypeOK'
    BY <2>5 DEF flush, Drain, Goto, TypeOK, Labels, Fated, Threads
  <2>6. ASSUME NEW c \in Callers, stop(c) \/ SetStopped(c)
        PROVE  TypeOK'
    BY <2>6 DEF stop, SetStopped, Goto, TypeOK, Labels, Fated, Threads
  <2>7. ASSUME NEW c \in Callers, FinalFlush(c)
        PROVE  TypeOK'
    <3>1. CASE buffer = {}
      BY <2>7, <3>1 DEF FinalFlush, Goto, TypeOK, Labels, Fated, Threads
    <3>2. CASE buffer # {}
      <4>1. batch' \in [Threads -> SUBSET Events] /\ pc' = [pc EXCEPT ![c] = "sending"]
        BY <2>7, <3>2 DEF FinalFlush, Drain, Goto, TypeOK, Labels, Threads
      <4>2. /\ buffer' = {} /\ queue_bytes' = 0
            /\ UNCHANGED <<closing, closed>>
        BY <2>7, <3>2 DEF FinalFlush, Drain
      <4>3. UNCHANGED <<flush_event, stopped, sent, dropped, attempt, seen, known,
                        copies, kind, owed, forks, fate>>
        BY <2>7 DEF FinalFlush
      <4>4. pc' \in [Threads -> Labels]
        BY <4>1 DEF TypeOK, Labels
      <4> QED
        BY <4>1, <4>2, <4>3, <4>4 DEF TypeOK, Fated
    <3> QED
      BY <3>1, <3>2
  <2>8. CASE RunGuard
    BY <2>8, SettleType, DropType DEF RunGuard, Drop, TypeOK, DropReasons, Threads
  <2>9. ASSUME NEW c \in Callers, Raise(c)
        PROVE  TypeOK'
    BY <2>9, SettleType DEF Raise, TypeOK, Threads
  <2>10. ASSUME NEW t \in Threads, Unsent(t)
         PROVE  TypeOK'
    BY <2>10, SettleType, DropType DEF Unsent, Drop, TypeOK, DropReasons
  <2>11. ASSUME NEW t \in Threads, BeginAttempts(t)
         PROVE  TypeOK'
    BY <2>11 DEF BeginAttempts, Goto, TypeOK, Labels, Fated
  <2>12. ASSUME NEW t \in Threads
         PROVE  AfterStore(t) \in [Events -> Nat]
    BY DEF AfterStore, TypeOK
  <2>13. ASSUME NEW t \in Threads, AttemptSucceeds(t)
         PROVE  TypeOK'
    BY <2>12, <2>13 DEF AttemptSucceeds, Store, Goto, TypeOK, Labels, Fated
  <2>14. ASSUME NEW t \in Threads, CountSent(t)
         PROVE  TypeOK'
    <3>1. Cardinality(batch[t]) \in Nat
      BY FS_Subset, FS_CardinalityType DEF TypeOK
    <3> QED
      BY <2>14, <3>1, SettleType DEF CountSent, TypeOK
  <2>15. ASSUME NEW t \in Threads, Retry(t)
         PROVE  TypeOK'
    <3>1. attempt' \in [Threads -> 0..MaxAttempts-1]
      BY <2>15 DEF Retry, LastAttempt, TypeOK
    <3>2. known' \subseteq Threads /\ copies' \in [Events -> Nat]
      BY <2>12, <2>15 DEF Retry, ReachesStore, Store, TypeOK
    <3> QED
      BY <2>15, <3>1, <3>2 DEF Retry, TypeOK, Fated
  <2>16. ASSUME NEW t \in Threads, GiveUp(t)
         PROVE  TypeOK'
    BY <2>12, <2>16, SettleType, DropType DEF GiveUp, Drop, TypeOK, DropReasons
  <2>17. CASE Fork
    <3>1. /\ pc' \in [Threads -> Labels]
          /\ fate' \in [Events -> Fates]
      BY <2>17 DEF Fork, TypeOK, Labels, Fates
    <3>2. forks' \in 0..MaxForks
      BY <2>17 DEF Fork, TypeOK
    <3>3. /\ attempt' \in [Threads -> 0..MaxAttempts-1]
          /\ batch' \in [Threads -> SUBSET Events]
          /\ seen' \in [Threads -> Nat]
          /\ copies' \in [Events -> Nat]
          /\ dropped' \in [DropReasons -> Nat]
      BY <2>17 DEF Fork, Reinit
    <3>4. /\ buffer' = {} /\ queue_bytes' = 0 /\ sent' = 0
          /\ flush_event' = FALSE /\ stopped' = FALSE /\ closed' = FALSE
          /\ closing' = {} /\ known' = {} /\ owed' = {} /\ kind' = kind
      BY <2>17 DEF Fork, Reinit
    <3>5. /\ flush_event' \in BOOLEAN /\ stopped' \in BOOLEAN /\ closed' \in BOOLEAN
          /\ kind' \in [Events -> Kinds]
      BY <3>4 DEF TypeOK
    <3>6. /\ buffer' \subseteq Events /\ queue_bytes' \in Int /\ sent' \in Nat
          /\ closing' \subseteq Callers /\ known' \subseteq Threads
          /\ owed' \subseteq Fated("accepted")'
      BY <3>4
    <3> QED
      BY <3>1, <3>2, <3>3, <3>5, <3>6 DEF TypeOK
  <2>18. CASE UNCHANGED vars
    BY <2>18 DEF vars, TypeOK, Fated
  <2>19. QED
    BY <2>1, <2>2, <2>3, <2>4, <2>5, <2>6, <2>7, <2>8, <2>9, <2>10, <2>11,
       <2>13, <2>14, <2>15, <2>16, <2>17, <2>18
       DEF Next, enqueue, WorkerStep, CallerStep, Sends, Threads
<1>3. QED
  BY <1>1, <1>2, PTL DEF Spec

-------------------------------------------------------------------------------
(* Conservation of events.  A batch is in hand only inside _send. *)

InSend == {"sending", "attempting", "counting"}

Account ==
    /\ NoneLostNoneTwice
    /\ \A t \in Threads : batch[t] # {} => pc[t] \in InSend

\* Steps that move no event.
LEMMA AccountKept ==
  ASSUME Account, UNCHANGED <<buffer, batch, fate>>,
         \A t \in Threads : pc[t] \in InSend => pc'[t] \in InSend
  PROVE  Account'
BY DEF Account, NoneLostNoneTwice, InHand, Fated

\* A drain moves the whole buffer to a thread with nothing in hand.
LEMMA AccountDrained ==
  ASSUME TypeOK, Account, NEW t \in Threads, pc[t] \notin InSend, Drain(t),
         pc' = [pc EXCEPT ![t] = "sending"], fate' = fate
  PROVE  Account'
<1>1. batch[t] = {}
  BY DEF Account
<1>2. /\ batch' = [batch EXCEPT ![t] = buffer]
      /\ buffer' = {}
  BY DEF Drain
<1>3. \A u \in Threads : batch'[u] = IF u = t THEN buffer ELSE batch[u]
  BY <1>2 DEF TypeOK
<1>4. \A u \in Threads : pc'[u] = IF u = t THEN "sending" ELSE pc[u]
  BY DEF TypeOK
<1>5. InHand' = buffer \cup InHand
  BY <1>1, <1>3 DEF InHand
<1>6. \A u, v \in Threads : u # v => batch'[u] \cap batch'[v] = {}
  BY <1>3 DEF Account, NoneLostNoneTwice
<1>7. Fated("accepted")' = Fated("accepted")
  BY DEF Fated
<1> QED
  BY <1>2, <1>3, <1>4, <1>5, <1>6, <1>7 DEF Account, NoneLostNoneTwice, InSend

\* A settled batch leaves the thread's hands and the accepted events.
LEMMA AccountSettled ==
  ASSUME TypeOK, Account, NEW t \in Threads, NEW f, f # "accepted",
         Settle(t, f), buffer' = buffer
  PROVE  Account'
<1>1. \A u \in Threads : batch'[u] = IF u = t THEN {} ELSE batch[u]
  BY DEF Settle, TypeOK
<1>2. \A u \in Threads : u # t => pc'[u] = pc[u]
  BY DEF Settle, Goto, TypeOK
<1>3. InHand' = InHand \ batch[t]
  BY <1>1 DEF InHand, Account, NoneLostNoneTwice
<1>4. Fated("accepted")' = Fated("accepted") \ batch[t]
  BY DEF Settle, Fated
<1>5. (buffer \cup InHand)' = Fated("accepted")'
  BY <1>3, <1>4 DEF Account, NoneLostNoneTwice
<1> QED
  BY <1>1, <1>2, <1>5 DEF Account, NoneLostNoneTwice

\* No step moves an event other than from the buffer to one thread's hands and
\* from there to its end.
LEMMA AccountAlways == Spec => []Account
<1> USE BatcherAssumption
<1>1. Init => Account
  BY DEF Init, Account, NoneLostNoneTwice, InHand, Fated
<1>2. TypeOK /\ Account /\ [Next]_vars => Account'
  <2> SUFFICES ASSUME TypeOK, Account, [Next]_vars
               PROVE  Account'
    OBVIOUS
  <2> USE DEF queueVars, sendVars, histVars
  <2>1. ASSUME NEW e \in Events, Refuse(e)
        PROVE  Account'
    <3>1. Fated("accepted")' = Fated("accepted")
      BY <2>1 DEF Refuse, Emits, Fated, TypeOK
    <3> QED
      BY <2>1, <3>1 DEF Refuse, Account, NoneLostNoneTwice, InHand
  <2>2. ASSUME NEW e \in Events, Accept(e)
        PROVE  Account'
    <3>1. Fated("accepted")' = Fated("accepted") \cup {e} /\ e \notin Fated("accepted")
      BY <2>2 DEF Accept, Emits, Fated, TypeOK
    <3>2. UNCHANGED <<batch, pc>> /\ buffer' = buffer \cup {e}
      BY <2>2 DEF Accept
    <3>3. \A t \in Threads : e \notin batch[t]
      BY <3>1 DEF Account, NoneLostNoneTwice, InHand
    <3> QED
      BY <3>1, <3>2, <3>3 DEF Account, NoneLostNoneTwice, InHand
  <2>3. CASE CheckStopped \/ Wait \/ Clear
    BY <2>3, AccountKept DEF CheckStopped, Wait, Clear, Goto, TypeOK, InSend
  <2>4. CASE WorkerDrains
    <3>1. CASE buffer = {}
      BY <2>4, <3>1, AccountKept DEF WorkerDrains, Goto, TypeOK, InSend
    <3>2. CASE buffer # {}
      BY <2>4, <3>2, AccountDrained DEF WorkerDrains, Goto, InSend, Threads
    <3> QED
      BY <3>1, <3>2
  <2>5. ASSUME NEW c \in Callers, flush(c)
        PROVE  Account'
    BY <2>5, AccountDrained DEF flush, Goto, InSend, Threads
  <2>6. ASSUME NEW c \in Callers, stop(c) \/ SetStopped(c)
        PROVE  Account'
    BY <2>6, AccountKept DEF stop, SetStopped, Goto, TypeOK, InSend
  <2>7. ASSUME NEW c \in Callers, FinalFlush(c)
        PROVE  Account'
    <3>1. CASE buffer = {}
      BY <2>7, <3>1, AccountKept DEF FinalFlush, Goto, TypeOK, InSend
    <3>2. CASE buffer # {}
      BY <2>7, <3>2, AccountDrained DEF FinalFlush, Goto, InSend, Threads
    <3> QED
      BY <3>1, <3>2
  <2>8. CASE RunGuard
    BY <2>8, AccountSettled DEF RunGuard, Drop, Threads
  <2>9. ASSUME NEW c \in Callers, Raise(c)
        PROVE  Account'
    BY <2>9, AccountSettled DEF Raise, Threads
  <2>10. ASSUME NEW t \in Threads, Unsent(t) \/ CountSent(t) \/ GiveUp(t)
         PROVE  Account'
    BY <2>10, AccountSettled DEF Unsent, CountSent, GiveUp, Drop
  <2>11. ASSUME NEW t \in Threads, BeginAttempts(t) \/ AttemptSucceeds(t) \/ Retry(t)
         PROVE  Account'
    BY <2>11, AccountKept DEF BeginAttempts, AttemptSucceeds, Retry, Goto, TypeOK, InSend
  <2>12. CASE Fork
    <3>1. buffer' = {} /\ batch' = [t \in Threads |-> {}]
      BY <2>12 DEF Fork, Reinit
    <3>2. Fated("accepted")' = {}
      BY <2>12 DEF Fork, Fated
    <3> QED
      BY <3>1, <3>2 DEF Account, NoneLostNoneTwice, InHand
  <2>13. CASE UNCHANGED vars
    BY <2>13, AccountKept DEF vars
  <2>14. QED
    BY <2>1, <2>2, <2>3, <2>4, <2>5, <2>6, <2>7, <2>8, <2>9, <2>10, <2>11,
       <2>12, <2>13
       DEF Next, enqueue, WorkerStep, CallerStep, Sends, Threads
<1>3. QED
  BY <1>1, <1>2, BatcherTypeCorrect, PTL DEF Spec

\* Whatever the threads do, every accepted event is in the buffer or in the
\* hands of exactly one thread until it is settled.
THEOREM NoneEverLostOrDoubled == Spec => []NoneLostNoneTwice
<1>1. Account => NoneLostNoneTwice
  BY DEF Account
<1> QED
  BY <1>1, AccountAlways, PTL

-------------------------------------------------------------------------------
(* What stop() promises.  A thread inside stop() that has begun its final  *)
(* flush has emptied the buffer of everything queued before _stopped, and  *)
(* since _stopped is set nothing more is owed.                             *)

StopUnderWay ==
    /\ closed => stopped /\ buffer \cap owed = {}
    /\ \A t \in closing : /\ pc[t] \in InSend \cup {"stopping", "joining"}
                          /\ pc[t] \in InSend => stopped /\ buffer \cap owed = {}
    /\ \A t \in Threads : pc[t] = "joining" => stopped

\* Steps that move no event and keep every thread where it is in stop().
LEMMA StopKept ==
  ASSUME StopUnderWay,
         UNCHANGED <<buffer, owed, closing>>, UNCHANGED stopped, UNCHANGED closed,
         \A t \in Threads : pc'[t] = "joining" => pc[t] = "joining",
         \A t \in closing : pc'[t] = pc[t] \/ (pc[t] \in InSend /\ pc'[t] \in InSend)
  PROVE  StopUnderWay'
BY DEF StopUnderWay

\* A drain leaves nothing that is owed.
LEMMA StopDrained ==
  ASSUME TypeOK, StopUnderWay, NEW t \in Threads,
         t \in closing => pc[t] = "joining",
         buffer' = {}, pc' = [pc EXCEPT ![t] = "sending"],
         UNCHANGED <<stopped, closing, closed>>
  PROVE  StopUnderWay'
BY DEF StopUnderWay, InSend, TypeOK

\* A thread that settles its batch ends the stop() it may be in.
LEMMA StopSettled ==
  ASSUME TypeOK, StopUnderWay, NEW t \in Threads, NEW f, pc[t] \in InSend,
         Settle(t, f), UNCHANGED <<buffer, stopped>>
  PROVE  StopUnderWay'
<1>1. /\ closing' = closing \ {t}
      /\ owed' \subseteq owed
      /\ closed' => closed \/ t \in closing
  BY DEF Settle
<1>2. \A u \in Threads : u # t => pc'[u] = pc[u]
  BY DEF Settle, Goto, TypeOK
<1>3. pc'[t] # "joining"
  BY DEF Settle, Goto, TypeOK
<1>4. closing \subseteq Threads
  BY DEF TypeOK, Threads
<1> QED
  BY <1>1, <1>2, <1>3, <1>4 DEF StopUnderWay

\* When a stop() has run its course, whoever called it and however long the
\* thread took to end, nothing queued before it is left in the buffer.
THEOREM StopAlwaysFlushes == Spec => []StopFlushes
<1> USE BatcherAssumption
<1>1. Init => StopUnderWay
  BY DEF Init, StopUnderWay
<1>2. TypeOK /\ StopUnderWay /\ [Next]_vars => StopUnderWay'
  <2> SUFFICES ASSUME TypeOK, StopUnderWay, [Next]_vars
               PROVE  StopUnderWay'
    OBVIOUS
  <2> USE DEF queueVars, sendVars, histVars
  <2>0. closing \subseteq Callers /\ Worker \notin closing /\ closing \subseteq Threads
    BY DEF TypeOK, Threads
  <2>1. ASSUME NEW e \in Events, Refuse(e)
        PROVE  StopUnderWay'
    <3>1. UNCHANGED <<buffer, owed, closing, pc>> /\ UNCHANGED stopped /\ UNCHANGED closed
      BY <2>1 DEF Refuse
    <3> QED
      BY <3>1, StopKept
  <2>2. ASSUME NEW e \in Events, Accept(e)
        PROVE  StopUnderWay'
    <3>1. /\ UNCHANGED <<stopped, pc, closing, closed>>
          /\ buffer' = buffer \cup {e}
          /\ stopped => owed' = owed
      BY <2>2 DEF Accept
    <3>2. e \notin owed
      BY <2>2 DEF Accept, Emits, TypeOK, Fated
    <3> QED
      BY <3>1, <3>2 DEF StopUnderWay
  <2>3. CASE CheckStopped \/ Wait \/ Clear
    <3>1. UNCHANGED <<buffer, owed, closing>> /\ UNCHANGED stopped /\ UNCHANGED closed
      BY <2>3 DEF CheckStopped, Wait, Clear
    <3>2. \A t \in Threads : t # Worker => pc'[t] = pc[t]
      BY <2>3 DEF CheckStopped, Wait, Clear, Goto, TypeOK
    <3>3. pc'[Worker] # "joining"
      BY <2>3 DEF CheckStopped, Wait, Clear, Goto, TypeOK, Threads
    <3> QED
      <4>1. \A t \in Threads : pc'[t] = "joining" => pc[t] = "joining"
        BY <3>2, <3>3
      <4>2. \A t \in closing : pc'[t] = pc[t]
        BY <3>2, <2>0 DEF Threads
      <4> QED
        BY <3>1, <4>1, <4>2, StopKept
  <2>4. CASE WorkerDrains
    <3>1. CASE buffer = {}
      <4>1. UNCHANGED <<buffer, owed, closing>> /\ UNCHANGED stopped /\ UNCHANGED closed
        BY <2>4, <3>1 DEF WorkerDrains
      <4>2. \A t \in Threads : pc'[t] = IF t = Worker THEN "top" ELSE pc[t]
        BY <2>4, <3>1 DEF WorkerDrains, Goto, TypeOK
      <4> QED
        <5>1. \A t \in Threads : pc'[t] = "joining" => pc[t] = "joining"
          BY <4>2
        <5>2. \A t \in closing : pc'[t] = pc[t]
          BY <4>2, <2>0 DEF Threads
        <5> QED
          BY <4>1, <5>1, <5>2, StopKept
    <3>2. CASE buffer # {}
      BY <2>4, <2>0, <3>2, StopDrained DEF WorkerDrains, Drain, Goto, Threads
    <3> QED
      BY <3>1, <3>2
  <2>5. ASSUME NEW c \in Callers, flush(c)
        PROVE  StopUnderWay'
    <3>1. c \notin closing
      <4>1. pc[c] = "idle"
        BY <2>5 DEF flush
      <4>2. pc[c] \notin InSend \cup {"stopping", "joining"}
        BY <4>1 DEF InSend
      <4> QED
        BY <4>2 DEF StopUnderWay
    <3> QED
      BY <2>5, <3>1, StopDrained DEF flush, Drain, Goto, Threads
  <2>6. ASSUME NEW c \in Callers, stop(c)
        PROVE  StopUnderWay'
    <3>1. /\ closing' = closing \cup {c}
          /\ UNCHANGED <<buffer, owed, stopped, closed>>
      BY <2>6 DEF stop
    <3>2. \A t \in Threads : pc'[t] = IF t = c THEN "stopping" ELSE pc[t]
      BY <2>6 DEF stop, Goto, TypeOK
    <3> QED
      BY <3>1, <3>2, <2>0 DEF StopUnderWay, InSend, Threads
  <2>7. ASSUME NEW c \in Callers, SetStopped(c)
        PROVE  StopUnderWay'
    <3>1. /\ UNCHANGED <<buffer, owed, closing, closed>>
          /\ stopped'
      BY <2>7 DEF SetStopped
    <3>2. \A t \in Threads : pc'[t] = IF t = c THEN "joining" ELSE pc[t]
      BY <2>7 DEF SetStopped, Goto, TypeOK
    <3> QED
      BY <3>1, <3>2, <2>0 DEF StopUnderWay, InSend, Threads
  <2>8. ASSUME NEW c \in Callers, FinalFlush(c)
        PROVE  StopUnderWay'
    <3>1. CASE buffer = {}
      <4>1. /\ UNCHANGED <<owed, stopped>> /\ buffer' = {} /\ closing' = closing \ {c}
        BY <2>8, <3>1 DEF FinalFlush
      <4>2. \A t \in Threads : pc'[t] = IF t = c THEN "idle" ELSE pc[t]
        BY <2>8, <3>1 DEF FinalFlush, Goto, TypeOK
      <4>3. stopped
        BY <2>8 DEF FinalFlush, StopUnderWay, Threads
      <4> QED
        BY <4>1, <4>2, <4>3, <2>0 DEF StopUnderWay, InSend, Threads
    <3>2. CASE buffer # {}
      BY <2>8, <3>2, StopDrained DEF FinalFlush, Drain, Goto, Threads
    <3> QED
      BY <3>1, <3>2
  <2>9. CASE RunGuard
    BY <2>9, StopSettled DEF RunGuard, Drop, Threads, InSend
  <2>10. ASSUME NEW c \in Callers, Raise(c)
         PROVE  StopUnderWay'
    BY <2>10, StopSettled DEF Raise, Threads, InSend
  <2>11. ASSUME NEW t \in Threads, Unsent(t) \/ CountSent(t) \/ GiveUp(t)
         PROVE  StopUnderWay'
    BY <2>11, StopSettled DEF Unsent, CountSent, GiveUp, Drop, InSend
  <2>12. ASSUME NEW t \in Threads, BeginAttempts(t) \/ AttemptSucceeds(t) \/ Retry(t)
         PROVE  StopUnderWay'
    <3>1. UNCHANGED <<buffer, owed, closing>> /\ UNCHANGED stopped /\ UNCHANGED closed
      BY <2>12 DEF BeginAttempts, AttemptSucceeds, Retry
    <3>2. \A u \in Threads : u # t => pc'[u] = pc[u]
      BY <2>12 DEF BeginAttempts, AttemptSucceeds, Retry, Goto, TypeOK
    <3>3. pc[t] \in InSend /\ pc'[t] \in InSend
      BY <2>12 DEF BeginAttempts, AttemptSucceeds, Retry, Goto, TypeOK, InSend
    <3> QED
      <4>1. \A u \in Threads : pc'[u] = "joining" => pc[u] = "joining"
        BY <3>2, <3>3 DEF InSend
      <4>2. \A u \in closing : pc'[u] = pc[u] \/ (pc[u] \in InSend /\ pc'[u] \in InSend)
        BY <3>2, <3>3, <2>0
      <4> QED
        BY <3>1, <4>1, <4>2, StopKept
  <2>13. CASE Fork
    BY <2>13 DEF Fork, Reinit, StopUnderWay
  <2>14. CASE UNCHANGED vars
    <3>1. UNCHANGED <<buffer, owed, closing, pc>> /\ UNCHANGED stopped /\ UNCHANGED closed
      BY <2>14 DEF vars
    <3> QED
      BY <3>1, StopKept
  <2>15. QED
    BY <2>1, <2>2, <2>3, <2>4, <2>5, <2>6, <2>7, <2>8, <2>9, <2>10, <2>11,
       <2>12, <2>13, <2>14
       DEF Next, enqueue, WorkerStep, CallerStep, Sends, Threads
<1>3. StopUnderWay => StopFlushes
  BY DEF StopUnderWay, StopFlushes
<1>4. QED
  BY <1>1, <1>2, <1>3, BatcherTypeCorrect, PTL DEF Spec

-------------------------------------------------------------------------------
(* The wake-up of a full batch. *)

\* Steps that leave the buffer and the event alone, and the daemon thread
\* draining if it was.
LEMMA WakeKept ==
  ASSUME FullBatchWakes, buffer' = buffer, UNCHANGED flush_event,
         pc[Worker] = "draining" => pc'[Worker] = "draining"
  PROVE  FullBatchWakes'
BY DEF FullBatchWakes

\* An empty buffer holds no full batch.
LEMMA WakeEmpty ==
  ASSUME buffer' = {}
  PROVE  FullBatchWakes'
BY FS_EmptySet, BatcherAssumption DEF FullBatchWakes

\* A full batch never waits for the flush interval, whatever the batch size
\* and however many callers drain the queue besides the daemon thread.
THEOREM FullBatchAlwaysWakes == Spec => []FullBatchWakes
<1> USE BatcherAssumption
<1>1. Init => FullBatchWakes
  BY FS_EmptySet DEF Init, FullBatchWakes
<1>2. TypeOK /\ Account /\ FullBatchWakes /\ [Next]_vars => FullBatchWakes'
  <2> SUFFICES ASSUME TypeOK, Account, FullBatchWakes, [Next]_vars
               PROVE  FullBatchWakes'
    OBVIOUS
  <2> USE DEF queueVars, sendVars, histVars
  <2>1. ASSUME NEW e \in Events, Refuse(e)
        PROVE  FullBatchWakes'
    BY <2>1, WakeKept DEF Refuse
  <2>2. ASSUME NEW e \in Events, Accept(e)
        PROVE  FullBatchWakes'
    <3>1. buffer' = buffer \cup {e} /\ pc' = pc
      BY <2>2 DEF Accept
    <3>2. e \notin buffer
      BY <2>2 DEF Accept, Emits, Account, NoneLostNoneTwice, Fated
    <3>3. Cardinality(buffer') = Cardinality(buffer) + 1
      <4>1. IsFiniteSet(buffer)
        BY FS_Subset DEF TypeOK
      <4> QED
        BY <3>1, <3>2, <4>1, FS_AddElement
    <3>4. Cardinality(buffer) + 1 >= BatchSize => flush_event'
      BY <2>2 DEF Accept
    <3> QED
      BY <3>3, <3>4 DEF FullBatchWakes
  <2>3. CASE CheckStopped \/ Wait
    BY <2>3, WakeKept DEF CheckStopped, Wait, Goto, TypeOK
  <2>4. CASE Clear
    BY <2>4 DEF Clear, Goto, TypeOK, FullBatchWakes, Threads
  <2>5. CASE WorkerDrains
    BY <2>5, WakeEmpty DEF WorkerDrains, Drain
  <2>6. ASSUME NEW c \in Callers, flush(c) \/ FinalFlush(c)
        PROVE  FullBatchWakes'
    BY <2>6, WakeEmpty DEF flush, FinalFlush, Drain
  <2>7. ASSUME NEW c \in Callers, stop(c)
        PROVE  FullBatchWakes'
    BY <2>7, WakeKept DEF stop, Goto, TypeOK
  <2>8. ASSUME NEW c \in Callers, SetStopped(c)
        PROVE  FullBatchWakes'
    BY <2>8 DEF SetStopped, FullBatchWakes
  <2>9. CASE RunGuard
    BY <2>9, WakeKept DEF RunGuard
  <2>10. ASSUME NEW c \in Callers, Raise(c)
         PROVE  FullBatchWakes'
    BY <2>10, WakeKept DEF Raise, Settle, Goto, TypeOK
  <2>11. ASSUME NEW t \in Threads,
                Unsent(t) \/ CountSent(t) \/ GiveUp(t) \/ BeginAttempts(t)
                  \/ AttemptSucceeds(t) \/ Retry(t)
         PROVE  FullBatchWakes'
    <3>1. buffer' = buffer /\ UNCHANGED flush_event
      BY <2>11 DEF Unsent, CountSent, GiveUp, BeginAttempts, AttemptSucceeds, Retry
    <3>2. \A u \in Threads : u # t => pc'[u] = pc[u]
      BY <2>11 DEF Unsent, CountSent, GiveUp, BeginAttempts, AttemptSucceeds,
                   Retry, Drop, Settle, Goto, TypeOK
    <3>3. pc[t] # "draining"
      BY <2>11 DEF Unsent, CountSent, GiveUp, BeginAttempts, AttemptSucceeds, Retry
    <3> QED
      BY <3>1, <3>2, <3>3, WakeKept DEF Threads
  <2>12. CASE Fork
    BY <2>12, WakeEmpty DEF Fork, Reinit
  <2>13. CASE UNCHANGED vars
    BY <2>13, WakeKept DEF vars
  <2>14. QED
    BY <2>1, <2>2, <2>3, <2>4, <2>5, <2>6, <2>7, <2>8, <2>9, <2>10, <2>11,
       <2>12, <2>13
       DEF Next, enqueue, WorkerStep, CallerStep, Sends, Threads
<1>3. QED
  BY <1>1, <1>2, BatcherTypeCorrect, AccountAlways, PTL DEF Spec

-------------------------------------------------------------------------------
(* What the control plane stores.  A batch in hand is stored exactly when  *)
(* its key is known, and only a thread that has made an attempt has a key  *)
(* that can be known.                                                      *)

Stored ==
    /\ \A e \in Events : copies[e] \in {0, 1}
    /\ \A e \in Events : fate[e] = "new" \/ e \in buffer => copies[e] = 0
    /\ \A t \in Threads : \A e \in batch[t] :
           copies[e] = IF t \in known THEN 1 ELSE 0
    /\ \A t \in Threads : pc[t] = "counting" => t \in known
    /\ \A t \in known : pc[t] \in {"attempting", "counting"}
    /\ \A e \in Events : fate[e] = "sent" => copies[e] = 1

\* Steps that store nothing and move no event.
LEMMA StoredKept ==
  ASSUME Stored, UNCHANGED <<copies, known, batch, buffer, fate>>,
         \A t \in Threads : pc'[t] = "counting" => pc[t] = "counting",
         \A t \in known : pc'[t] \in {"attempting", "counting"}
  PROVE  Stored'
BY DEF Stored

\* A drained batch has never been sent.
LEMMA StoredDrained ==
  ASSUME TypeOK, Account, Stored, NEW t \in Threads,
         pc[t] \notin InSend, Drain(t), pc' = [pc EXCEPT ![t] = "sending"],
         UNCHANGED <<copies, known, fate>>
  PROVE  Stored'
<1>1. \A u \in Threads : batch'[u] = IF u = t THEN buffer ELSE batch[u]
  BY DEF Drain, TypeOK
<1>2. \A u \in Threads : pc'[u] = IF u = t THEN "sending" ELSE pc[u]
  BY DEF TypeOK
<1>3. t \notin known /\ known \subseteq Threads
  BY DEF Stored, InSend, TypeOK
<1>4. buffer \subseteq Events /\ buffer' = {}
  BY DEF TypeOK, Drain
<1> QED
  BY <1>1, <1>2, <1>3, <1>4 DEF Stored

\* A settled batch keeps the copies it has when the request is over.
LEMMA StoredSettled ==
  ASSUME TypeOK, Account, Stored, NEW t \in Threads, pc[t] \in InSend,
         NEW f, f # "new", Settle(t, f), buffer' = buffer,
         \A e \in Events : e \notin batch[t] => copies'[e] = copies[e],
         \A e \in batch[t] : copies'[e] \in {0, 1},
         f = "sent" => \A e \in batch[t] : copies'[e] = 1
  PROVE  Stored'
<1>1. \A u \in Threads : batch'[u] = IF u = t THEN {} ELSE batch[u]
  BY DEF Settle, TypeOK
<1>2. \A u \in Threads : u # t => pc'[u] = pc[u]
  BY DEF Settle, Goto, TypeOK
<1>3. pc'[t] # "counting"
  BY DEF Settle, Goto, TypeOK
<1>4. known' = known \ {t} /\ known \subseteq Threads
  BY DEF Settle, TypeOK
<1>5. \A e \in Events : fate'[e] = IF e \in batch[t] THEN f ELSE fate[e]
  BY DEF Settle
<1>6. \A u \in Threads : \A e \in batch[u] : u # t => e \in Events /\ e \notin batch[t]
  BY DEF Account, NoneLostNoneTwice, TypeOK
<1>7. \A e \in buffer : e \in Events /\ e \notin batch[t]
  BY DEF Account, NoneLostNoneTwice, TypeOK
<1>8. batch[t] \subseteq Events
  BY DEF TypeOK
<1>9. \A e \in Events : copies'[e] \in {0, 1}
  BY <1>8 DEF Stored
<1>10. \A e \in Events : fate'[e] = "new" \/ e \in buffer' => copies'[e] = 0
  BY <1>5, <1>7 DEF Stored
<1>11. \A u \in Threads : \A e \in batch'[u] :
          copies'[e] = IF u \in known' THEN 1 ELSE 0
  BY <1>1, <1>4, <1>6 DEF Stored
<1>12. \A e \in Events : fate'[e] = "sent" => copies'[e] = 1
  BY <1>5, <1>8 DEF Stored
<1> QED
  BY <1>2, <1>3, <1>4, <1>9, <1>10, <1>11, <1>12 DEF Stored

\* An attempt that reaches the control plane stores the batch at most once.
LEMMA StoredByAttempt ==
  ASSUME TypeOK, Account, Stored, NEW t \in Threads, Store(t), pc[t] = "attempting",
         UNCHANGED <<batch, buffer, fate>>,
         \A u \in Threads : u # t => pc'[u] = pc[u],
         pc'[t] \in {"attempting", "counting"}
  PROVE  Stored'
<1>1. \A e \in Events : copies'[e] = IF e \in batch[t] THEN 1 ELSE copies[e]
  BY DEF Store, AfterStore, Stored, TypeOK
<1>2. known' = known \cup {t} /\ known \subseteq Threads
  BY DEF Store, TypeOK
<1>3. \A u \in Threads : \A e \in batch[u] : e \in Events /\ (u # t => e \notin batch[t])
  BY DEF Account, NoneLostNoneTwice, TypeOK
<1>4. \A e \in batch[t] : fate[e] = "accepted" /\ e \notin buffer
  BY DEF Account, NoneLostNoneTwice, InHand, Fated
<1>5. \A u \in Threads : \A e \in batch'[u] :
         copies'[e] = IF u \in known' THEN 1 ELSE 0
  BY <1>1, <1>2, <1>3 DEF Stored
<1>6. \A e \in Events : fate'[e] = "new" \/ e \in buffer' => copies'[e] = 0
  BY <1>1, <1>4 DEF Stored
<1>7. /\ \A u \in Threads : pc'[u] = "counting" => u \in known'
      /\ \A u \in known' : pc'[u] \in {"attempting", "counting"}
  BY <1>2 DEF Stored
<1>8. \A e \in Events : fate'[e] = "sent" => copies'[e] = 1
  BY <1>1 DEF Stored
<1>9. \A e \in Events : copies'[e] \in {0, 1}
  BY <1>1 DEF Stored
<1> QED
  BY <1>5, <1>6, <1>7, <1>8, <1>9 DEF Stored

\* Whatever answers are lost and however often a batch is retried, nothing is
\* stored twice and nothing counts as sent that is not stored.
THEOREM AlwaysStoredOnce == Spec => []StoredOnce
<1> USE BatcherAssumption
<1>1. Init => Stored
  BY DEF Init, Stored
<1>2. TypeOK /\ Account /\ Stored /\ [Next]_vars => Stored'
  <2> SUFFICES ASSUME TypeOK, Account, Stored, [Next]_vars
               PROVE  Stored'
    OBVIOUS
  <2> USE DEF queueVars, sendVars, histVars
  <2>0. known \subseteq Threads
    BY DEF TypeOK
  <2>1. ASSUME NEW e \in Events, enqueue(e)
        PROVE  Stored'
    <3>1. UNCHANGED <<copies, known, batch, pc>>
      BY <2>1 DEF enqueue, Refuse, Accept
    <3>2. fate[e] = "new" /\ buffer' \subseteq buffer \cup {e}
      BY <2>1 DEF enqueue, Refuse, Accept, Emits
    <3>3. \A d \in Events : /\ fate'[d] = "new" => fate[d] = "new"
                            /\ fate'[d] = "sent" => fate[d] = "sent"
      BY <2>1 DEF enqueue, Refuse, Accept, TypeOK
    <3> QED
      BY <3>1, <3>2, <3>3 DEF Stored
  <2>2. ASSUME NEW t \in Threads,
               UNCHANGED <<copies, known, batch, buffer, fate>>,
               pc[t] \notin {"attempting", "counting"},
               NEW label, label # "counting", Goto(t, label)
        PROVE  Stored'
    <3>1. \A u \in Threads : pc'[u] = IF u = t THEN label ELSE pc[u]
      BY <2>2 DEF Goto, TypeOK
    <3> QED
      BY <2>2, <2>0, <3>1, StoredKept DEF Stored
  <2>3. CASE CheckStopped
    BY <2>2, <2>3 DEF CheckStopped, Threads
  <2>4. CASE Wait \/ Clear
    BY <2>2, <2>4 DEF Wait, Clear, Threads
  <2>5. CASE WorkerDrains
    <3>1. CASE buffer = {}
      BY <2>2, <2>5, <3>1 DEF WorkerDrains, Threads
    <3>2. CASE buffer # {}
      BY <2>5, <3>2, StoredDrained DEF WorkerDrains, Goto, InSend, Threads
    <3> QED
      BY <3>1, <3>2
  <2>6. ASSUME NEW c \in Callers, flush(c)
        PROVE  Stored'
    BY <2>6, StoredDrained DEF flush, Goto, InSend, Threads
  <2>7. ASSUME NEW c \in Callers, stop(c) \/ SetStopped(c)
        PROVE  Stored'
    BY <2>2, <2>7 DEF stop, SetStopped, Threads
  <2>8. ASSUME NEW c \in Callers, FinalFlush(c)
        PROVE  Stored'
    <3>1. CASE buffer = {}
      BY <2>2, <2>8, <3>1 DEF FinalFlush, Threads
    <3>2. CASE buffer # {}
      BY <2>8, <3>2, StoredDrained DEF FinalFlush, Goto, InSend, Threads
    <3> QED
      BY <3>1, <3>2
  <2>9. ASSUME NEW t \in Threads, NEW f, f # "new", f # "sent", Settle(t, f),
               pc[t] \in InSend, UNCHANGED <<buffer, copies>>
        PROVE  Stored'
    <3>1. \A e \in batch[t] : copies'[e] \in {0, 1}
      BY <2>9 DEF Stored, TypeOK
    <3> QED
      BY <2>9, <3>1, StoredSettled
  <2>10. CASE RunGuard
    BY <2>9, <2>10 DEF RunGuard, Drop, Threads, InSend
  <2>11. ASSUME NEW c \in Callers, Raise(c)
         PROVE  Stored'
    BY <2>9, <2>11 DEF Raise, Threads, InSend
  <2>12. ASSUME NEW t \in Threads, Unsent(t)
         PROVE  Stored'
    BY <2>9, <2>12 DEF Unsent, Drop, InSend
  <2>13. ASSUME NEW t \in Threads, CountSent(t)
         PROVE  Stored'
    <3>1. \A e \in batch[t] : copies[e] = 1
      BY <2>13 DEF CountSent, Stored
    <3> QED
      BY <2>13, <3>1, StoredSettled DEF CountSent, InSend
  <2>14. ASSUME NEW t \in Threads, GiveUp(t)
         PROVE  Stored'
    <3>1. /\ \A e \in Events : e \notin batch[t] => copies'[e] = copies[e]
          /\ \A e \in batch[t] : copies'[e] \in {0, 1}
      <4>1. copies' = copies \/ copies' = AfterStore(t)
        BY <2>14 DEF GiveUp
      <4> QED
        BY <4>1 DEF AfterStore, Stored, TypeOK
    <3> QED
      BY <2>14, <3>1, StoredSettled DEF GiveUp, Drop, InSend
  <2>15. ASSUME NEW t \in Threads, BeginAttempts(t)
         PROVE  Stored'
    BY <2>2, <2>15 DEF BeginAttempts
  <2>16. ASSUME NEW t \in Threads, AttemptSucceeds(t)
         PROVE  Stored'
    BY <2>16, StoredByAttempt DEF AttemptSucceeds, Goto, TypeOK
  <2>17. ASSUME NEW t \in Threads, Retry(t)
         PROVE  Stored'
    <3>1. CASE Store(t)
      BY <2>17, <3>1, StoredByAttempt DEF Retry
    <3>2. CASE UNCHANGED <<known, copies>>
      BY <2>17, <3>2, <2>0, StoredKept DEF Retry, Stored
    <3> QED
      BY <2>17, <3>1, <3>2 DEF Retry, ReachesStore
  <2>18. CASE Fork
    BY <2>18 DEF Fork, Reinit, Stored
  <2>19. CASE UNCHANGED vars
    BY <2>19 DEF vars, Stored
  <2>20. QED
    BY <2>1, <2>3, <2>4, <2>5, <2>6, <2>7, <2>8, <2>10, <2>11, <2>12, <2>13,
       <2>14, <2>15, <2>16, <2>17, <2>18, <2>19
       DEF Next, WorkerStep, CallerStep, Sends, Threads
<1>3. Stored => StoredOnce
  <2> SUFFICES ASSUME Stored
               PROVE  StoredOnce
    OBVIOUS
  <2>1. ASSUME NEW e \in Events
        PROVE  copies[e] <= 1
    <3>1. copies[e] = 0 \/ copies[e] = 1
      BY DEF Stored
    <3> QED
      BY <3>1
  <2>2. \A e \in Fated("sent") : copies[e] = 1
    BY DEF Stored, Fated
  <2> QED
    BY <2>1, <2>2 DEF StoredOnce
<1>4. QED
  BY <1>1, <1>2, <1>3, BatcherTypeCorrect, AccountAlways, PTL DEF Spec

-------------------------------------------------------------------------------
(* The counters.  A value of _events_sent that a thread has read is at     *)
(* most what had been acknowledged when it read it.                        *)

Counted ==
    /\ CountersHonest
    /\ \A t \in Threads : seen[t] <= Cardinality(Fated("sent"))

\* The events of one fate are finitely many.
LEMMA FatedFinite ==
  ASSUME NEW f
  PROVE  IsFiniteSet(Fated(f)) /\ Cardinality(Fated(f)) \in Nat
BY BatcherAssumption, FS_Subset, FS_CardinalityType DEF Fated

\* Steps that settle nothing and count nothing.
LEMMA CountedKept ==
  ASSUME Counted, UNCHANGED <<dropped, sent, seen, fate>>
  PROVE  Counted'
BY DEF Counted, CountersHonest, Fated

\* A settled batch adds its size to the events of its fate and to no others.
LEMMA FateOfBatch ==
  ASSUME TypeOK, Account, NEW t \in Threads, NEW f, f # "accepted", Settle(t, f)
  PROVE  /\ Cardinality(Fated(f)') = Cardinality(Fated(f)) + Cardinality(batch[t])
         /\ \A g : g # f /\ g # "accepted" => Fated(g)' = Fated(g)
         /\ Cardinality(batch[t]) \in Nat
<1>1. batch[t] \subseteq Fated("accepted")
  BY DEF Account, NoneLostNoneTwice, InHand
<1>2. Fated(f)' = Fated(f) \cup batch[t] /\ Fated(f) \cap batch[t] = {}
  BY <1>1 DEF Fated, Settle
<1>3. IsFiniteSet(batch[t]) /\ Cardinality(batch[t]) \in Nat
  BY BatcherAssumption, FS_Subset, FS_CardinalityType DEF TypeOK
<1>4. Cardinality(Fated(f) \cup batch[t]) =
        Cardinality(Fated(f)) + Cardinality(batch[t]) - Cardinality(Fated(f) \cap batch[t])
  BY <1>3, FatedFinite, FS_Union
<1>5. Cardinality(Fated(f) \cap batch[t]) = 0
  BY <1>2, FS_EmptySet
<1>6. Cardinality(Fated(f)') = Cardinality(Fated(f)) + Cardinality(batch[t])
  BY <1>2, <1>3, <1>4, <1>5, FatedFinite
<1>7. \A g : g # f /\ g # "accepted" => Fated(g)' = Fated(g)
  BY <1>1 DEF Fated, Settle
<1> QED
  BY <1>3, <1>6, <1>7

\* A batch that is settled without being counted or sent.
LEMMA CountedRaised ==
  ASSUME TypeOK, Account, Counted, NEW t \in Threads, Settle(t, "raised"),
         UNCHANGED <<dropped, sent, seen>>
  PROVE  Counted'
<1>1. \A r \in DropReasons \cup {"sent"} : Fated(r)' = Fated(r)
  BY FateOfBatch DEF DropReasons
<1> QED
  BY <1>1 DEF Counted, CountersHonest

\* A batch that is dropped adds to one counter.
LEMMA CountedDropped ==
  ASSUME TypeOK, Account, Counted, NEW t \in Threads, NEW r \in DropReasons,
         Drop(t, r), UNCHANGED <<sent, seen>>
  PROVE  Counted'
<1>1. Settle(t, r) /\ r # "accepted" /\ r # "sent"
  BY DEF Drop, DropReasons
<1>2. /\ Cardinality(Fated(r)') = Cardinality(Fated(r)) + Cardinality(batch[t])
      /\ \A g : g # r /\ g # "accepted" => Fated(g)' = Fated(g)
  BY <1>1, FateOfBatch
<1>3. Fated("sent")' = Fated("sent")
  BY <1>1, <1>2
<1>4. \A q \in DropReasons :
         dropped'[q] = IF q = r THEN dropped[r] + Cardinality(batch[t]) ELSE dropped[q]
  BY DEF Drop, TypeOK
<1>5. \A q \in DropReasons : dropped'[q] = Cardinality(Fated(q)')
  <2> SUFFICES ASSUME NEW q \in DropReasons
               PROVE  dropped'[q] = Cardinality(Fated(q)')
    OBVIOUS
  <2>1. dropped[q] = Cardinality(Fated(q))
    BY DEF Counted, CountersHonest
  <2>2. CASE q = r
    BY <1>2, <1>4, <2>1, <2>2
  <2>3. CASE q # r
    BY <1>2, <1>4, <2>1, <2>3 DEF DropReasons
  <2> QED
    BY <2>2, <2>3
<1> QED
  BY <1>3, <1>5 DEF Counted, CountersHonest

\* Every drop is counted once under its reason, and events_sent, whose
\* updates can be lost, never exceeds what was acknowledged.
THEOREM CountersAlwaysHonest == Spec => []CountersHonest
<1> USE BatcherAssumption
<1>1. Init => Counted
  <2> SUFFICES ASSUME Init
               PROVE  Counted
    OBVIOUS
  <2>1. \A f : f # "new" => Fated(f) = {}
    BY DEF Init, Fated
  <2>2. \A r \in DropReasons : Cardinality(Fated(r)) = 0
    BY <2>1, FS_EmptySet DEF DropReasons
  <2>3. Cardinality(Fated("sent")) = 0
    BY <2>1, FS_EmptySet
  <2> QED
    BY <2>2, <2>3 DEF Init, Counted, CountersHonest
<1>2. TypeOK /\ Account /\ Counted /\ [Next]_vars => Counted'
  <2> SUFFICES ASSUME TypeOK, Account, Counted, [Next]_vars
               PROVE  Counted'
    OBVIOUS
  <2> USE DEF queueVars, sendVars, histVars
  <2>1. ASSUME NEW e \in Events, Refuse(e)
        PROVE  Counted'
    <3>1. /\ Fated("backpressure")' = Fated("backpressure") \cup {e}
          /\ e \notin Fated("backpressure")
          /\ \A g : g # "backpressure" /\ g # "new" => Fated(g)' = Fated(g)
      BY <2>1 DEF Refuse, Emits, Fated, TypeOK
    <3>2. Cardinality(Fated("backpressure")') = Cardinality(Fated("backpressure")) + 1
      BY <3>1, FatedFinite, FS_AddElement
    <3>3. \A r \in DropReasons : dropped'[r] =
             IF r = "backpressure" THEN dropped[r] + 1 ELSE dropped[r]
      BY <2>1 DEF Refuse, TypeOK
    <3>4. \A r \in DropReasons : dropped'[r] = Cardinality(Fated(r)')
      BY <3>1, <3>2, <3>3 DEF Counted, CountersHonest, DropReasons
    <3>5. UNCHANGED <<sent, seen>> /\ Fated("sent")' = Fated("sent")
      BY <2>1, <3>1 DEF Refuse
    <3> QED
      BY <3>4, <3>5 DEF Counted, CountersHonest
  <2>2. ASSUME NEW e \in Events, Accept(e)
        PROVE  Counted'
    <3>1. \A g : g # "accepted" /\ g # "new" => Fated(g)' = Fated(g)
      BY <2>2 DEF Accept, Emits, Fated, TypeOK
    <3>2. \A r \in DropReasons \cup {"sent"} : Fated(r)' = Fated(r)
      BY <3>1 DEF DropReasons
    <3>3. UNCHANGED <<dropped, sent, seen>>
      BY <2>2 DEF Accept
    <3> QED
      BY <3>2, <3>3 DEF Counted, CountersHonest
  <2>3. CASE CheckStopped \/ Wait \/ Clear \/ WorkerDrains
    BY <2>3, CountedKept DEF CheckStopped, Wait, Clear, WorkerDrains
  <2>4. ASSUME NEW c \in Callers, flush(c) \/ stop(c) \/ SetStopped(c) \/ FinalFlush(c)
        PROVE  Counted'
    BY <2>4, CountedKept DEF flush, stop, SetStopped, FinalFlush
  <2>5. CASE RunGuard
    BY <2>5, CountedDropped DEF RunGuard, DropReasons, Threads
  <2>6. ASSUME NEW c \in Callers, Raise(c)
        PROVE  Counted'
    BY <2>6, CountedRaised DEF Raise, Threads
  <2>7. ASSUME NEW t \in Threads, Unsent(t) \/ GiveUp(t)
        PROVE  Counted'
    BY <2>7, CountedDropped DEF Unsent, GiveUp, DropReasons
  <2>8. ASSUME NEW t \in Threads, BeginAttempts(t) \/ Retry(t)
        PROVE  Counted'
    BY <2>8, CountedKept DEF BeginAttempts, Retry
  <2>9. ASSUME NEW t \in Threads, AttemptSucceeds(t)
        PROVE  Counted'
    <3>1. UNCHANGED <<dropped, sent, fate>> /\ seen' = [seen EXCEPT ![t] = sent]
      BY <2>9 DEF AttemptSucceeds
    <3>2. \A u \in Threads : seen'[u] = IF u = t THEN sent ELSE seen[u]
      BY <3>1 DEF TypeOK
    <3> QED
      BY <3>1, <3>2 DEF Counted, CountersHonest, Fated
  <2>10. ASSUME NEW t \in Threads, CountSent(t)
         PROVE  Counted'
    <3>1. /\ Cardinality(Fated("sent")') = Cardinality(Fated("sent")) + Cardinality(batch[t])
          /\ \A g : g # "sent" /\ g # "accepted" => Fated(g)' = Fated(g)
          /\ Cardinality(batch[t]) \in Nat
      BY <2>10, FateOfBatch DEF CountSent
    <3>2. /\ sent' = seen[t] + Cardinality(batch[t])
          /\ dropped' = dropped
      BY <2>10 DEF CountSent
    <3>3. \A u \in Threads : seen'[u] = IF u = t THEN 0 ELSE seen[u]
      BY <2>10 DEF CountSent, TypeOK
    <3>4. seen \in [Threads -> Nat] /\ Cardinality(Fated("sent")) \in Nat
      BY FatedFinite DEF TypeOK
    <3>5. \A r \in DropReasons : Fated(r)' = Fated(r)
      BY <3>1 DEF DropReasons
    <3>6. sent' <= Cardinality(Fated("sent")')
      BY <3>1, <3>2, <3>4 DEF Counted
    <3>7. \A u \in Threads : seen'[u] <= Cardinality(Fated("sent")')
      BY <3>1, <3>3, <3>4 DEF Counted
    <3> QED
      BY <3>2, <3>5, <3>6, <3>7 DEF Counted, CountersHonest
  <2>11. CASE Fork
    <3>1. \A f : f # "new" /\ f # "parent" => Fated(f)' = {}
      BY <2>11 DEF Fork, Fated
    <3>2. \A r \in DropReasons : Cardinality(Fated(r)') = 0
      BY <3>1, FS_EmptySet DEF DropReasons
    <3>3. Cardinality(Fated("sent")') = 0
      BY <3>1, FS_EmptySet
    <3> QED
      BY <2>11, <3>2, <3>3 DEF Fork, Reinit, Counted, CountersHonest
  <2>12. CASE UNCHANGED vars
    BY <2>12, CountedKept DEF vars
  <2>13. QED
    BY <2>1, <2>2, <2>3, <2>4, <2>5, <2>6, <2>7, <2>8, <2>9, <2>10, <2>11, <2>12
       DEF Next, enqueue, WorkerStep, CallerStep, Sends, Threads
<1>3. Counted => CountersHonest
  BY DEF Counted
<1>4. QED
  BY <1>1, <1>2, <1>3, BatcherTypeCorrect, AccountAlways, PTL DEF Spec
-------------------------------------------------------------------------------
(* The queue's bounds.  The byte count is the buffer's because an event is  *)
(* counted once, when it enters; the bounds then are what enqueue tests.    *)

QueueCounted == QueueBounded /\ IsFiniteSet(Octets(buffer))

\* An event that enters adds its own bytes.
LEMMA BytesAdded ==
  ASSUME TypeOK, BatcherAssumption, IsFiniteSet(Octets(buffer)),
         NEW e \in Events, e \notin buffer, buffer' = buffer \cup {e}, kind' = kind
  PROVE  IsFiniteSet(Octets(buffer))' /\ Bytes(buffer)' = Bytes(buffer) + ApproxBytes[kind[e]]
<1> DEFINE size == ApproxBytes[kind[e]]
           own == {e} \X (1..size)
<1>1. size \in Nat
  BY DEF TypeOK, BatcherAssumption
<1> HIDE DEF size
<1>2. IsFiniteSet(own) /\ Cardinality(own) = size
  <2>1. IsFiniteSet({e}) /\ Cardinality({e}) = 1
    BY FS_Singleton
  <2>2. IsFiniteSet(1..size) /\ Cardinality(1..size) = size
    BY <1>1, FS_Interval
  <2>3. IsFiniteSet(own) /\ Cardinality(own) = 1 * size
    BY <2>1, <2>2, FS_Product
  <2> QED
    BY <1>1, <2>3
<1>3. Octets(buffer)' = Octets(buffer) \cup own
  BY DEF Octets, size
<1>4. Octets(buffer) \cap own = {}
  BY DEF Octets
<1> HIDE DEF own
<1>5. /\ IsFiniteSet(Octets(buffer) \cup own)
      /\ Cardinality(Octets(buffer) \cup own)
           = Cardinality(Octets(buffer)) + Cardinality(own) - Cardinality(Octets(buffer) \cap own)
  BY <1>2, FS_Union
<1>6. Cardinality(Octets(buffer)) \in Nat /\ Cardinality({}) = 0
  BY FS_CardinalityType, FS_EmptySet
<1>7. Cardinality(Octets(buffer) \cup own) = Cardinality(Octets(buffer)) + size
  <2>1. Cardinality(Octets(buffer) \cap own) = 0
    BY <1>4, <1>6
  <2> QED
    BY <1>1, <1>2, <1>5, <1>6, <2>1
<1> QED
  BY <1>3, <1>5, <1>7 DEF Bytes, size

\* Steps that leave the queue alone, and steps that empty it.
LEMMA CountedKeptOrEmptied ==
  ASSUME BatcherAssumption, QueueCounted,
         \/ UNCHANGED <<buffer, queue_bytes, kind>>
         \/ buffer' = {} /\ queue_bytes' = 0
  PROVE  QueueCounted'
<1>1. CASE UNCHANGED <<buffer, queue_bytes, kind>>
  BY <1>1 DEF QueueCounted, QueueBounded, Bytes, Octets
<1>2. CASE buffer' = {} /\ queue_bytes' = 0
  <2>1. Octets(buffer)' = {}
    BY <1>2 DEF Octets
  <2> QED
    BY <1>2, <2>1, FS_EmptySet DEF QueueCounted, QueueBounded, Bytes, BatcherAssumption
<1> QED
  BY <1>1, <1>2

\* The queue's count and bounds hold however enqueue, the drains of several threads and a
\* fork interleave.
LEMMA QueueAlwaysCounted == Spec => []QueueCounted
<1> USE BatcherAssumption
<1>1. Init => QueueCounted
  <2> SUFFICES ASSUME Init
               PROVE  QueueCounted
    OBVIOUS
  <2>1. buffer = {} /\ queue_bytes = 0 /\ Octets(buffer) = {}
    BY DEF Init, Octets
  <2> QED
    BY <2>1, FS_EmptySet DEF QueueCounted, QueueBounded, Bytes, BatcherAssumption
<1>2. TypeOK /\ Account /\ QueueCounted /\ [Next]_vars => QueueCounted'
  <2> SUFFICES ASSUME TypeOK, Account, QueueCounted, [Next]_vars
               PROVE  QueueCounted'
    OBVIOUS
  <2>1. ASSUME NEW e \in Events, Accept(e)
        PROVE  QueueCounted'
    <3>1. /\ buffer' = buffer \cup {e} /\ kind' = kind
          /\ queue_bytes' = queue_bytes + ApproxBytes[kind[e]]
      BY <2>1 DEF Accept
    <3>2. e \notin buffer
      BY <2>1 DEF Accept, Emits, Account, NoneLostNoneTwice, Fated
    <3>3. IsFiniteSet(Octets(buffer))' /\ Bytes(buffer)' = Bytes(buffer) + ApproxBytes[kind[e]]
      BY <3>1, <3>2, BytesAdded DEF QueueCounted
    <3>4. IsFiniteSet(buffer) /\ Cardinality(buffer) \in Nat
      BY FS_Subset, FS_CardinalityType DEF TypeOK, BatcherAssumption
    <3>5. Cardinality(buffer)' = Cardinality(buffer) + 1
      BY <3>1, <3>2, <3>4, FS_AddElement
    <3>6. Cardinality(buffer) < MaxQueueSize /\ queue_bytes' <= MaxQueueBytes
      <4>1. ApproxBytes[kind[e]] \in Nat /\ queue_bytes \in Int
        BY DEF TypeOK, BatcherAssumption
      <4> QED
        BY <2>1, <3>1, <3>4, <4>1 DEF Accept, Full, BatcherAssumption
    <3> QED
      BY <3>1, <3>3, <3>4, <3>5, <3>6 DEF QueueCounted, QueueBounded, BatcherAssumption
  <2>2. CASE \/ UNCHANGED <<buffer, queue_bytes, kind>>
             \/ buffer' = {} /\ queue_bytes' = 0
    BY <2>2, CountedKeptOrEmptied
  <2>3. ASSUME NEW t \in Threads, Sends(t)
        PROVE  UNCHANGED <<buffer, queue_bytes, kind>>
    BY <2>3 DEF Sends, Unsent, BeginAttempts, AttemptSucceeds, CountSent, Retry, GiveUp,
                queueVars, histVars
  <2>4. WorkerStep => \/ UNCHANGED <<buffer, queue_bytes, kind>>
                      \/ buffer' = {} /\ queue_bytes' = 0
    BY <2>3 DEF WorkerStep, CheckStopped, Wait, Clear, WorkerDrains, Drain, RunGuard, Threads,
                queueVars, histVars
  <2>5. ASSUME NEW c \in Callers, flush(c) \/ stop(c) \/ CallerStep(c)
        PROVE  \/ UNCHANGED <<buffer, queue_bytes, kind>>
               \/ buffer' = {} /\ queue_bytes' = 0
    <3>1. CASE flush(c) \/ FinalFlush(c)
      BY <3>1 DEF flush, FinalFlush, Drain, queueVars, histVars
    <3>2. CASE stop(c) \/ SetStopped(c) \/ Raise(c)
      BY <3>2 DEF stop, SetStopped, Raise, queueVars, histVars
    <3> QED
      BY <2>3, <2>5, <3>1, <3>2 DEF CallerStep, Threads
  <2>6. \A e \in Events : Refuse(e) => UNCHANGED <<buffer, queue_bytes, kind>>
    BY DEF Refuse, queueVars, histVars
  <2>7. Fork => buffer' = {} /\ queue_bytes' = 0
    BY DEF Fork, Reinit
  <2>8. UNCHANGED vars => UNCHANGED <<buffer, queue_bytes, kind>>
    BY DEF vars
  <2> QED
    BY <2>1, <2>2, <2>4, <2>5, <2>6, <2>7, <2>8 DEF Next, enqueue
<1>3. QED
  BY <1>1, <1>2, BatcherTypeCorrect, AccountAlways, PTL DEF Spec
-------------------------------------------------------------------------------
(* The promise of Delivery.  The old status of every event, the new one and  *)
(* the events S that meet s or L that are lost, decide a step.               *)

\* The modules count by the same operator.
LEMMA SameCardinality ==
  \A S : /\ Js!Cardinality(S) = Cardinality(S) /\ Js!Promise!Cardinality(S) = Cardinality(S)
        /\ Aio!Cardinality(S) = Cardinality(S) /\ Aio!Promise!Cardinality(S) = Cardinality(S)
<1> TAKE S
<1>1. Js!Cardinality(S) = Cardinality(S)
  BY DEF Js!Cardinality, Cardinality
<1>2. Js!Promise!Cardinality(S) = Cardinality(S)
  BY DEF Js!Promise!Cardinality, Cardinality
<1>3. Aio!Cardinality(S) = Cardinality(S)
  BY DEF Aio!Cardinality, Cardinality
<1>4. Aio!Promise!Cardinality(S) = Cardinality(S)
  BY DEF Aio!Promise!Cardinality, Cardinality
<1> QED
  BY <1>1, <1>2, <1>3, <1>4

Statuses == Js!Promise!Statuses
Ends == Js!Promise!Ends
Moves == Js!Promise!Moves

\* One call emits x at most, and the batches whose end it is meet it in the same step.
Meets(old, new, S, L, s, x) ==
    /\ old \in [Events -> Statuses] /\ S \subseteq Events /\ L \subseteq Events /\ s \in Statuses
    /\ new = [d \in Events |-> IF d \in S THEN s ELSE IF d \in L THEN "lost" ELSE old[d]]
    /\ \A d \in L : old[d] = "held"
    /\ \/ s \in Ends /\ \A d \in S : old[d] = "held" \/ (old[d] = "new" /\ d = x)
       \/ s \in {"filtered", "refused", "held"} /\ S = {x} /\ old[x] = "new"

Counts(old, new, S, s) ==
    /\ new \in [Events -> Statuses]
    /\ \A e \in Events : new[e] # old[e] => <<old[e], new[e]>> \in Moves
    /\ Cardinality({e \in Events : old[e] = "new" /\ new[e] # "new"}) <= 1
    /\ \A t \in {"sent", "dropped", "refused"} :
          {e \in Events : old[e] # t /\ new[e] = t} = IF s = t THEN S ELSE {}

\* Such a step is one of the promise.
LEMMA Moved ==
  ASSUME NEW old, NEW new, NEW S, NEW L, NEW s, NEW x, Meets(old, new, S, L, s, x)
  PROVE  Counts(old, new, S, s)
<1> USE DEF Meets, Statuses, Ends, Moves, Js!Promise!Statuses, Js!Promise!Ends, Js!Promise!Moves
<1>1. new \in [Events -> Statuses]
  OBVIOUS
<1>2. ASSUME NEW e \in Events, new[e] # old[e]
      PROVE  <<old[e], new[e]>> \in Moves
  <2>1. CASE e \in S
    BY <1>2, <2>1
  <2>2. CASE e \notin S
    BY <1>2, <2>2
  <2> QED
    BY <2>1, <2>2
<1>3. Cardinality({e \in Events : old[e] = "new" /\ new[e] # "new"}) <= 1
  <2>1. {e \in Events : old[e] = "new" /\ new[e] # "new"} \subseteq {x}
    OBVIOUS
  <2>2. IsFiniteSet({x}) /\ Cardinality({x}) = 1
    BY FS_Singleton
  <2> QED
    BY <2>1, <2>2, FS_Subset
<1>4. ASSUME NEW t \in {"sent", "dropped", "refused"}
      PROVE  {e \in Events : old[e] # t /\ new[e] = t} = IF s = t THEN S ELSE {}
  <2>1. \A d \in S : old[d] \in {"held", "new"}
    OBVIOUS
  <2>2. \A d \in Events : old[d] # t /\ new[d] = t <=> s = t /\ d \in S
    BY <1>4, <2>1
  <2> QED
    BY <1>4, <2>2
<1> QED
  BY <1>1, <1>2, <1>3, <1>4 DEF Counts
-------------------------------------------------------------------------------
(* The JavaScript batcher.  What a flush is given is the queue, with the event *)
(* just taken if there is one: its events are held and nowhere else.           *)

JsInv == Js!TypeOK /\ Js!HeldOnce
JsDropped == js_backpressure + js_send_error

\* A queue without repetition is as long as it has events.
LEMMA LengthOfQueue ==
  ASSUME NEW q \in Seq(Events), Js!IsInjective(q)
  PROVE  Len(q) = Cardinality(Js!ToSet(q)) /\ Js!ToSet(q) \subseteq Events
<1>1. Len(q) \in Nat /\ DOMAIN q = 1..Len(q) /\ q \in [1..Len(q) -> Events]
  BY LenProperties
<1>2. IsFiniteSet(1..Len(q)) /\ Cardinality(1..Len(q)) = Len(q)
  <2> DEFINE n == Len(q)
  <2>1. n \in Nat
    BY <1>1
  <2> HIDE DEF n
  <2>2. IsFiniteSet(1..n) /\ Cardinality(1..n) = n
    BY <2>1, FS_Interval
  <2> QED
    BY <2>2 DEF n
<1>3. q \in Bijection(1..Len(q), Js!ToSet(q))
  BY <1>1 DEF Bijection, Injection, Surjection, IsInjective, Js!IsInjective, Js!ToSet
<1>4. Cardinality(Js!ToSet(q)) = Cardinality(1..Len(q))
  BY <1>2, <1>3, FS_Bijection DEF ExistsBijection
<1> QED
  BY <1>1, <1>2, <1>4 DEF Js!ToSet

\* The queue q and the statuses "before" as flush() finds them, after the events "taken" have come.
Ready(q, before, taken) ==
    /\ q \in Seq(Events) /\ Js!IsInjective(q)
    /\ before = [d \in Events |-> IF d \in taken THEN "held" ELSE js_status[d]]
    /\ taken \subseteq Js!ToSet(q)
    /\ \E x : taken \subseteq {x} /\ \A d \in taken : js_status[d] = "new" /\ d = x
    /\ \A d \in Js!ToSet(q) \ taken : js_status[d] = "held"
    /\ (UNION js_urgent) \cup js_flight \cup Js!ToSet(q) = {d \in Events : before[d] = "held"}
    /\ \A b \in js_urgent : b \cap Js!ToSet(q) = {}
    /\ js_flight \cap Js!ToSet(q) = {}

\* An event that is taken is at the end of the queue.
LEMMA AppendedEvents ==
  ASSUME NEW q \in Seq(Events), NEW e \in Events
  PROVE  /\ Append(q, e) \in Seq(Events)
         /\ Js!ToSet(Append(q, e)) = Js!ToSet(q) \cup {e}
         /\ Js!IsInjective(q) /\ e \notin Js!ToSet(q) => Js!IsInjective(Append(q, e))
<1> DEFINE p == Append(q, e)
<1>1. /\ p \in Seq(Events) /\ Len(p) = Len(q) + 1 /\ p[Len(q) + 1] = e
      /\ \A i \in 1..Len(q) : p[i] = q[i]
  BY AppendProperties
<1>2. Len(q) \in Nat /\ DOMAIN q = 1..Len(q) /\ DOMAIN p = 1..(Len(q) + 1)
  BY <1>1, LenProperties
<1> HIDE DEF p
<1>3. DOMAIN p = DOMAIN q \cup {Len(q) + 1}
  BY <1>2
<1>4. Js!ToSet(p) = Js!ToSet(q) \cup {e}
  BY <1>1, <1>2, <1>3 DEF Js!ToSet
<1>5. Js!IsInjective(q) /\ e \notin Js!ToSet(q) => Js!IsInjective(p)
  BY <1>1, <1>2, <1>3 DEF Js!ToSet, Js!IsInjective
<1> QED
  BY <1>1, <1>4, <1>5 DEF p

\* So is the queue as it is, and the queue with an event that has been taken.
LEMMA ReadyQueue ==
  ASSUME JsInv
  PROVE  /\ Ready(js_queue, js_status, {})
         /\ \A e \in Events : js_status[e] = "new" =>
               Ready(Append(js_queue, e), Js!Mark({e}, "held"), {e})
<1>1. js_queue \in Seq(Events) /\ js_status \in [Events -> Statuses]
  BY DEF JsInv, Js!TypeOK, Statuses
<1>2. Js!ToSet(js_queue) \subseteq Events
  BY <1>1, LengthOfQueue DEF JsInv, Js!HeldOnce
<1>3. Ready(js_queue, js_status, {})
  BY <1>1, <1>2 DEF Ready, JsInv, Js!HeldOnce
<1>4. ASSUME NEW e \in Events, js_status[e] = "new"
      PROVE  Ready(Append(js_queue, e), Js!Mark({e}, "held"), {e})
  <2> DEFINE q == Append(js_queue, e)
             before == Js!Mark({e}, "held")
  <2>1. e \notin Js!ToSet(js_queue) /\ e \notin js_flight /\ \A b \in js_urgent : e \notin b
    BY <1>4 DEF JsInv, Js!HeldOnce
  <2>2. /\ q \in Seq(Events) /\ Js!IsInjective(q)
        /\ Js!ToSet(q) = Js!ToSet(js_queue) \cup {e}
    BY <1>1, <2>1, AppendedEvents DEF JsInv, Js!HeldOnce
  <2>3. before = [d \in Events |-> IF d \in {e} THEN "held" ELSE js_status[d]]
    BY DEF Js!Mark
  <2>4. {d \in Events : before[d] = "held"} = {d \in Events : js_status[d] = "held"} \cup {e}
    BY <2>3
  <2> HIDE DEF q, before
  <2>5. Ready(q, before, {e})
    <3>1. \A d \in Js!ToSet(q) \ {e} : js_status[d] = "held"
      BY <1>2, <2>2 DEF JsInv, Js!HeldOnce
    <3>2. (UNION js_urgent) \cup js_flight \cup Js!ToSet(q) = {d \in Events : before[d] = "held"}
      BY <2>2, <2>4 DEF JsInv, Js!HeldOnce
    <3>3. /\ \A b \in js_urgent : b \cap Js!ToSet(q) = {}
          /\ js_flight \cap Js!ToSet(q) = {}
      BY <2>1, <2>2 DEF JsInv, Js!HeldOnce
    <3> QED
      BY <1>4, <2>2, <2>3, <3>1, <3>2, <3>3 DEF Ready
  <2> QED
    BY <2>5 DEF q, before
<1> QED
  BY <1>3, <1>4

\* A step of the batcher in which the events S meet s is one of the promise.
LEMMA JsPromised ==
  ASSUME Js!TypeOK, NEW S \in SUBSET Events, NEW s \in Statuses, NEW x,
         js_status' = [d \in Events |-> IF d \in S THEN s ELSE js_status[d]],
         \/ s \in Ends /\ \A d \in S : js_status[d] = "held" \/ (js_status[d] = "new" /\ d = x)
         \/ s \in {"filtered", "refused", "held"} /\ S = {x} /\ js_status[x] = "new",
         js_sent' = js_sent + (IF s = "sent" THEN Cardinality(S) ELSE 0),
         JsDropped' = JsDropped + (IF s \in {"dropped", "refused"} THEN Cardinality(S) ELSE 0)
  PROVE  Js!Promise!Step /\ js_status' \in [Events -> Statuses]
<1>0. js_status \in [Events -> Statuses] /\ js_sent \in Nat /\ JsDropped \in Nat
  BY DEF Js!TypeOK, Statuses, JsDropped
<1>1. Meets(js_status, js_status', S, {}, s, x)
  BY <1>0 DEF Meets
<1>2. Counts(js_status, js_status', S, s)
  BY <1>1, Moved
<1>3. /\ Js!Promise!Newly("sent") = IF s = "sent" THEN S ELSE {}
      /\ Js!Promise!Newly("dropped") = IF s = "dropped" THEN S ELSE {}
      /\ Js!Promise!Newly("refused") = IF s = "refused" THEN S ELSE {}
  BY <1>2 DEF Counts, Js!Promise!Newly
<1>4. js_sent' = js_sent + Cardinality(Js!Promise!Newly("sent"))
  BY <1>3, FS_EmptySet
<1>5. JsDropped' = JsDropped + Cardinality(Js!Promise!Newly("dropped") \cup Js!Promise!Newly("refused"))
  <2>1. Js!Promise!Newly("dropped") \cup Js!Promise!Newly("refused")
          = IF s \in {"dropped", "refused"} THEN S ELSE {}
    BY <1>3
  <2> QED
    BY <2>1, FS_EmptySet
<1> QED
  <2>1. (js_backpressure + js_send_error)' = js_backpressure + js_send_error
          + Cardinality(Js!Promise!Newly("dropped") \cup Js!Promise!Newly("refused"))
    BY <1>5 DEF JsDropped
  <2>2. /\ js_status' \in [Events -> Statuses]
        /\ \A e \in Events : js_status'[e] # js_status[e] => <<js_status[e], js_status'[e]>> \in Moves
        /\ Cardinality({e \in Events : js_status[e] = "new" /\ js_status'[e] # "new"}) <= 1
    BY <1>2 DEF Counts
  <2> QED
    BY <1>4, <2>1, <2>2, SameCardinality DEF Js!Promise!Step, Statuses, Moves

\* A step that changes the status of no event and no counter of the promise stutters.
LEMMA JsStutters ==
  ASSUME UNCHANGED <<js_status, js_sent, js_backpressure, js_send_error>>
  PROVE  UNCHANGED Js!Promise!vars
BY DEF Js!Promise!vars

\* What of the types a flush can touch, and the rest.
JsMoving ==
    /\ js_queue \in Seq(Events) /\ js_flight \subseteq Events /\ js_urgent \subseteq SUBSET Events
    /\ js_attempt \in 0..MaxAttempts
    /\ js_sent \in Nat /\ js_backpressure \in Nat /\ js_send_error \in Nat
    /\ js_status \in [Events -> Statuses]
JsResting ==
    /\ js_timer \in BOOLEAN /\ js_running \in BOOLEAN /\ js_stopping \in BOOLEAN
    /\ js_waiting \in BOOLEAN /\ js_sampled \in Nat
    /\ js_kind \in [Events -> Kinds] /\ js_stored \subseteq Events /\ js_restarts \in 0..MaxRestarts

\* Together they are the types.
LEMMA JsTypes == Js!TypeOK <=> JsMoving /\ JsResting
BY DEF Js!TypeOK, JsMoving, JsResting, Statuses

\* flush() joins the flush in flight, or moves the whole queue into a request or to its end.
LEMMA JsFlushed ==
  ASSUME BatcherAssumption, JsInv, NEW q, NEW before, NEW taken,
         Ready(q, before, taken), Js!Flush(q, before),
         UNCHANGED <<js_urgent, js_sent, js_backpressure>>
  PROVE  JsMoving' /\ Js!HeldOnce' /\ [Js!Promise!Step]_(Js!Promise!vars)
<1> DEFINE all == Js!ToSet(q)
<1>1. /\ q \in Seq(Events) /\ all \subseteq Events /\ Len(q) = Cardinality(all)
      /\ Len(q) \in Nat /\ Js!ToSet(<<>>) = {} /\ Js!IsInjective(<<>>) /\ <<>> \in Seq(Events)
  BY LengthOfQueue DEF Ready, Js!ToSet, Js!IsInjective
<1>2. /\ JsMoving /\ JsDropped \in Nat /\ MaxAttempts \in Nat /\ 1 \in 0..MaxAttempts
  BY JsTypes DEF JsInv, JsMoving, JsDropped, BatcherAssumption
<1>3. PICK x : /\ taken \subseteq {x}
               /\ \A d \in taken : js_status[d] = "new" /\ d = x
  BY DEF Ready
<1>4. \A d \in all : js_status[d] = "held" \/ (js_status[d] = "new" /\ d = x)
  BY <1>3 DEF Ready
<1>5. UNCHANGED <<js_urgent, js_sent, js_backpressure>>
  OBVIOUS
<1>6. ASSUME js_status' = before, js_send_error' = js_send_error,
             \/ js_queue' = q /\ UNCHANGED <<js_flight, js_attempt>>
             \/ js_queue' = <<>> /\ js_flight = {} /\ js_flight' = all /\ js_attempt' = 1
      PROVE  JsMoving' /\ Js!HeldOnce' /\ [Js!Promise!Step]_(Js!Promise!vars)
  \* Nothing ends: what came is held.
  <2>1. js_status' = [d \in Events |-> IF d \in taken THEN "held" ELSE js_status[d]]
    BY <1>6 DEF Ready
  <2>2. [Js!Promise!Step]_(Js!Promise!vars) /\ js_status' \in [Events -> Statuses]
    <3>1. CASE taken = {}
      <4>1. js_status' = js_status
        BY <1>2, <2>1, <3>1 DEF JsMoving
      <4> QED
        BY <1>2, <1>5, <1>6, <4>1, JsStutters DEF JsMoving
    <3>2. CASE taken # {}
      <4>1. taken = {x} /\ js_status[x] = "new" /\ taken \in SUBSET Events
        BY <1>1, <1>3, <3>2 DEF Ready
      <4>2. js_sent' = js_sent + 0 /\ JsDropped' = JsDropped + 0
        BY <1>2, <1>5, <1>6 DEF JsMoving, JsDropped
      <4>3. "held" \in Statuses
        BY DEF Statuses, Js!Promise!Statuses
      <4> QED
        BY <2>1, <4>1, <4>2, <4>3, JsPromised DEF JsInv
    <3> QED
      BY <3>1, <3>2
  <2>3. {d \in Events : js_status'[d] = "held"} = (UNION js_urgent) \cup js_flight \cup all
    BY <1>6 DEF Ready
  <2>4. CASE js_queue' = q /\ UNCHANGED <<js_flight, js_attempt>>
    <3>1. Js!HeldOnce'
      BY <1>5, <2>3, <2>4 DEF Ready, JsInv, Js!HeldOnce
    <3> QED
      BY <1>1, <1>2, <1>5, <1>6, <2>2, <2>4, <3>1 DEF JsMoving
  <2>5. CASE js_queue' = <<>> /\ js_flight = {} /\ js_flight' = all /\ js_attempt' = 1
    <3>1. Js!HeldOnce'
      <4>1. Js!ToSet(js_queue') = {} /\ Js!IsInjective(js_queue')
        BY <1>1, <2>5
      <4>2. \A b, c \in js_urgent : b # c => b \cap c = {}
        BY DEF JsInv, Js!HeldOnce
      <4> QED
        BY <1>5, <2>3, <2>5, <4>1, <4>2 DEF Ready, Js!HeldOnce
    <3> QED
      BY <1>1, <1>2, <1>5, <1>6, <2>2, <2>5, <3>1 DEF JsMoving
  <2> QED
    BY <1>6, <2>4, <2>5
<1>7. ASSUME NEW s \in {"lost", "dropped"},
             js_status' = [e \in Events |-> IF e \in all THEN s ELSE before[e]],
             js_send_error' = js_send_error + (IF s = "dropped" THEN Len(q) ELSE 0),
             js_queue' = <<>>, js_flight = {}, UNCHANGED <<js_flight, js_attempt>>
      PROVE  JsMoving' /\ Js!HeldOnce' /\ [Js!Promise!Step]_(Js!Promise!vars)
  \* The whole queue ends.
  <2>1. js_status' = [e \in Events |-> IF e \in all THEN s ELSE js_status[e]]
    BY <1>7 DEF Ready
  <2>2. /\ s \in Ends /\ s \in Statuses /\ s # "sent" /\ s # "held"
        /\ s \in {"dropped", "refused"} <=> s = "dropped"
    BY <1>7 DEF Ends, Statuses, Js!Promise!Ends, Js!Promise!Statuses
  <2>3. /\ js_sent' = js_sent + 0
        /\ JsDropped' = JsDropped + (IF s = "dropped" THEN Cardinality(all) ELSE 0)
    <3>1. js_sent \in Nat /\ js_backpressure \in Nat /\ js_send_error \in Nat
      BY <1>2 DEF JsMoving
    <3>2. js_send_error' = js_send_error + (IF s = "dropped" THEN Cardinality(all) ELSE 0)
      BY <1>1, <1>7
    <3>3. Cardinality(all) \in Nat
      BY <1>1
    <3> HIDE DEF all
    <3> QED
      BY <1>5, <3>1, <3>2, <3>3 DEF JsDropped
  <2>4. Js!Promise!Step /\ js_status' \in [Events -> Statuses]
    <3>1. Js!TypeOK /\ all \in SUBSET Events
      BY <1>1 DEF JsInv
    <3> HIDE DEF all
    <3> QED
      BY <1>4, <2>1, <2>2, <2>3, <3>1, JsPromised
  <2>5. {d \in Events : js_status'[d] = "held"} = (UNION js_urgent) \cup js_flight
    <3>1. \A d \in Events : js_status'[d] = "held" <=> d \notin all /\ before[d] = "held"
      BY <1>7, <2>2
    <3>2. \A d \in all : d \notin UNION js_urgent /\ d \notin js_flight
      BY DEF Ready
    <3> QED
      BY <3>1, <3>2 DEF Ready
  <2>6. Js!HeldOnce'
    <3>1. Js!ToSet(js_queue') = {} /\ Js!IsInjective(js_queue')
      BY <1>1, <1>7
    <3>2. \A b, c \in js_urgent : b # c => b \cap c = {}
      BY DEF JsInv, Js!HeldOnce
    <3> QED
      BY <1>5, <1>7, <2>5, <3>1, <3>2 DEF Ready, Js!HeldOnce
  <2>7. js_send_error' \in Nat
    BY <1>1, <1>2, <1>7 DEF JsMoving
  <2> QED
    BY <1>1, <1>2, <1>5, <1>7, <2>4, <2>6, <2>7 DEF JsMoving
<1>8. \/ /\ js_status' = before /\ js_send_error' = js_send_error
         /\ \/ js_queue' = q /\ UNCHANGED <<js_flight, js_attempt>>
            \/ js_queue' = <<>> /\ js_flight = {} /\ js_flight' = all /\ js_attempt' = 1
      \/ /\ js_queue' = <<>> /\ js_flight = {} /\ UNCHANGED <<js_flight, js_attempt>>
         /\ \E s \in {"lost", "dropped"} :
              /\ js_status' = [e \in Events |-> IF e \in all THEN s ELSE before[e]]
              /\ js_send_error' = js_send_error + (IF s = "dropped" THEN Len(q) ELSE 0)
  <2>1. js_send_error + 0 = js_send_error
    BY <1>2 DEF JsMoving
  <2> QED
    BY <2>1 DEF Js!Flush, Js!SendBatch
<1> QED
  BY <1>6, <1>7, <1>8

\* Events that end leave the place that held them; events that are turned away had none.
LEMMA JsEnded ==
  ASSUME JsInv, NEW S \in SUBSET Events, NEW s, s # "held",
         js_status' = [d \in Events |-> IF d \in S THEN s ELSE js_status[d]],
         Js!IsInjective(js_queue'), Js!ToSet(js_queue') = Js!ToSet(js_queue) \ S,
         js_flight' = js_flight \ S,
         js_urgent' \subseteq js_urgent, UNION js_urgent' = (UNION js_urgent) \ S
  PROVE  Js!HeldOnce'
<1>1. {d \in Events : js_status'[d] = "held"} = {d \in Events : js_status[d] = "held"} \ S
  OBVIOUS
<1>2. (UNION js_urgent') \cup js_flight' \cup Js!ToSet(js_queue') = {d \in Events : js_status'[d] = "held"}
  BY <1>1 DEF JsInv, Js!HeldOnce
<1>3. /\ \A b \in js_urgent' : b \cap (js_flight' \cup Js!ToSet(js_queue')) = {}
      /\ \A b, c \in js_urgent' : b # c => b \cap c = {}
      /\ js_flight' \cap Js!ToSet(js_queue') = {}
  BY DEF JsInv, Js!HeldOnce
<1> QED
  BY <1>2, <1>3 DEF Js!HeldOnce

\* enqueue() moves at most the event it is given, and the batch it completes.
LEMMA JsEnqueues ==
  ASSUME BatcherAssumption, JsInv, NEW e \in Events, Js!enqueue(e)
  PROVE  JsInv' /\ [Js!Promise!Step]_(Js!Promise!vars)
<1>0. /\ JsMoving /\ JsResting /\ Js!HeldOnce /\ Js!TypeOK
      /\ js_status[e] = "new"
  BY JsTypes DEF JsInv, Js!enqueue, Js!Refuse, Js!Filter, Js!Accept, Js!Emits
<1>1. IsFiniteSet({e}) /\ Cardinality({e}) = 1
  BY FS_Singleton
<1>2. /\ Js!ToSet(js_queue) \ {e} = Js!ToSet(js_queue) /\ js_flight \ {e} = js_flight
      /\ (UNION js_urgent) \ {e} = UNION js_urgent
  BY <1>0 DEF Js!HeldOnce
<1>3. CASE Js!Refuse(e) \/ Js!Filter(e)
  <2>1. PICK s \in {"refused", "filtered"} :
           /\ js_status' = [d \in Events |-> IF d \in {e} THEN s ELSE js_status[d]]
           /\ js_backpressure' = js_backpressure + (IF s = "refused" THEN 1 ELSE 0)
           /\ js_sampled' \in Nat
    BY <1>0, <1>3 DEF Js!Refuse, Js!Filter, Js!Mark, JsMoving, JsResting
  <2>2. /\ UNCHANGED <<js_queue, js_flight, js_attempt, js_urgent, js_timer, js_running,
                       js_stopping, js_waiting, js_restarts, js_sent, js_send_error, js_kind,
                       js_stored>>
    BY <1>3 DEF Js!Refuse, Js!Filter, Js!lifeVars
  <2>3. /\ s \in Statuses /\ s # "held" /\ s # "sent"
        /\ s \in {"dropped", "refused"} <=> s = "refused"
    BY <2>1 DEF Statuses, Js!Promise!Statuses
  <2>4. js_sent' = js_sent + 0 /\ JsDropped' = JsDropped + (IF s = "refused" THEN 1 ELSE 0)
    BY <1>0, <2>1, <2>2 DEF JsMoving, JsDropped
  <2>5. Js!Promise!Step /\ js_status' \in [Events -> Statuses]
    <3>1. {e} \in SUBSET Events /\ s \in {"filtered", "refused", "held"} /\ {e} = {e}
      BY <2>1
    <3> QED
      BY <1>0, <1>1, <2>1, <2>3, <2>4, <3>1, JsPromised
  <2>6. Js!HeldOnce'
    <3>1. Js!IsInjective(js_queue')
      BY <1>0, <2>2 DEF Js!HeldOnce
    <3> QED
      BY <1>2, <2>1, <2>2, <2>3, <3>1, JsEnded
  <2>7. JsMoving' /\ JsResting'
    <3>1. js_backpressure' \in Nat
      BY <1>0, <2>1 DEF JsMoving
    <3> QED
      BY <1>0, <2>1, <2>2, <2>5, <3>1 DEF JsMoving, JsResting
  <2> QED
    BY <2>5, <2>6, <2>7, JsTypes DEF JsInv, JsMoving, JsResting, Js!TypeOK, Statuses
<1>4. CASE Js!Accept(e)
  <2> DEFINE q == Append(js_queue, e)
             held == Js!Mark({e}, "held")
  <2>1. Ready(q, held, {e})
    BY <1>0, ReadyQueue
  <2>2. UNCHANGED <<js_urgent, js_sent, js_backpressure>> /\ JsResting'
    BY <1>0, <1>4 DEF Js!Accept, Js!lifeVars, JsResting
  <2>3. CASE Js!Flush(q, held)
    BY <2>1, <2>2, <2>3, JsFlushed, JsTypes DEF JsInv, JsMoving, JsResting, Js!TypeOK, Statuses
  <2>4. CASE js_queue' = q /\ js_status' = held /\ UNCHANGED <<js_flight, js_attempt, js_send_error>>
    <3>1. {e} \in SUBSET Events /\ "held" \in Statuses /\ {e} = {e}
      BY DEF Statuses, Js!Promise!Statuses
    <3>2. js_sent' = js_sent + 0 /\ JsDropped' = JsDropped + 0
      BY <1>0, <2>2, <2>4 DEF JsMoving, JsDropped
    <3>3. Js!Promise!Step /\ js_status' \in [Events -> Statuses]
      <4>1. js_status' = [d \in Events |-> IF d \in {e} THEN "held" ELSE js_status[d]]
        BY <2>4 DEF Js!Mark
      <4> QED
        BY <1>0, <3>1, <3>2, <4>1, JsPromised
    <3>4. Js!HeldOnce'
      <4>1. /\ Js!IsInjective(q) /\ (UNION js_urgent) \cup js_flight \cup Js!ToSet(q) = {d \in Events : held[d] = "held"}
            /\ \A b \in js_urgent : b \cap Js!ToSet(q) = {}
            /\ js_flight \cap Js!ToSet(q) = {}
        BY <2>1 DEF Ready
      <4> HIDE DEF q, held
      <4> QED
        BY <1>0, <2>2, <2>4, <4>1 DEF Js!HeldOnce
    <3>5. q \in Seq(Events)
      BY <2>1 DEF Ready
    <3> QED
      BY <1>0, <2>2, <2>4, <3>3, <3>4, <3>5 DEF JsInv, JsMoving, JsResting, Js!TypeOK, Statuses
  <2> QED
    BY <1>4, <2>3, <2>4 DEF Js!Accept
<1> QED
  BY <1>3, <1>4 DEF Js!enqueue

\* An answer, or an urgent one, settles its batch.
LEMMA JsSettles ==
  ASSUME BatcherAssumption, JsInv, NEW S \in SUBSET Events, NEW s \in {"sent", "dropped"},
         js_status' = [d \in Events |-> IF d \in S THEN s ELSE js_status[d]],
         js_sent' = js_sent + (IF s = "sent" THEN Cardinality(S) ELSE 0),
         js_send_error' = js_send_error + (IF s = "dropped" THEN Cardinality(S) ELSE 0),
         js_backpressure' = js_backpressure,
         \A d \in S : js_status[d] = "held"
  PROVE  /\ Js!Promise!Step
         /\ js_status' \in [Events -> Statuses] /\ js_sent' \in Nat /\ js_send_error' \in Nat
<1>1. JsMoving /\ Js!TypeOK
  BY JsTypes DEF JsInv
<1>2. IsFiniteSet(S) /\ Cardinality(S) \in Nat
  BY FS_Subset, FS_CardinalityType DEF BatcherAssumption
<1>3. /\ s \in Statuses /\ s \in Ends
      /\ s \in {"dropped", "refused"} <=> s = "dropped"
  BY DEF Statuses, Ends, Js!Promise!Statuses, Js!Promise!Ends
<1>4. /\ JsDropped' = JsDropped + (IF s \in {"dropped", "refused"} THEN Cardinality(S) ELSE 0)
      /\ js_sent' \in Nat /\ js_send_error' \in Nat
  BY <1>1, <1>2, <1>3 DEF JsMoving, JsDropped
<1>5. Js!Promise!Step /\ js_status' \in [Events -> Statuses]
  BY <1>1, <1>3, <1>4, JsPromised
<1> QED
  BY <1>4, <1>5

\* The answers to a flush's request.
LEMMA JsAnswers ==
  ASSUME BatcherAssumption, JsInv, Js!Answer
  PROVE  JsInv' /\ [Js!Promise!Step]_(Js!Promise!vars)
<1>0. JsMoving /\ JsResting /\ Js!HeldOnce /\ MaxAttempts \in Nat
  BY JsTypes DEF JsInv, BatcherAssumption
<1>1. CASE Js!Retry
  <2>1. /\ js_attempt' \in 0..MaxAttempts /\ js_stored' \subseteq Events
        /\ UNCHANGED <<js_queue, js_flight, js_urgent, js_timer, js_running, js_stopping, js_waiting,
                       js_restarts, js_sent, js_backpressure, js_send_error, js_sampled, js_kind,
                       js_status>>
    BY <1>0, <1>1 DEF Js!Retry, Js!lifeVars, JsMoving, JsResting
  <2>2. Js!HeldOnce'
    BY <1>0, <2>1 DEF Js!HeldOnce
  <2>3. UNCHANGED Js!Promise!vars
    BY <2>1, JsStutters
  <2> QED
    BY <1>0, <2>1, <2>2, <2>3 DEF JsInv, JsMoving, JsResting, Js!TypeOK, Statuses
<1>2. CASE Js!Delivered \/ Js!GivenUp
  <2>1. /\ js_flight' = {} /\ js_attempt' = 0 /\ js_waiting' = FALSE /\ js_running' \in BOOLEAN
        /\ UNCHANGED <<js_queue, js_urgent, js_timer, js_stopping, js_restarts, js_backpressure,
                       js_sampled, js_kind>>
    BY <1>0, <1>2 DEF Js!Delivered, Js!GivenUp, Js!Landed, JsResting
  <2>2. js_stored' \subseteq Events
    BY <1>0, <1>2 DEF Js!Delivered, Js!GivenUp, JsMoving, JsResting
  <2>3. PICK s \in {"sent", "dropped"} :
           /\ js_status' = [d \in Events |-> IF d \in js_flight THEN s ELSE js_status[d]]
           /\ js_sent' = js_sent + (IF s = "sent" THEN Cardinality(js_flight) ELSE 0)
           /\ js_send_error' = js_send_error + (IF s = "dropped" THEN Cardinality(js_flight) ELSE 0)
    <3>1. js_sent + 0 = js_sent /\ js_send_error + 0 = js_send_error
      BY <1>0 DEF JsMoving
    <3> QED
      BY <1>2, <3>1, SameCardinality DEF Js!Delivered, Js!GivenUp, Js!Mark
  <2>4. \A d \in js_flight : js_status[d] = "held"
    BY <1>0 DEF Js!HeldOnce
  <2>5. /\ Js!Promise!Step
        /\ js_status' \in [Events -> Statuses] /\ js_sent' \in Nat /\ js_send_error' \in Nat
    <3>1. js_flight \in SUBSET Events /\ js_backpressure' = js_backpressure
      BY <1>0, <2>1 DEF JsMoving
    <3> QED
      BY <2>3, <2>4, <3>1, JsSettles
  <2>6. Js!HeldOnce'
    <3>1. /\ Js!IsInjective(js_queue') /\ Js!ToSet(js_queue') = Js!ToSet(js_queue) \ js_flight
          /\ js_flight' = js_flight \ js_flight /\ js_urgent' \subseteq js_urgent
          /\ UNION js_urgent' = (UNION js_urgent) \ js_flight
      BY <1>0, <2>1 DEF Js!HeldOnce
    <3>2. js_flight \in SUBSET Events /\ s # "held"
      BY <1>0, <2>3 DEF JsMoving
    <3> QED
      BY <2>3, <3>1, <3>2, JsEnded
  <2>7. JsMoving'
    BY <1>0, <2>1, <2>5 DEF JsMoving
  <2>8. JsResting'
    BY <1>0, <2>1, <2>2 DEF JsResting
  <2> QED
    BY <2>5, <2>6, <2>7, <2>8 DEF JsInv, JsMoving, JsResting, Js!TypeOK, Statuses
<1> QED
  BY <1>1, <1>2 DEF Js!Answer

\* The answers to urgent requests.
LEMMA JsUrgentAnswers ==
  ASSUME BatcherAssumption, JsInv, NEW b \in js_urgent, Js!UrgentAnswered(b) \/ Js!UrgentFailed(b)
  PROVE  JsInv' /\ [Js!Promise!Step]_(Js!Promise!vars)
<1>0. JsMoving /\ JsResting /\ Js!HeldOnce /\ b \in SUBSET Events
  BY JsTypes DEF JsInv, JsMoving
<1>1. /\ js_urgent' = js_urgent \ {b} /\ js_stored' \subseteq Events
      /\ UNCHANGED <<js_queue, js_flight, js_attempt, js_timer, js_running, js_stopping, js_waiting,
                     js_restarts, js_backpressure, js_sampled, js_kind>>
  BY <1>0 DEF Js!UrgentAnswered, Js!UrgentFailed, Js!lifeVars, JsMoving, JsResting
<1>2. PICK s \in {"sent", "dropped"} :
         /\ js_status' = [d \in Events |-> IF d \in b THEN s ELSE js_status[d]]
         /\ js_sent' = js_sent + (IF s = "sent" THEN Cardinality(b) ELSE 0)
         /\ js_send_error' = js_send_error + (IF s = "dropped" THEN Cardinality(b) ELSE 0)
  <2>1. js_sent + 0 = js_sent /\ js_send_error + 0 = js_send_error
    BY <1>0 DEF JsMoving
  <2> QED
    BY <2>1, SameCardinality DEF Js!UrgentAnswered, Js!UrgentFailed, Js!Mark
<1>3. \A d \in b : js_status[d] = "held"
  BY <1>0 DEF Js!HeldOnce
<1>4. /\ Js!Promise!Step
      /\ js_status' \in [Events -> Statuses] /\ js_sent' \in Nat /\ js_send_error' \in Nat
  <2>1. js_backpressure' = js_backpressure
    BY <1>1
  <2> QED
    BY <1>0, <1>2, <1>3, <2>1, JsSettles
<1>5. Js!HeldOnce'
  <2>1. UNION js_urgent' = (UNION js_urgent) \ b
    <3>1. \A c \in js_urgent : c # b => c \cap b = {}
      BY <1>0 DEF Js!HeldOnce
    <3>2. \A d : d \in UNION (js_urgent \ {b}) <=> d \in UNION js_urgent /\ d \notin b
      BY <3>1
    <3> QED
      BY <1>1, <3>2
  <2>2. /\ Js!IsInjective(js_queue') /\ Js!ToSet(js_queue') = Js!ToSet(js_queue) \ b
        /\ js_flight' = js_flight \ b /\ js_urgent' \subseteq js_urgent /\ s # "held"
    BY <1>0, <1>1, <1>2 DEF Js!HeldOnce
  <2> QED
    BY <1>0, <1>2, <2>1, <2>2, JsEnded
<1> QED
  BY <1>0, <1>1, <1>4, <1>5 DEF JsInv, JsMoving, JsResting, Js!TypeOK, Statuses

\* urgentFlush() sends what fits beside the flush in flight, and gives up the rest.
LEMMA JsFlushesUrgently ==
  ASSUME BatcherAssumption, JsInv, Js!urgentFlush
  PROVE  JsInv' /\ [Js!Promise!Step]_(Js!Promise!vars)
<1> DEFINE all == Js!ToSet(js_queue)
           kept == Js!Trimmed(js_queue)
<1>0. JsMoving /\ JsResting /\ Js!HeldOnce /\ Js!TypeOK
  BY JsTypes DEF JsInv
<1>1. /\ all \subseteq Events /\ Js!ToSet(<<>>) = {} /\ Js!IsInjective(<<>>) /\ <<>> \in Seq(Events)
      /\ \A d \in all : js_status[d] = "held"
  BY <1>0, LengthOfQueue DEF JsMoving, Js!HeldOnce, Js!ToSet, Js!IsInjective
<1>2. kept \subseteq all
  <2>1. DOMAIN js_queue = 1..Len(js_queue)
    BY <1>0, LenProperties DEF JsMoving
  <2> QED
    BY <2>1 DEF Js!Trimmed, Js!ToSet
<1>3. /\ js_queue' = <<>>
      /\ UNCHANGED <<js_flight, js_attempt, js_timer, js_running, js_stopping, js_waiting,
                     js_restarts, js_sent, js_backpressure, js_sampled, js_kind, js_stored>>
  BY DEF Js!urgentFlush, Js!lifeVars
<1>4. JsResting'
  BY <1>0, <1>3 DEF JsResting
<1>5. PICK S \in {all, all \ kept}, s \in {"lost", "dropped"} :
         /\ js_status' = [d \in Events |-> IF d \in S THEN s ELSE js_status[d]]
         /\ js_send_error' = js_send_error + (IF s = "dropped" THEN Cardinality(S) ELSE 0)
         /\ \/ S = all /\ js_urgent' = js_urgent
            \/ S = all \ kept /\ js_urgent' = js_urgent \cup {kept}
  <2>1. js_send_error + 0 = js_send_error
    BY <1>0 DEF JsMoving
  <2>2. CASE /\ js_status' = Js!Mark(all, "lost") /\ UNCHANGED <<js_urgent, js_send_error>>
    BY <2>1, <2>2 DEF Js!Mark
  <2>3. CASE /\ js_status' = Js!Mark(all, "dropped") /\ UNCHANGED js_urgent
             /\ js_send_error' = js_send_error + Cardinality(all)
    BY <2>3 DEF Js!Mark
  <2>4. CASE /\ js_status' = Js!Mark(all \ kept, "dropped")
             /\ js_send_error' = js_send_error + Cardinality(all \ kept)
             /\ js_urgent' = js_urgent \cup {kept}
    BY <2>4 DEF Js!Mark
  <2> QED
    BY <2>2, <2>3, <2>4, SameCardinality DEF Js!urgentFlush
<1>6. S \in SUBSET Events /\ \A d \in S : js_status[d] = "held"
  BY <1>1, <1>5
<1>7. s \in Statuses /\ s \in Ends /\ s # "held" /\ s # "sent"
      /\ (s \in {"dropped", "refused"} <=> s = "dropped")
  BY <1>5 DEF Statuses, Ends, Js!Promise!Statuses, Js!Promise!Ends
<1>8. IsFiniteSet(S) /\ Cardinality(S) \in Nat
  BY <1>6, FS_Subset, FS_CardinalityType DEF BatcherAssumption
<1>9. /\ js_send_error' \in Nat /\ js_sent' = js_sent + 0
      /\ JsDropped' = JsDropped + (IF s \in {"dropped", "refused"} THEN Cardinality(S) ELSE 0)
  BY <1>0, <1>3, <1>5, <1>7, <1>8 DEF JsMoving, JsDropped
<1>10. Js!Promise!Step /\ js_status' \in [Events -> Statuses]
  BY <1>0, <1>5, <1>6, <1>7, <1>9, JsPromised
<1>11. Js!ToSet(js_queue') = {} /\ Js!IsInjective(js_queue')
  BY <1>1, <1>3
<1> HIDE DEF all, kept
<1>12. CASE S = all /\ js_urgent' = js_urgent
  <2>1. /\ Js!ToSet(js_queue') = Js!ToSet(js_queue) \ S /\ js_flight' = js_flight \ S
        /\ js_urgent' \subseteq js_urgent /\ UNION js_urgent' = (UNION js_urgent) \ S
    BY <1>0, <1>3, <1>11, <1>12 DEF Js!HeldOnce, all
  <2>2. Js!HeldOnce'
    BY <1>5, <1>6, <1>7, <1>11, <2>1, JsEnded
  <2> QED
    BY <1>0, <1>1, <1>3, <1>4, <1>9, <1>10, <1>12, <2>2
       DEF JsInv, JsMoving, JsResting, Js!TypeOK, Statuses
<1>13. CASE S = all \ kept /\ js_urgent' = js_urgent \cup {kept}
  <2>1. {d \in Events : js_status'[d] = "held"} = {d \in Events : js_status[d] = "held"} \ S
    BY <1>5, <1>7
  <2>2. /\ UNION js_urgent' = (UNION js_urgent) \cup kept
        /\ (UNION js_urgent) \cap all = {} /\ js_flight \cap all = {}
        /\ (UNION js_urgent) \cup js_flight \cup all = {d \in Events : js_status[d] = "held"}
    BY <1>0, <1>13 DEF Js!HeldOnce, all
  <2>3. (UNION js_urgent') \cup js_flight' \cup Js!ToSet(js_queue')
          = {d \in Events : js_status'[d] = "held"}
    BY <1>2, <1>3, <1>11, <1>13, <2>1, <2>2
  <2>4. \A b \in js_urgent' : b \cap (js_flight' \cup Js!ToSet(js_queue')) = {}
    BY <1>0, <1>2, <1>3, <1>11, <1>13, <2>2 DEF Js!HeldOnce
  <2>5. \A b, c \in js_urgent' : b # c => b \cap c = {}
    BY <1>0, <1>2, <1>13 DEF Js!HeldOnce, all
  <2>6. Js!HeldOnce'
    BY <1>11, <2>3, <2>4, <2>5 DEF Js!HeldOnce
  <2>7. js_urgent' \subseteq SUBSET Events
    BY <1>0, <1>1, <1>2, <1>13 DEF JsMoving
  <2> QED
    BY <1>0, <1>1, <1>3, <1>4, <1>9, <1>10, <2>6, <2>7
       DEF JsInv, JsMoving, JsResting, Js!TypeOK, Statuses
<1> QED
  BY <1>5, <1>12, <1>13

\* start(), stop() and the time limit of stop().
LEMMA JsLives ==
  ASSUME BatcherAssumption, JsAssumed, JsInv, Js!start \/ Js!stop \/ Js!StopTimesOut
  PROVE  JsInv' /\ [Js!Promise!Step]_(Js!Promise!vars)
<1>0. JsMoving /\ JsResting /\ Js!HeldOnce /\ Js!TypeOK
  BY JsTypes DEF JsInv
<1>1. CASE Js!start
  <2>1. /\ UNCHANGED <<js_queue, js_flight, js_attempt, js_urgent, js_waiting, js_sent,
                       js_backpressure, js_send_error, js_sampled, js_kind, js_status, js_stored>>
        /\ js_running' = TRUE /\ js_stopping' = FALSE /\ js_timer' = TRUE
    BY <1>1 DEF Js!start
  <2>2. js_restarts' \in 0..MaxRestarts
    BY <1>0, <1>1 DEF Js!start, JsResting, JsAssumed, Js!JsBatcherAssumption
  <2>3. Js!HeldOnce' /\ UNCHANGED Js!Promise!vars
    BY <1>0, <2>1, JsStutters DEF Js!HeldOnce
  <2> QED
    BY <1>0, <2>1, <2>2, <2>3 DEF JsInv, JsMoving, JsResting, Js!TypeOK, Statuses
<1>2. CASE Js!stop
  <2>1. /\ Js!Flush(js_queue, js_status)
        /\ UNCHANGED <<js_urgent, js_sent, js_backpressure>>
        /\ JsResting'
    BY <1>0, <1>2 DEF Js!stop, JsResting
  <2>2. Ready(js_queue, js_status, {})
    BY ReadyQueue
  <2> QED
    BY <2>1, <2>2, JsFlushed DEF JsInv, JsMoving, JsResting, Js!TypeOK, Statuses
<1>3. CASE Js!StopTimesOut
  <2> DEFINE all == Js!ToSet(js_queue)
  <2>1. /\ js_queue' = <<>> /\ js_send_error' = js_send_error + Len(js_queue)
        /\ js_status' = [d \in Events |-> IF d \in all THEN "dropped" ELSE js_status[d]]
        /\ UNCHANGED <<js_flight, js_attempt, js_urgent, js_timer, js_stopping, js_restarts, js_sent,
                       js_backpressure, js_sampled, js_kind, js_stored>>
        /\ js_waiting' = FALSE /\ js_running' = FALSE
    BY <1>3 DEF Js!StopTimesOut, Js!Mark
  <2>2. /\ all \in SUBSET Events /\ Len(js_queue) = Cardinality(all)
        /\ Js!ToSet(<<>>) = {} /\ Js!IsInjective(<<>>) /\ <<>> \in Seq(Events)
        /\ \A d \in all : js_status[d] = "held"
    BY <1>0, LengthOfQueue DEF JsMoving, Js!HeldOnce, Js!ToSet, Js!IsInjective
  <2>3. /\ js_sent' = js_sent + (IF "dropped" = "sent" THEN Cardinality(all) ELSE 0)
        /\ js_send_error' = js_send_error + (IF "dropped" = "dropped" THEN Cardinality(all) ELSE 0)
    BY <1>0, <2>1, <2>2 DEF JsMoving
  <2>4. /\ js_flight' = js_flight \ all /\ js_urgent' \subseteq js_urgent
        /\ UNION js_urgent' = (UNION js_urgent) \ all
        /\ Js!ToSet(js_queue') = Js!ToSet(js_queue) \ all /\ Js!IsInjective(js_queue')
    BY <1>0, <2>1, <2>2 DEF Js!HeldOnce
  <2> HIDE DEF all
  <2>5. /\ Js!Promise!Step
        /\ js_status' \in [Events -> Statuses] /\ js_sent' \in Nat /\ js_send_error' \in Nat
    BY <2>1, <2>2, <2>3, JsSettles
  <2>6. Js!HeldOnce'
    BY <2>1, <2>2, <2>4, JsEnded
  <2>7. JsMoving' /\ JsResting'
    BY <1>0, <2>1, <2>2, <2>5 DEF JsMoving, JsResting
  <2> QED
    BY <2>5, <2>6, <2>7 DEF JsInv, JsMoving, JsResting, Js!TypeOK, Statuses
<1> QED
  BY <1>1, <1>2, <1>3

\* Every step of the JavaScript batcher keeps the invariant and is one of its promise.
LEMMA JsKeepsPromise ==
  ASSUME JsInv, [Js!Next]_(Js!vars)
  PROVE  JsInv' /\ [Js!Promise!Step]_(Js!Promise!vars)
<1> USE BatcherAssumption, JsAssumed
<1>1. CASE Js!Tick \/ Js!CallFlush
  <2>1. /\ Js!Flush(js_queue, js_status)
        /\ UNCHANGED <<js_urgent, js_sent, js_backpressure>>
        /\ JsResting'
    BY <1>1, JsTypes DEF JsInv, Js!Tick, Js!CallFlush, Js!lifeVars, JsResting
  <2>2. Ready(js_queue, js_status, {})
    BY ReadyQueue
  <2> QED
    BY <2>1, <2>2, JsFlushed DEF JsInv, JsMoving, JsResting, Js!TypeOK, Statuses
<1>2. CASE UNCHANGED Js!vars
  BY <1>2, JsStutters DEF Js!vars, Js!lifeVars, JsInv, Js!TypeOK, Js!HeldOnce
<1> QED
  BY <1>1, <1>2, JsEnqueues, JsAnswers, JsUrgentAnswers, JsFlushesUrgently, JsLives DEF Js!Next

\* In every behaviour of the JavaScript batcher each held event is in one place.
LEMMA JsAlways == Js!Spec => []JsInv
<1>1. Js!Init => JsInv
  <2> SUFFICES ASSUME Js!Init
               PROVE  JsInv
    OBVIOUS
  <2>1. /\ js_queue \in Seq(Events) /\ Js!ToSet(js_queue) = {} /\ Js!IsInjective(js_queue)
        /\ js_urgent = {} /\ js_flight = {}
    BY DEF Js!Init, Js!ToSet, Js!IsInjective
  <2>2. Js!HeldOnce
    BY <2>1 DEF Js!Init, Js!HeldOnce
  <2>3. Js!TypeOK
    <3>1. MaxAttempts \in Nat /\ MaxRestarts \in Nat
      BY BatcherAssumption, JsAssumed DEF BatcherAssumption, JsAssumed, Js!JsBatcherAssumption
    <3>2. js_status \in [Events -> Statuses]
      BY DEF Js!Init, Statuses, Js!Promise!Statuses
    <3>3. JsMoving
      BY <2>1, <3>1, <3>2 DEF Js!Init, JsMoving
    <3>4. JsResting
      <4>1. /\ js_timer \in BOOLEAN /\ js_running \in BOOLEAN /\ js_stopping \in BOOLEAN
            /\ js_waiting \in BOOLEAN
        BY DEF Js!Init
      <4>2. js_sampled \in Nat /\ js_stored \subseteq Events /\ js_restarts \in 0..MaxRestarts
        BY <3>1 DEF Js!Init
      <4>3. js_kind \in [Events -> Kinds]
        BY DEF Js!Init
      <4> QED
        BY <4>1, <4>2, <4>3 DEF JsResting
    <3> QED
      BY <3>3, <3>4, JsTypes
  <2> QED
    BY <2>2, <2>3 DEF JsInv
<1>2. JsInv /\ [Js!Next]_(Js!vars) => JsInv'
  BY JsKeepsPromise
<1> QED
  BY <1>1, <1>2, PTL DEF Js!Spec

\* The JavaScript batcher implements Delivery.
THEOREM JsAlwaysDelivers == Js!Spec => Js!Promise!Spec
<1>1. Js!Init => Js!Promise!Init
  BY DEF Js!Init, Js!Promise!Init
<1>2. JsInv /\ [Js!Next]_(Js!vars) => [Js!Promise!Step]_(Js!Promise!vars)
  BY JsKeepsPromise
<1> QED
  BY <1>1, <1>2, JsAlways, PTL DEF Js!Spec, Js!Promise!Spec
-------------------------------------------------------------------------------
(* The asyncio batcher.  Only a task that is attempting holds events, and a   *)
(* worker that lives belongs to the current loop: an enqueue that makes a new *)
(* worker drops no batch but the buffer of a loop that is over.               *)

AioPlaced ==
    /\ \A t \in Aio!Tasks : aio_batch[t] # {} => aio_pc[t] = "attempting"
    /\ aio_pc[Worker] \in {"created", "waiting", "attempting"} =>
          aio_in_loop /\ aio_bound = aio_loop

\* What is owed is in the buffer, until the final flush of the one stop() has begun.
AioStopping ==
    /\ aio_owed \subseteq aio_buffer
    /\ aio_closed => aio_stopped /\ aio_owed = {}
    /\ \A t \in aio_closing :
          /\ aio_stopped /\ aio_pc[t] \in {"joining", "attempting"}
          /\ aio_pc[t] = "attempting" => aio_owed = {}

AioTypes ==
    /\ aio_buffer \subseteq Events /\ aio_owed \subseteq Events /\ aio_closing \subseteq Callers
    /\ aio_bytes \in Nat /\ aio_sent \in Nat /\ aio_dropped \in Nat
    /\ aio_loop \in Nat /\ aio_bound \in Nat /\ aio_cancels \in Nat
    /\ aio_event \in BOOLEAN /\ aio_stopped \in BOOLEAN /\ aio_in_loop \in BOOLEAN
    /\ aio_closed \in BOOLEAN
    /\ aio_pc \in [Aio!Tasks -> Aio!Labels] /\ aio_batch \in [Aio!Tasks -> SUBSET Events]
    /\ aio_attempt \in [Aio!Tasks -> 0..MaxAttempts]
    /\ aio_kind \in [Events -> Kinds] /\ aio_status \in [Events -> Statuses]

AioInv == AioTypes /\ Aio!HeldOnce /\ AioPlaced /\ AioStopping

\* The types of AsyncBatcher, with its statuses named once.
LEMMA AioTyped == AioTypes <=> Aio!TypeOK
BY DEF AioTypes, Aio!TypeOK, Statuses, Js!Promise!Statuses, Aio!Promise!Statuses

\* A step in which the events S meet s and L are lost is one of the promise.
LEMMA AioPromised ==
  ASSUME AioTypes, NEW S, NEW L, NEW s, NEW x,
         Meets(aio_status, aio_status', S, L, s, x),
         aio_sent' = aio_sent + (IF s = "sent" THEN Cardinality(S) ELSE 0),
         aio_dropped' = aio_dropped + (IF s \in {"dropped", "refused"} THEN Cardinality(S) ELSE 0)
  PROVE  Aio!Promise!Step /\ aio_status' \in [Events -> Statuses]
<1>1. Counts(aio_status, aio_status', S, s)
  BY Moved
<1>2. /\ Aio!Promise!Newly("sent") = IF s = "sent" THEN S ELSE {}
      /\ Aio!Promise!Newly("dropped") = IF s = "dropped" THEN S ELSE {}
      /\ Aio!Promise!Newly("refused") = IF s = "refused" THEN S ELSE {}
  BY <1>1 DEF Counts, Aio!Promise!Newly
<1>3. aio_sent' = aio_sent + Cardinality(Aio!Promise!Newly("sent"))
  BY <1>2, FS_EmptySet
<1>4. aio_dropped' = aio_dropped
        + Cardinality(Aio!Promise!Newly("dropped") \cup Aio!Promise!Newly("refused"))
  <2>1. Aio!Promise!Newly("dropped") \cup Aio!Promise!Newly("refused")
          = IF s \in {"dropped", "refused"} THEN S ELSE {}
    BY <1>2
  <2> QED
    BY <2>1, FS_EmptySet
<1>5. /\ aio_status' \in [Events -> Statuses]
      /\ \A e \in Events : aio_status'[e] # aio_status[e] => <<aio_status[e], aio_status'[e]>> \in Moves
      /\ Cardinality({e \in Events : aio_status[e] = "new" /\ aio_status'[e] # "new"}) <= 1
  BY <1>1 DEF Counts
<1>6. Statuses = Aio!Promise!Statuses /\ Moves = Aio!Promise!Moves
  BY DEF Statuses, Moves, Js!Promise!Statuses, Aio!Promise!Statuses, Js!Promise!Moves,
         Aio!Promise!Moves, Js!Promise!Ends, Aio!Promise!Ends
<1> QED
  BY <1>3, <1>4, <1>5, <1>6, SameCardinality DEF Aio!Promise!Step

\* Events that end together, or none.
LEMMA AioSettles ==
  ASSUME BatcherAssumption, AioInv, NEW S, NEW s \in {"sent", "dropped", "lost"},
         S \subseteq Events, \A d \in S : aio_status[d] = "held",
         aio_status' = Aio!Mark(S, s),
         aio_sent' = aio_sent + (IF s = "sent" THEN Cardinality(S) ELSE 0),
         aio_dropped' = aio_dropped + (IF s = "dropped" THEN Cardinality(S) ELSE 0)
  PROVE  /\ Aio!Promise!Step
         /\ aio_status' \in [Events -> Statuses] /\ aio_sent' \in Nat /\ aio_dropped' \in Nat
         /\ {d \in Events : aio_status'[d] = "held"} = {d \in Events : aio_status[d] = "held"} \ S
<1>1. /\ s \in Statuses /\ s \in Ends /\ s # "held"
      /\ s \in {"dropped", "refused"} <=> s = "dropped"
  BY DEF Statuses, Ends, Js!Promise!Statuses, Js!Promise!Ends
<1>2. Meets(aio_status, aio_status', S, {}, s, s)
  BY <1>1 DEF Meets, Aio!Mark, AioInv, AioTypes
<1>3. Aio!Promise!Step /\ aio_status' \in [Events -> Statuses]
  BY <1>1, <1>2, AioPromised DEF AioInv
<1>4. IsFiniteSet(S) /\ Cardinality(S) \in Nat
  BY FS_Subset, FS_CardinalityType DEF BatcherAssumption
<1>5. aio_sent' \in Nat /\ aio_dropped' \in Nat
  BY <1>4 DEF AioInv, AioTypes
<1>6. {d \in Events : aio_status'[d] = "held"} = {d \in Events : aio_status[d] = "held"} \ S
  BY <1>1 DEF Aio!Mark
<1> QED
  BY <1>3, <1>5, <1>6

\* A step that ends no event and counts none stutters.
LEMMA AioStutters ==
  ASSUME UNCHANGED <<aio_status, aio_sent, aio_dropped>>
  PROVE  UNCHANGED Aio!Promise!vars
BY DEF Aio!Promise!vars

\* start() makes a worker only when the last one holds nothing.
LEMMA AioStarts ==
  ASSUME AioInv, Aio!start
  PROVE  /\ aio_batch' = aio_batch /\ AioPlaced'
         /\ aio_pc' \in [Aio!Tasks -> Aio!Labels] /\ aio_attempt' \in [Aio!Tasks -> 0..MaxAttempts]
         /\ aio_bound' \in Nat /\ UNCHANGED <<aio_loop, aio_in_loop>>
         /\ \A c \in Callers : aio_pc'[c] = aio_pc[c]
<1>0. /\ Worker \in Aio!Tasks /\ Worker \notin Callers /\ Callers \subseteq Aio!Tasks
      /\ MaxAttempts \in Nat /\ {0, 1} \subseteq 0..MaxAttempts
  BY BatcherAssumption DEF Aio!Tasks, BatcherAssumption
<1>1. CASE Aio!Spawns
  <2>1. aio_batch[Worker] = {}
    BY <1>0, <1>1 DEF Aio!Spawns, AioInv, AioPlaced
  <2>2. /\ aio_pc' = [aio_pc EXCEPT ![Worker] = "created"] /\ aio_bound' = aio_loop
        /\ aio_batch' = [aio_batch EXCEPT ![Worker] = {}]
        /\ aio_attempt' = [aio_attempt EXCEPT ![Worker] = 0]
        /\ UNCHANGED <<aio_loop, aio_in_loop>> /\ aio_in_loop
    BY <1>1 DEF Aio!start, Aio!Goto, Aio!Spawns
  <2>3. aio_batch' = aio_batch
    BY <2>1, <2>2 DEF AioInv, AioTypes
  <2>4. AioPlaced'
    BY <1>0, <2>1, <2>2, <2>3 DEF AioInv, AioTypes, AioPlaced
  <2> QED
    BY <1>0, <2>2, <2>3, <2>4 DEF AioInv, AioTypes, Aio!Labels
<1>2. CASE ~Aio!Spawns
  BY <1>2 DEF Aio!start, AioInv, AioTypes, AioPlaced
<1> QED
  BY <1>1, <1>2

\* What enqueue() makes of its event e, and of the buffer of a loop that is over.
LEMMA AioTakes ==
  ASSUME BatcherAssumption, AioInv, NEW e \in Events, NEW s \in {"filtered", "refused", "held"},
         Aio!Emits(e), Aio!start, aio_status' = Aio!Dropping(e, s),
         aio_buffer' = Aio!Kept \cup (IF s = "held" THEN {e} ELSE {}),
         aio_sent' = aio_sent,
         aio_dropped' = aio_dropped + (IF s = "refused" THEN 1 ELSE 0)
  PROVE  /\ Aio!Promise!Step /\ aio_status' \in [Events -> Statuses]
         /\ Aio!HeldOnce' /\ e \notin aio_buffer /\ Aio!Kept \subseteq aio_buffer
<1>0. /\ aio_status[e] = "new" /\ aio_status \in [Events -> Statuses] /\ aio_buffer \subseteq Events
      /\ Aio!Kept \subseteq aio_buffer /\ aio_sent \in Nat /\ aio_dropped \in Nat
  BY DEF Aio!Emits, AioInv, AioTypes, Aio!Kept
<1>1. /\ \A d \in aio_buffer : aio_status[d] = "held"
      /\ e \notin aio_buffer /\ \A t \in Aio!Tasks : e \notin aio_batch[t]
  BY <1>0 DEF AioInv, Aio!HeldOnce, Aio!InHand
<1>2. Meets(aio_status, aio_status', {e}, aio_buffer \ Aio!Kept, s, e)
  BY <1>0, <1>1 DEF Meets, Aio!Dropping, Statuses, Js!Promise!Statuses
<1>3. IsFiniteSet({e}) /\ Cardinality({e}) = 1
  BY FS_Singleton
<1>4. /\ s # "sent" /\ (s \in {"dropped", "refused"} <=> s = "refused")
      /\ aio_sent' = aio_sent + 0
  BY <1>0
<1>5. Aio!Promise!Step /\ aio_status' \in [Events -> Statuses]
  BY <1>2, <1>3, <1>4, AioPromised DEF AioInv
<1>6. aio_batch' = aio_batch
  BY AioStarts
<1>7. {d \in Events : aio_status'[d] = "held"}
        = ({d \in Events : aio_status[d] = "held"} \ (aio_buffer \ Aio!Kept))
             \cup (IF s = "held" THEN {e} ELSE {})
  BY <1>0, <1>1 DEF Aio!Dropping
<1>8. Aio!HeldOnce'
  <2>1. Aio!InHand' = Aio!InHand /\ aio_buffer \cap Aio!InHand = {} /\ e \notin Aio!InHand
    BY <1>1, <1>6 DEF Aio!InHand, AioInv, Aio!HeldOnce
  <2>2. aio_buffer \cup Aio!InHand = {d \in Events : aio_status[d] = "held"}
    BY DEF AioInv, Aio!HeldOnce
  <2>3. aio_buffer' \cup Aio!InHand' = {d \in Events : aio_status'[d] = "held"}
    BY <1>0, <1>7, <2>1, <2>2
  <2>4. aio_buffer' \cap Aio!InHand' = {}
    BY <1>0, <2>1
  <2> QED
    BY <1>6, <2>3, <2>4 DEF AioInv, Aio!HeldOnce
<1> QED
  BY <1>0, <1>1, <1>5, <1>8

\* enqueue(), with the start() it begins with.
LEMMA AioEnqueues ==
  ASSUME BatcherAssumption, AioInv, NEW e \in Events, Aio!enqueue(e)
  PROVE  AioInv' /\ Aio!Promise!Step
<1>0. AioTypes /\ AioPlaced /\ AioStopping /\ ApproxBytes[aio_kind[e]] \in Nat
  BY DEF AioInv, AioTypes, BatcherAssumption
<1>1. /\ Aio!Emits(e) /\ Aio!start
      /\ UNCHANGED <<aio_stopped, aio_closing, aio_sent, aio_kind, aio_closed, aio_cancels>>
      /\ aio_event' \in BOOLEAN
  BY DEF Aio!enqueue, Aio!Filter, Aio!Refuse, Aio!Accept
<1>2. PICK s \in {"filtered", "refused", "held"} :
         /\ aio_status' = Aio!Dropping(e, s)
         /\ aio_buffer' = Aio!Kept \cup (IF s = "held" THEN {e} ELSE {})
         /\ aio_dropped' = aio_dropped + (IF s = "refused" THEN 1 ELSE 0)
         /\ aio_bytes' = Aio!KeptBytes + (IF s = "held" THEN ApproxBytes[aio_kind[e]] ELSE 0)
         /\ aio_owed' = IF s = "held" THEN IF aio_stopped THEN aio_owed
                                           ELSE (aio_owed \cap Aio!Kept) \cup {e}
                        ELSE aio_owed \cap Aio!Kept
  <2>1. Aio!KeptBytes + 0 = Aio!KeptBytes /\ aio_dropped + 0 = aio_dropped
    BY <1>0 DEF AioTypes, Aio!KeptBytes
  <2>2. CASE Aio!Filter(e)
    BY <2>1, <2>2 DEF Aio!Filter
  <2>3. CASE Aio!Refuse(e)
    BY <2>1, <2>3 DEF Aio!Refuse
  <2>4. CASE Aio!Accept(e)
    BY <2>1, <2>4 DEF Aio!Accept
  <2> QED
    BY <2>2, <2>3, <2>4 DEF Aio!enqueue
<1>3. /\ Aio!Promise!Step /\ aio_status' \in [Events -> Statuses]
      /\ Aio!HeldOnce' /\ e \notin aio_buffer /\ Aio!Kept \subseteq aio_buffer
  BY <1>1, <1>2, AioTakes
<1>4. /\ aio_batch' = aio_batch /\ AioPlaced'
      /\ aio_pc' \in [Aio!Tasks -> Aio!Labels] /\ aio_attempt' \in [Aio!Tasks -> 0..MaxAttempts]
      /\ aio_bound' \in Nat /\ UNCHANGED <<aio_loop, aio_in_loop>>
      /\ \A c \in Callers : aio_pc'[c] = aio_pc[c]
  BY <1>1, AioStarts
<1>5. aio_stopped => Aio!Kept = aio_buffer
  BY DEF Aio!Kept, Aio!Rebinds, Aio!Spawns
<1>6. AioStopping'
  <2>1. aio_owed' \subseteq aio_buffer'
    BY <1>0, <1>2, <1>5 DEF AioStopping
  <2>2. aio_owed = {} /\ aio_stopped => aio_owed' = {}
    BY <1>2
  <2>3. \A t \in aio_closing : aio_pc'[t] = aio_pc[t]
    BY <1>0, <1>4 DEF AioTypes
  <2> QED
    BY <1>0, <1>1, <2>1, <2>2, <2>3 DEF AioStopping
<1>7. AioTypes'
  <2>1. aio_bytes' \in Nat /\ aio_dropped' \in Nat
    BY <1>0, <1>2 DEF AioTypes, Aio!KeptBytes
  <2>2. aio_buffer' \subseteq Events /\ aio_owed' \subseteq Events
    BY <1>0, <1>2, <1>3 DEF AioTypes
  <2> QED
    BY <1>0, <1>1, <1>3, <1>4, <2>1, <2>2 DEF AioTypes
<1> QED
  BY <1>3, <1>4, <1>6, <1>7 DEF AioInv

\* A drain moves the whole buffer into a task's hands, or to its end.
LEMMA AioDrains ==
  ASSUME BatcherAssumption, AioInv, NEW t \in Aio!Tasks, aio_pc[t] # "attempting",
         t = Worker => aio_in_loop /\ aio_bound = aio_loop,
         Aio!DrainAndSend(t), aio_event' \in BOOLEAN,
         UNCHANGED <<aio_stopped, aio_loop, aio_in_loop, aio_bound, aio_sent, aio_kind, aio_cancels>>
  PROVE  AioInv' /\ [Aio!Promise!Step]_(Aio!Promise!vars)
<1>0. /\ AioTypes /\ AioPlaced /\ AioStopping /\ Aio!HeldOnce /\ aio_batch[t] = {}
      /\ Worker \in Aio!Tasks /\ Worker \notin Callers /\ MaxAttempts \in Nat /\ 1 \in 0..MaxAttempts
  BY DEF AioInv, AioPlaced, BatcherAssumption, Aio!Tasks
<1>1. aio_buffer' = {} /\ aio_bytes' = 0 /\ aio_owed' = {}
  BY <1>0 DEF Aio!DrainAndSend, AioStopping
<1>2. \A d \in aio_buffer : aio_status[d] = "held"
  BY <1>0 DEF Aio!HeldOnce
<1>3. ASSUME aio_pc' = [aio_pc EXCEPT ![t] = Aio!AfterSend(t)], Aio!Leaves(t),
             UNCHANGED <<aio_batch, aio_attempt>>,
             \/ aio_buffer = {} /\ UNCHANGED <<aio_dropped, aio_status>>
             \/ /\ aio_dropped' = aio_dropped + Cardinality(aio_buffer)
                /\ aio_status' = Aio!Mark(aio_buffer, "dropped")
      PROVE  AioInv' /\ [Aio!Promise!Step]_(Aio!Promise!vars)
  <2>1. /\ [Aio!Promise!Step]_(Aio!Promise!vars)
        /\ aio_status' \in [Events -> Statuses] /\ aio_dropped' \in Nat
        /\ {d \in Events : aio_status'[d] = "held"} = {d \in Events : aio_status[d] = "held"} \ aio_buffer
    <3>1. CASE aio_buffer = {} /\ UNCHANGED <<aio_dropped, aio_status>>
      BY <1>0, <3>1, AioStutters DEF AioTypes
    <3>2. CASE /\ aio_dropped' = aio_dropped + Cardinality(aio_buffer)
               /\ aio_status' = Aio!Mark(aio_buffer, "dropped")
      <4>1. aio_sent' = aio_sent + 0 /\ aio_buffer \subseteq Events
        BY <1>0 DEF AioTypes
      <4> QED
        BY <1>2, <3>2, <4>1, AioSettles
    <3> QED
      BY <1>3, <3>1, <3>2
  <2>2. Aio!HeldOnce'
    <3>1. aio_buffer' \cup Aio!InHand' = {d \in Events : aio_status'[d] = "held"}
      BY <1>0, <1>1, <1>3, <2>1 DEF Aio!HeldOnce, Aio!InHand
    <3> QED
      BY <1>0, <1>1, <1>3, <3>1 DEF Aio!HeldOnce, Aio!InHand
  <2>3. aio_pc' \in [Aio!Tasks -> Aio!Labels] /\ \A u \in Aio!Tasks : u # t => aio_pc'[u] = aio_pc[u]
    BY <1>0, <1>3 DEF AioTypes, Aio!Labels, Aio!AfterSend
  <2>4. AioPlaced'
    BY <1>0, <1>3, <2>3 DEF AioPlaced
  <2>5. AioStopping' /\ aio_closing' \subseteq Callers /\ aio_closed' \in BOOLEAN
    <3>1. aio_closing \subseteq Aio!Tasks
      BY <1>0 DEF AioTypes, Aio!Tasks
    <3> QED
      BY <1>0, <1>1, <1>3, <2>3, <3>1 DEF AioStopping, AioTypes, Aio!Leaves
  <2>6. AioTypes'
    BY <1>0, <1>1, <1>3, <2>1, <2>3, <2>5 DEF AioTypes
  <2> QED
    BY <2>1, <2>2, <2>4, <2>5, <2>6 DEF AioInv
<1>4. ASSUME aio_batch' = [aio_batch EXCEPT ![t] = aio_buffer],
             aio_attempt' = [aio_attempt EXCEPT ![t] = 1],
             aio_pc' = [aio_pc EXCEPT ![t] = "attempting"],
             UNCHANGED <<aio_dropped, aio_status, aio_closing, aio_closed>>
      PROVE  AioInv' /\ [Aio!Promise!Step]_(Aio!Promise!vars)
  <2>1. /\ \A u \in Aio!Tasks : aio_batch'[u] = IF u = t THEN aio_buffer ELSE aio_batch[u]
        /\ \A u \in Aio!Tasks : aio_pc'[u] = IF u = t THEN "attempting" ELSE aio_pc[u]
    BY <1>0, <1>4 DEF AioTypes
  <2>2. Aio!InHand' = aio_buffer \cup Aio!InHand
    BY <1>0, <2>1 DEF Aio!InHand
  <2>3. Aio!HeldOnce'
    <3>1. \A u, v \in Aio!Tasks : u # v => aio_batch'[u] \cap aio_batch'[v] = {}
      BY <1>0, <2>1 DEF Aio!HeldOnce, Aio!InHand
    <3> QED
      BY <1>0, <1>1, <1>4, <2>2, <3>1 DEF Aio!HeldOnce
  <2>4. AioPlaced'
    BY <1>0, <2>1 DEF AioPlaced
  <2>5. AioStopping'
    <3>1. aio_closing \subseteq Aio!Tasks
      BY <1>0 DEF AioTypes, Aio!Tasks
    <3> QED
      BY <1>0, <1>1, <1>4, <2>1, <3>1 DEF AioStopping
  <2>6. AioTypes'
    BY <1>0, <1>1, <1>4 DEF AioTypes, Aio!Labels
  <2>7. UNCHANGED Aio!Promise!vars
    BY <1>4, AioStutters
  <2> QED
    BY <2>3, <2>4, <2>5, <2>6, <2>7 DEF AioInv
<1> QED
  BY <1>3, <1>4, SameCardinality DEF Aio!DrainAndSend, Aio!Goto

\* A send that ends settles its batch and nothing else.
LEMMA AioEnds ==
  ASSUME BatcherAssumption, AioInv, NEW t \in Aio!Tasks, Aio!Sent(t) \/ Aio!GivenUp(t)
  PROVE  AioInv' /\ Aio!Promise!Step
<1>0. /\ AioTypes /\ AioPlaced /\ AioStopping /\ Aio!HeldOnce
      /\ MaxAttempts \in Nat /\ 0 \in 0..MaxAttempts
  BY DEF AioInv, BatcherAssumption
<1>1. PICK s \in {"sent", "dropped"} :
         /\ Aio!EndSend(t, s)
         /\ aio_sent' = aio_sent + (IF s = "sent" THEN Cardinality(aio_batch[t]) ELSE 0)
         /\ aio_dropped' = aio_dropped + (IF s = "dropped" THEN Cardinality(aio_batch[t]) ELSE 0)
  <2>1. aio_sent + 0 = aio_sent /\ aio_dropped + 0 = aio_dropped
    BY <1>0 DEF AioTypes
  <2> QED
    BY <2>1, SameCardinality DEF Aio!Sent, Aio!GivenUp
<1>2. /\ aio_status' = Aio!Mark(aio_batch[t], s) /\ Aio!Leaves(t)
      /\ aio_batch' = [aio_batch EXCEPT ![t] = {}] /\ aio_attempt' = [aio_attempt EXCEPT ![t] = 0]
      /\ aio_pc' = [aio_pc EXCEPT ![t] = Aio!AfterSend(t)]
      /\ UNCHANGED <<aio_buffer, aio_bytes, aio_event, aio_stopped, aio_loop, aio_in_loop, aio_bound,
                     aio_kind, aio_owed, aio_cancels>>
  BY <1>1 DEF Aio!EndSend, Aio!Goto, Aio!loopVars
<1>3. aio_pc[t] = "attempting" /\ (t = Worker => aio_in_loop /\ aio_bound = aio_loop)
  BY <1>0 DEF Aio!Sent, Aio!GivenUp, AioPlaced
<1>4. aio_batch[t] \subseteq Events /\ \A d \in aio_batch[t] : aio_status[d] = "held"
  BY <1>0 DEF AioTypes, Aio!HeldOnce, Aio!InHand
<1>5. /\ Aio!Promise!Step
      /\ aio_status' \in [Events -> Statuses] /\ aio_sent' \in Nat /\ aio_dropped' \in Nat
      /\ {d \in Events : aio_status'[d] = "held"} = {d \in Events : aio_status[d] = "held"} \ aio_batch[t]
  BY <1>1, <1>2, <1>4, AioSettles
<1>6. /\ \A u \in Aio!Tasks : aio_batch'[u] = IF u = t THEN {} ELSE aio_batch[u]
      /\ \A u \in Aio!Tasks : u # t => aio_pc'[u] = aio_pc[u]
      /\ aio_pc' \in [Aio!Tasks -> Aio!Labels]
  BY <1>0, <1>2 DEF AioTypes, Aio!Labels, Aio!AfterSend
<1>7. Aio!HeldOnce'
  <2>1. Aio!InHand' = Aio!InHand \ aio_batch[t] /\ aio_buffer \cap aio_batch[t] = {}
    BY <1>0, <1>6 DEF Aio!InHand, Aio!HeldOnce
  <2>2. aio_buffer' \cup Aio!InHand' = {d \in Events : aio_status'[d] = "held"}
    BY <1>0, <1>2, <1>5, <2>1 DEF Aio!HeldOnce
  <2> QED
    BY <1>0, <1>2, <1>6, <2>1, <2>2 DEF Aio!HeldOnce
<1>8. AioPlaced'
  BY <1>0, <1>2, <1>3, <1>6 DEF AioPlaced
<1>9. AioStopping' /\ aio_closing' \subseteq Callers /\ aio_closed' \in BOOLEAN
  <2>1. aio_closing \subseteq Aio!Tasks
    BY <1>0 DEF AioTypes, Aio!Tasks
  <2> QED
    BY <1>0, <1>2, <1>3, <1>6, <2>1 DEF AioStopping, AioTypes, Aio!Leaves
<1>10. AioTypes'
  <2>1. aio_batch' \in [Aio!Tasks -> SUBSET Events] /\ aio_attempt' \in [Aio!Tasks -> 0..MaxAttempts]
    BY <1>0, <1>2 DEF AioTypes
  <2> QED
    BY <1>0, <1>2, <1>5, <1>6, <1>9, <2>1 DEF AioTypes
<1> QED
  BY <1>5, <1>7, <1>8, <1>9, <1>10 DEF AioInv

\* Steps that move no event.
LEMMA AioStays ==
  ASSUME AioInv,
         UNCHANGED <<aio_buffer, aio_bytes, aio_batch, aio_sent, aio_dropped, aio_kind, aio_status,
                     aio_owed, aio_closed>>,
         AioPlaced', AioStopping',
         aio_closing' \subseteq Callers, aio_loop' \in Nat, aio_bound' \in Nat, aio_cancels' \in Nat,
         aio_event' \in BOOLEAN, aio_stopped' \in BOOLEAN, aio_in_loop' \in BOOLEAN,
         aio_pc' \in [Aio!Tasks -> Aio!Labels], aio_attempt' \in [Aio!Tasks -> 0..MaxAttempts]
  PROVE  AioInv' /\ UNCHANGED Aio!Promise!vars
<1>1. AioTypes'
  BY DEF AioInv, AioTypes
<1>2. Aio!HeldOnce'
  BY DEF AioInv, Aio!HeldOnce, Aio!InHand
<1> QED
  BY <1>1, <1>2, AioStutters DEF AioInv

\* The retries, the worker's first step, and the callers' around stop().
LEMMA AioGoesOn ==
  ASSUME BatcherAssumption, AioInv, NEW t \in Aio!Tasks,
         \/ Aio!Retry(t) \/ Aio!Begin
         \/ t \in Callers /\ (Aio!stop(t) \/ Aio!StopRaises(t))
         \/ Aio!LoopBegins
  PROVE  AioInv' /\ UNCHANGED Aio!Promise!vars
<1>0. /\ AioTypes /\ AioPlaced /\ AioStopping /\ Worker \in Aio!Tasks /\ Worker \notin Callers
      /\ MaxAttempts \in Nat /\ aio_closing \subseteq Aio!Tasks
  BY DEF AioInv, AioTypes, BatcherAssumption, Aio!Tasks
<1>1. CASE Aio!Retry(t)
  <2>1. /\ aio_attempt' \in [Aio!Tasks -> 0..MaxAttempts]
        /\ UNCHANGED <<aio_buffer, aio_bytes, aio_event, aio_stopped, aio_loop, aio_in_loop, aio_bound,
                       aio_pc, aio_batch, aio_closing, aio_sent, aio_dropped, aio_kind, aio_status,
                       aio_owed, aio_closed, aio_cancels>>
    BY <1>0, <1>1 DEF Aio!Retry, Aio!loopVars, AioTypes
  <2>2. AioPlaced' /\ AioStopping'
    BY <1>0, <2>1 DEF AioPlaced, AioStopping
  <2> QED
    BY <1>0, <2>1, <2>2, AioStays DEF AioTypes
<1>2. CASE Aio!Begin
  <2>1. /\ aio_pc[Worker] = "created" /\ aio_in_loop /\ aio_bound = aio_loop
        /\ aio_pc' \in [Aio!Tasks -> Aio!Labels]
        /\ aio_pc'[Worker] \in {"done", "waiting"}
        /\ \A u \in Aio!Tasks : u # Worker => aio_pc'[u] = aio_pc[u]
        /\ UNCHANGED <<aio_buffer, aio_bytes, aio_event, aio_stopped, aio_loop, aio_in_loop, aio_bound,
                       aio_batch, aio_attempt, aio_closing, aio_sent, aio_dropped, aio_kind,
                       aio_status, aio_owed, aio_closed, aio_cancels>>
    BY <1>0, <1>2 DEF Aio!Begin, Aio!Goto, Aio!loopVars, AioTypes, AioPlaced, Aio!Labels
  <2>2. AioPlaced' /\ AioStopping'
    BY <1>0, <2>1 DEF AioPlaced, AioStopping, AioTypes
  <2> QED
    BY <1>0, <2>1, <2>2, AioStays DEF AioTypes
<1>3. CASE t \in Callers /\ Aio!stop(t)
  <2>1. /\ aio_pc[t] = "idle" /\ ~aio_stopped /\ aio_stopped' = TRUE /\ aio_event' = TRUE
        /\ aio_closing' = aio_closing \cup {t}
        /\ aio_pc' \in [Aio!Tasks -> Aio!Labels] /\ aio_pc'[t] = "joining"
        /\ \A u \in Aio!Tasks : u # t => aio_pc'[u] = aio_pc[u]
        /\ UNCHANGED <<aio_buffer, aio_bytes, aio_loop, aio_in_loop, aio_bound, aio_batch, aio_attempt,
                       aio_sent, aio_dropped, aio_kind, aio_status, aio_owed, aio_closed, aio_cancels>>
    BY <1>0, <1>3 DEF Aio!stop, Aio!Goto, Aio!loopVars, AioTypes, Aio!Labels
  <2>2. AioPlaced' /\ AioStopping'
    BY <1>0, <1>3, <2>1 DEF AioPlaced, AioStopping
  <2>3. aio_closing' \subseteq Callers
    BY <1>0, <1>3, <2>1 DEF AioTypes
  <2> QED
    BY <1>0, <2>1, <2>2, <2>3, AioStays DEF AioTypes
<1>4. CASE t \in Callers /\ Aio!StopRaises(t)
  <2>1. /\ aio_pc[t] = "joining" /\ aio_closing' = aio_closing \ {t}
        /\ aio_pc' \in [Aio!Tasks -> Aio!Labels] /\ aio_pc'[t] = "idle"
        /\ \A u \in Aio!Tasks : u # t => aio_pc'[u] = aio_pc[u]
        /\ UNCHANGED <<aio_buffer, aio_bytes, aio_event, aio_stopped, aio_loop, aio_in_loop, aio_bound,
                       aio_batch, aio_attempt, aio_sent, aio_dropped, aio_kind, aio_status, aio_owed,
                       aio_closed, aio_cancels>>
    BY <1>0, <1>4 DEF Aio!StopRaises, Aio!Goto, Aio!loopVars, AioTypes, Aio!Labels
  <2>2. AioPlaced' /\ AioStopping'
    BY <1>0, <1>4, <2>1 DEF AioPlaced, AioStopping
  <2>3. aio_closing' \subseteq Callers
    BY <1>0, <2>1 DEF AioTypes
  <2> QED
    BY <1>0, <2>1, <2>2, <2>3, AioStays DEF AioTypes
<1>5. CASE Aio!LoopBegins
  <2>1. /\ ~aio_in_loop /\ aio_loop' = aio_loop + 1 /\ aio_in_loop' = TRUE
        /\ UNCHANGED <<aio_buffer, aio_bytes, aio_event, aio_stopped, aio_bound, aio_pc, aio_batch,
                       aio_attempt, aio_closing, aio_sent, aio_dropped, aio_kind, aio_status, aio_owed,
                       aio_closed, aio_cancels>>
    BY <1>5 DEF Aio!LoopBegins
  <2>2. AioPlaced' /\ AioStopping'
    BY <1>0, <2>1 DEF AioPlaced, AioStopping
  <2>3. aio_loop' \in Nat
    BY <1>0, <2>1 DEF AioTypes
  <2> QED
    BY <1>0, <2>1, <2>2, <2>3, AioStays DEF AioTypes
<1> QED
  BY <1>1, <1>2, <1>3, <1>4, <1>5

\* A worker that is cancelled loses its batch, uncounted.
LEMMA AioLosesBatch ==
  ASSUME BatcherAssumption, AioInv, NEW label \in {"done", "cancelled"},
         aio_pc' = [aio_pc EXCEPT ![Worker] = label],
         aio_batch' = [aio_batch EXCEPT ![Worker] = {}],
         aio_attempt' = [aio_attempt EXCEPT ![Worker] = 0],
         aio_status' = Aio!Mark(aio_batch[Worker], "lost"), aio_cancels' \in Nat,
         UNCHANGED <<aio_buffer, aio_bytes, aio_event, aio_stopped, aio_loop, aio_in_loop, aio_bound,
                     aio_closing, aio_sent, aio_dropped, aio_kind, aio_owed, aio_closed>>
  PROVE  AioInv' /\ Aio!Promise!Step
<1>0. /\ AioTypes /\ AioPlaced /\ AioStopping /\ Aio!HeldOnce
      /\ MaxAttempts \in Nat /\ 0 \in 0..MaxAttempts /\ Worker \in Aio!Tasks /\ Worker \notin Callers
  BY DEF AioInv, BatcherAssumption, Aio!Tasks
<1>1. aio_batch[Worker] \subseteq Events /\ \A d \in aio_batch[Worker] : aio_status[d] = "held"
  BY <1>0 DEF AioTypes, Aio!HeldOnce, Aio!InHand
<1>2. aio_sent' = aio_sent + 0 /\ aio_dropped' = aio_dropped + 0
  BY <1>0 DEF AioTypes
<1>3. /\ Aio!Promise!Step /\ aio_status' \in [Events -> Statuses]
      /\ {d \in Events : aio_status'[d] = "held"}
           = {d \in Events : aio_status[d] = "held"} \ aio_batch[Worker]
  BY <1>1, <1>2, AioSettles
<1>4. /\ \A u \in Aio!Tasks : aio_batch'[u] = IF u = Worker THEN {} ELSE aio_batch[u]
      /\ \A u \in Aio!Tasks : aio_pc'[u] = IF u = Worker THEN label ELSE aio_pc[u]
  BY <1>0 DEF AioTypes
<1>5. Aio!HeldOnce'
  <2>1. Aio!InHand' = Aio!InHand \ aio_batch[Worker] /\ aio_buffer \cap aio_batch[Worker] = {}
    BY <1>0, <1>4 DEF Aio!InHand, Aio!HeldOnce
  <2>2. aio_buffer' \cup Aio!InHand' = {d \in Events : aio_status'[d] = "held"}
    BY <1>0, <1>3, <2>1 DEF Aio!HeldOnce
  <2> QED
    BY <1>0, <1>4, <2>1, <2>2 DEF Aio!HeldOnce
<1>6. AioPlaced' /\ AioStopping'
  <2>1. aio_closing \subseteq Aio!Tasks \ {Worker}
    BY <1>0 DEF AioTypes, Aio!Tasks
  <2> QED
    BY <1>0, <1>4, <2>1 DEF AioPlaced, AioStopping
<1>7. AioTypes'
  BY <1>0, <1>3 DEF AioTypes, Aio!Labels
<1> QED
  BY <1>3, <1>5, <1>6, <1>7 DEF AioInv

\* The end of a loop cancels every task.
LEMMA AioLoopEnds ==
  ASSUME BatcherAssumption, AioInv, Aio!LoopEnds
  PROVE  AioInv' /\ Aio!Promise!Step
<1>0. /\ AioTypes /\ AioStopping /\ Aio!HeldOnce /\ MaxAttempts \in Nat /\ 0 \in 0..MaxAttempts
      /\ Worker \in Aio!Tasks
  BY DEF AioInv, BatcherAssumption, Aio!Tasks
<1>1. /\ aio_in_loop' = FALSE /\ aio_closing' = {}
      /\ aio_pc' = [t \in Aio!Tasks |-> Aio!Cancelled(t)]
      /\ aio_batch' = [t \in Aio!Tasks |-> {}] /\ aio_attempt' = [t \in Aio!Tasks |-> 0]
      /\ aio_status' = Aio!Mark(Aio!InHand, "lost")
      /\ UNCHANGED <<aio_buffer, aio_bytes, aio_event, aio_stopped, aio_loop, aio_bound, aio_sent,
                     aio_dropped, aio_kind, aio_owed, aio_closed, aio_cancels>>
  BY DEF Aio!LoopEnds, Aio!InHand
<1>2. Aio!InHand \subseteq Events /\ \A d \in Aio!InHand : aio_status[d] = "held"
  BY <1>0 DEF AioTypes, Aio!HeldOnce, Aio!InHand
<1>3. aio_sent' = aio_sent + 0 /\ aio_dropped' = aio_dropped + 0
  BY <1>0, <1>1 DEF AioTypes
<1>4. /\ Aio!Promise!Step /\ aio_status' \in [Events -> Statuses]
      /\ {d \in Events : aio_status'[d] = "held"} = {d \in Events : aio_status[d] = "held"} \ Aio!InHand
  BY <1>1, <1>2, <1>3, AioSettles
<1>5. Aio!HeldOnce'
  <2>1. Aio!InHand' = {}
    BY <1>1 DEF Aio!InHand
  <2> QED
    BY <1>0, <1>1, <1>4, <2>1 DEF Aio!HeldOnce
<1>6. AioPlaced' /\ AioStopping'
  BY <1>0, <1>1 DEF AioPlaced, AioStopping, Aio!Cancelled
<1>7. AioTypes'
  <2>1. aio_pc' \in [Aio!Tasks -> Aio!Labels]
    BY <1>0, <1>1 DEF Aio!Cancelled, AioTypes, Aio!Labels
  <2> QED
    BY <1>0, <1>1, <1>4, <2>1 DEF AioTypes
<1> QED
  BY <1>4, <1>5, <1>6, <1>7 DEF AioInv

\* Every step of the asyncio batcher keeps the invariant and is one of its promise.
LEMMA AioKeepsPromise ==
  ASSUME AioInv, [Aio!Next]_(Aio!vars)
  PROVE  AioInv' /\ [Aio!Promise!Step]_(Aio!Promise!vars)
<1> USE BatcherAssumption
<1>0. Worker \in Aio!Tasks /\ Callers \subseteq Aio!Tasks /\ Worker \notin Callers
  BY DEF Aio!Tasks, BatcherAssumption
<1>1. ASSUME NEW t \in Aio!Tasks,
             \/ t \in Callers /\ (Aio!flush(t) \/ Aio!Joined(t))
             \/ t = Worker /\ Aio!Wake
      PROVE  AioInv' /\ [Aio!Promise!Step]_(Aio!Promise!vars)
  <2>1. /\ Aio!DrainAndSend(t) /\ aio_event' \in BOOLEAN
        /\ UNCHANGED <<aio_stopped, aio_loop, aio_in_loop, aio_bound, aio_sent, aio_kind, aio_cancels>>
    BY <1>1 DEF Aio!flush, Aio!Joined, Aio!Wake, Aio!loopVars, AioInv, AioTypes
  <2>2. aio_pc[t] # "attempting" /\ (t = Worker => aio_in_loop /\ aio_bound = aio_loop)
    BY <1>0, <1>1 DEF Aio!flush, Aio!Joined, Aio!Wake, AioInv, AioPlaced
  <2> QED
    BY <2>1, <2>2, AioDrains
<1>2. ASSUME NEW c \in Callers, Aio!JoinTimesOut(c)
      PROVE  AioInv' /\ Aio!Promise!Step
  BY <1>2, AioLosesBatch DEF Aio!JoinTimesOut, Aio!loopVars, AioInv, AioTypes
<1>3. CASE Aio!CancelWorker
  <2>1. aio_cancels' \in Nat
    BY <1>3 DEF Aio!CancelWorker, AioInv, AioTypes
  <2> QED
    BY <1>3, <2>1, AioLosesBatch DEF Aio!CancelWorker, Aio!loopVars, Aio!Goto
<1>4. CASE UNCHANGED Aio!vars
  BY <1>4, AioStutters
     DEF Aio!vars, Aio!loopVars, AioInv, AioTypes, Aio!HeldOnce, Aio!InHand, AioPlaced, AioStopping
<1>5. \A t \in Aio!Tasks : Aio!Answer(t) => AioInv' /\ [Aio!Promise!Step]_(Aio!Promise!vars)
  BY AioEnds, AioGoesOn DEF Aio!Answer
<1>6. \A e \in Events : Aio!enqueue(e) => AioInv' /\ Aio!Promise!Step
  BY AioEnqueues
<1>7. \A c \in Callers : Aio!stop(c) \/ Aio!StopRaises(c) => AioInv' /\ UNCHANGED Aio!Promise!vars
  BY <1>0, AioGoesOn
<1>8. Aio!Begin \/ Aio!LoopBegins => AioInv' /\ UNCHANGED Aio!Promise!vars
  BY <1>0, AioGoesOn
<1> QED
  BY <1>0, <1>1, <1>2, <1>3, <1>4, <1>5, <1>6, <1>7, <1>8, AioLoopEnds
     DEF Aio!Next, Aio!WorkerStep, Aio!CallerStep

\* In every behaviour of the asyncio batcher each held event is in one place, and what
\* stop() owes is flushed.
LEMMA AioAlways == Aio!Spec => []AioInv
<1>1. Aio!Init => AioInv
  <2> SUFFICES ASSUME Aio!Init
               PROVE  AioInv
    OBVIOUS
  <2>0. MaxAttempts \in Nat /\ Worker \in Aio!Tasks
    BY BatcherAssumption DEF BatcherAssumption, Aio!Tasks
  <2>1. Aio!HeldOnce
    BY DEF Aio!Init, Aio!HeldOnce, Aio!InHand
  <2>2. AioPlaced /\ AioStopping
    BY <2>0 DEF Aio!Init, AioPlaced, AioStopping
  <2>3. aio_pc \in [Aio!Tasks -> Aio!Labels] /\ aio_status \in [Events -> Statuses]
    BY DEF Aio!Init, Aio!Labels, Statuses, Js!Promise!Statuses
  <2>4. /\ aio_event \in BOOLEAN /\ aio_stopped \in BOOLEAN /\ aio_in_loop \in BOOLEAN
        /\ aio_closed \in BOOLEAN
    BY DEF Aio!Init
  <2>5. /\ aio_buffer \subseteq Events /\ aio_owed \subseteq Events /\ aio_closing \subseteq Callers
        /\ aio_bytes \in Nat /\ aio_sent \in Nat /\ aio_dropped \in Nat
        /\ aio_loop \in Nat /\ aio_bound \in Nat /\ aio_cancels \in Nat
    BY DEF Aio!Init
  <2>6. /\ aio_batch \in [Aio!Tasks -> SUBSET Events] /\ aio_attempt \in [Aio!Tasks -> 0..MaxAttempts]
        /\ aio_kind \in [Events -> Kinds]
    BY <2>0 DEF Aio!Init
  <2> QED
    BY <2>1, <2>2, <2>3, <2>4, <2>5, <2>6 DEF AioInv, AioTypes
<1>2. AioInv /\ [Aio!Next]_(Aio!vars) => AioInv'
  BY AioKeepsPromise
<1> QED
  BY <1>1, <1>2, PTL DEF Aio!Spec

\* The asyncio batcher implements Delivery.
THEOREM AioAlwaysDelivers == Aio!Spec => Aio!Promise!Spec
<1>1. Aio!Init => Aio!Promise!Init
  BY DEF Aio!Init, Aio!Promise!Init
<1>2. AioInv /\ [Aio!Next]_(Aio!vars) => [Aio!Promise!Step]_(Aio!Promise!vars)
  BY AioKeepsPromise
<1> QED
  BY <1>1, <1>2, AioAlways, PTL DEF Aio!Spec, Aio!Promise!Spec
-------------------------------------------------------------------------------
(* The shared breaker, for any threshold, window, jitter and number of attempts. *)

\* The longest window is a number that bounds every window.
LEMMA LongestType ==
    Shared!Longest \in Nat /\ Shared!Windows \subseteq 0..Shared!Longest
BY SharedAssumed DEF Shared!SharedBreakerAssumption, Shared!Longest, Shared!Windows

\* Every variable keeps its type, the number of attempts among them.
THEOREM BreakerTyped == Shared!Spec => []Shared!Typed
<1>1. Shared!Init => Shared!Typed
  BY LongestType, SharedAssumed
     DEF Shared!SharedBreakerAssumption, Shared!Init, Shared!Typed, Shared!TypeOK
<1>2. Shared!Typed /\ [Shared!Next]_(Shared!vars) => Shared!Typed'
  <2> SUFFICES ASSUME Shared!Typed, [Shared!Next]_(Shared!vars)
               PROVE  Shared!Typed'
    OBVIOUS
  <2> USE LongestType, SharedAssumed
         DEF Shared!SharedBreakerAssumption, Shared!Typed, Shared!TypeOK, Shared!vars,
             Shared!breaker, Shared!sender, Shared!receiver, Shared!counts, Shared!CountsAnew,
             Shared!Sleeps
  <2>1. CASE Shared!Tick
    BY <2>1 DEF Shared!Tick
  <2>2. CASE Shared!Call
    BY <2>2 DEF Shared!Call, Shared!Admitted
  <2>3. CASE Shared!AnsweredOk
    BY <2>3 DEF Shared!AnsweredOk, Shared!Over, Shared!recordSuccess
  <2>4. CASE Shared!Rejected
    BY <2>4 DEF Shared!Rejected, Shared!Over, Shared!recordFailure, Shared!Bump
  <2>5. CASE Shared!NoAnswer \/ Shared!BackOff
    BY <2>5 DEF Shared!NoAnswer, Shared!BackOff, Shared!Over
  <2>6. CASE Shared!Again
    <3>1. cb_attempt # 0 /\ cb_attempt + 1 \in Nat
      BY <2>6 DEF Shared!Again
    <3>2. cb_attempt < MaxAttempts
      BY <2>6 DEF Shared!Again
    <3>3. QED
      BY <2>6, <3>1, <3>2 DEF Shared!Again, Shared!GoesOut
  <2>7. CASE Shared!Poll \/ Shared!Held
    BY <2>7 DEF Shared!Poll, Shared!Held, Shared!Admitted
  <2>8. CASE Shared!PollAnswered \/ Shared!StreamEnds
    BY <2>8 DEF Shared!PollAnswered, Shared!StreamEnds, Shared!recordSuccess
  <2>9. CASE Shared!PollFails
    BY <2>9 DEF Shared!PollFails, Shared!recordFailure, Shared!Bump, Shared!GoesOut
  <2>10. CASE Shared!ConnectFails
    BY <2>10 DEF Shared!ConnectFails, Shared!recordFailure, Shared!Bump
  <2>11. CASE Shared!PollBeside
    <3>1. cb_timer' \in {"none", "runs"} /\ cb_beside' \in Nat
      BY <2>11 DEF Shared!PollBeside
    <3>2. QED
      BY <2>11, <3>1 DEF Shared!PollBeside
  <2>12. CASE Shared!Wakes \/ Shared!Stop
    BY <2>12 DEF Shared!Wakes, Shared!Stop
  <2>13. CASE UNCHANGED Shared!vars
    BY <2>13
  <2>14. QED
    BY <2>1, <2>2, <2>3, <2>4, <2>5, <2>6, <2>7, <2>8, <2>9, <2>10, <2>11, <2>12, <2>13
       DEF Shared!Next
<1>3. QED
  BY <1>1, <1>2, PTL DEF Shared!Spec

\* The fields of the breaker agree in every reachable state.
THEOREM BreakerFieldsAgree == Shared!Spec => []Shared!FieldsAgree
<1>1. Shared!Init => Shared!FieldsAgree
  BY SharedAssumed DEF Shared!SharedBreakerAssumption, Shared!Init, Shared!FieldsAgree
<1>2. Shared!Typed /\ Shared!FieldsAgree /\ [Shared!Next]_(Shared!vars)
        => Shared!FieldsAgree'
  <2> SUFFICES ASSUME Shared!Typed, Shared!FieldsAgree, [Shared!Next]_(Shared!vars)
               PROVE  Shared!FieldsAgree'
    OBVIOUS
  <2> USE LongestType, SharedAssumed
         DEF Shared!SharedBreakerAssumption, Shared!Typed, Shared!TypeOK,
             Shared!FieldsAgree, Shared!vars, Shared!breaker
  <2>1. CASE Shared!Tick
    BY <2>1 DEF Shared!Tick
  <2>2. CASE Shared!Admitted
    BY <2>2 DEF Shared!Admitted, Shared!Refusing
  <2>3. CASE Shared!recordSuccess
    BY <2>3 DEF Shared!recordSuccess
  <2>4. CASE Shared!recordFailure
    BY <2>4 DEF Shared!recordFailure, Shared!Bump, Shared!Opens
  <2>5. CASE UNCHANGED Shared!breaker
    BY <2>5
  <2>6. QED
    BY <2>1, <2>2, <2>3, <2>4, <2>5
       DEF Shared!Next, Shared!Call, Shared!AnsweredOk, Shared!Rejected, Shared!NoAnswer,
           Shared!BackOff, Shared!Again, Shared!Poll, Shared!Held, Shared!PollAnswered,
           Shared!PollFails, Shared!StreamEnds, Shared!ConnectFails, Shared!PollBeside,
           Shared!Wakes, Shared!Stop
<1>3. QED
  BY <1>1, <1>2, BreakerTyped, PTL DEF Shared!Spec

\* While the circuit is open, the ticks refused, the rest of the window and a window for
\* each report that calls under way may still make come to three windows; and what has
\* leaked and what these calls may still send unasked, to the attempts of one call.
BreakerRest == IF cb_age < cb_window THEN cb_window - cb_age ELSE 0
PostOwes == IF cb_post = "idle" THEN 0 ELSE Shared!Longest
LoopOwes ==
    IF cb_loop = "polls" THEN 2 * Shared!Longest
    ELSE IF cb_loop = "connects" THEN Shared!Longest ELSE 0
PostSends == IF cb_post = "idle" THEN 0 ELSE MaxAttempts - cb_attempt
LoopSends == IF cb_loop = "polls" THEN 1 ELSE 0

BreakerBudget ==
    /\ cb_state # "open" => cb_refused = 0 /\ cb_leaked = 0
    /\ cb_state = "open" =>
          /\ cb_refused + BreakerRest + PostOwes + LoopOwes <= 3 * Shared!Longest
          /\ cb_leaked + PostSends + LoopSends <= MaxAttempts

\* A failure that is reported opens the circuit, with a whole window, or leaves it closed.
LEMMA FailureReported ==
    ASSUME Shared!Typed, Shared!FieldsAgree, Shared!recordFailure
    PROVE  \/ cb_state' = "open" /\ \E r \in 0..Shared!Longest : BreakerRest' = r
           \/ cb_state # "open" /\ cb_state' # "open"
<1>1. CASE Shared!Opens
  <2>1. cb_state' = "open" /\ cb_age' = 0 /\ Shared!Longest \in Nat
    BY <1>1, LongestType DEF Shared!recordFailure
  <2>2. PICK r \in 0..Shared!Longest : cb_window' = r
    BY <1>1, LongestType DEF Shared!recordFailure
  <2>3. BreakerRest' = r
    BY <2>1, <2>2 DEF BreakerRest
  <2>4. QED
    BY <2>1, <2>3
<1>2. CASE ~Shared!Opens
  BY <1>2, SharedAssumed
     DEF Shared!SharedBreakerAssumption, Shared!Typed, Shared!TypeOK, Shared!recordFailure,
         Shared!Opens, Shared!Bump, Shared!FieldsAgree
<1>3. QED
  BY <1>1, <1>2

\* The budget is kept from the first state on.
LEMMA BudgetKept == Shared!Spec => []BreakerBudget
<1>1. Shared!Init => BreakerBudget
  BY DEF Shared!Init, BreakerBudget
<1>2. Shared!Typed /\ Shared!FieldsAgree /\ BreakerBudget /\ [Shared!Next]_(Shared!vars)
        => BreakerBudget'
  <2> SUFFICES ASSUME Shared!Typed, Shared!FieldsAgree, BreakerBudget, [Shared!Next]_(Shared!vars)
               PROVE  BreakerBudget'
    OBVIOUS
  <2>0. /\ Shared!Longest \in Nat /\ MaxAttempts \in Nat \ {0}
        /\ cb_refused \in Nat /\ cb_leaked \in Nat
        /\ BreakerRest \in Nat /\ cb_attempt \in 0..MaxAttempts
        /\ cb_post = "idle" <=> cb_attempt = 0
    BY LongestType, SharedAssumed
       DEF Shared!SharedBreakerAssumption, Shared!Typed, Shared!TypeOK, BreakerRest
  <2>1. CASE Shared!Tick
    BY <2>0, <2>1, LongestType
       DEF Shared!Tick, Shared!Refusing, Shared!sender, Shared!receiver,
           BreakerBudget, BreakerRest, PostOwes, LoopOwes, PostSends, LoopSends, Shared!Typed,
           Shared!TypeOK
  <2>2. CASE Shared!Call \/ Shared!Poll
    <3>1. cb_state' # "open" /\ cb_refused' = 0 /\ cb_leaked' = 0
      BY <2>2 DEF Shared!Call, Shared!Poll, Shared!Admitted, Shared!CountsAnew, Shared!counts,
                  BreakerBudget
    <3>2. QED
      BY <3>1 DEF BreakerBudget
  <2>3. CASE Shared!AnsweredOk \/ Shared!PollAnswered \/ Shared!StreamEnds
    BY <2>3
       DEF Shared!AnsweredOk, Shared!PollAnswered, Shared!StreamEnds, Shared!recordSuccess,
           Shared!CountsAnew, BreakerBudget
  <2>4. CASE Shared!Rejected
    <3>1. /\ cb_post = "sends" /\ cb_post' = "idle"
          /\ cb_loop' = cb_loop /\ cb_attempt' = 0
          /\ cb_refused' = cb_refused /\ cb_leaked' = cb_leaked
      BY <2>4 DEF Shared!Rejected, Shared!Over, Shared!receiver, Shared!counts
    <3>2. ASSUME NEW r \in 0..Shared!Longest, cb_state' = "open", BreakerRest' = r
          PROVE  BreakerBudget'
      BY <2>0, <3>1, <3>2 DEF BreakerBudget, PostOwes, LoopOwes, PostSends, LoopSends
    <3>3. QED
      BY <2>4, <3>1, <3>2, FailureReported DEF Shared!Rejected, BreakerBudget
  <2>5. CASE Shared!NoAnswer \/ Shared!BackOff
    BY <2>0, <2>5
       DEF Shared!NoAnswer, Shared!BackOff, Shared!Over, Shared!breaker, Shared!receiver,
           Shared!counts, BreakerBudget, BreakerRest, PostOwes, LoopOwes, PostSends, LoopSends
  <2>6. CASE Shared!Again
    <3>1. /\ cb_post = "waits" /\ cb_post' = "sends"
          /\ cb_attempt' = cb_attempt + 1 /\ cb_loop' = cb_loop
          /\ cb_state' = cb_state /\ BreakerRest' = BreakerRest /\ cb_refused' = cb_refused
          /\ cb_leaked' = cb_leaked \/ (cb_leaked' = cb_leaked + 1 /\ cb_state = "open")
          /\ cb_attempt < MaxAttempts
      BY <2>6
         DEF Shared!Again, Shared!GoesOut, Shared!Refusing, Shared!breaker,
             Shared!receiver, BreakerRest, Shared!Typed
    <3>2. QED
      BY <2>0, <3>1 DEF BreakerBudget, PostOwes, LoopOwes, PostSends, LoopSends
  <2>7. CASE Shared!PollFails
    <3>1. /\ cb_loop = "polls" /\ cb_loop' = "connects"
          /\ cb_post' = cb_post /\ cb_attempt' = cb_attempt
          /\ cb_refused' = cb_refused
          /\ cb_leaked' = cb_leaked \/ (cb_leaked' = cb_leaked + 1 /\ cb_state' = "open")
      BY <2>7 DEF Shared!PollFails, Shared!GoesOut, Shared!Refusing, Shared!sender
    <3>2. ASSUME NEW r \in 0..Shared!Longest, cb_state' = "open", BreakerRest' = r
          PROVE  BreakerBudget'
      BY <2>0, <3>1, <3>2 DEF BreakerBudget, PostOwes, LoopOwes, PostSends, LoopSends
    <3>3. QED
      BY <2>7, <3>1, <3>2, FailureReported DEF Shared!PollFails, BreakerBudget
  <2>8. CASE Shared!ConnectFails
    <3>1. /\ cb_loop = "connects" /\ cb_loop' = "sleeps"
          /\ cb_post' = cb_post /\ cb_attempt' = cb_attempt
          /\ cb_refused' = cb_refused /\ cb_leaked' = cb_leaked
      BY <2>8 DEF Shared!ConnectFails, Shared!Sleeps, Shared!sender, Shared!counts
    <3>2. ASSUME NEW r \in 0..Shared!Longest, cb_state' = "open", BreakerRest' = r
          PROVE  BreakerBudget'
      BY <2>0, <3>1, <3>2 DEF BreakerBudget, PostOwes, LoopOwes, PostSends, LoopSends
    <3>3. QED
      BY <2>8, <3>1, <3>2, FailureReported DEF Shared!ConnectFails, BreakerBudget
  <2>9. CASE Shared!Held \/ Shared!PollBeside \/ Shared!Wakes \/ Shared!Stop
    BY <2>0, <2>9
       DEF Shared!Held, Shared!Sleeps, Shared!PollBeside, Shared!Wakes, Shared!Stop,
           Shared!breaker, Shared!sender, Shared!receiver, Shared!counts, BreakerBudget,
           BreakerRest, PostOwes, LoopOwes, PostSends, LoopSends
  <2>10. CASE UNCHANGED Shared!vars
    BY <2>10
       DEF Shared!vars, Shared!breaker, Shared!sender, Shared!receiver, Shared!counts,
           BreakerBudget, BreakerRest, PostOwes, LoopOwes, PostSends, LoopSends
  <2>11. QED
    BY <2>1, <2>2, <2>3, <2>4, <2>5, <2>6, <2>7, <2>8, <2>9, <2>10 DEF Shared!Next
<1>3. QED
  BY <1>1, <1>2, BreakerTyped, BreakerFieldsAgree, PTL DEF Shared!Spec

\* An outage is never refused for longer than three windows without a probe, however
\* the calls that were under way when the circuit opened end.
THEOREM BreakerRefusesBriefly == Shared!Spec => []Shared!RefusalBounded
<1>1. Shared!Typed /\ Shared!FieldsAgree /\ BreakerBudget => Shared!RefusalBounded
  BY LongestType, SharedAssumed
     DEF Shared!SharedBreakerAssumption, Shared!Typed, Shared!TypeOK, BreakerBudget,
         Shared!RefusalBounded, BreakerRest, PostOwes, LoopOwes
<1>2. QED
  BY <1>1, BreakerTyped, BreakerFieldsAgree, BudgetKept, PTL

\* The polls beside a sleep keep behind the ticks of refusal: each of them waits for one,
\* but the first, whose timer may have run out as the circuit opened.
PollsPaced ==
    /\ cb_state # "open" => cb_beside = 0
    /\ cb_state = "open" /\ (~Shared!Refusing \/ cb_timer = "out") => cb_beside <= cb_refused
    /\ cb_beside <= cb_refused + 1

\* They keep behind from the first state on; a circuit that opens again refuses at once.
LEMMA PollsKeepBehind == Shared!Spec => []PollsPaced
<1>1. Shared!Init => PollsPaced
  BY DEF Shared!Init, PollsPaced
<1>2. Shared!Typed /\ Shared!FieldsAgree /\ PollsPaced /\ [Shared!Next]_(Shared!vars)
        => PollsPaced'
  <2> SUFFICES ASSUME Shared!Typed, Shared!FieldsAgree, PollsPaced, [Shared!Next]_(Shared!vars)
               PROVE  PollsPaced'
    OBVIOUS
  <2>0. cb_refused \in Nat /\ cb_beside \in Nat
    BY DEF Shared!Typed, Shared!TypeOK
  <2>1. ASSUME Shared!recordFailure
        PROVE  cb_state' = "open" => Shared!Refusing' \/ UNCHANGED Shared!breaker
    <3>1. \A w \in Shared!Windows : 0 < w
      BY SharedAssumed DEF Shared!SharedBreakerAssumption, Shared!Windows, Shared!Longest
    <3>2. CASE Shared!Opens
      BY <2>1, <3>1, <3>2 DEF Shared!recordFailure, Shared!Refusing
    <3>3. CASE ~Shared!Opens
      BY <2>1, <3>3, SharedAssumed
         DEF Shared!SharedBreakerAssumption, Shared!Typed, Shared!TypeOK, Shared!recordFailure,
             Shared!Opens, Shared!Bump, Shared!FieldsAgree
    <3>4. QED
      BY <3>2, <3>3
  <2>2. CASE Shared!Tick
    BY <2>0, <2>2 DEF Shared!Tick, Shared!Refusing, PollsPaced
  <2>3. CASE Shared!Call \/ Shared!Poll
    BY <2>0, <2>3
       DEF Shared!Call, Shared!Poll, Shared!Admitted, Shared!CountsAnew, Shared!counts,
           Shared!Refusing, PollsPaced
  <2>4. CASE Shared!AnsweredOk \/ Shared!PollAnswered \/ Shared!StreamEnds
    BY <2>4
       DEF Shared!AnsweredOk, Shared!PollAnswered, Shared!StreamEnds, Shared!recordSuccess,
           Shared!CountsAnew, PollsPaced
  <2>5. CASE Shared!Rejected \/ Shared!PollFails \/ Shared!ConnectFails
    <3>1. /\ Shared!recordFailure /\ UNCHANGED <<cb_refused, cb_beside>>
          /\ cb_timer' = "out" <=> cb_timer = "out"
      BY <2>5
         DEF Shared!Rejected, Shared!Over, Shared!PollFails, Shared!GoesOut,
             Shared!ConnectFails, Shared!Sleeps, Shared!counts
    <3>2. cb_state' # "open" => cb_state # "open"
      BY <3>1 DEF Shared!recordFailure
    <3>3. CASE cb_state # "open"
      BY <2>0, <3>1, <3>3 DEF PollsPaced
    <3>4. CASE cb_state = "open"
      BY <2>0, <2>1, <3>1, <3>2, <3>4 DEF PollsPaced, Shared!Refusing, Shared!breaker
    <3>5. QED
      BY <3>3, <3>4
  <2>6. CASE Shared!NoAnswer \/ Shared!BackOff \/ Shared!Again
    BY <2>6
       DEF Shared!NoAnswer, Shared!BackOff, Shared!Again, Shared!GoesOut, Shared!Over,
           Shared!breaker, Shared!counts, Shared!Refusing, PollsPaced
  <2>7. CASE Shared!Held \/ Shared!Wakes \/ Shared!Stop
    BY <2>7
       DEF Shared!Held, Shared!Sleeps, Shared!Wakes, Shared!Stop, Shared!breaker,
           Shared!counts, Shared!Refusing, PollsPaced
  <2>8. CASE Shared!PollBeside
    BY <2>0, <2>8 DEF Shared!PollBeside, Shared!breaker, Shared!Refusing, PollsPaced
  <2>9. CASE UNCHANGED Shared!vars
    BY <2>9 DEF Shared!vars, Shared!breaker, Shared!counts, Shared!Refusing, PollsPaced
  <2>10. QED
    BY <2>2, <2>3, <2>4, <2>5, <2>6, <2>7, <2>8, <2>9 DEF Shared!Next
<1>3. QED
  BY <1>1, <1>2, BreakerTyped, BreakerFieldsAgree, PTL DEF Shared!Spec

\* An open circuit lets no more out than the attempts that one call has and a poll for each
\* tick of refusal and one more.
THEOREM BreakerPacesTraffic == Shared!Spec => []Shared!TrafficPaced
<1>1. Shared!Typed /\ BreakerBudget /\ PollsPaced => Shared!TrafficPaced
  BY LongestType, SharedAssumed
     DEF Shared!SharedBreakerAssumption, Shared!Typed, Shared!TypeOK, BreakerBudget, PollsPaced,
         Shared!TrafficPaced, PostSends, LoopSends
<1>2. QED
  BY <1>1, BreakerTyped, BudgetKept, PollsKeepBehind, PTL

-------------------------------------------------------------------------------
(* The batchers side by side. *)

\* In the composition each batcher and the breaker follows its own specification.
LEMMA EachFollowsItsOwn == AllSpec => Spec /\ Js!Spec /\ Aio!Spec /\ Shared!Spec
<1>1. AllInit => Init /\ Js!Init /\ Aio!Init /\ Shared!Init
  BY DEF AllInit
<1>2. [AllNext]_allVars =>
         /\ [Next]_vars /\ [Js!Next]_(Js!vars) /\ [Aio!Next]_(Aio!vars)
         /\ [Shared!Next]_(Shared!vars)
  <2> SUFFICES ASSUME [AllNext]_allVars
               PROVE  /\ [Next]_vars /\ [Js!Next]_(Js!vars) /\ [Aio!Next]_(Aio!vars)
                      /\ [Shared!Next]_(Shared!vars)
    OBVIOUS
  <2>1. UNCHANGED jsVars => UNCHANGED Js!vars
    BY DEF jsVars, Js!vars, Js!lifeVars
  <2>2. UNCHANGED aioVars => UNCHANGED Aio!vars
    BY DEF aioVars, Aio!vars, Aio!loopVars
  <2>3. UNCHANGED cbVars => UNCHANGED Shared!vars
    BY DEF cbVars, Shared!vars, Shared!breaker, Shared!sender, Shared!receiver, Shared!counts
  <2>4. CASE UNCHANGED allVars
    BY <2>4, <2>1, <2>2, <2>3 DEF allVars
  <2>5. CASE ThreadsMove(Next)
    BY <2>5, <2>1, <2>2, <2>3 DEF ThreadsMove
  <2>6. CASE JsMoves(Js!Next)
    BY <2>6, <2>2, <2>3 DEF JsMoves
  <2>7. CASE AioMoves(Aio!Next)
    BY <2>7, <2>1, <2>3 DEF AioMoves
  <2>8. CASE BreakerMoves(Shared!Next)
    BY <2>8, <2>1, <2>2 DEF BreakerMoves
  <2> QED
    BY <2>4, <2>5, <2>6, <2>7, <2>8 DEF AllNext
<1> QED
  BY <1>1, <1>2, PTL DEF AllSpec, Spec, Js!Spec, Aio!Spec, Shared!Spec

\* Every variable of the three batchers and of the breaker keeps its type.
THEOREM BatcherTypesHold == AllSpec => []AllTypeOK
<1>1. JsInv => Js!TypeOK
  BY JsTypes DEF JsInv
<1>2. AioInv => Aio!TypeOK
  BY AioTyped DEF AioInv
<1>3. Shared!Spec => []Shared!Typed
  BY BreakerTyped
<1>4. TypeOK /\ Js!TypeOK /\ Aio!TypeOK /\ Shared!Typed => AllTypeOK
  BY DEF AllTypeOK
<1> QED
  BY <1>1, <1>2, <1>3, <1>4, EachFollowsItsOwn, BatcherTypeCorrect, JsAlways, AioAlways, PTL

\* Each batcher of an event loop holds an event in one place, settles it once and
\* counts it exactly; stop() flushes; the threads' queue keeps its bounds; and the
\* shared breaker keeps its fields in step, its refusals short and its traffic slow.
THEOREM BatchersAlwaysKeepTrack == AllSpec => BatchersKeepTrack
<1>1. JsInv => Js!HeldOnce
  BY DEF JsInv
<1>2. AioInv => Aio!HeldOnce /\ Aio!StopFlushes
  BY DEF AioInv, AioStopping, Aio!StopFlushes
<1>3. TypeOK /\ Account /\ QueueCounted => QueueBounded
  BY DEF QueueCounted
<1>4. /\ Shared!Spec => []Shared!FieldsAgree
      /\ Shared!Spec => []Shared!RefusalBounded
      /\ Shared!Spec => []Shared!TrafficPaced
  BY BreakerFieldsAgree, BreakerRefusesBriefly, BreakerPacesTraffic
<1> QED
  BY <1>1, <1>2, <1>3, <1>4, EachFollowsItsOwn, JsAlways, JsAlwaysDelivers, AioAlways,
     AioAlwaysDelivers, BatcherTypeCorrect, AccountAlways, QueueAlwaysCounted, PTL
     DEF BatchersKeepTrack
=================================================================================
