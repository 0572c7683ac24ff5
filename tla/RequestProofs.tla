----------------------------- MODULE RequestProofs -----------------------------
(***************************************************************************)
(* Proofs about what a request meets on its way, for any constants: that   *)
(* RateLimiter keeps its promise, that the matchers of Glob find a match   *)
(* exactly when there is one, and that the readers of token usage in       *)
(* StreamTap and StreamTee report that of the whole stream.                *)
(*                                                                         *)
(* The invariant of the matching loop, Loop below, says that the part of   *)
(* the pattern before Rest is laid along the text before mark, that the    *)
(* part from Rest to p fits the text from mark to t, and that whatever     *)
(* alignment the rest of the pattern still has begins at mark or later:    *)
(* nothing is lost by forgetting the earlier runs.                         *)
(*                                                                         *)
(* The invariants of the readers, TapInv and TeeInv, say what they hold    *)
(* of the lines that have come so far: the retained events, those with a   *)
(* usage marker, in order and complete; the counts, those of the lines of  *)
(* the events that are over.                                               *)
(***************************************************************************)
EXTENDS MCApplication, SequenceTheorems, FiniteSetTheorems, TLAPS

\* The folds of parsing and of the two readers, for which the laws of folds hold.
LinesRead == INSTANCE FoldLaws WITH Op <- Tee!ReadLine
Parsing == INSTANCE FoldLaws WITH Op <- Added
LinesKept == INSTANCE FoldLaws WITH Op <- LAMBDA n, frame : n + Len(frame)

-------------------------------------------------------------------------------
(* What expiry does to a queue of timestamps.                              *)

\* The front of a queue always expires down to its first live entry.
LEMMA ExpiredPrefixExists ==
    ASSUME NEW q \in Seq(Nat), NEW cutoff \in Nat
    PROVE  \E n \in 0..Len(q) : IsExpiredPrefix(n, q, cutoff)
<1> DEFINE Live == {i \in 1..Len(q) : q[i] >= cutoff}
<1>0. Len(q) \in Nat /\ \A i \in 1..Len(q) : q[i] \in Nat
  OBVIOUS
<1>1. CASE Live = {}
  <2>1. IsExpiredPrefix(Len(q), q, cutoff)
    BY <1>0, <1>1 DEF IsExpiredPrefix
  <2>2. QED
    BY <1>0, <2>1
<1>2. CASE Live # {}
  <2>1. Live \in SUBSET Nat
    OBVIOUS
  <2>2. PICK n \in Live : \A m \in Live : n <= m
    <3> HIDE DEF Live
    <3> QED
      BY <1>2, <2>1, LinesRead!LeastNatural
  <2>3. IsExpiredPrefix(n - 1, q, cutoff) /\ n - 1 \in 0..Len(q)
    BY <1>0, <2>2 DEF IsExpiredPrefix
  <2>4. QED
    BY <2>3
<1>3. QED
  BY <1>1, <1>2

\* Unexpired drops some entries from the front, all of them expired, and the
\* first entry it keeps is live.
LEMMA UnexpiredProperties ==
    ASSUME NEW q \in Seq(Nat), NEW cutoff \in Nat
    PROVE  \E n \in 0..Len(q) :
              /\ IsExpiredPrefix(n, q, cutoff)
              /\ Unexpired(q, cutoff) \in Seq(Nat)
              /\ Len(Unexpired(q, cutoff)) = Len(q) - n
              /\ \A i \in 1..(Len(q) - n) : Unexpired(q, cutoff)[i] = q[n + i]
<1> DEFINE n == CHOOSE n \in 0..Len(q) : IsExpiredPrefix(n, q, cutoff)
<1>1. n \in 0..Len(q) /\ IsExpiredPrefix(n, q, cutoff)
  BY ExpiredPrefixExists
<1>2. Unexpired(q, cutoff) = SubSeq(q, n + 1, Len(q))
  BY DEF Unexpired
<1> HIDE DEF n
<1>3. QED
  BY <1>1, <1>2, SubSeqProperties

\* The cutoff is a time at least a window ago, or zero.
LEMMA CutoffProperties ==
    ASSUME NEW ts \in Nat
    PROVE  /\ Cutoff(ts) \in Nat
           /\ ts <= Cutoff(ts) + Window
           /\ \A x \in Nat : x < Cutoff(ts) => x + Window < ts
  BY LimiterAssumption DEF Cutoff

-------------------------------------------------------------------------------
(* What a call of check() leaves of the state.                             *)

\* The key a call is about is never one the call removes, and a call that
\* does not evict removes nothing.
LEMMA RemovedProperties ==
    ASSUME TypeOK, NEW k \in Keys, NEW cutoff \in Nat,
           NEW removed \in Removable(k, cutoff)
    PROVE  /\ Retained(k, cutoff) \subseteq tracked
           /\ removed \subseteq Retained(k, cutoff)
           /\ k \notin removed
           /\ ~Evicts(k) => removed = {}
<1>1. Retained(k, cutoff) \subseteq tracked
  BY DEF Retained
<1>2. removed \subseteq Retained(k, cutoff)
  BY DEF Removable
<1>3. IsFiniteSet(removed)
  BY <1>1, <1>2, LimiterAssumption, FS_Subset DEF TypeOK
<1>4. ~Evicts(k) => removed = {}
  BY <1>3, FS_EmptySet DEF Removable
<1>5. k \notin removed
  BY <1>1, <1>2, <1>4 DEF Evicts
<1>6. QED
  BY <1>1, <1>2, <1>4, <1>5

\* A queue q is what is left of full once expired entries are popped from its
\* front, and, if exact, all that have expired there.
PoppedFrom(q, full, cutoff, exact) ==
    \E n \in 0..Len(full) :
        /\ q \in Seq(Nat)
        /\ Len(q) = Len(full) - n
        /\ \A i \in 1..n : full[i] < cutoff
        /\ \A i \in 1..Len(q) : q[i] = full[n + i]
        /\ exact /\ Len(q) > 0 => q[1] >= cutoff

\* Unexpired pops exactly the expired front.
LEMMA UnexpiredPops ==
    ASSUME NEW full \in Seq(Nat), NEW cutoff \in Nat, NEW exact
    PROVE  PoppedFrom(Unexpired(full, cutoff), full, cutoff, exact)
<1>1. PICK n \in 0..Len(full) :
         /\ IsExpiredPrefix(n, full, cutoff)
         /\ Unexpired(full, cutoff) \in Seq(Nat)
         /\ Len(Unexpired(full, cutoff)) = Len(full) - n
         /\ \A i \in 1..(Len(full) - n) : Unexpired(full, cutoff)[i] = full[n + i]
  BY UnexpiredProperties
<1> SUFFICES ASSUME NEW q, q = Unexpired(full, cutoff)
             PROVE  PoppedFrom(q, full, cutoff, exact)
  OBVIOUS
<1>2. Len(full) \in Nat /\ n \in Nat
  OBVIOUS
<1>3. \A i \in 1..n : full[i] < cutoff
  BY <1>1 DEF IsExpiredPrefix
<1>4. Len(q) > 0 => q[1] >= cutoff
  <2>0. Len(q) = Len(full) - n /\ \A i \in 1..(Len(full) - n) : q[i] = full[n + i]
    BY <1>1, Zenon
  <2>1. Len(q) > 0 => n < Len(full) /\ q[1] = full[n + 1]
    <3> HAVE Len(q) > 0
    <3>1. 1 \in 1..(Len(full) - n) /\ n < Len(full)
      BY <1>2, <2>0
    <3>2. QED
      BY <2>0, <3>1
  <2>2. QED
    BY <1>1, <2>1 DEF IsExpiredPrefix
<1>5. QED
  BY <1>1, <1>2, <1>3, <1>4 DEF PoppedFrom

\* The sweep pops each queue that is not removed, and the queue of the call's
\* own key down to its first live entry.
LEMMA SweptProperties ==
    ASSUME TypeOK, NEW k \in Keys, NEW cutoff \in Nat,
           NEW removed \in Removable(k, cutoff), NEW j \in Keys \ removed
    PROVE  PoppedFrom(Swept(k, cutoff, Retained(k, cutoff) \ removed)[j],
                      timestamps[j], cutoff, j = k)
<1> SUFFICES ASSUME NEW q, q = Swept(k, cutoff, Retained(k, cutoff) \ removed)[j]
             PROVE  PoppedFrom(q, timestamps[j], cutoff, j = k)
  OBVIOUS
<1>0. timestamps[j] \in Seq(Nat) /\ Len(timestamps[j]) \in Nat
  BY DEF TypeOK
<1>1. PoppedFrom(Unexpired(timestamps[j], cutoff), timestamps[j], cutoff, j = k)
  BY <1>0, UnexpiredPops
<1>2. CASE j \in Retained(k, cutoff) /\ (j = k \/ Evicts(k))
  BY <1>1, <1>2 DEF Swept
<1>3. CASE j \in Retained(k, cutoff) /\ ~(j = k \/ Evicts(k))
  <2>1. q = timestamps[j]
    BY <1>3 DEF Swept
  <2>2. 0 \in 0..Len(timestamps[j]) /\ \A i \in 1..Len(q) : q[i] = timestamps[j][0 + i]
    BY <1>0, <2>1
  <2>3. \A i \in 1..0 : timestamps[j][i] < cutoff
    OBVIOUS
  <2>4. q \in Seq(Nat) /\ Len(q) = Len(timestamps[j]) - 0 /\ j # k
    BY <1>0, <1>3, <2>1
  <2>5. QED
    BY <2>2, <2>3, <2>4, Zenon DEF PoppedFrom
<1>4. CASE j \notin Retained(k, cutoff)
  <2>1. q = <<>>
    BY <1>4 DEF Swept
  <2>2. CASE j \in tracked
    <3>1. Unexpired(timestamps[j], cutoff) = <<>>
      BY <1>4, <2>2 DEF Retained
    <3>2. QED
      BY <1>1, <2>1, <3>1
  <2>3. CASE j \notin tracked
    <3>1. timestamps[j] = <<>>
      BY <2>3 DEF TypeOK
    <3>2. PoppedFrom(<<>>, <<>>, cutoff, j = k)
      BY DEF PoppedFrom
    <3>3. QED
      BY <2>1, <3>1, <3>2
  <2>4. QED
    BY <2>2, <2>3
<1>5. QED
  BY <1>2, <1>3, <1>4

-------------------------------------------------------------------------------
(* The inductive invariant of one key.                                     *)

\* A queue q holds the last of the admissions past, at most limit of them;
\* the admissions it no longer holds are more than a window old; timestamps
\* are at most Skew out of order.
Consistent(q, past, limit, time) ==
    LET gone == Len(past) - Len(q)
    IN /\ Len(q) <= limit
       /\ Len(q) <= Len(past)
       /\ \A i \in 1..Len(q) : q[i] = past[gone + i]
       /\ \A i \in 1..gone : past[i] + Window < time
       /\ \A i \in 1..Len(past) : past[i] <= time
       /\ \A i, j \in 1..Len(past) : i <= j => past[i] <= past[j] + Skew
       /\ \A i \in 1..Len(past) :
             i + limit <= Len(past) => past[i + limit] + Skew > past[i] + Window

KeysConsistent ==
    \A k \in Keys : Consistent(timestamps[k], admitted[k], Limit[k], now)

LEMMA EmptyConsistent ==
    ASSUME NEW limit \in Nat, NEW time \in Nat
    PROVE  Consistent(<<>>, <<>>, limit, time)
  BY DEF Consistent

\* Popping expired entries keeps a key consistent.
LEMMA PopConsistent ==
    ASSUME NEW full \in Seq(Nat), NEW past \in Seq(Nat), NEW limit \in Nat, NEW time \in Nat,
           NEW ts \in Nat, ts <= time, NEW exact, NEW q,
           Consistent(full, past, limit, time), PoppedFrom(q, full, Cutoff(ts), exact)
    PROVE  q \in Seq(Nat) /\ Consistent(q, past, limit, time)
<1>0. Window \in Nat /\ Skew \in Nat /\ Len(full) \in Nat /\ Len(past) \in Nat
      /\ \A i \in 1..Len(past) : past[i] \in Nat
  BY LimiterAssumption
<1>1. PICK n \in 0..Len(full) :
         /\ q \in Seq(Nat)
         /\ Len(q) = Len(full) - n
         /\ \A i \in 1..n : full[i] < Cutoff(ts)
         /\ \A i \in 1..Len(q) : q[i] = full[n + i]
  BY DEF PoppedFrom
<1>2. /\ Len(full) <= limit
      /\ Len(full) <= Len(past)
      /\ \A i \in 1..Len(full) : full[i] = past[(Len(past) - Len(full)) + i]
      /\ \A i \in 1..(Len(past) - Len(full)) : past[i] + Window < time
  BY DEF Consistent
<1>3. Len(q) \in Nat /\ Len(q) <= limit /\ Len(q) <= Len(past)
  BY <1>0, <1>1, <1>2
<1>4. ASSUME NEW i \in 1..Len(q)
      PROVE  q[i] = past[(Len(past) - Len(q)) + i]
  <2>1. n + i \in 1..Len(full)
    BY <1>0, <1>1, <1>4
  <2>2. q[i] = past[(Len(past) - Len(full)) + (n + i)]
    BY <1>1, <1>2, <1>4, <2>1
  <2>3. (Len(past) - Len(full)) + (n + i) = (Len(past) - Len(q)) + i
    BY <1>0, <1>1, <1>4
  <2>4. QED
    BY <2>2, <2>3
<1>5. ASSUME NEW i \in 1..(Len(past) - Len(q))
      PROVE  past[i] + Window < time
  <2>1. CASE i <= Len(past) - Len(full)
    BY <1>0, <1>2, <2>1
  <2>2. CASE i > Len(past) - Len(full)
    <3>1. i - (Len(past) - Len(full)) \in 1..n
      BY <1>0, <1>1, <1>5, <2>2
    <3>2. i - (Len(past) - Len(full)) \in 1..Len(full)
      BY <1>0, <3>1
    <3>3. full[i - (Len(past) - Len(full))] = past[(Len(past) - Len(full)) + (i - (Len(past) - Len(full)))]
      BY <1>2, <3>2
    <3>4. (Len(past) - Len(full)) + (i - (Len(past) - Len(full))) = i
      BY <1>0
    <3>5. past[i] < Cutoff(ts)
      BY <1>1, <3>1, <3>3, <3>4
    <3>6. past[i] \in Nat
      BY <1>0, <1>3, <1>5
    <3>7. past[i] + Window < ts
      BY <3>5, <3>6, CutoffProperties
    <3>8. QED
      BY <1>0, <3>6, <3>7
  <2>3. QED
    BY <1>0, <2>1, <2>2
<1>6. /\ \A i \in 1..Len(past) : past[i] <= time
      /\ \A i, j \in 1..Len(past) : i <= j => past[i] <= past[j] + Skew
      /\ \A i \in 1..Len(past) :
            i + limit <= Len(past) => past[i + limit] + Skew > past[i] + Window
  BY DEF Consistent
<1>7. QED
  BY <1>1, <1>3, <1>4, <1>5, <1>6, Zenon DEF Consistent

\* Admitting a call keeps a key consistent as long as its queue is below the
\* limit: the admission a window's length before it has left the queue.
LEMMA AdmitConsistent ==
    ASSUME NEW q \in Seq(Nat), NEW past \in Seq(Nat), NEW limit \in Nat, NEW time \in Nat,
           NEW ts \in Nat, ts <= time, time <= ts + Skew, Len(q) < limit,
           Consistent(q, past, limit, time)
    PROVE  Consistent(Append(q, ts), Append(past, ts), limit, time)
<1> DEFINE r == Append(q, ts)
           longer == Append(past, ts)
<1>0. Window \in Nat /\ Skew \in Nat /\ Len(q) \in Nat /\ Len(past) \in Nat
      /\ \A i \in 1..Len(past) : past[i] \in Nat
  BY LimiterAssumption
<1>1. /\ Len(r) = Len(q) + 1 /\ r[Len(q) + 1] = ts
      /\ \A i \in 1..Len(q) : r[i] = q[i]
  BY AppendProperties
<1>2. /\ Len(longer) = Len(past) + 1 /\ longer[Len(past) + 1] = ts
      /\ \A i \in 1..Len(past) : longer[i] = past[i]
  BY AppendProperties
<1> HIDE DEF r, longer
<1>3. /\ Len(q) <= Len(past)
      /\ \A i \in 1..Len(q) : q[i] = past[(Len(past) - Len(q)) + i]
      /\ \A i \in 1..(Len(past) - Len(q)) : past[i] + Window < time
      /\ \A i \in 1..Len(past) : past[i] <= time
      /\ \A i, j \in 1..Len(past) : i <= j => past[i] <= past[j] + Skew
      /\ \A i \in 1..Len(past) :
            i + limit <= Len(past) => past[i + limit] + Skew > past[i] + Window
  BY DEF Consistent
<1>4. Len(r) <= limit /\ Len(r) <= Len(longer) /\ Len(longer) - Len(r) = Len(past) - Len(q)
  BY <1>0, <1>1, <1>2, <1>3
<1>5. ASSUME NEW i \in 1..Len(r)
      PROVE  r[i] = longer[(Len(longer) - Len(r)) + i]
  <2>1. CASE i = Len(q) + 1
    BY <1>0, <1>1, <1>2, <1>4, <2>1
  <2>2. CASE i # Len(q) + 1
    <3>1. i \in 1..Len(q) /\ (Len(past) - Len(q)) + i \in 1..Len(past)
      BY <1>0, <1>1, <1>3, <2>2
    <3>2. QED
      BY <1>1, <1>2, <1>3, <1>4, <3>1
  <2>3. QED
    BY <2>1, <2>2
<1>6. ASSUME NEW i \in 1..(Len(longer) - Len(r))
      PROVE  longer[i] + Window < time
  <2>1. i \in 1..(Len(past) - Len(q)) /\ i \in 1..Len(past)
    BY <1>0, <1>3, <1>4
  <2>2. QED
    BY <1>2, <1>3, <2>1
<1>7. \A i \in 1..Len(longer) : i \in 1..Len(past) \/ i = Len(past) + 1
  BY <1>0, <1>2
<1>8. ASSUME NEW i \in 1..Len(longer)
      PROVE  longer[i] <= time
  BY <1>2, <1>3, <1>7
<1>9. ASSUME NEW i \in 1..Len(longer), NEW j \in 1..Len(longer), i <= j
      PROVE  longer[i] <= longer[j] + Skew
  <2>1. CASE j = Len(past) + 1
    <3>1. longer[i] <= time /\ longer[i] \in Nat /\ longer[j] = ts
      BY <1>0, <1>2, <1>7, <1>8, <2>1
    <3>2. QED
      BY <1>0, <3>1
  <2>2. CASE j \in 1..Len(past)
    <3>1. i \in 1..Len(past)
      BY <1>0, <1>9, <2>2
    <3>2. QED
      BY <1>2, <1>3, <1>9, <2>2, <3>1
  <2>3. QED
    BY <1>7, <2>1, <2>2
<1>10. ASSUME NEW i \in 1..Len(longer), i + limit <= Len(longer)
       PROVE  longer[i + limit] + Skew > longer[i] + Window
  <2>0. i \in 1..Len(past) /\ longer[i] = past[i] /\ past[i] \in Nat
    BY <1>0, <1>2, <1>10
  <2>1. CASE i + limit > Len(past)
    <3>1. i \in 1..(Len(past) - Len(q))
      <4>1. i >= 1 /\ i <= Len(past) + 1 - limit
        BY <1>0, <1>2, <1>10, <2>0
      <4>2. QED
        BY <1>0, <4>1
    <3>2. past[i] + Window < time
      BY <1>3, <3>1
    <3>3. longer[i + limit] = ts
      <4>1. \A x \in 1..Len(longer) : x > Len(past) => longer[x] = ts
        BY <1>0, <1>2, <1>7
      <4>2. i + limit \in 1..Len(longer)
        BY <1>0, <1>2, <1>10, <2>0
      <4>3. QED
        BY <2>1, <4>1, <4>2
    <3>4. QED
      BY <1>0, <2>0, <3>2, <3>3
  <2>2. CASE i + limit <= Len(past)
    <3>1. i + limit \in 1..Len(past)
      BY <1>0, <2>0, <2>2
    <3>2. QED
      BY <1>2, <1>3, <2>0, <2>2, <3>1
  <2>3. QED
    BY <1>0, <2>0, <2>1, <2>2
<1>11. Consistent(r, longer, limit, time)
  BY <1>4, <1>5, <1>6, <1>8, <1>9, <1>10, Zenon DEF Consistent
<1>12. QED
  BY <1>11 DEF r, longer

-------------------------------------------------------------------------------
(* Steps of the limiter.                                                   *)

\* A call with its choice of removed windows named.
LEMMA CheckChoice ==
    ASSUME TypeOK, NEW k \in Keys, NEW ts \in 0..MaxTime, Check(k, ts)
    PROVE  \E removed \in Removable(k, Cutoff(ts)) :
             LET kept == Retained(k, Cutoff(ts)) \ removed
                 swept == Swept(k, Cutoff(ts), kept)
                 past == [j \in Keys |-> IF j \in removed THEN <<>> ELSE admitted[j]]
             IN /\ tracked' = kept \cup {k}
                /\ \A j \in Keys : j \in removed => timestamps'[j] = <<>> /\ admitted'[j] = <<>>
                /\ \A j \in Keys \ {k} :
                      j \notin removed => timestamps'[j] = swept[j] /\ admitted'[j] = admitted[j]
                /\ \/ /\ Len(swept[k]) >= Limit[k]
                      /\ verdict' = [key |-> k, at |-> ts, result |-> "Exceeded"]
                      /\ timestamps'[k] = swept[k] /\ admitted'[k] = admitted[k]
                   \/ /\ Len(swept[k]) < Limit[k]
                      /\ verdict' = [key |-> k, at |-> ts, result |-> "Allowed"]
                      /\ timestamps'[k] = Append(swept[k], ts)
                      /\ admitted'[k] = Append(admitted[k], ts)
<1> DEFINE cutoff == Cutoff(ts)
<1>0. ts \in Nat /\ cutoff \in Nat
  BY CutoffProperties
<1>1. PICK removed \in Removable(k, cutoff) : Check(k, ts)!2!(removed)
  BY DEF Check
<1>2. k \notin removed
  BY <1>0, RemovedProperties
<1> DEFINE kept == Retained(k, cutoff) \ removed
           swept == Swept(k, cutoff, kept)
           past == [j \in Keys |-> IF j \in removed THEN <<>> ELSE admitted[j]]
<1>3. DOMAIN swept = Keys /\ \A j \in removed : j \in Keys => swept[j] = <<>>
  BY DEF Swept
<1>4. QED
  BY <1>1, <1>2, <1>3

\* A call keeps the types.
LEMMA CheckKeepsTypes ==
    ASSUME TypeOK, NEW k \in Keys, NEW ts \in 0..MaxTime, Check(k, ts)
    PROVE  TypeOK'
<1> DEFINE cutoff == Cutoff(ts)
<1>0. ts \in Nat /\ cutoff \in Nat
  BY LimiterAssumption, CutoffProperties
<1>1. PICK removed \in Removable(k, cutoff) : Check(k, ts)!2!(removed)
  BY DEF Check
<1> DEFINE kept == Retained(k, cutoff) \ removed
           swept == Swept(k, cutoff, kept)
           past == [j \in Keys |-> IF j \in removed THEN <<>> ELSE admitted[j]]
<1>2. /\ Retained(k, cutoff) \subseteq tracked /\ removed \subseteq Retained(k, cutoff)
      /\ k \notin removed
  BY <1>0, RemovedProperties
<1>3. /\ swept \in [Keys -> Seq(Nat)]
      /\ \A j \in Keys \ kept : swept[j] = <<>>
  <2>1. ASSUME NEW j \in Keys
        PROVE  Unexpired(timestamps[j], cutoff) \in Seq(Nat) /\ timestamps[j] \in Seq(Nat)
    BY <1>0, UnexpiredProperties DEF TypeOK
  <2>2. QED
    BY <2>1 DEF Swept
<1>4. past \in [Keys -> Seq(Nat)]
  BY DEF TypeOK
<1>5. tracked' = kept \cup {k} /\ now' = now
  BY <1>1 DEF Check
<1>6. last_accessed' \in [Keys -> Nat]
  <2>1. last_accessed' = [j \in Keys |-> IF j = k THEN ts
                                        ELSE IF j \in kept THEN last_accessed[j]
                                        ELSE 0]
    BY <1>1
  <2>2. QED
    BY <1>0, <2>1 DEF TypeOK
<1>7. /\ verdict' \in Verdicts \cup {NoVerdict}
      /\ timestamps' \in [Keys -> Seq(Nat)] /\ admitted' \in [Keys -> Seq(Nat)]
      /\ \A j \in Keys \ {k} : timestamps'[j] = swept[j]
  <2>1. CASE /\ verdict' = [key |-> k, at |-> ts, result |-> "Exceeded"]
             /\ timestamps' = swept /\ admitted' = past
    BY <1>0, <1>3, <1>4, <2>1 DEF Verdicts
  <2>2. CASE /\ verdict' = [key |-> k, at |-> ts, result |-> "Allowed"]
             /\ timestamps' = [swept EXCEPT ![k] = Append(@, ts)]
             /\ admitted' = [past EXCEPT ![k] = Append(@, ts)]
    <3>1. /\ timestamps' = [swept EXCEPT ![k] = Append(swept[k], ts)]
          /\ admitted' = [past EXCEPT ![k] = Append(past[k], ts)]
      BY <2>2
    <3>2. Append(swept[k], ts) \in Seq(Nat) /\ Append(past[k], ts) \in Seq(Nat)
      BY <1>0, <1>3, <1>4, AppendProperties
    <3> HIDE DEF swept, past
    <3>3. QED
      BY <1>0, <1>3, <1>4, <2>2, <3>1, <3>2 DEF Verdicts
  <2>3. QED
    BY <1>1, <2>1, <2>2
<1>8. \A j \in Keys \ tracked' : timestamps'[j] = <<>>
  BY <1>3, <1>5, <1>7
<1>9. QED
  BY <1>2, <1>5, <1>6, <1>7, <1>8 DEF TypeOK

\* The limiter starts with what its types allow.
LEMMA LimiterTypesStart == Init => TypeOK
  BY LimiterAssumption DEF Init, TypeOK

\* Every step keeps the types.
LEMMA LimiterTypesKept == TypeOK /\ [Next]_vars => TypeOK'
<1> SUFFICES ASSUME TypeOK, [Next]_vars
             PROVE  TypeOK'
  OBVIOUS
<1>1. CASE Tick
  BY <1>1, LimiterAssumption DEF Tick, TypeOK
<1>2. ASSUME NEW k \in Keys, NEW ts \in 0..MaxTime, Check(k, ts)
      PROVE  TypeOK'
  BY <1>2, CheckKeepsTypes
<1>3. CASE UNCHANGED vars
  BY <1>3 DEF vars, TypeOK
<1>4. QED
  BY <1>1, <1>2, <1>3 DEF Next

\* Every variable keeps its type, and a key without a window no timestamps.
THEOREM LimiterTypeCorrect == Spec => []TypeOK
<1> QED
  BY LimiterTypesStart, LimiterTypesKept, PTL DEF Spec

\* The invariant of every key is inductive.
LEMMA StepConsistent ==
    ASSUME TypeOK, KeysConsistent, [Next]_vars
    PROVE  KeysConsistent'
<1>1. CASE Tick
  <2> SUFFICES ASSUME NEW k \in Keys
               PROVE  Consistent(timestamps[k], admitted[k], Limit[k], now + 1)
    BY <1>1 DEF Tick, KeysConsistent
  <2>1. Consistent(timestamps[k], admitted[k], Limit[k], now)
    BY DEF KeysConsistent
  <2>2. /\ Window \in Nat /\ now \in Nat
        /\ admitted[k] \in Seq(Nat) /\ timestamps[k] \in Seq(Nat)
    BY LimiterAssumption DEF TypeOK
  <2>3. Len(admitted[k]) \in Nat /\ Len(timestamps[k]) \in Nat
        /\ \A i \in 1..Len(admitted[k]) : admitted[k][i] \in Nat
    BY <2>2
  <2>4. /\ \A i \in 1..(Len(admitted[k]) - Len(timestamps[k])) : admitted[k][i] + Window < now
        /\ \A i \in 1..Len(admitted[k]) : admitted[k][i] <= now
    BY <2>1, Zenon DEF Consistent
  <2>5. ASSUME NEW i \in 1..(Len(admitted[k]) - Len(timestamps[k]))
        PROVE  admitted[k][i] + Window < now + 1
    <3>1. i \in 1..Len(admitted[k])
      BY <2>3
    <3>2. QED
      BY <2>2, <2>3, <2>4, <3>1
  <2>6. \A i \in 1..Len(admitted[k]) : admitted[k][i] <= now + 1
    BY <2>2, <2>3, <2>4
  <2>7. QED
    BY <2>1, <2>5, <2>6, Zenon DEF Consistent
<1>2. ASSUME NEW k \in Keys, NEW ts \in 0..MaxTime, Check(k, ts)
      PROVE  KeysConsistent'
  <2>0. /\ ts \in Nat /\ now \in Nat /\ ts <= now /\ now <= ts + Skew /\ now' = now
        /\ Cutoff(ts) \in Nat
    BY <1>2, LimiterAssumption, CutoffProperties DEF Check, TypeOK
  <2>1. PICK removed \in Removable(k, Cutoff(ts)) :
          LET kept == Retained(k, Cutoff(ts)) \ removed
              swept == Swept(k, Cutoff(ts), kept)
          IN /\ \A j \in Keys : j \in removed => timestamps'[j] = <<>> /\ admitted'[j] = <<>>
             /\ \A j \in Keys \ {k} :
                   j \notin removed => timestamps'[j] = swept[j] /\ admitted'[j] = admitted[j]
             /\ \/ timestamps'[k] = swept[k] /\ admitted'[k] = admitted[k]
                \/ /\ Len(swept[k]) < Limit[k]
                   /\ timestamps'[k] = Append(swept[k], ts)
                   /\ admitted'[k] = Append(admitted[k], ts)
    BY <1>2, CheckChoice
  <2> DEFINE swept == Swept(k, Cutoff(ts), Retained(k, Cutoff(ts)) \ removed)
  <2>2. k \notin removed
    BY <2>0, RemovedProperties
  <2>3. ASSUME NEW j \in Keys \ removed
        PROVE  swept[j] \in Seq(Nat) /\ Consistent(swept[j], admitted[j], Limit[j], now)
    <3>1. PoppedFrom(swept[j], timestamps[j], Cutoff(ts), j = k)
      BY <2>0, SweptProperties
    <3>2. /\ timestamps[j] \in Seq(Nat) /\ admitted[j] \in Seq(Nat) /\ Limit[j] \in Nat
          /\ Consistent(timestamps[j], admitted[j], Limit[j], now)
      BY LimiterAssumption DEF TypeOK, KeysConsistent
    <3> HIDE DEF swept
    <3>3. QED
      BY <2>0, <3>1, <3>2, PopConsistent
  <2> SUFFICES ASSUME NEW j \in Keys
               PROVE  Consistent(timestamps'[j], admitted'[j], Limit[j], now)
    BY <2>0 DEF KeysConsistent
  <2>4. Limit[j] \in Nat
    BY LimiterAssumption
  <2>5. CASE j \in removed
    BY <2>0, <2>1, <2>4, <2>5, EmptyConsistent
  <2>6. CASE j \notin removed /\ j # k
    BY <2>1, <2>3, <2>6
  <2>7. CASE j = k /\ timestamps'[k] = swept[k] /\ admitted'[k] = admitted[k]
    BY <2>2, <2>3, <2>7
  <2>8. CASE /\ j = k /\ Len(swept[k]) < Limit[k]
             /\ timestamps'[k] = Append(swept[k], ts)
             /\ admitted'[k] = Append(admitted[k], ts)
    <3>1. swept[k] \in Seq(Nat) /\ Consistent(swept[k], admitted[k], Limit[k], now)
      BY <2>2, <2>3
    <3>2. admitted[k] \in Seq(Nat)
      BY DEF TypeOK
    <3> HIDE DEF swept
    <3>3. Consistent(Append(swept[k], ts), Append(admitted[k], ts), Limit[k], now)
      BY <2>0, <2>4, <2>8, <3>1, <3>2, AdmitConsistent
    <3>4. QED
      BY <2>8, <3>3
  <2>9. QED
    BY <2>1, <2>5, <2>6, <2>7, <2>8
<1>3. CASE UNCHANGED vars
  BY <1>3 DEF vars, KeysConsistent
<1>4. QED
  BY <1>1, <1>2, <1>3 DEF Next

LEMMA AlwaysConsistent == Spec => []KeysConsistent
<1>1. Init => KeysConsistent
  BY LimiterAssumption, EmptyConsistent DEF Init, KeysConsistent
<1>2. TypeOK /\ KeysConsistent /\ [Next]_vars => KeysConsistent'
  BY StepConsistent
<1>3. QED
  BY <1>1, <1>2, LimiterTypeCorrect, PTL DEF Spec

-------------------------------------------------------------------------------
\* A key's admitted calls never put more than its limit into one window.
THEOREM WindowAlwaysSlides == Spec => []SlidingWindow
<1>1. KeysConsistent => SlidingWindow
  BY Zenon DEF KeysConsistent, Consistent, SlidingWindow
<1>2. QED
  BY <1>1, AlwaysConsistent, PTL

\* A refused call finds its last Limit admissions inside its window.
LEMMA DenialStep ==
    ASSUME TypeOK, KeysConsistent, DenialJustified, [Next]_vars
    PROVE  DenialJustified'
<1>1. CASE Tick \/ UNCHANGED vars
  BY <1>1 DEF Tick, vars, DenialJustified
<1>2. ASSUME NEW k \in Keys, NEW ts \in 0..MaxTime, Check(k, ts)
      PROVE  DenialJustified'
  <2>0. /\ ts \in Nat /\ Cutoff(ts) \in Nat /\ ts <= Cutoff(ts) + Window
        /\ Window \in Nat /\ Skew \in Nat
    BY LimiterAssumption, CutoffProperties
  <2>1. PICK removed \in Removable(k, Cutoff(ts)) :
          LET kept == Retained(k, Cutoff(ts)) \ removed
              swept == Swept(k, Cutoff(ts), kept)
          IN \/ /\ Len(swept[k]) >= Limit[k]
                /\ verdict' = [key |-> k, at |-> ts, result |-> "Exceeded"]
                /\ admitted'[k] = admitted[k]
             \/ verdict' = [key |-> k, at |-> ts, result |-> "Allowed"]
    BY <1>2, CheckChoice
  <2>2. k \notin removed
    BY <2>0, RemovedProperties
  <2>3. CASE verdict' = [key |-> k, at |-> ts, result |-> "Allowed"]
    BY <2>3 DEF DenialJustified
  <2>4. ASSUME NEW q, q = Swept(k, Cutoff(ts), Retained(k, Cutoff(ts)) \ removed)[k],
               Len(q) >= Limit[k],
               verdict' = [key |-> k, at |-> ts, result |-> "Exceeded"],
               admitted'[k] = admitted[k]
        PROVE  DenialJustified'
    <3> DEFINE past == admitted[k]
    <3>1. PoppedFrom(q, timestamps[k], Cutoff(ts), TRUE)
      <4>1. PoppedFrom(q, timestamps[k], Cutoff(ts), k = k)
        BY <2>0, <2>2, <2>4, SweptProperties
      <4>2. QED
        BY <4>1
    <3>2. /\ timestamps[k] \in Seq(Nat) /\ past \in Seq(Nat) /\ Limit[k] \in Nat
          /\ now \in Nat /\ ts <= now
          /\ Consistent(timestamps[k], past, Limit[k], now)
      BY <1>2, LimiterAssumption DEF Check, TypeOK, KeysConsistent
    <3>3. q \in Seq(Nat) /\ Consistent(q, past, Limit[k], now)
      BY <2>0, <3>1, <3>2, PopConsistent
    <3> HIDE DEF past
    <3>4. /\ Len(q) <= Len(past)
          /\ \A i \in 1..Len(q) : q[i] = past[(Len(past) - Len(q)) + i]
          /\ \A i, j \in 1..Len(past) : i <= j => past[i] <= past[j] + Skew
      BY <3>3 DEF Consistent
    <3>5. Len(q) > 0 => q[1] >= Cutoff(ts)
      BY <3>1 DEF PoppedFrom
    <3>6. /\ Len(q) \in Nat /\ Len(past) \in Nat
          /\ \A i \in 1..Len(past) : past[i] \in Nat
      BY <3>2, <3>3
    <3>7. ASSUME NEW i \in 1..Len(past), i > Len(past) - Limit[k]
          PROVE  past[i] + Window + Skew >= ts
      <4> DEFINE first == (Len(past) - Len(q)) + 1
      <4>1. first \in 1..Len(past) /\ first <= i /\ 1 \in 1..Len(q)
        BY <2>4, <3>2, <3>4, <3>6, <3>7
      <4>2. past[first] >= Cutoff(ts)
        BY <3>4, <3>5, <3>6, <4>1
      <4>3. past[first] <= past[i] + Skew /\ past[first] \in Nat /\ past[i] \in Nat
        BY <3>4, <3>6, <4>1
      <4> HIDE DEF first
      <4>4. QED
        BY <2>0, <4>2, <4>3
    <3>8. Len(past) >= Limit[k]
      BY <2>4, <3>2, <3>4, <3>6
    <3>9. QED
      BY <2>4, <3>7, <3>8 DEF DenialJustified, past
  <2>5. QED
    BY <2>1, <2>3, <2>4
<1>3. QED
  BY <1>1, <1>2 DEF Next

\* A call is refused only if its key's last Limit admissions all lie within
\* Window and Skew of it.
THEOREM DenialAlwaysJustified == Spec => []DenialJustified
<1>1. Init => DenialJustified
  BY DEF Init, NoVerdict, DenialJustified
<1>2. TypeOK /\ KeysConsistent /\ DenialJustified /\ [Next]_vars => DenialJustified'
  BY DenialStep
<1>3. QED
  BY <1>1, <1>2, LimiterTypeCorrect, AlwaysConsistent, PTL DEF Spec

-------------------------------------------------------------------------------
\* The map never holds more than MaxKeys windows.
THEOREM TableAlwaysBounded == Spec => []TableBounded
<1>1. Init => TableBounded
  BY LimiterAssumption, FS_EmptySet DEF Init, TableBounded
<1>2. TypeOK /\ TableBounded /\ [Next]_vars => TableBounded'
  <2> SUFFICES ASSUME TypeOK, TableBounded, [Next]_vars
               PROVE  TableBounded'
    OBVIOUS
  <2>1. CASE Tick \/ UNCHANGED vars
    BY <2>1 DEF Tick, vars, TableBounded
  <2>2. ASSUME NEW k \in Keys, NEW ts \in 0..MaxTime, Check(k, ts)
        PROVE  TableBounded'
    <3>0. Cutoff(ts) \in Nat /\ MaxKeys \in Nat /\ MaxKeys >= 1
      BY LimiterAssumption, CutoffProperties
    <3>1. PICK removed \in Removable(k, Cutoff(ts)) :
             tracked' = (Retained(k, Cutoff(ts)) \ removed) \cup {k}
      BY <2>2 DEF Check
    <3> DEFINE windows == Retained(k, Cutoff(ts))
               kept == windows \ removed
    <3>2. /\ windows \subseteq tracked /\ removed \subseteq windows
          /\ ~Evicts(k) => removed = {}
      BY <3>0, RemovedProperties
    <3>3. IsFiniteSet(tracked) /\ Cardinality(tracked) \in Nat
      BY LimiterAssumption, FS_Subset, FS_CardinalityType DEF TypeOK
    <3>4. IsFiniteSet(windows) /\ Cardinality(windows) <= Cardinality(tracked)
      BY <3>2, <3>3, FS_Subset
    <3>5. IsFiniteSet(kept) /\ IsFiniteSet(removed)
      BY <3>2, <3>4, FS_Subset
    <3>6. Cardinality(kept) = Cardinality(windows) - Cardinality(removed)
      <4>1. windows \cap removed = removed
        BY <3>2
      <4>2. Cardinality(kept) = Cardinality(windows) - Cardinality(windows \cap removed)
        BY <3>4, <3>5, FS_Difference
      <4>3. QED
        BY <4>1, <4>2
    <3>7. /\ Cardinality(kept) \in Nat /\ Cardinality(windows) \in Nat
          /\ Cardinality(removed) \in Nat
      BY <3>4, <3>5, FS_CardinalityType
    <3>8. Cardinality(kept \cup {k})
             = IF k \in kept THEN Cardinality(kept) ELSE Cardinality(kept) + 1
      BY <3>5, FS_AddElement
    <3>9. Cardinality(tracked) <= MaxKeys
      BY DEF TableBounded
    <3>10. Cardinality(removed) = IF Evicts(k) /\ Cardinality(windows) >= MaxKeys
                                  THEN Cardinality(windows) - MaxKeys + 1 ELSE 0
      BY DEF Removable
    <3>11. ~Evicts(k) => windows = tracked
      BY DEF Retained
    <3>12. Cardinality(kept \cup {k}) <= MaxKeys
      <4>1. CASE Evicts(k)
        <5> HIDE DEF windows, kept
        <5>1. Cardinality(kept) <= MaxKeys - 1
          BY <3>0, <3>4, <3>6, <3>7, <3>9, <3>10, <4>1
        <5>2. QED
          BY <3>0, <3>7, <3>8, <5>1
      <4>2. CASE ~Evicts(k) /\ k \in tracked
        <5>1. kept \cup {k} = tracked
          BY <3>2, <3>11, <4>2
        <5>2. QED
          BY <3>9, <5>1
      <4>3. CASE ~Evicts(k) /\ k \notin tracked
        <5>1. kept = tracked
          BY <3>2, <3>11, <4>3
        <5>2. Cardinality(tracked) < MaxKeys
          BY <3>0, <3>3, <4>3 DEF Evicts
        <5>3. QED
          BY <3>0, <3>3, <3>8, <5>1, <5>2
      <4>4. QED
        BY <4>1, <4>2, <4>3
    <3>13. QED
      BY <3>1, <3>12 DEF TableBounded
  <2>3. QED
    BY <2>1, <2>2 DEF Next
<1>3. QED
  BY <1>1, <1>2, LimiterTypeCorrect, PTL DEF Spec

\* A call that forgets a key's admissions removes that one window from a full map.
LEMMA ForgottenStep ==
    ASSUME TypeOK, TableBounded, NEW k \in Keys, NEW ts \in 0..MaxTime, Check(k, ts),
           NEW f \in Keys, admitted[f] # <<>>, admitted'[f] = <<>>
    PROVE  /\ Cardinality(tracked) = MaxKeys /\ f \notin tracked'
           /\ \A j \in tracked \ {f} :
                  timestamps'[j] # <<>> /\ last_accessed[f] <= last_accessed[j]
<1>0. Cutoff(ts) \in Nat /\ MaxKeys \in Nat /\ MaxKeys >= 1 /\ ts \in Nat
  BY LimiterAssumption, CutoffProperties
<1>1. PICK removed \in Removable(k, Cutoff(ts)) :
         LET kept == Retained(k, Cutoff(ts)) \ removed
             swept == Swept(k, Cutoff(ts), kept)
         IN /\ tracked' = kept \cup {k}
            /\ \A j \in Keys \ {k} :
                  j \notin removed => timestamps'[j] = swept[j] /\ admitted'[j] = admitted[j]
            /\ admitted'[k] \in {admitted[k], Append(admitted[k], ts)}
  BY CheckChoice
<1> DEFINE windows == Retained(k, Cutoff(ts))
<1>2. /\ windows \subseteq tracked /\ removed \subseteq windows /\ k \notin removed
      /\ ~Evicts(k) => removed = {}
  BY <1>0, RemovedProperties
<1>3. f \in removed /\ f # k
  <2>1. admitted[k] \in Seq(Nat)
    BY DEF TypeOK
  <2>2. Append(admitted[k], ts) # <<>>
    BY <2>1, <1>0
  <2>3. QED
    BY <1>1, <1>2, <2>2
<1>4. Evicts(k)
  BY <1>2, <1>3
<1>5. IsFiniteSet(tracked) /\ Cardinality(tracked) \in Nat /\ Cardinality(tracked) <= MaxKeys
  BY LimiterAssumption, FS_Subset, FS_CardinalityType DEF TypeOK, TableBounded
<1>6. /\ IsFiniteSet(windows) /\ Cardinality(windows) \in Nat
      /\ Cardinality(windows) <= Cardinality(tracked)
      /\ Cardinality(windows) = Cardinality(tracked) => windows = tracked
  BY <1>2, <1>5, FS_Subset, FS_CardinalityType
<1>7. IsFiniteSet(removed) /\ Cardinality(removed) \in Nat /\ Cardinality(removed) # 0
  BY <1>2, <1>3, <1>6, FS_Subset, FS_CardinalityType, FS_EmptySet
<1>8. /\ Cardinality(windows) = MaxKeys /\ Cardinality(tracked) = MaxKeys
      /\ Cardinality(removed) = 1
  <2>1. Cardinality(removed) = IF Evicts(k) /\ Cardinality(windows) >= MaxKeys
                               THEN Cardinality(windows) - MaxKeys + 1 ELSE 0
    BY DEF Removable
  <2> HIDE DEF windows
  <2>2. QED
    BY <2>1, <1>0, <1>4, <1>5, <1>6, <1>7
<1>9. windows = tracked
  BY <1>6, <1>8
<1>10. removed = {f}
  <2>1. PICK g : removed = {g}
    BY <1>7, <1>8, FS_Singleton
  <2>2. QED
    BY <2>1, <1>3
<1>11. f \notin tracked'
  BY <1>1, <1>3
<1>12. ASSUME NEW j \in tracked \ {f}
       PROVE  timestamps'[j] # <<>> /\ last_accessed[f] <= last_accessed[j]
  <2>1. j \in Keys /\ j # k /\ j \notin removed /\ j \in windows
    BY <1>4, <1>9, <1>10 DEF TypeOK, Evicts
  <2>2. timestamps'[j] = Swept(k, Cutoff(ts), windows \ removed)[j]
    BY <2>1, <1>1
  <2>3. timestamps'[j] = Unexpired(timestamps[j], Cutoff(ts))
    BY <2>1, <2>2, <1>4 DEF Swept
  <2>4. Unexpired(timestamps[j], Cutoff(ts)) # <<>>
    BY <2>1, <1>4 DEF Retained
  <2>5. last_accessed[f] <= last_accessed[j]
    BY <2>1, <1>10 DEF Removable, LeastRecent
  <2>6. QED
    BY <2>3, <2>4, <2>5
<1>13. QED
  BY <1>8, <1>11, <1>12

\* A key's unexpired admissions are forgotten only for a new key in a full map of live
\* windows, and only if no other window was accessed earlier (evict).
THEOREM OldestAlwaysForgotten == Spec => OnlyOldestForgotten
<1>1. TypeOK /\ TableBounded /\ [Next]_vars =>
         [\A k \in Keys :
            admitted[k] # <<>> /\ admitted'[k] = <<>> =>
              /\ Cardinality(tracked) = MaxKeys /\ k \notin tracked'
              /\ \A j \in tracked \ {k} :
                     timestamps'[j] # <<>> /\ last_accessed[k] <= last_accessed[j]]_vars
  <2>1. Tick => admitted' = admitted
    BY DEF Tick
  <2>2. QED
    BY <2>1, ForgottenStep DEF Next
<1>2. QED
  BY <1>1, LimiterTypeCorrect, TableAlwaysBounded, PTL DEF Spec, OnlyOldestForgotten

-------------------------------------------------------------------------------
(* The wildcard matchers.                                                  *)

Pats == Seq(Names \cup {One, Many})

\* The segments i..j-1 of a pattern hold no many-wildcard.
NoMany(pat, i, j) == \A k \in i .. j - 1 : pat[k] # Many

\* Where the pattern goes on after the latest run, or begins.
Rest == IF star = 0 THEN 1 ELSE star

Beginning == pc = "start" => Start

\* What is behind the indices.
Behind ==
    /\ pattern # <<One>>
    /\ Rest <= p /\ t - mark = p - Rest
    /\ \A i \in Rest .. p - 1 : Fits(pattern[i], text[mark + (i - Rest)])
    /\ star = 0 => mark = 1
    /\ star # 0 => star > 1 /\ pattern[star - 1] = Many
    /\ Aligned(pattern, text, 1, 1, Rest, mark)

\* What a match would still find ahead.
Ahead ==
    Matches(pattern, text) =>
        \E k \in mark .. Len(text) + 1 :
            /\ Aligned(pattern, text, Rest, k, Len(pattern) + 1, Len(text) + 1)
            /\ star = 0 => k = mark

Loop == pc = "loop" => Behind /\ Ahead

IInv == MatchTypeOK /\ Beginning /\ Loop /\ FindsMatch

-------------------------------------------------------------------------------
(***************************************************************************)
(* Alignments                                                              *)
(***************************************************************************)
\* Two alignments that meet are one.
LEMMA Concat ==
    ASSUME NEW pat, NEW txt, Len(txt) \in Nat,
           NEW i \in Nat, NEW j \in Nat, NEW q \in Nat, i <= j, j <= q,
           NEW x, NEW y, NEW z,
           Aligned(pat, txt, i, x, j, y), Aligned(pat, txt, j, y, q, z)
    PROVE  Aligned(pat, txt, i, x, q, z)
<1>1. PICK f \in [i .. j -> 1 .. Len(txt) + 1] :
          /\ f[i] = x /\ f[j] = y
          /\ \A k \in i .. j - 1 : Takes(pat, txt, k, f[k], f[k + 1])
  BY DEF Aligned
<1>2. PICK g \in [j .. q -> 1 .. Len(txt) + 1] :
          /\ g[j] = y /\ g[q] = z
          /\ \A k \in j .. q - 1 : Takes(pat, txt, k, g[k], g[k + 1])
  BY DEF Aligned
<1> DEFINE h == [k \in i .. q |-> IF k <= j THEN f[k] ELSE g[k]]
<1>3. h \in [i .. q -> 1 .. Len(txt) + 1]
  OBVIOUS
<1>4. h[i] = x /\ h[q] = z
  BY <1>1, <1>2
<1>5. ASSUME NEW k \in i .. q - 1
      PROVE  Takes(pat, txt, k, h[k], h[k + 1])
  <2>1. CASE k < j
    <3>1. k \in i .. j - 1 /\ h[k] = f[k] /\ h[k + 1] = f[k + 1]
      BY <2>1
    <3>2. QED
      BY <1>1, <3>1
  <2>2. CASE k >= j
    <3>1. k \in j .. q - 1 /\ h[k] = g[k] /\ h[k + 1] = g[k + 1]
      BY <1>1, <1>2, <2>2
    <3>2. QED
      BY <1>2, <3>1
  <2>3. QED
    BY <2>1, <2>2
<1>6. QED
  <2> HIDE DEF h
  <2>1. QED
    BY <1>3, <1>4, <1>5 DEF Aligned

\* An alignment can be cut anywhere.
LEMMA Split ==
    ASSUME NEW pat, NEW txt, Len(txt) \in Nat,
           NEW i \in Nat, NEW j \in Nat, NEW q \in Nat, i <= j, j <= q,
           NEW x, NEW z, Aligned(pat, txt, i, x, q, z)
    PROVE  \E y \in 1 .. Len(txt) + 1 :
               Aligned(pat, txt, i, x, j, y) /\ Aligned(pat, txt, j, y, q, z)
<1>1. PICK f \in [i .. q -> 1 .. Len(txt) + 1] :
          /\ f[i] = x /\ f[q] = z
          /\ \A k \in i .. q - 1 : Takes(pat, txt, k, f[k], f[k + 1])
  BY DEF Aligned
<1> DEFINE g == [k \in i .. j |-> f[k]]
           h == [k \in j .. q |-> f[k]]
<1>2. Aligned(pat, txt, i, x, j, f[j])
  <2>1. g \in [i .. j -> 1 .. Len(txt) + 1] /\ g[i] = x /\ g[j] = f[j]
    BY <1>1
  <2>2. \A k \in i .. j - 1 :
            k \in i .. q - 1 /\ g[k] = f[k] /\ g[k + 1] = f[k + 1]
    OBVIOUS
  <2>3. \A k \in i .. j - 1 : Takes(pat, txt, k, g[k], g[k + 1])
    <3> HIDE DEF g
    <3>1. QED
      BY <1>1, <2>2
  <2>4. QED
    <3> HIDE DEF g
    <3>1. QED
      BY <2>1, <2>3 DEF Aligned
<1>3. Aligned(pat, txt, j, f[j], q, z)
  <2>1. h \in [j .. q -> 1 .. Len(txt) + 1] /\ h[j] = f[j] /\ h[q] = z
    BY <1>1
  <2>2. \A k \in j .. q - 1 :
            k \in i .. q - 1 /\ h[k] = f[k] /\ h[k + 1] = f[k + 1]
    OBVIOUS
  <2>3. \A k \in j .. q - 1 : Takes(pat, txt, k, h[k], h[k + 1])
    <3> HIDE DEF h
    <3>1. QED
      BY <1>1, <2>2
  <2>4. QED
    <3> HIDE DEF h
    <3>1. QED
      BY <2>1, <2>3 DEF Aligned
<1>4. f[j] \in 1 .. Len(txt) + 1
  OBVIOUS
<1>5. QED
  BY <1>2, <1>3, <1>4

\* An alignment never goes back.
LEMMA Monotone ==
    ASSUME NEW pat, NEW txt, Len(txt) \in Nat,
           NEW i \in Nat, NEW j \in Nat, i <= j,
           NEW x, NEW y, Aligned(pat, txt, i, x, j, y)
    PROVE  /\ x \in 1 .. Len(txt) + 1 /\ y \in 1 .. Len(txt) + 1
           /\ x <= y
<1>1. PICK f \in [i .. j -> 1 .. Len(txt) + 1] :
          /\ f[i] = x /\ f[j] = y
          /\ \A k \in i .. j - 1 : Takes(pat, txt, k, f[k], f[k + 1])
  BY DEF Aligned
<1> DEFINE Lower == {k \in i .. j : f[k] < x}
<1>2. ASSUME Lower # {}
      PROVE  FALSE
  <2>0. Lower \in SUBSET Nat
    OBVIOUS
  <2>1. PICK n \in Lower : \A k \in Lower : n <= k
    <3> HIDE DEF Lower
    <3>1. QED
      BY <1>2, <2>0, LinesRead!LeastNatural
  <2>2. n # i
    BY <1>1, <2>1
  <2>3. n - 1 \in i .. j - 1 /\ n - 1 \notin Lower /\ n - 1 + 1 = n
    BY <2>1, <2>2
  <2>4. f[n - 1] <= f[n]
    BY <1>1, <2>1, <2>3 DEF Takes
  <2>5. QED
    BY <1>1, <2>1, <2>3, <2>4
<1>3. QED
  BY <1>1, <1>2

\* Without many-wildcards every segment takes exactly one.
LEMMA FixedWidth ==
    ASSUME NEW pat, NEW txt, Len(txt) \in Nat,
           NEW i \in Nat, NEW j \in Nat, i <= j,
           NoMany(pat, i, j),
           NEW x, NEW y, Aligned(pat, txt, i, x, j, y)
    PROVE  /\ y = x + (j - i)
           /\ \A k \in i .. j - 1 :
                  /\ x + (k - i) <= Len(txt)
                  /\ Fits(pat[k], txt[x + (k - i)])
<1>1. PICK f \in [i .. j -> 1 .. Len(txt) + 1] :
          /\ f[i] = x /\ f[j] = y
          /\ \A k \in i .. j - 1 : Takes(pat, txt, k, f[k], f[k + 1])
  BY DEF Aligned
<1> DEFINE Off == {k \in i .. j : f[k] # x + (k - i)}
<1>2. ASSUME Off # {}
      PROVE  FALSE
  <2>0. Off \in SUBSET Nat
    OBVIOUS
  <2>1. PICK n \in Off : \A k \in Off : n <= k
    <3> HIDE DEF Off
    <3>1. QED
      BY <1>2, <2>0, LinesRead!LeastNatural
  <2>2. n # i
    BY <1>1, <2>1
  <2>3. n - 1 \in i .. j - 1 /\ n - 1 \notin Off /\ n - 1 + 1 = n
    BY <2>1, <2>2
  <2>4. f[n] = f[n - 1] + 1
    BY <1>1, <2>1, <2>3 DEF Takes, NoMany
  <2>5. f[n - 1] = x + (n - 1 - i) /\ f[n] # x + (n - i)
    BY <2>1, <2>3
  <2>6. x \in Int
    BY <1>1
  <2>7. QED
    BY <2>1, <2>4, <2>5, <2>6
<1>3. \A k \in i .. j : f[k] = x + (k - i)
  BY <1>2
<1>4. ASSUME NEW k \in i .. j - 1
      PROVE  x + (k - i) <= Len(txt) /\ Fits(pat[k], txt[x + (k - i)])
  <2>1. f[k] = x + (k - i) /\ pat[k] # Many
    BY <1>3 DEF NoMany
  <2>2. QED
    BY <1>1, <2>1 DEF Takes
<1>5. QED
  BY <1>1, <1>3, <1>4

\* Where an alignment begins, its first segment fits unless it is a wildcard of
\* that kind, or the alignment ends.
LEMMA First ==
    ASSUME NEW pat, NEW txt, Len(txt) \in Nat,
           NEW i \in Nat, NEW q \in Nat, i <= q,
           NEW x, NEW z, Aligned(pat, txt, i, x, q, z)
    PROVE  /\ i = q => x = z
           /\ i < q /\ pat[i] # Many => x <= Len(txt) /\ Fits(pat[i], txt[x])
<1>1. PICK f \in [i .. q -> 1 .. Len(txt) + 1] :
          /\ f[i] = x /\ f[q] = z
          /\ \A k \in i .. q - 1 : Takes(pat, txt, k, f[k], f[k + 1])
  BY DEF Aligned
<1>2. ASSUME i < q, pat[i] # Many
      PROVE  x <= Len(txt) /\ Fits(pat[i], txt[x])
  <2>1. i \in i .. q - 1
    BY <1>2
  <2>2. QED
    BY <1>1, <1>2, <2>1 DEF Takes
<1>3. QED
  BY <1>1, <1>2

\* A run of many-wildcards takes any stretch of the text.
LEMMA Run ==
    ASSUME NEW pat, NEW txt, Len(txt) \in Nat,
           NEW i \in Nat, NEW j \in Nat, i <= j,
           \A k \in i .. j - 1 : pat[k] = Many,
           NEW x \in 1 .. Len(txt) + 1, NEW y \in 1 .. Len(txt) + 1, x <= y,
           i < j \/ x = y
    PROVE  Aligned(pat, txt, i, x, j, y)
<1> DEFINE f == [k \in i .. j |-> IF k = i THEN x ELSE y]
<1>1. f \in [i .. j -> 1 .. Len(txt) + 1] /\ f[i] = x /\ f[j] = y
  OBVIOUS
<1>2. \A k \in i .. j - 1 : Takes(pat, txt, k, f[k], f[k + 1])
  BY DEF Takes
<1>3. QED
  <2> HIDE DEF f
  <2>1. QED
    BY <1>1, <1>2 DEF Aligned

\* Nothing takes nothing.
LEMMA Empty ==
    ASSUME NEW pat, NEW txt, Len(txt) \in Nat,
           NEW i \in Nat, NEW x \in 1 .. Len(txt) + 1
    PROVE  Aligned(pat, txt, i, x, i, x)
<1> DEFINE f == [k \in i .. i |-> x]
<1>1. f \in [i .. i -> 1 .. Len(txt) + 1] /\ f[i] = x
  OBVIOUS
<1>2. i .. i - 1 = {}
  OBVIOUS
<1>3. QED
  <2> HIDE DEF f
  <2>1. QED
    BY <1>1, <1>2 DEF Aligned

\* Segments that fit one by one are aligned.
LEMMA OneByOne ==
    ASSUME NEW pat, NEW txt, Len(txt) \in Nat,
           NEW i \in Nat, NEW j \in Nat, i <= j,
           NEW x \in 1 .. Len(txt) + 1, NEW y \in 1 .. Len(txt) + 1, y = x + (j - i),
           \A k \in i .. j - 1 : Fits(pat[k], txt[x + (k - i)])
    PROVE  Aligned(pat, txt, i, x, j, y)
<1> DEFINE f == [k \in i .. j |-> x + (k - i)]
<1>1. f \in [i .. j -> 1 .. Len(txt) + 1] /\ f[i] = x /\ f[j] = y
  OBVIOUS
<1>2. ASSUME NEW k \in i .. j - 1
      PROVE  Takes(pat, txt, k, f[k], f[k + 1])
  <2>1. f[k] = x + (k - i) /\ f[k + 1] = f[k] + 1 /\ f[k] <= Len(txt)
    OBVIOUS
  <2>2. Fits(pat[k], txt[f[k]])
    BY <2>1
  <2>3. QED
    BY <2>1, <2>2 DEF Takes, Fits
<1>3. QED
  <2> HIDE DEF f
  <2>1. QED
    BY <1>1, <1>2 DEF Aligned

\* SkipRun goes to the end of the run.
LEMMA Skips ==
    ASSUME NEW pat, Len(pat) \in Nat, NEW i \in 1 .. Len(pat) + 1
    PROVE  /\ SkipRun(pat, i) \in i .. Len(pat) + 1
           /\ SkipRun(pat, i) = Len(pat) + 1 \/ pat[SkipRun(pat, i)] # Many
           /\ \A k \in i .. SkipRun(pat, i) - 1 : pat[k] = Many
<1> DEFINE Ends == {q \in i .. Len(pat) + 1 : q = Len(pat) + 1 \/ pat[q] # Many}
<1>1. Ends \in SUBSET Nat /\ Len(pat) + 1 \in Ends
  OBVIOUS
<1>2. PICK q \in Ends : \A k \in Ends : q <= k
  <2> HIDE DEF Ends
  <2>1. QED
    BY <1>1, LinesRead!LeastNatural
<1>3. ASSUME NEW k \in i .. q - 1
      PROVE  pat[k] = Many
  <2>1. k \in i .. Len(pat) + 1 /\ k \notin Ends /\ k # Len(pat) + 1
    BY <1>2
  <2>2. QED
    BY <2>1
<1>4. \E r \in i .. Len(pat) + 1 :
          /\ r = Len(pat) + 1 \/ pat[r] # Many
          /\ \A k \in i .. r - 1 : pat[k] = Many
  BY <1>2, <1>3
<1>5. QED
  BY <1>4 DEF SkipRun

-------------------------------------------------------------------------------
(***************************************************************************)
(* What parsing makes of a pattern                                         *)
(***************************************************************************)
\* The fold of the laws parses.
LEMMA ParsesIs == \A written : Parsing!Fold(<<>>, written) = parse_pattern(written)
  BY Zenon DEF Parsing!Max, Max, Parsing!Fold, Parsing!FoldLeft, Parsing!MapThenFoldSet,
               parse_pattern, FoldLeft, MapThenFoldSet

\* The empty pattern stays empty.
LEMMA ParsesNone == parse_pattern(<<>>) = <<>>
  BY ParsesIs, Parsing!FoldNone

\* One segment more is added, or dropped.
LEMMA ParsesOn ==
    ASSUME NEW S, NEW written \in Seq(S), NEW seg \in S
    PROVE  parse_pattern(Append(written, seg)) = Added(parse_pattern(written), seg)
  BY ParsesIs, Parsing!FoldOn

\* The pattern can be laid along the text before y.
Reaches(pat, txt, y) == Aligned(pat, txt, 1, 1, Len(pat) + 1, y)

\* A segment takes those of the text from x to y - 1.
TakesSegment(seg, txt, x, y) ==
    IF seg = Many THEN x <= y ELSE x <= Len(txt) /\ y = x + 1 /\ Fits(seg, txt[x])

\* The empty pattern reaches the beginning.
LEMMA EmptyReaches ==
    ASSUME NEW txt, Len(txt) \in Nat, NEW y
    PROVE  Reaches(<<>>, txt, y) <=> y = 1
<1>1. Len(<<>>) + 1 = 1
  OBVIOUS
<1>2. ASSUME Reaches(<<>>, txt, y) PROVE y = 1
  <2>1. Aligned(<<>>, txt, 1, 1, 1, y)
    BY <1>1, <1>2 DEF Reaches
  <2>2. QED
    BY <2>1, First
<1>3. Aligned(<<>>, txt, 1, 1, 1, 1)
  BY Empty, 1 \in 1 .. Len(txt) + 1
<1>4. QED
  BY <1>1, <1>2, <1>3 DEF Reaches

\* An alignment depends on the segments that it lays, and on no other.
LEMMA SameSegments ==
    ASSUME NEW pat, NEW other, NEW txt, NEW j \in Nat, NEW y,
           \A k \in 1 .. j - 1 : pat[k] = other[k], Aligned(pat, txt, 1, 1, j, y)
    PROVE  Aligned(other, txt, 1, 1, j, y)
<1>1. PICK f \in [1 .. j -> 1 .. Len(txt) + 1] :
          /\ f[1] = 1 /\ f[j] = y
          /\ \A k \in 1 .. j - 1 : Takes(pat, txt, k, f[k], f[k + 1])
  BY DEF Aligned
<1>2. \A k \in 1 .. j - 1 : Takes(other, txt, k, f[k], f[k + 1])
  BY <1>1 DEF Takes
<1>3. QED
  BY <1>1, <1>2 DEF Aligned

\* A pattern with one segment more goes on where the pattern reaches.
LEMMA ReachesOn ==
    ASSUME NEW S, NEW pat \in Seq(S), NEW seg \in S,
           NEW txt, Len(txt) \in Nat, NEW y
    PROVE  Reaches(Append(pat, seg), txt, y) <=>
               /\ y \in 1 .. Len(txt) + 1
               /\ \E x \in 1 .. Len(txt) + 1 :
                      Reaches(pat, txt, x) /\ TakesSegment(seg, txt, x, y)
<1> DEFINE longer == Append(pat, seg)
<1>1. PICK n \in Nat : n = Len(pat)
  OBVIOUS
<1>2. /\ Len(longer) = n + 1 /\ longer[n + 1] = seg
      /\ \A k \in 1 .. n + 1 - 1 : longer[k] = pat[k]
  BY <1>1
<1>3. n + 1 \in Nat /\ n + 2 \in Nat /\ n + 1 <= n + 2 /\ 1 <= n + 1
      /\ Len(longer) + 1 = n + 2 /\ Len(pat) + 1 = n + 1
  BY <1>1, <1>2
<1> HIDE DEF longer
<1>4. \A x : Reaches(pat, txt, x) <=> Aligned(longer, txt, 1, 1, n + 1, x)
  <2>1. ASSUME NEW x
        PROVE  Aligned(pat, txt, 1, 1, n + 1, x) <=> Aligned(longer, txt, 1, 1, n + 1, x)
    BY <1>2, <1>3, SameSegments
  <2>2. QED
    BY <1>3, <2>1 DEF Reaches
<1>5. \A x \in 1 .. Len(txt) + 1 :
          Aligned(longer, txt, n + 1, x, n + 2, y) <=>
              y \in 1 .. Len(txt) + 1 /\ TakesSegment(seg, txt, x, y)
  <2> TAKE x \in 1 .. Len(txt) + 1
  <2>1. ASSUME Aligned(longer, txt, n + 1, x, n + 2, y)
        PROVE  y \in 1 .. Len(txt) + 1 /\ TakesSegment(seg, txt, x, y)
    <3>1. PICK f \in [n + 1 .. n + 2 -> 1 .. Len(txt) + 1] :
              /\ f[n + 1] = x /\ f[n + 2] = y
              /\ \A k \in n + 1 .. n + 2 - 1 : Takes(longer, txt, k, f[k], f[k + 1])
      BY <2>1 DEF Aligned
    <3>2. n + 1 \in n + 1 .. n + 2 - 1 /\ n + 1 + 1 = n + 2 /\ n + 2 \in n + 1 .. n + 2
      OBVIOUS
    <3>3. Takes(longer, txt, n + 1, x, y)
      BY <3>1, <3>2
    <3>4. QED
      BY <1>2, <3>1, <3>2, <3>3 DEF Takes, TakesSegment
  <2>2. ASSUME y \in 1 .. Len(txt) + 1, TakesSegment(seg, txt, x, y)
        PROVE  Aligned(longer, txt, n + 1, x, n + 2, y)
    <3> DEFINE f == [k \in n + 1 .. n + 2 |-> IF k = n + 1 THEN x ELSE y]
    <3>1. f \in [n + 1 .. n + 2 -> 1 .. Len(txt) + 1] /\ f[n + 1] = x /\ f[n + 2] = y
      BY <2>2
    <3>2. ASSUME NEW k \in n + 1 .. n + 2 - 1
          PROVE  Takes(longer, txt, k, f[k], f[k + 1])
      <4>1. k = n + 1 /\ k + 1 = n + 2
        OBVIOUS
      <4>2. Takes(longer, txt, n + 1, x, y)
        BY <1>2, <2>2 DEF Takes, TakesSegment
      <4>3. QED
        BY <3>1, <4>1, <4>2
    <3> HIDE DEF f
    <3>3. QED
      BY <3>1, <3>2 DEF Aligned
  <2>3. QED
    BY <2>1, <2>2
<1>6. ASSUME Reaches(longer, txt, y)
      PROVE  \E x \in 1 .. Len(txt) + 1 :
                 Aligned(longer, txt, 1, 1, n + 1, x) /\ Aligned(longer, txt, n + 1, x, n + 2, y)
  <2>1. Aligned(longer, txt, 1, 1, n + 2, y)
    BY <1>3, <1>6 DEF Reaches
  <2>2. QED
    BY <1>3, <2>1, Split, 1 \in Nat
<1>7. ASSUME NEW x \in 1 .. Len(txt) + 1, Aligned(longer, txt, 1, 1, n + 1, x),
             Aligned(longer, txt, n + 1, x, n + 2, y)
      PROVE  Reaches(longer, txt, y)
  <2>1. Aligned(longer, txt, 1, 1, n + 2, y)
    BY <1>3, <1>7, Concat, 1 \in Nat
  <2>2. QED
    BY <1>3, <2>1 DEF Reaches
<1>8. QED
  BY <1>4, <1>5, <1>6, <1>7 DEF longer

\* A pattern with one segment more is not empty, and has one segment only if it was.
LEMMA LoneSegment ==
    ASSUME NEW pat \in Pats, NEW seg \in Names \cup {One, Many}
    PROVE  /\ Append(pat, seg) \in Pats /\ Append(pat, seg) # <<>>
           /\ Append(pat, seg) = <<One>> <=> pat = <<>> /\ seg = One
<1>1. PICK n \in Nat : n = Len(pat)
  BY DEF Pats
<1>2. Append(pat, seg) \in Pats /\ Len(Append(pat, seg)) = n + 1 /\ Append(pat, seg)[n + 1] = seg
  BY <1>1, AppendProperties DEF Pats
<1>3. Append(pat, seg) # <<>>
  BY AppendProperties DEF Pats
<1>4. ASSUME Append(pat, seg) = <<One>> PROVE pat = <<>> /\ seg = One
  <2>1. Len(<<One>>) = 1 /\ <<One>>[1] = One
    OBVIOUS
  <2>2. n + 1 = 1 /\ Append(pat, seg)[1] = One
    BY <1>2, <1>4, <2>1
  <2>3. n = 0
    BY <2>2
  <2>4. pat = <<>>
    BY <1>1, <2>3, EmptySeq DEF Pats
  <2>5. QED
    BY <1>2, <2>2, <2>3, <2>4
<1>5. ASSUME pat = <<>>, seg = One PROVE Append(pat, seg) = <<One>>
  BY <1>5, Append(<<>>, One) = <<One>>
<1>6. QED
  BY <1>2, <1>3, <1>4, <1>5

\* What a parsed pattern keeps of the written one: whether it is empty or a lone
\* wildcard, and how far it can be laid along a text.
KeepsReach(parsed, written) ==
    /\ parsed \in Pats
    /\ parsed = <<>> <=> written = <<>>
    /\ parsed = <<One>> <=> written = <<One>>
    /\ \A txt \in Seq(Names) : \A y : Reaches(parsed, txt, y) <=> Reaches(written, txt, y)

\* What a pattern that ends in a many-wildcard reaches, it reaches with another too.
LEMMA RunReaches ==
    ASSUME NEW pat \in Pats, pat # <<>>, Last(pat) = Many,
           NEW txt \in Seq(Names), NEW y
    PROVE  Reaches(Append(pat, Many), txt, y) <=> Reaches(pat, txt, y)
<1>1. PICK n \in Nat : n = Len(pat)
  BY DEF Pats
<1>2. n # 0 /\ pat[n] = Many /\ \A k \in 1 .. n : pat[k] \in Names \cup {One, Many}
  BY <1>1 DEF Pats, Last
<1> DEFINE front == [k \in 1 .. n - 1 |-> pat[k]]
<1>3. front \in Pats /\ pat = Append(front, Many)
  <2>1. front \in Seq(Names \cup {One, Many}) /\ Len(front) = n - 1
    BY <1>2
  <2>2. /\ Append(front, Many) \in Seq(Names \cup {One, Many})
        /\ DOMAIN Append(front, Many) = 1 .. n
    BY <1>2, <2>1
  <2>3. \A k \in 1 .. n : Append(front, Many)[k] = pat[k]
    BY <1>2, <2>1
  <2>4. pat \in [1 .. n -> Names \cup {One, Many}]
    BY <1>1 DEF Pats
  <2>5. Append(front, Many) \in [1 .. n -> Names \cup {One, Many}]
    <3>1. \A ls \in Seq(Names \cup {One, Many}) :
              DOMAIN ls = 1 .. n => ls \in [1 .. n -> Names \cup {One, Many}]
      OBVIOUS
    <3>2. QED
      BY <2>2, <3>1
  <2>6. pat = Append(front, Many)
    <3> HIDE DEF front
    <3>1. QED
      BY <2>3, <2>4, <2>5
  <2>7. QED
    BY <2>1, <2>6 DEF Pats
<1> HIDE DEF front
<1>4. Len(txt) \in Nat /\ Many \in Names \cup {One, Many}
  OBVIOUS
<1>5. \A z : Reaches(pat, txt, z) <=>
          /\ z \in 1 .. Len(txt) + 1
          /\ \E x \in 1 .. Len(txt) + 1 : Reaches(front, txt, x) /\ x <= z
  BY <1>3, <1>4, ReachesOn DEF TakesSegment, Pats
<1>6. Reaches(Append(pat, Many), txt, y) <=>
          /\ y \in 1 .. Len(txt) + 1
          /\ \E x \in 1 .. Len(txt) + 1 : Reaches(pat, txt, x) /\ x <= y
  BY <1>4, ReachesOn DEF TakesSegment, Pats
<1>7. QED
  BY <1>4, <1>5, <1>6

\* Parsing keeps what a pattern means.
LEMMA ParsingKeeps == \A written \in Pats : KeepsReach(parse_pattern(written), written)
<1> DEFINE Kept == {written \in Pats : KeepsReach(parse_pattern(written), written)}
<1> USE GlobAssumption
<1>1. <<>> \in Kept
  <2>1. <<>> \in Pats
    BY DEF Pats
  <2>2. KeepsReach(<<>>, <<>>)
    BY <2>1, Zenon DEF KeepsReach
  <2>3. QED
    BY <2>1, <2>2, ParsesNone
<1>2. ASSUME NEW written \in Pats, KeepsReach(parse_pattern(written), written),
             NEW seg \in Names \cup {One, Many}
      PROVE  KeepsReach(parse_pattern(Append(written, seg)), Append(written, seg))
  <2> DEFINE parsed == parse_pattern(written)
             longer == Append(written, seg)
  <2>1. parse_pattern(longer) = Added(parsed, seg)
    BY ParsesOn DEF Pats
  <2>2. /\ parsed \in Pats
        /\ parsed = <<>> <=> written = <<>>
        /\ parsed = <<One>> <=> written = <<One>>
    BY <1>2 DEF KeepsReach
  <2>3. \A txt \in Seq(Names) : \A y : Reaches(parsed, txt, y) <=> Reaches(written, txt, y)
    BY <1>2 DEF KeepsReach
  <2> HIDE DEF parsed
  <2>4. longer \in Pats /\ longer # <<>>
    BY LoneSegment
  <2>5. longer = <<One>> <=> written = <<>> /\ seg = One
    BY LoneSegment
  <2>6. \A txt \in Seq(Names) : \A y :
            Reaches(Append(parsed, seg), txt, y) <=> Reaches(longer, txt, y)
    <3> TAKE txt \in Seq(Names)
    <3> TAKE y
    <3>1. Len(txt) \in Nat
      OBVIOUS
    <3>2. Reaches(longer, txt, y) <=>
              /\ y \in 1 .. Len(txt) + 1
              /\ \E x \in 1 .. Len(txt) + 1 :
                     Reaches(written, txt, x) /\ TakesSegment(seg, txt, x, y)
      BY <3>1, ReachesOn DEF Pats
    <3>3. Reaches(Append(parsed, seg), txt, y) <=>
              /\ y \in 1 .. Len(txt) + 1
              /\ \E x \in 1 .. Len(txt) + 1 :
                     Reaches(parsed, txt, x) /\ TakesSegment(seg, txt, x, y)
      BY <2>2, <3>1, ReachesOn DEF Pats
    <3>4. QED
      BY <2>3, <3>2, <3>3
  <2>7. CASE parsed # <<>> /\ seg = Many /\ Last(parsed) = Many
    <3>1. Added(parsed, seg) = parsed
      BY <2>7 DEF Added
    <3>2. parsed # <<One>>
      <4>1. Last(<<One>>) = One
        BY DEF Last
      <4>2. QED
        BY <2>7, <4>1
    <3>3. \A txt \in Seq(Names) : \A y : Reaches(parsed, txt, y) <=> Reaches(longer, txt, y)
      BY <2>2, <2>6, <2>7, RunReaches
    <3> HIDE DEF longer
    <3>4. longer # <<One>>
      <4>1. seg # One
        BY <2>7
      <4>2. QED
        BY <2>5, <4>1
    <3>5. KeepsReach(parsed, longer)
      BY <2>2, <2>4, <2>7, <3>2, <3>3, <3>4, Zenon DEF KeepsReach
    <3>6. QED
      BY <2>1, <3>1, <3>5 DEF longer
  <2>8. CASE ~(parsed # <<>> /\ seg = Many /\ Last(parsed) = Many)
    <3>1. Added(parsed, seg) = Append(parsed, seg)
      BY <2>8 DEF Added
    <3>2. Append(parsed, seg) \in Pats /\ Append(parsed, seg) # <<>>
      BY <2>2, LoneSegment
    <3>3. Append(parsed, seg) = <<One>> <=> parsed = <<>> /\ seg = One
      BY <2>2, LoneSegment
    <3> HIDE DEF longer
    <3>4. KeepsReach(Append(parsed, seg), longer)
      BY <2>2, <2>4, <2>5, <2>6, <3>2, <3>3, Zenon DEF KeepsReach
    <3>5. QED
      BY <2>1, <3>1, <3>4 DEF longer
  <2>9. QED
    BY <2>7, <2>8 DEF longer
<1>3. \A ls \in Seq(Names \cup {One, Many}) :
          ls \in Kept => \A l \in Names \cup {One, Many} : Append(ls, l) \in Kept
  BY <1>2 DEF Pats
<1>4. \A ls \in Seq(Names \cup {One, Many}) : ls \in Kept
  <2> HIDE DEF Kept
  <2>1. QED
    BY <1>1, <1>3, LinesRead!EverySequence
<1>5. QED
  BY <1>4 DEF Pats

\* Parsing changes no answer.
LEMMA ParsingMeans ==
    ASSUME NEW written \in Pats, NEW txt \in Seq(Names)
    PROVE  Means(parse_pattern(written), txt) <=> Means(written, txt)
<1>1. KeepsReach(parse_pattern(written), written)
  BY ParsingKeeps
<1>2. QED
  BY <1>1 DEF KeepsReach, Means, Matches, Reaches

-------------------------------------------------------------------------------
(***************************************************************************)
(* The matchers begin                                                      *)
(***************************************************************************)
\* The invariant holds before the first step.
LEMMA InitInv == MatchInit => IInv
<1> SUFFICES ASSUME MatchInit PROVE IInv
  OBVIOUS
<1> USE GlobAssumption
<1>1. raw \in Pats /\ pattern \in Pats
  BY ParsingKeeps DEF MatchInit, UrlInit, ModelInit, KeepsReach, Pats
<1>2. text \in Seq(Names)
  <2>1. ASSUME NEW url \in Texts \ {<<>>}
        PROVE  Normalized(url) \in Seq(Names)
    <3>1. url \in Seq(Names) /\ Len(url) \in Nat
      OBVIOUS
    <3>2. CASE Len(url) > 1 /\ url[Len(url)] = Blank
      BY <3>1, <3>2 DEF Normalized
    <3>3. CASE ~(Len(url) > 1 /\ url[Len(url)] = Blank)
      BY <3>1, <3>3 DEF Normalized
    <3>4. QED
      BY <3>2, <3>3
  <2>2. QED
    BY <2>1 DEF MatchInit, UrlInit, ModelInit
<1>3. Start /\ pc \in {"start", "loop"}
  BY DEF MatchInit, UrlInit, ModelInit
<1>4. Len(pattern) \in Nat /\ Len(text) \in Nat
  BY <1>1, <1>2 DEF Pats
<1>5. MatchTypeOK
  BY <1>1, <1>2, <1>3, <1>4 DEF MatchTypeOK, Start, Pats
<1>6. ASSUME pc = "loop"
      PROVE  Behind /\ Ahead
  <2>1. ModelInit
    BY <1>6 DEF MatchInit, UrlInit
  <2>2. pattern # <<One>>
    <3>1. SUFFICES ASSUME pattern = <<One>> PROVE FALSE
      OBVIOUS
    <3>2. Len(pattern) = 1 /\ pattern[1] = One
      BY <3>1
    <3>3. \A i \in 1 .. Len(pattern) : pattern[i] # One
      BY <2>1 DEF ModelInit
    <3>4. QED
      BY <3>2, <3>3
  <2>3. Aligned(pattern, text, 1, 1, 1, 1)
    BY <1>4, Empty, 1 \in 1 .. Len(text) + 1
  <2>4. Behind
    BY <1>3, <2>2, <2>3 DEF Behind, Start, Rest
  <2>5. Ahead
    BY <1>3, <1>4 DEF Ahead, Matches, Start, Rest
  <2>6. QED
    BY <2>4, <2>5
<1>7. QED
  BY <1>3, <1>5, <1>6 DEF IInv, Beginning, Loop, FindsMatch

-------------------------------------------------------------------------------
(***************************************************************************)
(* The matcher before the loop                                             *)
(***************************************************************************)
\* A lone wildcard matches every text.
LEMMA CatchAllStep == IInv /\ CatchAll => IInv'
<1> SUFFICES ASSUME IInv, CatchAll PROVE IInv'
  OBVIOUS
<1> USE GlobAssumption
<1>1. Len(pattern) \in Nat /\ Len(text) \in Nat
  BY DEF IInv, MatchTypeOK
<1>2. Means(pattern, text)
  <2>1. CASE pattern = <<One>>
    BY <2>1 DEF Means
  <2>2. CASE pattern = <<Many>>
    <3>1. Len(pattern) = 1 /\ pattern[1] = Many
      BY <2>2
    <3>2. \A k \in 1 .. 2 - 1 : pattern[k] = Many
      BY <3>1
    <3>3. Aligned(pattern, text, 1, 1, 2, Len(text) + 1)
      BY <1>1, <3>2, Run, 1 \in 1 .. Len(text) + 1, Len(text) + 1 \in 1 .. Len(text) + 1
    <3>4. QED
      BY <3>1, <3>3 DEF Means, Matches
  <2>3. QED
    BY <2>1, <2>2 DEF CatchAll
<1>3. MatchTypeOK'
  BY DEF IInv, MatchTypeOK, CatchAll, Return, input
<1>4. pc' = "done" /\ result' = "yes" /\ pattern' = pattern /\ text' = text
  BY DEF CatchAll, Return, input
<1>5. QED
  BY <1>2, <1>3, <1>4 DEF IInv, Beginning, Loop, FindsMatch

\* Without many-wildcards comparing segment by segment is enough.
LEMMA SegmentBySegmentStep == IInv /\ SegmentBySegment => IInv'
<1> SUFFICES ASSUME IInv, SegmentBySegment PROVE IInv'
  OBVIOUS
<1> DEFINE n == Len(pattern)
           m == Len(text)
           equal == m = n /\ \A i \in 1 .. n : Fits(pattern[i], text[i])
<1>1. n \in Nat /\ m \in Nat
  BY DEF IInv, MatchTypeOK
<1>2. pattern # <<One>> /\ \A i \in 1 .. n : pattern[i] # Many
  BY DEF SegmentBySegment
<1>3. ASSUME equal
      PROVE  Matches(pattern, text)
  <2> DEFINE f == [k \in 1 .. n + 1 |-> k]
  <2>1. f \in [1 .. n + 1 -> 1 .. m + 1] /\ f[1] = 1 /\ f[n + 1] = m + 1
    BY <1>1, <1>3
  <2>2. ASSUME NEW k \in 1 .. n + 1 - 1
        PROVE  Takes(pattern, text, k, f[k], f[k + 1])
    <3>1. f[k] = k /\ f[k + 1] = k + 1 /\ k \in 1 .. n /\ k <= m
      BY <1>1, <1>3
    <3>2. QED
      BY <1>2, <1>3, <3>1 DEF Takes
  <2>3. Aligned(pattern, text, 1, 1, n + 1, m + 1)
    <3> HIDE DEF f
    <3>1. QED
      BY <2>1, <2>2 DEF Aligned
  <2>4. QED
    BY <2>3 DEF Matches
<1>4. ASSUME Matches(pattern, text)
      PROVE  equal
  <2>1. NoMany(pattern, 1, n + 1)
    BY <1>1, <1>2 DEF NoMany
  <2>2. ASSUME NEW q \in Nat, NEW z \in Nat, q = n + 1, z = m + 1
        PROVE  /\ z = 1 + (q - 1)
               /\ \A k \in 1 .. q - 1 : Fits(pattern[k], text[1 + (k - 1)])
    <3>1. Aligned(pattern, text, 1, 1, q, z) /\ NoMany(pattern, 1, q)
      BY <1>4, <2>1, <2>2 DEF Matches
    <3>2. 1 <= q /\ 1 \in Nat /\ Len(text) \in Nat
      BY <1>1, <2>2
    <3>3. QED
      BY <3>1, <3>2, FixedWidth
  <2>3. \A k \in 1 .. n : 1 + (k - 1) = k
    BY <1>1
  <2>4. m = n
    BY <1>1, <2>2
  <2>5. \A k \in 1 .. n : Fits(pattern[k], text[1 + (k - 1)])
    BY <1>1, <2>2
  <2>6. QED
    BY <2>3, <2>4, <2>5
<1>5. result' = (IF equal THEN "yes" ELSE "no") /\ pc' = "done"
  BY DEF SegmentBySegment, Return
<1>6. pattern' = pattern /\ text' = text
  BY DEF SegmentBySegment, Return, input
<1>7. FindsMatch'
  <2> HIDE DEF equal
  <2>1. Means(pattern, text) <=> equal
    BY <1>2, <1>3, <1>4 DEF Means
  <2>2. QED
    BY <1>5, <1>6, <2>1 DEF FindsMatch
<1>8. MatchTypeOK'
  BY <1>5 DEF IInv, MatchTypeOK, SegmentBySegment, Return, input
<1>9. QED
  BY <1>5, <1>7, <1>8 DEF IInv, Beginning, Loop

\* The loop begins with nothing behind and everything ahead.
LEMMA UseGlobStep == IInv /\ UseGlob => IInv'
<1> SUFFICES ASSUME IInv, UseGlob PROVE IInv'
  OBVIOUS
<1>1. Len(pattern) \in Nat /\ Len(text) \in Nat /\ Start
  BY DEF IInv, MatchTypeOK, Beginning, UseGlob
<1>2. /\ pc = "start" /\ pc' = "loop" /\ pattern' = pattern /\ text' = text /\ raw' = raw
      /\ p' = 1 /\ t' = 1 /\ star' = 0 /\ mark' = 1 /\ result' = "none"
  BY <1>1 DEF UseGlob, input, Start
<1>3. MatchTypeOK'
  BY <1>1, <1>2 DEF IInv, MatchTypeOK
<1>4. Aligned(pattern, text, 1, 1, 1, 1)
  BY <1>1, Empty, 1 \in 1 .. Len(text) + 1
<1>5. Behind'
  BY <1>2, <1>4 DEF Behind, Rest, UseGlob
<1>6. Ahead'
  BY <1>1, <1>2 DEF Ahead, Matches, Rest
<1>7. QED
  BY <1>2, <1>3, <1>5, <1>6 DEF IInv, Beginning, Loop, FindsMatch

-------------------------------------------------------------------------------
(***************************************************************************)
(* The loop                                                                *)
(***************************************************************************)
\* The facts about the indices that every step of the loop starts from.
LEMMA Indices ==
    ASSUME IInv, pc = "loop"
    PROVE  /\ Len(pattern) \in Nat /\ Len(text) \in Nat
           /\ p \in 1 .. Len(pattern) + 1 /\ t \in 1 .. Len(text) + 1
           /\ mark \in 1 .. Len(text) + 1 /\ Rest \in 1 .. p
           /\ t = mark + (p - Rest) /\ mark <= t
           /\ Behind /\ Ahead
           /\ Aligned(pattern, text, Rest, mark, p, t)
<1>1. /\ Len(pattern) \in Nat /\ Len(text) \in Nat
      /\ p \in 1 .. Len(pattern) + 1 /\ t \in 1 .. Len(text) + 1
      /\ mark \in 1 .. Len(text) + 1
      /\ star \in 0 .. Len(pattern) + 1
  BY DEF IInv, MatchTypeOK
<1>2. Behind /\ Ahead
  BY DEF IInv, Loop
<1>3. Rest \in 1 .. p /\ t = mark + (p - Rest) /\ mark <= t
  BY <1>1, <1>2 DEF Behind, Rest
<1>4. Aligned(pattern, text, Rest, mark, p, t)
  <2>1. \A k \in Rest .. p - 1 : Fits(pattern[k], text[mark + (k - Rest)])
    BY <1>2 DEF Behind
  <2>2. Rest \in Nat /\ p \in Nat /\ Rest <= p
    BY <1>1, <1>3
  <2>3. QED
    BY <1>1, <1>3, <2>1, <2>2, OneByOne
<1>5. QED
  BY <1>1, <1>2, <1>3, <1>4

\* Whatever is still ahead passes the current segment of the text no earlier.
LEMMA Remaining ==
    ASSUME IInv, pc = "loop", Matches(pattern, text)
    PROVE  \E k \in mark .. Len(text) + 1 :
               /\ star = 0 => k = mark
               /\ Aligned(pattern, text, Rest, k, Len(pattern) + 1, Len(text) + 1)
               /\ k + (p - Rest) \in t .. Len(text) + 1
               /\ Aligned(pattern, text, p, k + (p - Rest),
                          Len(pattern) + 1, Len(text) + 1)
<1>1. /\ Len(pattern) \in Nat /\ Len(text) \in Nat
      /\ p \in 1 .. Len(pattern) + 1 /\ t \in 1 .. Len(text) + 1
      /\ mark \in 1 .. Len(text) + 1 /\ Rest \in 1 .. p
      /\ t = mark + (p - Rest)
      /\ Behind /\ Ahead
  BY Indices
<1>2. PICK k \in mark .. Len(text) + 1 :
          /\ Aligned(pattern, text, Rest, k, Len(pattern) + 1, Len(text) + 1)
          /\ star = 0 => k = mark
  BY <1>1 DEF Ahead
<1>3. PICK y \in 1 .. Len(text) + 1 :
          /\ Aligned(pattern, text, Rest, k, p, y)
          /\ Aligned(pattern, text, p, y, Len(pattern) + 1, Len(text) + 1)
  <2>1. Rest \in Nat /\ p \in Nat /\ Len(pattern) + 1 \in Nat
        /\ Rest <= p /\ p <= Len(pattern) + 1
    BY <1>1
  <2>2. QED
    BY <1>1, <1>2, <2>1, Split
<1>4. y = k + (p - Rest)
  <2>1. NoMany(pattern, Rest, p)
    BY <1>1 DEF Behind, Fits, NoMany
  <2>2. Rest \in Nat /\ p \in Nat /\ Rest <= p
    BY <1>1
  <2>3. QED
    BY <1>1, <1>3, <2>1, <2>2, FixedWidth
<1>5. k + (p - Rest) \in t .. Len(text) + 1
  BY <1>1, <1>2, <1>3, <1>4
<1>6. QED
  BY <1>2, <1>3, <1>4, <1>5

\* Where the current segments do not meet, no alignment passes: the latest run
\* must take more, or there is no match.
LEMMA Mismatch ==
    ASSUME IInv, InLoop, ~AtFit, ~AtMany, Matches(pattern, text)
    PROVE  /\ star # 0
           /\ \E k \in mark + 1 .. Len(text) + 1 :
                  Aligned(pattern, text, Rest, k, Len(pattern) + 1, Len(text) + 1)
<1>0. pc = "loop" /\ t <= Len(text)
  BY DEF InLoop
<1>1. /\ Len(pattern) \in Nat /\ Len(text) \in Nat
      /\ p \in 1 .. Len(pattern) + 1 /\ t \in 1 .. Len(text) + 1
      /\ mark \in 1 .. Len(text) + 1 /\ Rest \in 1 .. p
      /\ t = mark + (p - Rest)
  BY <1>0, Indices
<1>2. PICK k \in mark .. Len(text) + 1 :
          /\ star = 0 => k = mark
          /\ Aligned(pattern, text, Rest, k, Len(pattern) + 1, Len(text) + 1)
          /\ k + (p - Rest) \in t .. Len(text) + 1
          /\ Aligned(pattern, text, p, k + (p - Rest),
                     Len(pattern) + 1, Len(text) + 1)
  BY <1>0, Remaining
<1>3. ASSUME k = mark
      PROVE  FALSE
  <2>1. k + (p - Rest) = t
    BY <1>1, <1>3
  <2>2. Aligned(pattern, text, p, t, Len(pattern) + 1, Len(text) + 1)
    BY <1>2, <2>1
  <2>3. /\ p = Len(pattern) + 1 => t = Len(text) + 1
        /\ p < Len(pattern) + 1 /\ pattern[p] # Many => Fits(pattern[p], text[t])
    <3>1. p \in Nat /\ Len(pattern) + 1 \in Nat /\ p <= Len(pattern) + 1
      BY <1>1
    <3>2. QED
      BY <1>1, <2>2, <3>1, First
  <2>4. p <= Len(pattern)
    BY <1>0, <1>1, <2>3
  <2>5. pattern[p] # Many
    BY <2>4 DEF AtMany
  <2>6. QED
    BY <1>1, <2>3, <2>4, <2>5 DEF AtFit
<1>4. QED
  BY <1>1, <1>2, <1>3

\* A segment that fits is one more behind.
LEMMA ConsumeStep == IInv /\ Consume => IInv'
<1> SUFFICES ASSUME IInv, Consume PROVE IInv'
  OBVIOUS
<1>0. pc = "loop" /\ t <= Len(text) /\ AtFit
  BY DEF Consume, InLoop
<1>1. /\ Len(pattern) \in Nat /\ Len(text) \in Nat
      /\ p \in 1 .. Len(pattern) + 1 /\ t \in 1 .. Len(text) + 1
      /\ mark \in 1 .. Len(text) + 1 /\ Rest \in 1 .. p
      /\ t = mark + (p - Rest)
      /\ Behind /\ Ahead
  BY <1>0, Indices
<1>2. /\ p' = p + 1 /\ t' = t + 1 /\ pc' = pc /\ star' = star /\ mark' = mark
      /\ result' = result /\ raw' = raw /\ pattern' = pattern /\ text' = text
  BY DEF Consume, input
<1>3. p <= Len(pattern) /\ Fits(pattern[p], text[t])
  BY <1>0 DEF AtFit
<1>4. MatchTypeOK'
  BY <1>0, <1>1, <1>2, <1>3 DEF IInv, MatchTypeOK
<1>5. Rest' = Rest
  BY <1>2 DEF Rest
<1>6. Behind'
  <2>1. ASSUME NEW i \in Rest .. p + 1 - 1
        PROVE  Fits(pattern[i], text[mark + (i - Rest)])
    <3>1. CASE i = p
      <4>1. mark + (i - Rest) = t
        BY <1>1, <3>1
      <4>2. QED
        BY <1>3, <3>1, <4>1
    <3>2. CASE i # p
      <4>1. i \in Rest .. p - 1
        BY <1>1, <3>2
      <4>2. QED
        BY <1>1, <4>1 DEF Behind
    <3>3. QED
      BY <3>1, <3>2
  <2>2. Rest <= p + 1 /\ t + 1 - mark = p + 1 - Rest
    BY <1>1
  <2>3. QED
    BY <1>1, <1>2, <1>5, <2>1, <2>2 DEF Behind
<1>7. Ahead'
  BY <1>1, <1>2, <1>5 DEF Ahead
<1>8. QED
  BY <1>0, <1>2, <1>4, <1>6, <1>7 DEF IInv, Beginning, Loop, FindsMatch

\* A run that begins at a many-wildcard leads to its end, taking nothing yet.
LEMMA EnterRunStep == IInv /\ EnterRun => IInv'
<1> SUFFICES ASSUME IInv, EnterRun PROVE IInv'
  OBVIOUS
<1> DEFINE q == SkipRun(pattern, p)
           n == Len(pattern)
           m == Len(text)
<1>0. pc = "loop" /\ t <= m /\ p <= n /\ pattern[p] = Many
  BY DEF EnterRun, InLoop, AtMany
<1>1. /\ n \in Nat /\ m \in Nat
      /\ p \in 1 .. n + 1 /\ t \in 1 .. m + 1
      /\ mark \in 1 .. m + 1 /\ Rest \in 1 .. p
      /\ t = mark + (p - Rest) /\ mark <= t
      /\ Behind /\ Ahead
      /\ Aligned(pattern, text, Rest, mark, p, t)
  BY <1>0, Indices
<1>2. /\ q \in p .. n + 1
      /\ q = n + 1 \/ pattern[q] # Many
      /\ \A k \in p .. q - 1 : pattern[k] = Many
  BY <1>1, Skips
<1>3. q > p /\ q - 1 \in p .. q - 1 /\ q \in Nat /\ p \in Nat /\ p <= q
  BY <1>0, <1>1, <1>2
<1>4. /\ p' = q /\ star' = q /\ mark' = t /\ t' = t
      /\ raw' = raw /\ pattern' = pattern /\ text' = text
      /\ pc' = (IF q = n + 1 THEN "done" ELSE "loop")
      /\ result' = (IF q = n + 1 THEN "yes" ELSE result)
  BY DEF EnterRun, input
<1> HIDE DEF q
<1>5. MatchTypeOK'
  <2>1. result = "none"
    BY <1>0 DEF IInv, MatchTypeOK
  <2>2. p' \in 1 .. n + 1 /\ star' \in 0 .. n + 1 /\ mark' \in 1 .. m + 1
    BY <1>1, <1>2, <1>4
  <2>3. CASE q = n + 1
    BY <1>1, <1>4, <2>2, <2>3 DEF IInv, MatchTypeOK
  <2>4. CASE q # n + 1
    BY <1>1, <1>4, <2>1, <2>2, <2>4 DEF IInv, MatchTypeOK
  <2>5. QED
    BY <2>3, <2>4
<1>6. Aligned(pattern, text, 1, 1, p, t)
  <2>1. Aligned(pattern, text, 1, 1, Rest, mark)
    BY <1>1 DEF Behind
  <2>2. 1 \in Nat /\ Rest \in Nat /\ 1 <= Rest /\ Rest <= p
    BY <1>1
  <2>3. QED
    BY <1>1, <1>3, <2>1, <2>2, Concat
<1>7. ASSUME NEW u \in t .. m + 1
      PROVE  Aligned(pattern, text, 1, 1, q, u)
  <2>1. u \in 1 .. m + 1 /\ t <= u /\ (p < q \/ t = u)
    BY <1>1, <1>3
  <2>2. Aligned(pattern, text, p, t, q, u)
    BY <1>1, <1>2, <1>3, <2>1, Run
  <2>3. 1 \in Nat /\ 1 <= p
    BY <1>1
  <2>4. QED
    BY <1>1, <1>3, <1>6, <2>2, <2>3, Concat
<1>8. ASSUME q = n + 1
      PROVE  IInv'
  <2>1. m + 1 \in t .. m + 1
    BY <1>1
  <2>2. Matches(pattern, text)
    BY <1>7, <1>8, <2>1 DEF Matches
  <2>3. pc' = "done" /\ result' = "yes"
    BY <1>4, <1>8
  <2>4. QED
    BY <1>4, <1>5, <2>2, <2>3 DEF IInv, Beginning, Loop, FindsMatch, Means
<1>9. ASSUME q # n + 1
      PROVE  IInv'
  <2>1. pc' = "loop" /\ star' # 0 /\ Rest' = q
    BY <1>1, <1>2, <1>4, <1>9 DEF Rest
  <2>2. Behind'
    <3>1. t \in t .. m + 1
      BY <1>1
    <3>2. Aligned(pattern, text, 1, 1, q, t)
      BY <1>7, <3>1
    <3>3. pattern[q - 1] = Many /\ q > 1
      BY <1>1, <1>2, <1>3
    <3>4. q .. q - 1 = {} /\ q <= q /\ t - t = q - q
      BY <1>1, <1>3
    <3>5. pattern # <<One>>
      BY <1>1 DEF Behind
    <3>6. QED
      BY <1>4, <2>1, <3>2, <3>3, <3>4, <3>5 DEF Behind
  <2>3. ASSUME Matches(pattern, text)
        PROVE  \E y \in t .. m + 1 : Aligned(pattern, text, q, y, n + 1, m + 1)
    <3>1. PICK k \in mark .. m + 1 :
              /\ k + (p - Rest) \in t .. m + 1
              /\ Aligned(pattern, text, p, k + (p - Rest), n + 1, m + 1)
      BY <1>0, <2>3, Remaining
    <3>2. n + 1 \in Nat /\ q <= n + 1
      BY <1>1, <1>2
    <3>3. PICK y \in 1 .. m + 1 :
              /\ Aligned(pattern, text, p, k + (p - Rest), q, y)
              /\ Aligned(pattern, text, q, y, n + 1, m + 1)
      BY <1>1, <1>3, <3>1, <3>2, Split
    <3>4. k + (p - Rest) <= y
      BY <1>1, <1>3, <3>3, Monotone
    <3>5. y \in t .. m + 1
      BY <1>1, <3>1, <3>4
    <3>6. QED
      BY <3>3, <3>5
  <2>4. Ahead'
    BY <1>4, <2>1, <2>3 DEF Ahead
  <2>5. QED
    BY <1>5, <2>1, <2>2, <2>4 DEF IInv, Beginning, Loop, FindsMatch
<1>10. QED
  BY <1>8, <1>9

\* The latest run takes one segment more.
LEMMA BacktrackStep == IInv /\ Backtrack => IInv'
<1> SUFFICES ASSUME IInv, Backtrack PROVE IInv'
  OBVIOUS
<1> DEFINE n == Len(pattern)
           m == Len(text)
<1>0. pc = "loop" /\ t <= m /\ InLoop /\ ~AtFit /\ ~AtMany /\ star # 0
  BY DEF Backtrack, InLoop
<1>1. /\ n \in Nat /\ m \in Nat
      /\ p \in 1 .. n + 1 /\ t \in 1 .. m + 1
      /\ mark \in 1 .. m + 1 /\ Rest \in 1 .. p /\ mark <= t
      /\ Behind /\ Ahead
  BY <1>0, Indices
<1>2. /\ p' = star /\ mark' = mark + 1 /\ t' = mark + 1 /\ star' = star
      /\ pc' = "loop" /\ result' = result
      /\ raw' = raw /\ pattern' = pattern /\ text' = text
  BY <1>0 DEF Backtrack, input
<1>3. Rest = star /\ Rest' = star /\ star \in 1 .. n + 1
  BY <1>0, <1>1, <1>2 DEF Rest
<1>4. mark + 1 \in 1 .. m + 1
  BY <1>0, <1>1
<1>5. MatchTypeOK'
  BY <1>0, <1>1, <1>2, <1>3, <1>4 DEF IInv, MatchTypeOK
<1>6. Behind'
  <2>1. star > 1 /\ pattern[star - 1] = Many /\ pattern # <<One>>
    BY <1>0, <1>1 DEF Behind
  <2>2. Aligned(pattern, text, 1, 1, star, mark + 1)
    <3>1. /\ 1 \in Nat /\ star - 1 \in Nat /\ star \in Nat
          /\ 1 <= star - 1 /\ star - 1 <= star
      BY <1>3, <2>1
    <3>2. Aligned(pattern, text, 1, 1, star, mark)
      BY <1>1, <1>3 DEF Behind
    <3>3. PICK y \in 1 .. m + 1 :
              /\ Aligned(pattern, text, 1, 1, star - 1, y)
              /\ Aligned(pattern, text, star - 1, y, star, mark)
      BY <1>1, <3>1, <3>2, Split
    <3>4. y <= mark
      BY <1>1, <3>1, <3>3, Monotone
    <3>5. \A k \in star - 1 .. star - 1 : pattern[k] = Many
      BY <1>3, <2>1
    <3>6. y <= mark + 1 /\ star - 1 < star
      BY <1>1, <1>3, <3>4
    <3>7. Aligned(pattern, text, star - 1, y, star, mark + 1)
      BY <1>1, <1>4, <3>1, <3>5, <3>6, Run
    <3>8. QED
      BY <1>1, <3>1, <3>3, <3>7, Concat
  <2>3. /\ star <= star /\ mark + 1 - (mark + 1) = star - star
        /\ star .. star - 1 = {}
    BY <1>1, <1>3
  <2>4. QED
    BY <1>0, <1>2, <1>3, <2>1, <2>2, <2>3 DEF Behind
<1>7. Ahead'
  <2>1. ASSUME Matches(pattern, text)
        PROVE  \E k \in mark + 1 .. m + 1 :
                   Aligned(pattern, text, star, k, n + 1, m + 1)
    BY <1>0, <1>3, <2>1, Mismatch
  <2>2. QED
    BY <1>0, <1>2, <1>3, <2>1 DEF Ahead
<1>8. QED
  BY <1>2, <1>5, <1>6, <1>7 DEF IInv, Beginning, Loop, FindsMatch

\* Without a run to go back to a mismatch is final.
LEMMA FailStep == IInv /\ Fail => IInv'
<1> SUFFICES ASSUME IInv, Fail PROVE IInv'
  OBVIOUS
<1>1. pc = "loop" /\ InLoop /\ ~AtFit /\ ~AtMany /\ star = 0
  BY DEF Fail, InLoop
<1>2. ~Matches(pattern, text)
  BY <1>1, Mismatch
<1>3. pattern # <<One>>
  BY <1>1 DEF IInv, Loop, Behind
<1>4. /\ pc' = "done" /\ result' = "no" /\ pattern' = pattern /\ text' = text
      /\ p' = p /\ t' = t /\ star' = star /\ mark' = mark /\ raw' = raw
  BY DEF Fail, Return, input
<1>5. MatchTypeOK'
  BY <1>4 DEF IInv, MatchTypeOK
<1>6. QED
  BY <1>2, <1>3, <1>4, <1>5 DEF IInv, Beginning, Loop, FindsMatch, Means

\* Behind the text a match needs no more than wildcards.
LEMMA FinishStep == IInv /\ Finish => IInv'
<1> SUFFICES ASSUME IInv, Finish PROVE IInv'
  OBVIOUS
<1> DEFINE q == SkipRun(pattern, p)
           n == Len(pattern)
           m == Len(text)
<1>0. pc = "loop" /\ t > m
  BY DEF Finish
<1>1. /\ n \in Nat /\ m \in Nat
      /\ p \in 1 .. n + 1 /\ t \in 1 .. m + 1
      /\ mark \in 1 .. m + 1 /\ Rest \in 1 .. p
      /\ t = mark + (p - Rest) /\ mark <= t
      /\ Behind /\ Ahead
      /\ Aligned(pattern, text, Rest, mark, p, t)
  BY <1>0, Indices
<1>2. /\ q \in p .. n + 1
      /\ q = n + 1 \/ pattern[q] # Many
      /\ \A k \in p .. q - 1 : pattern[k] = Many
  BY <1>1, Skips
<1>3. /\ pc' = "done" /\ result' = (IF q = n + 1 THEN "yes" ELSE "no") /\ p' = q
      /\ pattern' = pattern /\ text' = text /\ raw' = raw
      /\ t' = t /\ star' = star /\ mark' = mark
  BY DEF Finish, Return, input
<1> HIDE DEF q
<1>4. t = m + 1 /\ p \in Nat /\ q \in Nat /\ p <= q /\ q <= n + 1
  BY <1>0, <1>1, <1>2
<1>5. ASSUME q = n + 1
      PROVE  Matches(pattern, text)
  <2>1. p < q \/ p = q
    BY <1>4
  <2>2. Aligned(pattern, text, p, t, q, t)
    <3>1. t <= t
      BY <1>1
    <3>2. QED
      BY <1>1, <1>2, <1>4, <3>1, Run
  <2>3. Aligned(pattern, text, 1, 1, Rest, mark)
    BY <1>1 DEF Behind
  <2>4. 1 \in Nat /\ Rest \in Nat /\ 1 <= Rest /\ Rest <= p /\ 1 <= p
    BY <1>1
  <2>5. Aligned(pattern, text, 1, 1, p, t)
    BY <1>1, <1>4, <2>3, <2>4, Concat
  <2>6. Aligned(pattern, text, 1, 1, q, t)
    BY <1>1, <1>4, <2>2, <2>4, <2>5, Concat
  <2>7. QED
    BY <1>4, <1>5, <2>6 DEF Matches
<1>6. ASSUME Matches(pattern, text), q # n + 1
      PROVE  FALSE
  <2>1. PICK k \in mark .. m + 1 :
            /\ k + (p - Rest) \in t .. m + 1
            /\ Aligned(pattern, text, p, k + (p - Rest), n + 1, m + 1)
    BY <1>0, <1>6, Remaining
  <2>2. n + 1 \in Nat
    BY <1>1
  <2>3. PICK y \in 1 .. m + 1 :
            /\ Aligned(pattern, text, p, k + (p - Rest), q, y)
            /\ Aligned(pattern, text, q, y, n + 1, m + 1)
    BY <1>1, <1>4, <2>1, <2>2, Split
  <2>4. k + (p - Rest) <= y
    BY <1>1, <1>4, <2>3, Monotone
  <2>5. y = m + 1
    BY <1>1, <1>4, <2>1, <2>4
  <2>6. q < n + 1 /\ pattern[q] # Many
    BY <1>1, <1>2, <1>4, <1>6
  <2>7. y <= m
    BY <1>1, <1>4, <2>2, <2>3, <2>6, First
  <2>8. QED
    BY <1>1, <2>5, <2>7
<1>7. pattern # <<One>>
  BY <1>1 DEF Behind
<1>8. MatchTypeOK'
  BY <1>1, <1>2, <1>3 DEF IInv, MatchTypeOK
<1>9. FindsMatch'
  BY <1>3, <1>5, <1>6, <1>7 DEF FindsMatch, Means
<1>10. QED
  BY <1>3, <1>8, <1>9 DEF IInv, Beginning, Loop

-------------------------------------------------------------------------------
\* Every step keeps the invariant.
LEMMA NextInv == IInv /\ [MatchNext]_matchVars => IInv'
<1> SUFFICES ASSUME IInv, [MatchNext]_matchVars PROVE IInv'
  OBVIOUS
<1>1. CASE CatchAll
  BY <1>1, CatchAllStep
<1>2. CASE SegmentBySegment
  BY <1>2, SegmentBySegmentStep
<1>3. CASE UseGlob
  BY <1>3, UseGlobStep
<1>4. CASE Consume
  BY <1>4, ConsumeStep
<1>5. CASE EnterRun
  BY <1>5, EnterRunStep
<1>6. CASE Backtrack
  BY <1>6, BacktrackStep
<1>7. CASE Fail
  BY <1>7, FailStep
<1>8. CASE Finish
  BY <1>8, FinishStep
<1>9. CASE UNCHANGED matchVars
  <2>1. Rest' = Rest /\ MatchTypeOK' = MatchTypeOK
    BY <1>9 DEF matchVars, Rest, MatchTypeOK
  <2>2. QED
    BY <1>9, <2>1 DEF matchVars, IInv, Beginning, Start, Loop, Behind, Ahead, FindsMatch
<1>10. QED
  BY <1>1, <1>2, <1>3, <1>4, <1>5, <1>6, <1>7, <1>8, <1>9 DEF MatchNext

\* Every variable of the matchers keeps its type, for any patterns and texts.
THEOREM TypeCorrect == MatchSpec => []MatchTypeOK
<1>1. MatchInit => IInv
  BY InitInv
<1>2. IInv /\ [MatchNext]_matchVars => IInv'
  BY NextInv
<1>3. IInv => MatchTypeOK
  BY DEF IInv
<1>4. QED
  BY <1>1, <1>2, <1>3, PTL DEF MatchSpec

\* url_matches and model_matches answer yes exactly when the pattern can be
\* laid along the text: one point to go back to is enough, for any patterns and
\* texts.
THEOREM MatchFound == MatchSpec => []FindsMatch
<1>1. MatchInit => IInv
  BY InitInv
<1>2. IInv /\ [MatchNext]_matchVars => IInv'
  BY NextInv
<1>3. IInv => FindsMatch
  BY DEF IInv
<1>4. QED
  BY <1>1, <1>2, <1>3, PTL DEF MatchSpec

\* Collapsing runs of many-wildcards in parse_pattern changes no answer, for any
\* patterns and texts: what a pattern that ends in such a run reaches, all that
\* lies behind, one many-wildcard more reaches too.
THEOREM ParsingAlwaysKeepsMeaning == MatchSpec => []ParsingKeepsMeaning
<1> DEFINE Inv == /\ raw \in Pats /\ text \in Seq(Names)
                  /\ pattern \in {raw, parse_pattern(raw)}
<1>1. MatchInit => IInv
  BY InitInv
<1>2. IInv /\ [MatchNext]_matchVars => IInv'
  BY NextInv
<1>3. IInv /\ MatchInit => Inv
  BY DEF IInv, MatchTypeOK, Pats, MatchInit, UrlInit, ModelInit
<1>4. Inv /\ [MatchNext]_matchVars => Inv'
  <2>1. [MatchNext]_matchVars => raw' = raw /\ pattern' = pattern /\ text' = text
    BY DEF MatchNext, matchVars, CatchAll, SegmentBySegment, UseGlob, Consume, EnterRun,
           Backtrack, Fail, Finish, Return, input
  <2>2. QED
    BY <2>1
<1>5. Inv => ParsingKeepsMeaning
  BY ParsingMeans DEF ParsingKeepsMeaning
<1>6. QED
  <2> HIDE DEF Inv
  <2>1. QED
    BY <1>1, <1>2, <1>3, <1>4, <1>5, PTL DEF MatchSpec

\* Every turn of the loop moves the pair of the mark and the pattern index on,
\* so it runs at most as often as there are such pairs: the bound the comment of
\* url_matches_glob gives.
THEOREM LoopAdvances == MatchSpec => Advances
<1> DEFINE Step == pc = "loop" => \/ pc' = "done"
                                  \/ mark' > mark
                                  \/ mark' = mark /\ p' > p
<1>1. MatchInit => IInv
  BY InitInv
<1>2. IInv /\ [MatchNext]_matchVars => IInv'
  BY NextInv
<1>3. IInv /\ [MatchNext]_matchVars => [Step]_matchVars
  <2> SUFFICES ASSUME IInv, MatchNext, pc = "loop" PROVE Step
    OBVIOUS
  <2>1. /\ Len(pattern) \in Nat /\ p \in 1 .. Len(pattern) + 1
        /\ mark \in Nat /\ t \in Nat /\ mark <= t
    BY Indices
  <2>2. CASE Consume
    BY <2>1, <2>2 DEF Consume
  <2>3. CASE EnterRun
    <3>1. p <= Len(pattern) /\ pattern[p] = Many
      BY <2>3 DEF EnterRun, AtMany
    <3>2. SkipRun(pattern, p) \in Nat /\ SkipRun(pattern, p) > p
      BY <2>1, <3>1, Skips
    <3>3. QED
      BY <2>1, <2>3, <3>2 DEF EnterRun
  <2>4. CASE Backtrack
    BY <2>1, <2>4 DEF Backtrack
  <2>5. CASE Fail \/ Finish
    BY <2>5 DEF Fail, Finish, Return
  <2>6. CASE CatchAll \/ SegmentBySegment \/ UseGlob
    BY <2>6 DEF CatchAll, SegmentBySegment, UseGlob
  <2>7. QED
    BY <2>2, <2>3, <2>4, <2>5, <2>6 DEF MatchNext
<1>4. QED
  BY <1>1, <1>2, <1>3, PTL DEF MatchSpec, Advances

-------------------------------------------------------------------------------
(* The lines of a stream that a reader has read, and those that one keeps. *)

\* The fold of the laws is the reader's.
LEMMA ReadsIs == \A acc, ls : LinesRead!Fold(acc, ls) = Tee!ReadLines(acc, ls)
  BY Zenon DEF LinesRead!Max, Tee!Max, LinesRead!Fold, LinesRead!FoldLeft,
               LinesRead!MapThenFoldSet, Tee!ReadLines, Tee!FoldLeft, Tee!MapThenFoldSet

\* Reading no line changes nothing.
LEMMA ReadsNone == ASSUME NEW acc PROVE Tee!ReadLines(acc, <<>>) = acc
  BY ReadsIs, LinesRead!FoldNone

\* Reading one line more.
LEMMA ReadsOn ==
  ASSUME NEW acc, NEW S, NEW ls \in Seq(S), NEW l \in S
  PROVE  Tee!ReadLines(acc, Append(ls, l)) = Tee!ReadLine(Tee!ReadLines(acc, ls), l)
  BY ReadsIs, LinesRead!FoldOn

\* The fold of the laws counts the lines kept.
LEMMA KeptIs == \A kept : LinesKept!Fold(0, kept) = Tap!LinesIn(kept)
  BY Zenon DEF LinesKept!Max, Tap!Max, LinesKept!Fold, LinesKept!FoldLeft,
               LinesKept!MapThenFoldSet, Tap!LinesIn, Tap!FoldLeft, Tap!MapThenFoldSet

\* No event has no line.
LEMMA SumsNone == Tap!LinesIn(<<>>) = 0
  BY KeptIs, LinesKept!FoldNone

\* One event more adds its lines.
LEMMA SumsOn ==
  ASSUME NEW S, NEW kept \in Seq(S), NEW frame \in S
  PROVE  Tap!LinesIn(Append(kept, frame)) = Tap!LinesIn(kept) + Len(frame)
  BY KeptIs, LinesKept!FoldOn

-------------------------------------------------------------------------------
(* The events of a stream. *)

\* Lines i to n are not blank.
Unbroken(ls, i, n) == \A k \in i..n : ls[k] # ""

\* Frame is the event of lines first to last, in full.
EventAt(ls, frame, first, last) ==
  /\ first \in 1..Len(ls) /\ last \in first..Len(ls)
  /\ first = 1 \/ ls[first - 1] = ""
  /\ last = Len(ls) \/ ls[last + 1] = ""
  /\ Unbroken(ls, first, last)
  /\ frame = [k \in 1..last + 1 - first |-> <<first + k - 1, ls[first + k - 1]>>]

\* The retained events are, in order, those of the first lines that have a marked one.
FramesOf(ls, fs, upto) ==
  /\ \A j \in DOMAIN fs : \E first \in 1..upto : \E last \in first..upto :
       EventAt(ls, fs[j], first, last)
  /\ \A i \in 1..upto : Tap!Marked(ls[i])
     => \E j \in DOMAIN fs : \E k \in DOMAIN fs[j] : fs[j][k] = <<i, ls[i]>>
  /\ \A j, m \in DOMAIN fs : j < m => \A k \in DOMAIN fs[j] : \A n \in DOMAIN fs[m] :
       fs[j][k][1] < fs[m][n][1]

\* Where an event is.
LEMMA EventRange ==
  ASSUME NEW S, NEW ls \in Seq(S), NEW frame, NEW first, NEW last, EventAt(ls, frame, first, last)
  PROVE  /\ first \in Nat /\ last \in Nat /\ 1 <= first /\ first <= last /\ last <= Len(ls)
         /\ Len(ls) \in Nat /\ DOMAIN ls = 1..Len(ls)
         /\ \A i \in first..last : i \in DOMAIN ls
  <1>1. first \in 1..Len(ls) /\ last \in first..Len(ls)
    BY DEF EventAt
  <1>2. Len(ls) \in Nat /\ DOMAIN ls = 1..Len(ls)
    OBVIOUS
  <1> QED
    BY <1>1, <1>2

\* The lines of an event are those it shares a line with.
LEMMA EventShares ==
  ASSUME NEW S, NEW ls \in Seq(S), NEW frame, NEW first, NEW last,
         EventAt(ls, frame, first, last),
         NEW i \in first..last, NEW j \in DOMAIN ls
  PROVE  Tap!SameEvent(ls, i, j) <=> j \in first..last
  <1>1. first \in Nat /\ last \in Nat /\ first >= 1 /\ first <= last /\ last <= Len(ls)
          /\ Len(ls) \in Nat
        /\ DOMAIN ls = 1..Len(ls) /\ i \in 1..Len(ls) /\ j \in 1..Len(ls)
    BY EventRange
  <1>2. ASSUME j \in first..last PROVE Tap!SameEvent(ls, i, j)
    <2>1. \A k \in DOMAIN ls : (i <= k /\ k <= j) \/ (j <= k /\ k <= i) => k \in first..last
      BY <1>1, <1>2
    <2>2. \A k \in first..last : ls[k] # ""
      BY Zenon DEF EventAt, Unbroken
    <2> QED
      BY <2>1, <2>2, Zenon DEF Tap!SameEvent
  <1>3. ASSUME Tap!SameEvent(ls, i, j), j < first PROVE FALSE
    <2>1. first - 1 \in DOMAIN ls /\ j <= first - 1 /\ first - 1 <= i /\ first # 1
      BY <1>1, <1>3
    <2>2. ls[first - 1] = ""
      BY <2>1 DEF EventAt
    <2> QED
      BY <1>3, <2>1, <2>2 DEF Tap!SameEvent
  <1>4. ASSUME Tap!SameEvent(ls, i, j), j > last PROVE FALSE
    <2>1. last + 1 \in DOMAIN ls /\ last + 1 <= j /\ i <= last + 1 /\ last # Len(ls)
      <3>1. last < j /\ j <= Len(ls) /\ i <= last /\ 1 <= last
            /\ last \in Int /\ j \in Int /\ Len(ls) \in Int
        BY <1>1, <1>4
      <3>2. last + 1 \in 1..Len(ls) /\ last + 1 <= j /\ last # Len(ls)
        BY <3>1
      <3>3. i \in Int /\ last \in Int
        BY <1>1
      <3>4. i <= last + 1
        BY <3>1, <3>3
      <3> QED
        BY <1>1, <3>2, <3>4
    <2>2. ls[last + 1] = ""
      BY <2>1 DEF EventAt
    <2> QED
      BY <1>4, <2>1, <2>2 DEF Tap!SameEvent
  <1> QED
    BY <1>1, <1>2, <1>3, <1>4

\* The lines of a frame are its event's.
LEMMA EventLines ==
  ASSUME NEW S, NEW ls \in Seq(S), NEW frame, NEW first, NEW last, EventAt(ls, frame, first, last)
  PROVE  /\ DOMAIN frame = 1..last + 1 - first /\ Len(frame) = last + 1 - first
         /\ \A k \in DOMAIN frame : first + k - 1 \in first..last
            /\ frame[k] = <<first + k - 1, ls[first + k - 1]>>
         /\ \A i \in first..last : i + 1 - first \in DOMAIN frame
            /\ frame[i + 1 - first] = <<i, ls[i]>>
  <1>1. first \in Nat /\ last \in Nat /\ first >= 1 /\ first <= last /\ last <= Len(ls)
          /\ Len(ls) \in Nat
    BY EventRange
  <1>2. /\ frame = [k \in 1..last + 1 - first |-> <<first + k - 1, ls[first + k - 1]>>]
        /\ DOMAIN frame = 1..last + 1 - first /\ last + 1 - first \in Nat
    <2>1. frame = [k \in 1..last + 1 - first |-> <<first + k - 1, ls[first + k - 1]>>]
      BY Zenon DEF EventAt
    <2> QED
      BY <1>1, <2>1
  <1>3. Len(frame) = last + 1 - first
    BY <1>2
  <1>4. \A k \in DOMAIN frame : first + k - 1 \in first..last
          /\ frame[k] = <<first + k - 1, ls[first + k - 1]>>
    BY <1>1, <1>2
  <1>5. ASSUME NEW i \in first..last
        PROVE  i + 1 - first \in DOMAIN frame /\ frame[i + 1 - first] = <<i, ls[i]>>
    <2>1. i + 1 - first \in 1..last + 1 - first /\ first + (i + 1 - first) - 1 = i
      BY <1>1
    <2> QED
      BY <1>2, <2>1
  <1> QED
    BY <1>2, <1>3, <1>4, <1>5

\* Every line of an event has its place in it.
LEMMA EventHas ==
  ASSUME NEW S, NEW ls \in Seq(S), NEW frame, NEW first, NEW last,
         EventAt(ls, frame, first, last),
         NEW i \in first..last
  PROVE  \E k \in DOMAIN frame : frame[k] = <<i, ls[i]>>
  <1>1. i + 1 - first \in DOMAIN frame /\ frame[i + 1 - first] = <<i, ls[i]>>
    BY EventLines
  <1> QED
    BY <1>1

\* Cardinality, as StreamTap names it.
LEMMA TapCardinality == \A X : Tap!Cardinality(X) = Cardinality(X)
  BY DEF Tap!Cardinality, Cardinality

\* An event is as long as it is from any of its lines.
LEMMA EventWithin ==
  ASSUME NEW S, NEW ls \in Seq(S), NEW frame, NEW first, NEW last, EventAt(ls, frame, first, last),
         NEW i \in first..last, NEW limit \in Nat
  PROVE  Tap!Within(ls, i, limit) <=> last + 1 - first <= limit
  <1>1. first \in Nat /\ last \in Nat /\ first >= 1 /\ first <= last
        /\ first \in DOMAIN ls /\ last \in DOMAIN ls /\ DOMAIN ls = 1..Len(ls) /\ Len(ls) \in Nat
    BY EventRange
  <1>2. \A j \in DOMAIN ls : Tap!SameEvent(ls, i, j) <=> j \in first..last
    BY EventShares
  <1>3. Tap!Within(ls, i, limit)
          <=> \A j, k \in DOMAIN ls : j \in first..last /\ k \in first..last => k < j + limit
    BY <1>2, Zenon DEF Tap!Within
  <1>4. ASSUME \A j, k \in DOMAIN ls : j \in first..last /\ k \in first..last => k < j + limit
        PROVE  last + 1 - first <= limit
    <2>1. last < first + limit
      BY <1>1, <1>4
    <2> QED
      BY <1>1, <2>1
  <1>5. ASSUME last + 1 - first <= limit, NEW j \in first..last, NEW k \in first..last
        PROVE  k < j + limit
    BY <1>1, <1>5
  <1> QED
    BY <1>3, <1>4, <1>5

\* Line i is all the data of its event, which is not too large to parse.
Countable(ls, i) == Tap!Sole(ls, i) /\ Tap!Within(ls, i, FrameLimit)

\* What is read from the data of an event that is not parsed.
Unread == <<Tap!NoCount, "">>

\* The data of an event is a count exactly when one of its lines counts.
LEMMA PayloadIsSole ==
  ASSUME NEW S, NEW ls \in Seq(S), NEW frame, NEW first, NEW last, EventAt(ls, frame, first, last)
  PROVE  \/ \E i \in first..last : Countable(ls, i) /\ Tap!Payload(frame) = <<i, ls[i]>>
         \/ Tap!Payload(frame) = Unread /\ \A i \in first..last : ~Countable(ls, i)
  <1> DEFINE those == {n \in 1..Len(frame) : Tap!IsData(frame[n][2])}
  <1>1. first \in Nat /\ last \in Nat /\ first >= 1 /\ first <= last /\ last <= Len(ls)
          /\ Len(ls) \in Nat
        /\ DOMAIN ls = 1..Len(ls)
    BY EventRange
  <1>2. DOMAIN frame = 1..Len(frame) /\ Len(frame) = last + 1 - first
    BY <1>1, EventLines
  <1>3. IsFiniteSet(those)
    <2>1. IsFiniteSet(1..Len(frame))
      BY <1>1, <1>2, FS_Interval
    <2> QED
      BY <2>1, FS_Subset
  <1>4. Tap!Payload(frame) = IF Len(frame) <= FrameLimit /\ Cardinality(those) = 1
                             THEN frame[CHOOSE n \in those : TRUE] ELSE Unread
    <2>1. Tap!Payload(frame) = IF Len(frame) <= FrameLimit /\ Tap!Cardinality(those) = 1
                               THEN frame[CHOOSE n \in those : TRUE] ELSE Unread
      BY Zenon DEF Tap!Payload, Unread
    <2> QED
      BY <2>1, TapCardinality, Zenon
  <1>5. ASSUME NEW i \in first..last, Tap!Sole(ls, i)
        PROVE  those = {i + 1 - first}
    <2>1. i + 1 - first \in those
      BY <1>2, <1>5, EventLines DEF Tap!Sole
    <2>2. ASSUME NEW n \in those PROVE n = i + 1 - first
      <3>1. n \in DOMAIN frame /\ first + n - 1 \in first..last /\ Tap!IsData(ls[first + n - 1])
        BY <1>2, <2>2, EventLines
      <3>2. first + n - 1 \in DOMAIN ls
        BY <1>1, <3>1
      <3>3. Tap!SameEvent(ls, i, first + n - 1)
        BY <3>1, <3>2, EventShares
      <3>4. first + n - 1 = i
        BY <1>5, <3>1, <3>2, <3>3 DEF Tap!Sole
      <3> QED
        BY <1>1, <1>2, <3>1, <3>4
    <2> QED
      BY <2>1, <2>2
  <1>6. ASSUME NEW n, those = {n}
        PROVE  /\ n \in DOMAIN frame /\ first + n - 1 \in first..last
               /\ Tap!Sole(ls, first + n - 1) /\ frame[n] = <<first + n - 1, ls[first + n - 1]>>
    <2>1. n \in DOMAIN frame /\ n \in those
      BY <1>2, <1>6
    <2>2. first + n - 1 \in first..last /\ frame[n] = <<first + n - 1, ls[first + n - 1]>>
      BY <2>1, EventLines
    <2>3. Tap!IsData(ls[first + n - 1])
      BY <2>1, <2>2
    <2>4. ASSUME NEW j \in DOMAIN ls, j # first + n - 1, Tap!SameEvent(ls, first + n - 1, j)
          PROVE  ~Tap!IsData(ls[j])
      <3>1. j \in first..last
        BY <2>2, <2>4, EventShares
      <3>2. j + 1 - first \in DOMAIN frame /\ frame[j + 1 - first] = <<j, ls[j]>>
        BY <3>1, EventLines
      <3>3. j + 1 - first # n
        BY <1>1, <1>2, <2>1, <2>4, <3>1
      <3> QED
        BY <1>2, <1>6, <3>2, <3>3
    <2> QED
      BY <2>1, <2>2, <2>3, <2>4 DEF Tap!Sole
  <1> HIDE DEF those
  <1>7. \A i \in first..last : Tap!Within(ls, i, FrameLimit) <=> Len(frame) <= FrameLimit
    <2>1. FrameLimit \in Nat
      BY TapAssumed DEF Tap!StreamTapAssumption
    <2> QED
      BY <1>2, <2>1, EventWithin
  <1>8. CASE ~(Len(frame) <= FrameLimit)
    BY <1>4, <1>7, <1>8 DEF Countable
  <1>9. CASE Len(frame) <= FrameLimit /\ \E n : those = {n}
    <2>1. PICK n : those = {n}
      BY <1>9
    <2>2. Cardinality(those) = 1 /\ (CHOOSE k \in those : TRUE) = n
      BY <2>1, FS_Singleton
    <2>3. Tap!Payload(frame) = frame[n]
      BY <1>4, <1>9, <2>2
    <2> QED
      BY <1>6, <1>7, <1>9, <2>1, <2>3 DEF Countable
  <1>10. CASE ~\E n : those = {n}
    <2>1. Cardinality(those) # 1
      BY <1>3, <1>10, FS_Singleton
    <2> QED
      BY <1>4, <1>5, <1>10, <2>1 DEF Countable
  <1> QED
    BY <1>8, <1>9, <1>10

\* An event has at most one such line.
LEMMA SoleOnce ==
  ASSUME NEW S, NEW ls \in Seq(S), NEW frame, NEW first, NEW last,
         EventAt(ls, frame, first, last),
         NEW i \in first..last, NEW j \in first..last, Tap!Sole(ls, i), Tap!Sole(ls, j)
  PROVE  i = j
  <1>1. i \in DOMAIN ls /\ j \in DOMAIN ls
    BY EventRange
  <1>2. Tap!SameEvent(ls, i, j)
    BY <1>1, EventShares
  <1> QED
    BY <1>1, <1>2 DEF Tap!Sole

\* The largest of some line numbers.
LEMMA LatestIs ==
  ASSUME NEW S \in SUBSET Nat, NEW i \in S, \A j \in S : j <= i
  PROVE  Tap!Latest(S) = i
  <1>1. \A m \in S : (\A j \in S : j <= m) => m = i
    OBVIOUS
  <1> QED
    BY <1>1 DEF Tap!Latest

\* The latest of some numbers is one of them, and none is later.
LEMMA LatestThere ==
  ASSUME NEW n \in Nat, NEW S \in SUBSET (1..n), S # {}
  PROVE  Tap!Latest(S) \in S /\ \A j \in S : j <= Tap!Latest(S)
  <1> DEFINE gaps == {n - j : j \in S}
  <1>1. gaps \in SUBSET Nat /\ gaps # {}
    <2>1. \A j \in S : n - j \in Nat
      OBVIOUS
    <2>2. gaps \in SUBSET Nat
      BY <2>1, Zenon
    <2>3. gaps # {}
      BY Zenon
    <2> QED
      BY <2>2, <2>3
  <1>2. PICK g \in gaps : \A h \in gaps : g <= h
    <2> HIDE DEF gaps
    <2> QED
      BY <1>1, LinesRead!LeastNatural
  <1>3. PICK i \in S : g = n - i
    BY <1>2
  <1>4. \A j \in S : j <= i
    BY <1>2, <1>3
  <1>5. Tap!Latest(S) = i
    BY <1>4, LatestIs
  <1> QED
    BY <1>4, <1>5

\* What the retained events say, and in which order, of the lines that count.
LEMMA SolesKept ==
  ASSUME NEW S, NEW ls \in Seq(S), NEW F, NEW fs \in Seq(F), FramesOf(ls, fs, Len(ls)),
         NEW kinds, \A l \in kinds : Tap!Marked(l)
  PROVE  /\ \A j \in 1..Len(fs) : Tap!Payload(fs[j])[2] \in kinds =>
               /\ Tap!Payload(fs[j])[1] \in Tap!Counted(ls, kinds, FrameLimit)
               /\ Tap!Payload(fs[j])[2] = ls[Tap!Payload(fs[j])[1]]
         /\ \A i \in Tap!Counted(ls, kinds, FrameLimit) : \E j \in 1..Len(fs) :
              Tap!Payload(fs[j]) = <<i, ls[i]>>
         /\ \A j, m \in 1..Len(fs) :
               j < m /\ Tap!Payload(fs[j])[2] \in kinds /\ Tap!Payload(fs[m])[2] \in kinds =>
               Tap!Payload(fs[j])[1] < Tap!Payload(fs[m])[1]
  <1>1. DOMAIN fs = 1..Len(fs) /\ DOMAIN ls = 1..Len(ls) /\ Len(ls) \in Nat /\ Len(fs) \in Nat
    OBVIOUS
  <1>2. "" \notin kinds
    BY Zenon DEF Tap!Marked
  <1>3. ASSUME NEW j \in 1..Len(fs)
        PROVE  \E first, last : EventAt(ls, fs[j], first, last)
    BY <1>1 DEF FramesOf
  <1>4. ASSUME NEW j \in 1..Len(fs), Tap!Payload(fs[j])[2] \in kinds
        PROVE  \E i \in DOMAIN ls : /\ Countable(ls, i) /\ Tap!Payload(fs[j]) = <<i, ls[i]>>
                                    /\ \E k \in DOMAIN fs[j] : fs[j][k] = <<i, ls[i]>>
    <2>1. PICK first, last : EventAt(ls, fs[j], first, last)
      BY <1>3
    <2>2. Tap!Payload(fs[j]) # Unread
      <3>1. Unread[2] = ""
        BY DEF Unread
      <3> QED
        BY <1>2, <1>4, <3>1, Zenon
    <2>3. PICK i \in first..last : Countable(ls, i) /\ Tap!Payload(fs[j]) = <<i, ls[i]>>
      BY <2>1, <2>2, PayloadIsSole
    <2>4. i \in DOMAIN ls
      BY <2>1, EventRange
    <2>5. \E k \in DOMAIN fs[j] : fs[j][k] = <<i, ls[i]>>
      BY <2>1, <2>3, EventHas
    <2> QED
      BY <2>3, <2>4, <2>5
  <1>5. ASSUME NEW j \in 1..Len(fs), Tap!Payload(fs[j])[2] \in kinds
        PROVE  /\ Tap!Payload(fs[j])[1] \in Tap!Counted(ls, kinds, FrameLimit)
               /\ Tap!Payload(fs[j])[2] = ls[Tap!Payload(fs[j])[1]]
               /\ \E k \in DOMAIN fs[j] : fs[j][k] = Tap!Payload(fs[j])
    <2>1. PICK i \in DOMAIN ls : /\ Countable(ls, i) /\ Tap!Payload(fs[j]) = <<i, ls[i]>>
                                 /\ \E k \in DOMAIN fs[j] : fs[j][k] = <<i, ls[i]>>
      BY <1>4, <1>5
    <2>2. Tap!Payload(fs[j])[1] = i /\ Tap!Payload(fs[j])[2] = ls[i]
      BY <2>1
    <2>3. i \in Tap!Counted(ls, kinds, FrameLimit)
      BY <1>5, <2>1, <2>2 DEF Tap!Counted, Tap!Soles, Countable
    <2> QED
      BY <2>1, <2>2, <2>3
  <1>6. ASSUME NEW i \in Tap!Counted(ls, kinds, FrameLimit)
        PROVE  \E j \in 1..Len(fs) : Tap!Payload(fs[j]) = <<i, ls[i]>>
    <2>1. i \in 1..Len(ls) /\ Tap!Marked(ls[i]) /\ Countable(ls, i)
      BY <1>1 DEF Tap!Counted, Tap!Soles, Countable
    <2>2. PICK j \in 1..Len(fs) : \E k \in DOMAIN fs[j] : fs[j][k] = <<i, ls[i]>>
      BY <1>1, <2>1 DEF FramesOf
    <2>3. PICK first, last : EventAt(ls, fs[j], first, last)
      BY <1>3
    <2>4. i \in first..last
      <3>1. PICK k \in DOMAIN fs[j] : fs[j][k] = <<i, ls[i]>>
        BY <2>2
      <3>2. first + k - 1 \in first..last /\ fs[j][k] = <<first + k - 1, ls[first + k - 1]>>
        BY <2>2, <2>3, EventLines
      <3> QED
        BY <3>1, <3>2
    <2>5. PICK h \in first..last : Countable(ls, h) /\ Tap!Payload(fs[j]) = <<h, ls[h]>>
      BY <2>1, <2>3, <2>4, PayloadIsSole
    <2>6. h = i
      BY <2>1, <2>3, <2>4, <2>5, SoleOnce DEF Countable
    <2> QED
      BY <2>5, <2>6
  <1>7. ASSUME NEW j \in 1..Len(fs), NEW m \in 1..Len(fs), j < m,
               Tap!Payload(fs[j])[2] \in kinds, Tap!Payload(fs[m])[2] \in kinds
        PROVE  Tap!Payload(fs[j])[1] < Tap!Payload(fs[m])[1]
    <2>1. PICK k \in DOMAIN fs[j] : fs[j][k] = Tap!Payload(fs[j])
      BY <1>5, <1>7
    <2>2. PICK n \in DOMAIN fs[m] : fs[m][n] = Tap!Payload(fs[m])
      BY <1>5, <1>7
    <2>3. fs[j][k][1] < fs[m][n][1]
      BY <1>1, <1>7 DEF FramesOf
    <2> QED
      BY <2>1, <2>2, <2>3
  <1> QED
    BY <1>5, <1>6, <1>7

\* What finalize() makes of all the events of a stream is what a reader of its lines
\* would have counted.
LEMMA Captured ==
  ASSUME NEW S, NEW ls \in Seq(S), NEW F, NEW fs \in Seq(F), FramesOf(ls, fs, Len(ls)), Tap!TypeOK
  PROVE  Tap!capture_stream_usage(fs, TRUE) = Tap!Tally(tap_provider, ls, FrameLimit)
  <1>1. Len(fs) \in Nat /\ Len(ls) \in Nat /\ DOMAIN ls = 1..Len(ls)
    OBVIOUS
  <1>2. CASE tap_provider = "openai"
    <2> DEFINE kinds == {"both", "in"}
               usages == {n \in 1..Len(fs) : Tap!Payload(fs[n])[2] \in kinds}
               soles == Tap!Counted(ls, kinds, FrameLimit)
    <2>1. \A l \in kinds : Tap!Marked(l)
      BY Zenon DEF Tap!Marked
    <2>2. /\ \A j \in usages : /\ Tap!Payload(fs[j])[1] \in soles
                               /\ Tap!Payload(fs[j])[2] = ls[Tap!Payload(fs[j])[1]]
          /\ \A i \in soles : \E j \in usages : Tap!Payload(fs[j]) = <<i, ls[i]>>
          /\ \A j, m \in usages : j < m => Tap!Payload(fs[j])[1] < Tap!Payload(fs[m])[1]
      <3> HIDE DEF kinds
      <3>1. \A i \in soles : ls[i] \in kinds
        BY DEF Tap!Counted, Tap!Soles
      <3> HIDE DEF soles
      <3>2. \A j \in 1..Len(fs) : Tap!Payload(fs[j])[2] \in kinds =>
               /\ Tap!Payload(fs[j])[1] \in soles
               /\ Tap!Payload(fs[j])[2] = ls[Tap!Payload(fs[j])[1]]
        BY <2>1, SolesKept DEF soles
      <3>3. \A i \in soles : \E j \in 1..Len(fs) : Tap!Payload(fs[j]) = <<i, ls[i]>>
        BY <2>1, SolesKept DEF soles
      <3>4. \A j, m \in 1..Len(fs) :
               j < m /\ Tap!Payload(fs[j])[2] \in kinds /\ Tap!Payload(fs[m])[2] \in kinds =>
               Tap!Payload(fs[j])[1] < Tap!Payload(fs[m])[1]
        BY <2>1, SolesKept
      <3> QED
        BY <3>1, <3>2, <3>3, <3>4
    <2>3. soles \subseteq 1..Len(ls)
      BY <1>1 DEF Tap!Counted, Tap!Soles
    <2>4. Tap!capture_stream_usage(fs, TRUE) =
            IF usages = {} THEN Tap!Untallied
            ELSE Tap!Usage(Tap!Payload(fs[Tap!Latest(usages)])[1],
                           IF Tap!Payload(fs[Tap!Latest(usages)])[2] = "both"
                           THEN Tap!Payload(fs[Tap!Latest(usages)])[1] ELSE Tap!NoCount)
      BY <1>2, Zenon DEF Tap!capture_stream_usage, Tap!CaptureOpenAI
    <2>5. Tap!Tally(tap_provider, ls, FrameLimit) =
            Tap!Usage(Tap!Latest(soles),
                      IF Tap!Latest(soles) # Tap!NoCount /\ ls[Tap!Latest(soles)] = "both"
                      THEN Tap!Latest(soles) ELSE Tap!NoCount)
      BY <1>2, Zenon DEF Tap!Tally
    <2>6. usages \subseteq 1..Len(fs)
      OBVIOUS
    <2> HIDE DEF usages, soles, kinds
    <2>7. CASE usages = {}
      <3>1. Tap!Latest(soles) = Tap!NoCount
        BY <2>2, <2>7 DEF Tap!Latest
      <3> QED
        BY <2>4, <2>5, <2>7, <3>1 DEF Tap!Untallied
    <2>8. CASE usages # {}
      <3> DEFINE n == Tap!Latest(usages)
                 i == Tap!Payload(fs[n])[1]
      <3>1. n \in usages /\ \A j \in usages : j <= n
        BY <1>1, <2>6, <2>8, LatestThere
      <3>2. i \in soles /\ Tap!Payload(fs[n])[2] = ls[i] /\ i \in 1..Len(ls)
        BY <2>2, <2>3, <3>1
      <3>3. ASSUME NEW h \in soles PROVE h <= i
        <4>1. PICK j \in usages : Tap!Payload(fs[j]) = <<h, ls[h]>>
          BY <2>2
        <4>2. j = n \/ j < n
          <5>1. j \in Nat /\ n \in Nat /\ j <= n
            <6>1. j \in usages /\ n \in usages /\ j <= n
              BY <3>1, <4>1
            <6> HIDE DEF n
            <6> QED
              BY <1>1, <2>6, <6>1
          <5> HIDE DEF n
          <5> QED
            BY <5>1
        <4>3. j < n => h < i
          BY <2>2, <3>1, <4>1
        <4>4. j = n => h = i
          BY <4>1
        <4> QED
          BY <1>1, <2>3, <3>2, <4>2, <4>3, <4>4
      <3>4. Tap!Latest(soles) = i
        <4>1. soles \in SUBSET Nat
          BY <1>1, <2>3
        <4> HIDE DEF i
        <4> QED
          BY <3>2, <3>3, <4>1, LatestIs
      <3>5. i # Tap!NoCount
        BY <1>1, <3>2 DEF Tap!NoCount
      <3> QED
        BY <2>4, <2>5, <2>8, <3>2, <3>4, <3>5
    <2> QED
      BY <2>7, <2>8
  <1>3. CASE tap_provider # "openai"
    <2> DEFINE numbers(kind) ==
                 {Tap!Payload(fs[n])[1] : n \in {m \in 1..Len(fs) : Tap!Payload(fs[m])[2] = kind}}
    <2>1. ASSUME NEW kind, Tap!Marked(kind)
          PROVE  numbers(kind) = Tap!Counted(ls, {kind}, FrameLimit)
      <3>1. \A l \in {kind} : Tap!Marked(l)
        BY <2>1
      <3>2. \A j \in 1..Len(fs) : Tap!Payload(fs[j])[2] \in {kind} =>
               Tap!Payload(fs[j])[1] \in Tap!Counted(ls, {kind}, FrameLimit)
        BY <3>1, SolesKept
      <3>3. \A i \in Tap!Counted(ls, {kind}, FrameLimit) : \E j \in 1..Len(fs) :
                Tap!Payload(fs[j]) = <<i, ls[i]>>
        BY <3>1, SolesKept
      <3>4. \A i \in Tap!Counted(ls, {kind}, FrameLimit) : ls[i] = kind
        BY DEF Tap!Counted, Tap!Soles
      <3>5. \A i \in Tap!Counted(ls, {kind}, FrameLimit) : i \in numbers(kind)
        <4>1. ASSUME NEW i \in Tap!Counted(ls, {kind}, FrameLimit) PROVE i \in numbers(kind)
          <5>1. PICK j \in 1..Len(fs) : Tap!Payload(fs[j]) = <<i, ls[i]>>
            BY <3>3
          <5>2. Tap!Payload(fs[j])[1] = i /\ Tap!Payload(fs[j])[2] = kind
            <6>1. <<i, ls[i]>>[1] = i /\ <<i, ls[i]>>[2] = ls[i]
              OBVIOUS
            <6>2. ls[i] = kind
              BY <3>4
            <6> QED
              BY <5>1, <6>1, <6>2, Zenon
          <5> QED
            BY <5>2
        <4> QED
          BY <4>1
      <3>6. \A i \in numbers(kind) : i \in Tap!Counted(ls, {kind}, FrameLimit)
        BY <3>2
      <3> QED
        BY <3>5, <3>6
    <2>2. numbers("start") = Tap!Counted(ls, {"start"}, FrameLimit)
            /\ numbers("delta") = Tap!Counted(ls, {"delta"}, FrameLimit)
      <3>1. Tap!Marked("start") /\ Tap!Marked("delta")
        BY DEF Tap!Marked
      <3> QED
        BY <2>1, <3>1
    <2>3. Tap!capture_stream_usage(fs, TRUE) =
            IF numbers("start") = {} \/ numbers("delta") = {} THEN Tap!Untallied
            ELSE Tap!Usage(Tap!Latest(numbers("start")), Tap!Latest(numbers("delta")))
      BY <1>3, Zenon DEF Tap!capture_stream_usage, Tap!CaptureAnthropic
    <2> HIDE DEF numbers
    <2>4. ASSUME NEW kind
          PROVE  Tap!Latest(Tap!Counted(ls, {kind}, FrameLimit)) = Tap!NoCount
                   <=> Tap!Counted(ls, {kind}, FrameLimit) = {}
      <3>1. Tap!Counted(ls, {kind}, FrameLimit) \in SUBSET (1..Len(ls))
        BY <1>1 DEF Tap!Counted, Tap!Soles
      <3>2. CASE Tap!Counted(ls, {kind}, FrameLimit) # {}
        <4>1. Tap!Latest(Tap!Counted(ls, {kind}, FrameLimit)) \in 1..Len(ls)
          BY <1>1, <3>1, <3>2, LatestThere
        <4>2. Tap!Latest(Tap!Counted(ls, {kind}, FrameLimit)) # 0
          BY <1>1, <4>1
        <4> QED
          BY <3>2, <4>2 DEF Tap!NoCount
      <3>3. CASE Tap!Counted(ls, {kind}, FrameLimit) = {}
        BY <3>3 DEF Tap!Latest
      <3> QED
        BY <3>2, <3>3
    <2> QED
      BY <1>3, <2>2, <2>3, <2>4 DEF Tap!Tally
  <1> QED
    BY <1>2, <1>3

\* The first u lines end an event.
EndsEvent(ls, u) == u = 0 \/ ls[u] = ""

\* Another line changes nothing about the events that a blank line has ended.
LEMMA FramesStay ==
  ASSUME NEW S, NEW ls \in Seq(S), NEW e \in S, NEW fs, NEW u \in 0..Len(ls), FramesOf(ls, fs, u),
         EndsEvent(ls, u)
  PROVE  FramesOf(Append(ls, e), fs, u)
  <1> DEFINE ms == Append(ls, e)
  <1>1. Len(ls) \in Nat /\ Len(ms) = Len(ls) + 1 /\ \A i \in 1..Len(ls) : ms[i] = ls[i]
    OBVIOUS
  <1> HIDE DEF ms
  <1>2. ASSUME NEW frame, NEW first \in 1..u, NEW last \in first..u,
               EventAt(ls, frame, first, last)
        PROVE  EventAt(ms, frame, first, last)
    <2>1. first \in Nat /\ last \in Nat /\ 1 <= first /\ first <= last /\ last <= u
            /\ u <= Len(ls) /\ u \in Nat
      BY <1>1
    <2>2. last # u
      <3>1. ls[last] # ""
        <4>1. last \in first..last
          BY <2>1
        <4> QED
          BY <1>2, <4>1, Zenon DEF EventAt, Unbroken
      <3>2. u # 0
        BY <2>1
      <3> QED
        BY <3>1, <3>2 DEF EndsEvent
    <2>3. last # Len(ls) /\ last + 1 \in 1..Len(ls)
      BY <1>1, <2>1, <2>2
    <2>4. ms[last + 1] = ""
      BY <1>1, <1>2, <2>3 DEF EventAt
    <2>5. first = 1 \/ ms[first - 1] = ""
      <3>1. first # 1 => first - 1 \in 1..Len(ls)
        BY <1>1, <2>1
      <3> QED
        BY <1>1, <1>2, <3>1 DEF EventAt
    <2>6. \A i \in first..last : i \in 1..Len(ls)
      BY <1>1, <2>1
    <2>7. Unbroken(ms, first, last)
      BY <1>1, <1>2, <2>6, Zenon DEF EventAt, Unbroken
    <2>8. first \in 1..Len(ms) /\ last \in first..Len(ms)
      BY <1>1, <2>1
    <2>9. frame = [k \in 1..last + 1 - first |-> <<first + k - 1, ms[first + k - 1]>>]
      <3>1. frame = [k \in 1..last + 1 - first |-> <<first + k - 1, ls[first + k - 1]>>]
        BY <1>2, Zenon DEF EventAt
      <3>2. \A k \in 1..last + 1 - first : first + k - 1 \in 1..Len(ls)
        BY <1>1, <2>1
      <3>3. \A k \in 1..last + 1 - first : ms[first + k - 1] = ls[first + k - 1]
        BY <1>1, <3>2
      <3> QED
        BY <3>1, <3>3
    <2> QED
      BY <2>4, <2>5, <2>7, <2>8, <2>9, Zenon DEF EventAt
  <1>3. \A i \in 1..u : ms[i] = ls[i]
    BY <1>1
  <1>4. \A j \in DOMAIN fs : \E first \in 1..u : \E last \in first..u :
            EventAt(ms, fs[j], first, last)
    BY <1>2, Zenon DEF FramesOf
  <1>5. \A i \in 1..u : Tap!Marked(ms[i])
          => \E j \in DOMAIN fs : \E k \in DOMAIN fs[j] : fs[j][k] = <<i, ms[i]>>
    BY <1>3, Zenon DEF FramesOf
  <1> QED
    BY <1>4, <1>5, Zenon DEF FramesOf, ms

\* An event without a marked line is not among those to be retained.
LEMMA FramesSkip ==
  ASSUME NEW ls, NEW fs, NEW u \in Nat, NEW n \in Nat, u <= n, FramesOf(ls, fs, u),
         \A i \in u + 1..n : ~Tap!Marked(ls[i])
  PROVE  FramesOf(ls, fs, n)
  <1>1. \A i \in 1..n : i \in 1..u \/ i \in u + 1..n
    OBVIOUS
  <1>2. \A i \in 1..u : i \in 1..n
    OBVIOUS
  <1>3. \A first \in 1..u : \A last \in first..u : last \in first..n
    OBVIOUS
  <1>4. \A j \in DOMAIN fs : \E first \in 1..n : \E last \in first..n :
            EventAt(ls, fs[j], first, last)
    BY <1>2, <1>3, Zenon DEF FramesOf
  <1>5. \A i \in 1..n : Tap!Marked(ls[i])
          => \E j \in DOMAIN fs : \E k \in DOMAIN fs[j] : fs[j][k] = <<i, ls[i]>>
    BY <1>1, Zenon DEF FramesOf
  <1> QED
    BY <1>4, <1>5, Zenon DEF FramesOf

\* One with a marked line is the last of them.
LEMMA FramesGain ==
  ASSUME NEW S, NEW ls \in Seq(S), NEW F, NEW fs \in Seq(F), NEW u \in Nat, NEW n \in Nat, u < n,
         FramesOf(ls, fs, u), NEW frame \in F, EventAt(ls, frame, u + 1, n)
  PROVE  FramesOf(ls, Append(fs, frame), n)
  <1> DEFINE gs == Append(fs, frame)
  <1>0. PICK start : start = u + 1
    OBVIOUS
  <1>1. DOMAIN fs = 1..Len(fs) /\ Len(fs) \in Nat /\ DOMAIN gs = 1..Len(fs) + 1
        /\ gs[Len(fs) + 1] = frame /\ \A j \in 1..Len(fs) : gs[j] = fs[j]
    OBVIOUS
  <1>2. \A j \in DOMAIN gs : j \in DOMAIN fs \/ j = Len(fs) + 1
    BY <1>1
  <1>3. Len(fs) + 1 \in DOMAIN gs /\ \A j \in DOMAIN fs : j \in DOMAIN gs
    BY <1>1
  <1> HIDE DEF gs
  <1>4. ASSUME NEW j \in DOMAIN gs
        PROVE  \E first \in 1..n : \E last \in first..n : EventAt(ls, gs[j], first, last)
    <2>1. CASE j \in DOMAIN fs
      <3>1. PICK first \in 1..u : \E last \in first..u : EventAt(ls, fs[j], first, last)
        BY <2>1 DEF FramesOf
      <3>2. PICK last \in first..u : EventAt(ls, fs[j], first, last)
        BY <3>1
      <3>3. first \in 1..n /\ last \in first..n
        BY <3>1, <3>2
      <3> QED
        BY <1>1, <2>1, <3>2, <3>3
    <2>2. CASE j = Len(fs) + 1
      <3>1. u + 1 \in 1..n /\ n \in u + 1..n
        OBVIOUS
      <3> QED
        BY <1>1, <2>2, <3>1
    <2> QED
      BY <1>2, <2>1, <2>2
  <1>5. ASSUME NEW i \in 1..n, Tap!Marked(ls[i])
        PROVE  \E j \in DOMAIN gs : \E k \in DOMAIN gs[j] : gs[j][k] = <<i, ls[i]>>
    <2>1. CASE i \in 1..u
      <3>1. PICK j \in DOMAIN fs : \E k \in DOMAIN fs[j] : fs[j][k] = <<i, ls[i]>>
        BY <1>5, <2>1 DEF FramesOf
      <3> QED
        BY <1>1, <1>3, <3>1
    <2>2. CASE i \notin 1..u
      <3>1. i \in u + 1..n
        BY <2>2
      <3>2. EventAt(ls, frame, start, n) /\ i \in start..n
        BY <1>0, <3>1
      <3>3. \E k \in DOMAIN frame : frame[k] = <<i, ls[i]>>
        BY <3>2, EventHas
      <3> QED
        BY <1>1, <1>3, <3>3
    <2> QED
      BY <2>1, <2>2
  <1>6. ASSUME NEW j \in DOMAIN gs, NEW m \in DOMAIN gs, j < m,
               NEW k \in DOMAIN gs[j], NEW h \in DOMAIN gs[m]
        PROVE  gs[j][k][1] < gs[m][h][1]
    <2>1. j \in DOMAIN fs
      BY <1>1, <1>6
    <2>2. CASE m \in DOMAIN fs
      BY <1>1, <1>6, <2>1, <2>2 DEF FramesOf
    <2>3. CASE m = Len(fs) + 1
      <3>1. PICK first \in 1..u : \E last \in first..u : EventAt(ls, fs[j], first, last)
        BY <2>1 DEF FramesOf
      <3>2. PICK last \in first..u : EventAt(ls, fs[j], first, last)
        BY <3>1
      <3>3. gs[j] = fs[j] /\ gs[m] = frame
        BY <1>1, <2>1, <2>3
      <3>4. first + k - 1 \in first..last /\ fs[j][k] = <<first + k - 1, ls[first + k - 1]>>
        <4>1. k \in DOMAIN fs[j]
          BY <3>3
        <4> QED
          BY <3>2, <4>1, EventLines
      <3>5. start + h - 1 \in start..n /\ frame[h] = <<start + h - 1, ls[start + h - 1]>>
        <4>1. EventAt(ls, frame, start, n) /\ h \in DOMAIN frame
          BY <1>0, <3>3
        <4> QED
          BY <4>1, EventLines
      <3>6. first + k - 1 < start + h - 1
        <4> DEFINE x == first + k - 1
                   y == start + h - 1
        <4>1. x \in first..last /\ y \in u + 1..n /\ last <= u
          BY <1>0, <3>2, <3>4, <3>5
        <4> HIDE DEF x, y
        <4>2. x < y
          BY <3>1, <3>2, <4>1
        <4> QED
          BY <4>2 DEF x, y
      <3> QED
        BY <3>3, <3>4, <3>5, <3>6
    <2> QED
      BY <1>2, <2>2, <2>3
  <1> QED
    BY <1>4, <1>5, <1>6, Zenon DEF FramesOf, gs

-------------------------------------------------------------------------------
(* The invariant of a tap. *)

\* The reader has neither left the iteration nor marked its end.
Iterating == {"idle", "waiting", "feeding", "passing", "yielded", "ending"}

\* An actor has found the tap not finalized, and has not reported yet.
Busy == {"claiming", "flushing", "judging", "capturing"}

\* An actor has set the flag, or found it set.
Flagged == {"flushing", "judging", "capturing", "done"}

\* Where the two actors are, and who has reported.
TapPlaces ==
  /\ tap_pc["closer"] \in {"idle", "finalize", "done"} \cup Busy
  /\ finalized <=> \E i \in Tap!Actors : tap_pc[i] \in Flagged
  /\ tap_complete => ended /\ tap_pc["reader"] \notin Iterating
  /\ ended <=> tap_complete \/ tap_pc["reader"] = "ending"
  /\ ~cut /\ tap_pc["reader"] \in Iterating => tap_pc["closer"] \in {"idle", "finalize"}
  /\ tap_reported # <<>> => \E i \in Tap!Actors : tap_pc[i] = "done"
  /\ Len(tap_reported) > 1 => \A i \in Tap!Actors : tap_pc[i] = "done"
  /\ ~raced => /\ Len(tap_reported) <= 1
               /\ \A i \in Tap!Actors : tap_pc[i] \in Busy =>
                     tap_reported = <<>> /\ \A j \in Tap!Actors \ {i} : tap_pc[j] \notin Busy

\* The pieces of the line that is coming in are counted, and the tap gives up with reason.
TapMeasures ==
  /\ came > TapLimit => too_long
  /\ tap_pc["reader"] = "feeding" \/ ~(finalized \/ overflow) => line_buf = came
  /\ tap_pc["reader"] = "passing" => finalized \/ overflow
  /\ overflow => too_long \/ retained > TapLimit

\* The current event is that of the lines after the first u, the retained ones are theirs.
Fed(u) ==
  /\ cur_frame = [k \in 1..Len(tap_lines) - u |-> <<u + k, tap_lines[u + k]>>]
  /\ Unbroken(tap_lines, u + 1, Len(tap_lines))
  /\ \/ EndsEvent(tap_lines, u)
     \/ u = Len(tap_lines) /\ tap_pc["reader"] \notin Iterating
  /\ FramesOf(tap_lines, frames, u)

\* Nothing of the stream is missed.
TapKeeps ==
  Tap!Solo /\ ~overflow =>
    /\ line_buf = 0 <=> tap_line = ""
    /\ \E u \in 0..Len(tap_lines) : Fed(u)
    /\ (\E i \in Tap!Actors : tap_pc[i] \in {"judging", "capturing"}) =>
          FramesOf(tap_lines, frames, Len(tap_lines))

\* What finalize() makes of it.
TapJudges ==
  \A i \in Tap!Actors :
    /\ whole[i] => tap_complete
    /\ Tap!Solo /\ tap_pc[i] = "capturing" => whole[i] = (tap_complete /\ ~overflow)

\* s is a sequence, whatever its members.
IsSequence(s) == Len(s) \in Nat /\ s = [n \in 1..Len(s) |-> s[n]]

\* What a reader of all the lines would have counted.
Truthful == Tap!Tally(tap_provider, tap_lines, FrameLimit)

\* What was reported.
TapTells ==
  /\ IsSequence(tap_reported)
  /\ \A n \in 1..Len(tap_reported) :
        tap_reported[n] # Tap!Untallied =>
        tap_complete /\ (Tap!Solo => tap_reported[n] = Truthful)
  /\ Tap!Solo /\ tap_complete /\ ~overflow /\ tap_reported # <<>> => tap_reported[1] = Truthful

\* What is kept.
TapHolds ==
  /\ Tap!LinesIn(frames) \in 0..retained
  /\ frames = <<>> \/ retained <= TapLimit
  /\ tap_pc["reader"] # "feeding" => line_buf <= TapLimit

\* What is always so of a tap.
TapInv ==
  Tap!TypeOK /\ TapPlaces /\ TapMeasures /\ TapKeeps /\ TapJudges /\ TapTells /\ TapHolds

\* The lines after the first u.
LEMMA Stretch ==
  ASSUME NEW ls, NEW u \in Nat, NEW n \in Nat, u <= n,
         NEW frame, frame = [k \in 1..n - u |-> <<u + k, ls[u + k]>>]
  PROVE  /\ DOMAIN frame = 1..Len(frame) /\ Len(frame) = n - u
         /\ u = n => frame = <<>>
         /\ \A i \in u + 1..n : i - u \in 1..Len(frame) /\ frame[i - u] = <<i, ls[i]>>
  <1>1. PICK m \in Nat : m = n - u
    OBVIOUS
  <1>2. frame = [k \in 1..m |-> <<u + k, ls[u + k]>>]
    BY <1>1
  <1>3. DOMAIN frame = 1..m /\ Len(frame) = m
    BY <1>2
  <1>4. u = n => frame = <<>>
    BY <1>1, <1>2
  <1>5. ASSUME NEW i \in u + 1..n PROVE i - u \in 1..m /\ frame[i - u] = <<i, ls[i]>>
    <2>1. i - u \in 1..m /\ u + (i - u) = i
      BY <1>1
    <2> QED
      BY <1>2, <2>1
  <1> QED
    BY <1>1, <1>3, <1>4, <1>5

\* The event that is coming in, once it has ended.
LEMMA CurrentEvent ==
  ASSUME NEW S, NEW ls \in Seq(S), NEW u \in Nat, NEW n \in Nat, u < n, n <= Len(ls),
         EndsEvent(ls, u), EndsEvent(ls, n + 1) \/ n = Len(ls),
         Unbroken(ls, u + 1, n),
         NEW frame, frame = [k \in 1..n - u |-> <<u + k, ls[u + k]>>]
  PROVE  EventAt(ls, frame, u + 1, n)
  <1>1. PICK first : first = u + 1
    OBVIOUS
  <1>2. Len(ls) \in Nat
    OBVIOUS
  <1>3. first \in 1..Len(ls) /\ n \in first..Len(ls)
    BY <1>1, <1>2
  <1>4. n + 1 # 0 /\ (first # 1 => u # 0) /\ first - 1 = u
    BY <1>1
  <1>5. first = 1 \/ ls[first - 1] = ""
    BY <1>4, Zenon DEF EndsEvent
  <1>6. n = Len(ls) \/ ls[n + 1] = ""
    BY <1>4, Zenon DEF EndsEvent
  <1>7. frame = [k \in 1..n + 1 - first |-> <<first + k - 1, ls[first + k - 1]>>]
    <2>1. 1..n + 1 - first = 1..n - u /\ \A k \in 1..n - u : first + k - 1 = u + k
      BY <1>1
    <2> QED
      BY <2>1
  <1>8. Unbroken(ls, first, n)
    BY <1>1
  <1>9. EventAt(ls, frame, first, n)
    BY <1>3, <1>5, <1>6, <1>7, <1>8, Zenon DEF EventAt
  <1> QED
    BY <1>1, <1>9

\* What _dispatch_frame does with an event.
Retains(gs, fs, frame) ==
  \/ gs = fs /\ \A m \in 1..Len(frame) : ~Tap!Marked(frame[m][2])
  \/ gs = Append(fs, frame) /\ frame # <<>>

\* It leaves the retained events right up to the end of the event.
LEMMA FramesClose ==
  ASSUME NEW S, NEW ls \in Seq(S), NEW F, NEW fs \in Seq(F), NEW frame \in F,
         NEW u \in Nat, NEW n \in Nat, u <= n, n <= Len(ls),
         u < n => EndsEvent(ls, u), EndsEvent(ls, n + 1) \/ n = Len(ls),
         Unbroken(ls, u + 1, n),
         frame = [k \in 1..n - u |-> <<u + k, ls[u + k]>>],
         FramesOf(ls, fs, u), NEW gs, Retains(gs, fs, frame)
  PROVE  FramesOf(ls, gs, n)
  <1>1. \A i \in u + 1..n : i - u \in 1..Len(frame) /\ frame[i - u] = <<i, ls[i]>>
    BY Stretch
  <1>2. u = n => frame = <<>>
    BY Stretch
  <1>3. CASE gs = fs /\ \A m \in 1..Len(frame) : ~Tap!Marked(frame[m][2])
    <2>1. ASSUME NEW i \in u + 1..n PROVE ~Tap!Marked(ls[i])
      <3>1. i - u \in 1..Len(frame) /\ frame[i - u][2] = ls[i]
        BY <1>1
      <3> QED
        BY <1>3, <3>1
    <2> QED
      BY <1>3, <2>1, FramesSkip
  <1>4. CASE gs = Append(fs, frame) /\ frame # <<>>
    <2>1. u < n
      BY <1>2, <1>4
    <2>2. EventAt(ls, frame, u + 1, n)
      BY <2>1, CurrentEvent
    <2> QED
      BY <1>4, <2>1, <2>2, FramesGain
  <1> QED
    BY <1>3, <1>4 DEF Retains

\* What the end of an event makes of what is kept: the event is added if it has a marked
\* line and there is room for it, and otherwise nothing is, or nothing is kept any more.
LEMMA DispatchedIs ==
  ASSUME NEW G, NEW fs \in Seq(Seq(G)), NEW frame \in Seq(G), NEW size \in Nat,
         Tap!LinesIn(fs) \in 0..size, fs = <<>> \/ size <= TapLimit
  PROVE  LET d == Tap!Dispatched(frame, fs, size)
         IN  /\ d.frames \in Seq(Seq(G)) /\ d.retained \in Nat /\ d.overflow \in BOOLEAN
             /\ Tap!LinesIn(d.frames) \in 0..d.retained
             /\ d.frames = <<>> \/ d.retained <= TapLimit
             /\ ~d.overflow => Retains(d.frames, fs, frame)
             /\ d.retained >= size /\ (d.overflow => d.retained > TapLimit)
  <1> DEFINE d == Tap!Dispatched(frame, fs, size)
             unmarked == frame = <<>> \/ \A n \in 1..Len(frame) : ~Tap!Marked(frame[n][2])
  <1>1. Len(frame) \in Nat /\ TapLimit \in Nat
    BY TapAssumed DEF Tap!StreamTapAssumption
  <1>2. CASE unmarked
    <2>1. d = [frames |-> fs, retained |-> size, overflow |-> FALSE]
      BY <1>2, Zenon DEF Tap!Dispatched
    <2>2. Retains(fs, fs, frame)
      BY <1>2 DEF Retains
    <2> QED
      BY <2>1, <2>2
  <1>3. CASE ~unmarked /\ size + Len(frame) > TapLimit
    <2>1. d = [frames |-> <<>>, retained |-> size + Len(frame), overflow |-> TRUE]
      BY <1>3, Zenon DEF Tap!Dispatched
    <2>2. size + Len(frame) \in Nat /\ size + Len(frame) >= size
      BY <1>1
    <2>3. Tap!LinesIn(<<>>) \in 0..size + Len(frame)
      BY <2>2, SumsNone
    <2> QED
      BY <1>3, <2>1, <2>2, <2>3
  <1>4. CASE ~unmarked /\ ~(size + Len(frame) > TapLimit)
    <2>1. d = [frames |-> Append(fs, frame), retained |-> size + Len(frame), overflow |-> FALSE]
      BY <1>4, Zenon DEF Tap!Dispatched
    <2>2. size + Len(frame) \in Nat /\ size + Len(frame) <= TapLimit /\ size + Len(frame) >= size
      BY <1>1, <1>4
    <2>3. Tap!LinesIn(Append(fs, frame)) = Tap!LinesIn(fs) + Len(frame)
      BY SumsOn
    <2>4. Tap!LinesIn(Append(fs, frame)) \in 0..size + Len(frame)
      BY <1>1, <2>3
    <2>5. Retains(Append(fs, frame), fs, frame)
      BY <1>4 DEF Retains
    <2>6. Append(fs, frame) \in Seq(Seq(G))
      OBVIOUS
    <2> QED
      BY <2>1, <2>2, <2>4, <2>5, <2>6
  <1> QED
    BY <1>2, <1>3, <1>4

\* Who uses a tap.
LEMMA TwoActors == Tap!Actors = {"reader", "closer"}
  BY DEF Tap!Actors

\* Where the reader and the closer can be.
TapPcs == {"idle", "waiting", "feeding", "passing", "yielded", "ending",
           "finalize", "claiming", "flushing", "judging", "capturing", "done"}

\* The lines that the provider sends, and its events, with the numbers of the lines.
Letters == Tap!LinesOf[tap_provider]
EventsOf(letters) == Seq((1..MaxLines) \X letters)

\* The type invariant of a tap, in the words of these proofs.
LEMMA TapTypes ==
  ASSUME Tap!TypeOK
  PROVE  /\ tap_lines \in Seq(Letters) /\ tap_line \in Letters
         /\ line_buf \in 0..TapLimit + 1 /\ came \in 0..TapLimit + 1 /\ retained \in Nat
         /\ cur_frame \in EventsOf(Letters) /\ frames \in Seq(EventsOf(Letters))
         /\ tap_complete \in BOOLEAN /\ overflow \in BOOLEAN /\ finalized \in BOOLEAN
         /\ too_long \in BOOLEAN /\ ended \in BOOLEAN /\ cut \in BOOLEAN /\ raced \in BOOLEAN
         /\ tap_pc \in [Tap!Actors -> TapPcs] /\ whole \in [Tap!Actors -> BOOLEAN]
         /\ TapLimit \in Nat \ {0} /\ MaxLines \in Nat /\ Len(tap_reported) <= 2
  <1>1. {tap_complete, overflow, finalized, too_long, ended, cut, raced} \subseteq BOOLEAN
    BY Zenon DEF Tap!TypeOK
  <1>2. TapLimit \in Nat \ {0} /\ MaxLines \in Nat
    BY TapAssumed DEF Tap!StreamTapAssumption
  <1>3. {came, line_buf} \subseteq 0..TapLimit + 1
    BY Zenon DEF Tap!TypeOK
  <1>4. line_buf \in 0..TapLimit + 1 /\ came \in 0..TapLimit + 1
    BY <1>3, Zenon
  <1> QED
    BY <1>1, <1>2, <1>4, Zenon DEF Tap!TypeOK, Letters, EventsOf, TapPcs

\* An empty tap.
LEMMA TapStarts == Tap!Init => TapInv
  <1> SUFFICES ASSUME Tap!Init PROVE TapInv
    OBVIOUS
  <1>0. tap_line = ""
    BY Zenon DEF Tap!Init
  <1>1. /\ tap_lines = <<>> /\ line_buf = 0 /\ cur_frame = <<>> /\ frames = <<>>
        /\ came = 0 /\ too_long = FALSE
        /\ retained = 0 /\ tap_complete = FALSE /\ overflow = FALSE /\ finalized = FALSE
        /\ tap_pc = [i \in Tap!Actors |-> "idle"] /\ whole = [i \in Tap!Actors |-> FALSE]
        /\ ended = FALSE /\ cut = FALSE /\ raced = FALSE /\ tap_reported = <<>>
        /\ tap_provider \in Tap!Providers
    BY Zenon DEF Tap!Init
  <1>2. Tap!TypeOK
    <2>1. tap_lines \in Seq(Tap!LinesOf[tap_provider])
            /\ cur_frame \in Seq((1..MaxLines) \X Tap!LinesOf[tap_provider])
          /\ frames \in Seq(Seq((1..MaxLines) \X Tap!LinesOf[tap_provider]))
      <3>1. \A X : <<>> \in Seq(X)
        OBVIOUS
      <3> QED
        BY <1>1, <3>1, Zenon
    <2>2. tap_line \in Tap!LinesOf[tap_provider]
      <3>1. "" \in Tap!LinesOf["openai"] /\ "" \in Tap!LinesOf["anthropic"]
        BY Zenon DEF Tap!LinesOf
      <3>2. tap_provider = "openai" \/ tap_provider = "anthropic"
        BY <1>1, Zenon DEF Tap!Providers
      <3> QED
        BY <1>0, <3>1, <3>2, Zenon
    <2>3. {came, line_buf} \subseteq 0..TapLimit + 1 /\ retained \in Nat /\ Len(tap_reported) <= 2
      <3>1. line_buf = 0 /\ came = 0 /\ retained = 0 /\ tap_reported = <<>>
        BY <1>1
      <3> QED
        BY <3>1, TapAssumed DEF Tap!StreamTapAssumption
    <2>4. {tap_complete, overflow, finalized, too_long, ended, cut, raced} \subseteq BOOLEAN
      BY <1>1
    <2>5. tap_pc \in [Tap!Actors -> TapPcs] /\ whole \in [Tap!Actors -> BOOLEAN]
      BY <1>1 DEF TapPcs
    <2> QED
      BY <1>1, <2>1, <2>2, <2>3, <2>4, <2>5, Zenon DEF Tap!TypeOK, TapPcs
  <1>3. tap_pc["reader"] = "idle" /\ tap_pc["closer"] = "idle" /\ Len(tap_reported) = 0
    BY <1>1, TwoActors
  <1>4. TapPlaces
    BY <1>1, <1>3, TwoActors DEF TapPlaces, Iterating, Busy, Flagged
  <1>5. TapMeasures
    BY <1>1, <1>3, TapAssumed DEF TapMeasures, Tap!StreamTapAssumption
  <1>6. TapKeeps
    <2>1. Fed(0)
      <3>1. FramesOf(tap_lines, frames, 0)
        BY <1>1 DEF FramesOf
      <3>2. EndsEvent(tap_lines, 0)
        BY Zenon DEF EndsEvent
      <3>3. Unbroken(tap_lines, 0 + 1, Len(tap_lines))
        <4>1. 0 + 1..Len(tap_lines) = {}
          BY <1>1
        <4> QED
          BY <4>1, Zenon DEF Unbroken
      <3>4. cur_frame = [k \in 1..Len(tap_lines) - 0 |-> <<0 + k, tap_lines[0 + k]>>]
        BY <1>1
      <3> QED
        BY <3>1, <3>2, <3>3, <3>4, Zenon DEF Fed
    <2>2. 0 \in 0..Len(tap_lines)
      BY <1>1
    <2>3. ~\E i \in Tap!Actors : tap_pc[i] \in {"judging", "capturing"}
      BY <1>3, TwoActors
    <2>4. 0 = 0
      OBVIOUS
    <2> QED
      BY <1>0, <1>1, <2>1, <2>2, <2>3, <2>4, Zenon DEF TapKeeps
  <1>7. TapJudges
    BY <1>1, <1>3, TwoActors DEF TapJudges
  <1>8. TapTells
    <2>1. 1..Len(tap_reported) = {}
      BY <1>3
    <2>2. IsSequence(tap_reported)
      BY <1>1 DEF IsSequence
    <2> QED
      BY <1>1, <2>1, <2>2, Zenon DEF TapTells
  <1>9. TapHolds
    BY <1>1, SumsNone, TapAssumed DEF TapHolds, Tap!StreamTapAssumption
  <1> QED
    BY <1>2, <1>4, <1>5, <1>6, <1>7, <1>8, <1>9 DEF TapInv

-------------------------------------------------------------------------------
(* The steps of a tap. *)

\* Nobody has reported, or is about to, while the reader goes on uncut.
LEMMA TapQuietSoFar ==
  ASSUME TapInv, ~cut, tap_pc["reader"] \in Iterating
  PROVE  /\ tap_pc["closer"] \in {"idle", "finalize"} /\ ~finalized /\ tap_reported = <<>>
         /\ \A i \in Tap!Actors : tap_pc[i] \notin Flagged \cup Busy
  <1>1. TapPlaces
    BY DEF TapInv
  <1>2. tap_pc["closer"] \in {"idle", "finalize"}
    BY <1>1 DEF TapPlaces
  <1>3. \A i \in Tap!Actors : tap_pc[i] \notin Flagged \cup Busy
    BY <1>2, TwoActors DEF Flagged, Busy, Iterating
  <1>4. ~finalized
    BY <1>1, <1>3 DEF TapPlaces
  <1>5. tap_reported = <<>>
    BY <1>1, <1>3 DEF TapPlaces, Flagged
  <1> QED
    BY <1>2, <1>3, <1>4, <1>5

\* A step that leaves the stream and what was read of it alone.
LEMMA TapQuiet ==
  ASSUME TapInv,
         UNCHANGED <<tap_provider, tap_lines, tap_line, came, too_long, line_buf, cur_frame,
                     frames, retained, overflow, tap_reported>>,
         cut => cut', raced => raced', finalized => finalized',
         tap_complete => tap_complete',
         tap_complete' /\ ~tap_complete /\ Tap!Solo => tap_reported = <<>>,
         tap_pc["reader"] \notin Iterating => tap_pc'["reader"] \notin Iterating,
         tap_pc["reader"] = "feeding" => tap_pc'["reader"] = "feeding",
         tap_pc'["reader"] = "feeding" => tap_pc["reader"] = "feeding" \/ ~(finalized \/ overflow),
         tap_pc'["reader"] = "passing" => tap_pc["reader"] = "passing" \/ finalized \/ overflow,
         \A i \in Tap!Actors : tap_pc'[i] \in {"judging", "capturing"} =>
           tap_pc[i] \in {"judging", "capturing"}
  PROVE  TapMeasures' /\ TapKeeps' /\ TapTells' /\ TapHolds'
  <1>1. TapMeasures /\ TapKeeps /\ TapTells /\ TapHolds
    BY DEF TapInv
  <1>2. Tap!Solo' => Tap!Solo
    BY DEF Tap!Solo
  <1>3. TapMeasures'
    BY <1>1 DEF TapMeasures
  <1>4. TapKeeps'
    <2>1. SUFFICES ASSUME Tap!Solo', ~overflow'
                   PROVE  /\ line_buf' = 0 <=> tap_line' = ""
                          /\ \E u \in 0..Len(tap_lines') : Fed(u)'
                          /\ (\E i \in Tap!Actors : tap_pc'[i] \in {"judging", "capturing"}) =>
                                FramesOf(tap_lines', frames', Len(tap_lines'))
      BY Zenon DEF TapKeeps
    <2>2. Tap!Solo /\ ~overflow
      BY <1>2, <2>1
    <2>3. /\ line_buf = 0 <=> tap_line = ""
          /\ \E u \in 0..Len(tap_lines) : Fed(u)
          /\ (\E i \in Tap!Actors : tap_pc[i] \in {"judging", "capturing"}) =>
                FramesOf(tap_lines, frames, Len(tap_lines))
      BY <1>1, <2>2, Zenon DEF TapKeeps
    <2>4. PICK u \in 0..Len(tap_lines) : Fed(u)
      BY <2>3, Zenon
    <2>5. Fed(u)'
      BY <2>4, Zenon DEF Fed
    <2>6. tap_lines' = tap_lines /\ line_buf' = line_buf /\ tap_line' = tap_line /\ frames' = frames
      OBVIOUS
    <2>7. (\E i \in Tap!Actors : tap_pc'[i] \in {"judging", "capturing"})
            => \E i \in Tap!Actors : tap_pc[i] \in {"judging", "capturing"}
      OBVIOUS
    <2> QED
      BY <2>3, <2>5, <2>6, <2>7, Zenon
  <1>5. TapTells'
    <2>1. IsSequence(tap_reported)'
      BY <1>1, Zenon DEF TapTells, IsSequence
    <2>2. Truthful' = Truthful /\ Tap!Untallied' = Tap!Untallied
      BY Zenon DEF Truthful, Tap!Untallied, Tap!Usage, Tap!NoCount
    <2>3. tap_reported' = tap_reported /\ overflow' = overflow
      OBVIOUS
    <2>4. ASSUME NEW n \in 1..Len(tap_reported'), tap_reported'[n] # Tap!Untallied
          PROVE  tap_complete' /\ (Tap!Solo' => tap_reported'[n] = Truthful)
      <3>1. n \in 1..Len(tap_reported) /\ tap_reported[n] # Tap!Untallied
        BY <2>3, <2>4
      <3>2. tap_complete /\ (Tap!Solo => tap_reported[n] = Truthful)
        BY <1>1, <3>1, Zenon DEF TapTells
      <3> QED
        BY <1>2, <2>3, <3>2, Zenon
    <2>5. ASSUME Tap!Solo', tap_complete', ~overflow', tap_reported' # <<>>
          PROVE  tap_reported'[1] = Truthful
      <3>1. Tap!Solo /\ ~overflow /\ tap_reported # <<>>
        BY <1>2, <2>3, <2>5
      <3>2. tap_complete
        BY <2>5, <3>1
      <3> QED
        BY <1>1, <2>3, <3>1, <3>2, Zenon DEF TapTells
    <2> QED
      BY <2>1, <2>2, <2>4, <2>5, Zenon DEF TapTells
  <1>6. TapHolds'
    BY <1>1 DEF TapHolds
  <1> QED
    BY <1>3, <1>4, <1>5, <1>6

\* A step that is none of finalize()'s judgement.
LEMMA TapJudging ==
  ASSUME TapInv, UNCHANGED whole, cut => cut', raced => raced', tap_complete => tap_complete',
         tap_pc["reader"] \in Iterating \/ UNCHANGED <<tap_complete, overflow>>,
         \A i \in Tap!Actors : tap_pc'[i] = "capturing" => tap_pc[i] = "capturing"
  PROVE  TapJudges'
  <1>1. TapJudges
    BY DEF TapInv
  <1>2. SUFFICES ASSUME NEW i \in Tap!Actors
                 PROVE  /\ whole'[i] => tap_complete'
                        /\ Tap!Solo' /\ tap_pc'[i] = "capturing" =>
                              whole'[i] = (tap_complete' /\ ~overflow')
    BY Zenon DEF TapJudges
  <1>3. whole'[i] => tap_complete'
    BY <1>1 DEF TapJudges
  <1>4. ASSUME Tap!Solo', tap_pc'[i] = "capturing"
        PROVE  whole'[i] = (tap_complete' /\ ~overflow')
    <2>1. Tap!Solo /\ ~cut /\ tap_pc[i] = "capturing"
      BY <1>4 DEF Tap!Solo
    <2>2. tap_pc["reader"] \notin Iterating
      BY <2>1, TapQuietSoFar DEF Busy
    <2>3. UNCHANGED <<tap_complete, overflow, whole>>
      BY <2>2, Zenon
    <2> QED
      BY <1>1, <2>1, <2>3, Zenon DEF TapJudges
  <1> QED
    BY <1>3, <1>4

\* Where an actor may go.
LEMMA TapGoes ==
  ASSUME Tap!TypeOK, NEW i \in Tap!Actors, NEW to \in TapPcs, tap_pc' = [tap_pc EXCEPT ![i] = to],
         UNCHANGED <<tap_provider, tap_lines, tap_line, came, too_long, line_buf, cur_frame,
                     frames, retained, tap_reported, whole>>,
         {tap_complete', overflow', finalized', ended', cut', raced'} \subseteq BOOLEAN
  PROVE  Tap!TypeOK' /\ tap_pc'[i] = to /\ \A j \in Tap!Actors \ {i} : tap_pc'[j] = tap_pc[j]
  <1>1. tap_pc \in [Tap!Actors -> TapPcs] /\ too_long \in BOOLEAN
    BY TapTypes
  <1>2. tap_pc' \in [Tap!Actors -> TapPcs] /\ tap_pc'[i] = to
          /\ \A j \in Tap!Actors \ {i} : tap_pc'[j] = tap_pc[j]
    BY <1>1
  <1>3. {tap_complete', overflow', finalized', too_long', ended', cut', raced'} \subseteq BOOLEAN
    BY <1>1
  <1>4. Tap!TypeOK'
    BY <1>2, <1>3, Zenon DEF Tap!TypeOK, TapPcs
  <1> QED
    BY <1>2, <1>4

\* The reader moves on without taking anything in.
LEMMA TapReads ==
  ASSUME TapInv,
         \/ Tap!Iterate \/ Tap!ChunkArrives \/ Tap!Resume
         \/ Tap!Ends \/ Tap!MarkComplete \/ Tap!Abandoned
  PROVE  TapInv'
  <1> DEFINE from == tap_pc["reader"]
             to == tap_pc'["reader"]
  <1>0. /\ UNCHANGED <<tap_provider, tap_lines, tap_line, came, too_long, line_buf, cur_frame,
                       frames, retained, overflow, tap_reported, finalized, whole, cut, raced>>
        /\ \/ from \in {"idle", "yielded"} /\ to = "waiting" /\ UNCHANGED <<tap_complete, ended>>
           \/ from = "waiting" /\ to = "passing" /\ (finalized \/ overflow)
              /\ UNCHANGED <<tap_complete, ended>>
           \/ from = "waiting" /\ to = "feeding" /\ ~(finalized \/ overflow)
              /\ UNCHANGED <<tap_complete, ended>>
           \/ from = "waiting" /\ to = "ending" /\ ended' = TRUE /\ UNCHANGED tap_complete
           \/ from = "ending" /\ to = "finalize" /\ tap_complete' = TRUE /\ UNCHANGED ended
           \/ from \in {"waiting", "yielded"} /\ to = "finalize"
              /\ UNCHANGED <<tap_complete, ended>>
        /\ to \in TapPcs
        /\ tap_pc' = [tap_pc EXCEPT !["reader"] = to]
    <2>1. tap_pc \in [Tap!Actors -> TapPcs] /\ "reader" \in Tap!Actors
      BY TwoActors, TapTypes DEF TapInv
    <2>2. CASE Tap!Iterate
      BY <2>1, <2>2 DEF Tap!Iterate, Tap!Reading, Tap!ReaderAt, Tap!wire, Tap!tap, Tap!past, TapPcs
    <2>3. CASE Tap!ChunkArrives
      BY <2>1, <2>3
         DEF Tap!ChunkArrives, Tap!Reading, Tap!ReaderAt, Tap!wire, Tap!tap, Tap!past, TapPcs
    <2>4. CASE Tap!Resume
      BY <2>1, <2>4 DEF Tap!Resume, Tap!Reading, Tap!ReaderAt, Tap!wire, Tap!tap, Tap!past, TapPcs
    <2>5. CASE Tap!Ends
      BY <2>1, <2>5 DEF Tap!Ends, Tap!Reading, Tap!ReaderAt, Tap!wire, Tap!tap, TapPcs
    <2>6. CASE Tap!MarkComplete
      BY <2>1, <2>6
         DEF Tap!MarkComplete, Tap!Reading, Tap!ReaderAt, Tap!wire, Tap!tap, Tap!past, TapPcs
    <2>7. CASE Tap!Abandoned
      BY <2>1, <2>7
         DEF Tap!Abandoned, Tap!Reading, Tap!ReaderAt, Tap!wire, Tap!tap, Tap!past, TapPcs
    <2> QED
      BY <2>2, <2>3, <2>4, <2>5, <2>6, <2>7
  <1> HIDE DEF to
  <1>1. from \in Iterating
    BY <1>0 DEF Iterating
  <1>2. Tap!TypeOK /\ TapPlaces
    BY DEF TapInv
  <1>3. /\ tap_complete \in BOOLEAN /\ overflow \in BOOLEAN /\ finalized \in BOOLEAN
        /\ ended \in BOOLEAN /\ cut \in BOOLEAN /\ raced \in BOOLEAN
    BY <1>2, TapTypes
  <1>4. {tap_complete', overflow', finalized', ended', cut', raced'} \subseteq BOOLEAN
    BY <1>0, <1>3
  <1>5. Tap!TypeOK' /\ to = tap_pc'["reader"] /\ tap_pc'["closer"] = tap_pc["closer"]
    BY <1>0, <1>2, <1>4, TapGoes, TwoActors DEF to
  <1>6. ~tap_complete
    BY <1>1, <1>2 DEF TapPlaces
  <1>7. ~cut => ~finalized /\ tap_reported = <<>>
    BY <1>1, TapQuietSoFar
  <1>8. TapPlaces'
    <2>1. to \notin Flagged \cup Busy /\ from \notin Flagged \cup Busy
      BY <1>0 DEF Flagged, Busy
    <2>2. \A i \in Tap!Actors : \A q \in Flagged \cup Busy : tap_pc'[i] = q <=> tap_pc[i] = q
      BY <1>5, <2>1, TwoActors
    <2>3. finalized' <=> \E i \in Tap!Actors : tap_pc'[i] \in Flagged
      BY <1>0, <1>2, <2>2 DEF TapPlaces
    <2>4. tap_complete' => ended' /\ tap_pc'["reader"] \notin Iterating
      BY <1>0, <1>2, <1>5, <1>6 DEF TapPlaces, Iterating
    <2>5. ended' <=> tap_complete' \/ tap_pc'["reader"] = "ending"
      BY <1>0, <1>2, <1>5, <1>6 DEF TapPlaces
    <2>6. ~cut' /\ tap_pc'["reader"] \in Iterating => tap_pc'["closer"] \in {"idle", "finalize"}
      BY <1>0, <1>1, <1>2, <1>5 DEF TapPlaces
    <2>7. tap_reported' # <<>> => \E i \in Tap!Actors : tap_pc'[i] = "done"
      BY <1>0, <1>2, <2>2 DEF TapPlaces, Flagged
    <2>8. Len(tap_reported') > 1 => \A i \in Tap!Actors : tap_pc'[i] = "done"
      BY <1>0, <1>2, <2>2 DEF TapPlaces, Flagged
    <2>9. ~raced' => /\ Len(tap_reported') <= 1
                     /\ \A i \in Tap!Actors : tap_pc'[i] \in Busy =>
                           /\ tap_reported' = <<>>
                           /\ \A j \in Tap!Actors \ {i} : tap_pc'[j] \notin Busy
      BY <1>0, <1>2, <2>2 DEF TapPlaces
    <2>10. tap_pc'["closer"] \in {"idle", "finalize", "done"} \cup Busy
      BY <1>2, <1>5 DEF TapPlaces
    <2> QED
      BY <2>3, <2>4, <2>5, <2>6, <2>7, <2>8, <2>9, <2>10, Zenon DEF TapPlaces
  <1>9. \A i \in Tap!Actors : tap_pc'[i] \in {"judging", "capturing"} => tap_pc'[i] = tap_pc[i]
    BY <1>0, <1>5, TwoActors
  <1>10. TapMeasures' /\ TapKeeps' /\ TapTells' /\ TapHolds'
    <2>1. tap_complete' /\ ~tap_complete /\ Tap!Solo => tap_reported = <<>>
      BY <1>7 DEF Tap!Solo
    <2>2. /\ from # "feeding" /\ (to = "feeding" => ~(finalized \/ overflow))
          /\ to = "passing" => finalized \/ overflow
      BY <1>0
    <2> QED
      BY <1>0, <1>1, <1>5, <1>6, <1>9, <2>1, <2>2, TapQuiet
  <1>11. TapJudges'
    BY <1>0, <1>1, <1>6, <1>9, TapJudging
  <1> QED
    BY <1>5, <1>8, <1>10, <1>11 DEF TapInv

\* An actor goes on in finalize(), once it has found the tap not finalized.
LEMMA TapFinalizes ==
  ASSUME TapInv, NEW i \in Tap!Actors, NEW to \in {"flushing", "judging", "capturing"},
         tap_pc[i] \in Busy \ {"capturing"},
         tap_pc'[i] = to, \A j \in Tap!Actors \ {i} : tap_pc'[j] = tap_pc[j],
         finalized' = TRUE, UNCHANGED <<tap_complete, ended, cut, raced, tap_reported>>
  PROVE  TapPlaces'
  <1>1. TapPlaces
    BY DEF TapInv
  <1>2. tap_pc[i] \in Busy /\ to \in Busy /\ to \in Flagged
    BY DEF Busy, Flagged
  <1>3. \A j \in Tap!Actors : tap_pc'[j] \in Busy <=> tap_pc[j] \in Busy
    BY <1>2
  <1>4. \A j \in Tap!Actors : tap_pc'[j] = "done" <=> tap_pc[j] = "done"
    BY <1>2 DEF Busy
  <1>5. "reader" \in Tap!Actors /\ "closer" \in Tap!Actors
    BY TwoActors
  <1>6. /\ tap_pc'["reader"] \in Iterating => tap_pc["reader"] = tap_pc'["reader"]
        /\ tap_pc'["reader"] = "ending" <=> tap_pc["reader"] = "ending"
        /\ tap_pc["closer"] \in {"idle", "finalize"} => tap_pc["closer"] = tap_pc'["closer"]
    BY <1>2, <1>5 DEF Busy, Iterating
  <1>7. tap_pc'["closer"] \in {"idle", "finalize", "done"} \cup Busy
    BY <1>1, <1>2, <1>3, <1>4, <1>5, <1>6 DEF TapPlaces
  <1>8. finalized' <=> \E j \in Tap!Actors : tap_pc'[j] \in Flagged
    BY <1>2
  <1>9. /\ tap_complete' => ended' /\ tap_pc'["reader"] \notin Iterating
        /\ ended' <=> tap_complete' \/ tap_pc'["reader"] = "ending"
        /\ ~cut' /\ tap_pc'["reader"] \in Iterating => tap_pc'["closer"] \in {"idle", "finalize"}
    BY <1>1, <1>6 DEF TapPlaces, Iterating
  <1>10. /\ tap_reported' # <<>> => \E j \in Tap!Actors : tap_pc'[j] = "done"
         /\ Len(tap_reported') > 1 => \A j \in Tap!Actors : tap_pc'[j] = "done"
    BY <1>1, <1>4 DEF TapPlaces
  <1>11. ~raced' => /\ Len(tap_reported') <= 1
                    /\ \A k \in Tap!Actors : tap_pc'[k] \in Busy =>
                          /\ tap_reported' = <<>>
                          /\ \A j \in Tap!Actors \ {k} : tap_pc'[j] \notin Busy
    BY <1>1, <1>3 DEF TapPlaces
  <1> QED
    BY <1>7, <1>8, <1>9, <1>10, <1>11, Zenon DEF TapPlaces

\* close() and the first two steps of finalize().
LEMMA TapCloses ==
  ASSUME TapInv, Tap!Close \/ \E i \in Tap!Actors : Tap!Look(i) \/ Tap!Claim(i)
  PROVE  TapInv'
  <1>1. Tap!TypeOK /\ TapPlaces
    BY DEF TapInv
  <1>2. /\ tap_complete \in BOOLEAN /\ overflow \in BOOLEAN /\ finalized \in BOOLEAN
        /\ ended \in BOOLEAN /\ cut \in BOOLEAN /\ raced \in BOOLEAN
    BY <1>1, TapTypes
  <1>3. CASE Tap!Close
    <2>1. /\ UNCHANGED <<tap_provider, tap_lines, tap_line, came, too_long, line_buf, cur_frame,
                         frames, retained, overflow, tap_reported, tap_complete, finalized, whole,
                         ended, cut, raced>>
          /\ tap_pc["closer"] = "idle"
          /\ tap_pc' = [tap_pc EXCEPT !["closer"] = "finalize"]
      BY <1>3 DEF Tap!Close, Tap!wire, Tap!tap, Tap!past
    <2>2. {tap_complete', overflow', finalized', ended', cut', raced'} \subseteq BOOLEAN
      BY <1>2, <2>1
    <2>3. Tap!TypeOK' /\ tap_pc'["closer"] = "finalize" /\ tap_pc'["reader"] = tap_pc["reader"]
      <3>1. "finalize" \in TapPcs
        BY DEF TapPcs
      <3> QED
        BY <1>1, <2>1, <2>2, <3>1, TapGoes, TwoActors
    <2>4. \A i \in Tap!Actors : \A q \in Flagged \cup Busy : tap_pc'[i] = q <=> tap_pc[i] = q
      BY <2>1, <2>3, TwoActors DEF Flagged, Busy
    <2>5. TapPlaces'
      <3>1. finalized' <=> \E i \in Tap!Actors : tap_pc'[i] \in Flagged
        BY <1>1, <2>1, <2>4 DEF TapPlaces
      <3>2. /\ tap_reported' # <<>> => \E i \in Tap!Actors : tap_pc'[i] = "done"
            /\ Len(tap_reported') > 1 => \A i \in Tap!Actors : tap_pc'[i] = "done"
        BY <1>1, <2>1, <2>4 DEF TapPlaces, Flagged
      <3>3. ~raced' => /\ Len(tap_reported') <= 1
                       /\ \A i \in Tap!Actors : tap_pc'[i] \in Busy =>
                             /\ tap_reported' = <<>>
                             /\ \A j \in Tap!Actors \ {i} : tap_pc'[j] \notin Busy
        BY <1>1, <2>1, <2>4 DEF TapPlaces
      <3>4. /\ tap_complete' => ended' /\ tap_pc'["reader"] \notin Iterating
            /\ ended' <=> tap_complete' \/ tap_pc'["reader"] = "ending"
            /\ ~cut' /\ tap_pc'["reader"] \in Iterating =>
                  tap_pc'["closer"] \in {"idle", "finalize"}
            /\ tap_pc'["closer"] \in {"idle", "finalize", "done"} \cup Busy
        BY <1>1, <2>1, <2>3 DEF TapPlaces
      <3> QED
        BY <3>1, <3>2, <3>3, <3>4, Zenon DEF TapPlaces
    <2>6. \A i \in Tap!Actors : tap_pc'[i] \in {"judging", "capturing"} => tap_pc'[i] = tap_pc[i]
      BY <2>3, TwoActors
    <2>7. TapMeasures' /\ TapKeeps' /\ TapTells' /\ TapHolds'
      BY <2>1, <2>3, <2>6, TapQuiet
    <2>8. TapJudges'
      BY <2>1, <2>6, TapJudging
    <2> QED
      BY <2>3, <2>5, <2>7, <2>8 DEF TapInv
  <1>4. ASSUME NEW i \in Tap!Actors, Tap!Look(i) PROVE TapInv'
    <2> DEFINE to == IF finalized THEN "done" ELSE "claiming"
    <2>1. /\ UNCHANGED <<tap_provider, tap_lines, tap_line, came, too_long, line_buf, cur_frame,
                         frames, retained, overflow, tap_reported, tap_complete, finalized, whole,
                         ended>>
          /\ tap_pc[i] = "finalize" /\ tap_pc' = [tap_pc EXCEPT ![i] = to]
          /\ raced' = (raced \/ (~finalized /\ \E j \in Tap!Actors \ {i} : tap_pc[j] = "claiming"))
          /\ cut' = (cut \/ (i = "closer" /\ ~finalized /\ ~tap_complete))
      BY <1>4 DEF Tap!Look, Tap!At, Tap!Goes, Tap!Found, Tap!wire, Tap!tap
    <2>2. {tap_complete', overflow', finalized', ended', cut', raced'} \subseteq BOOLEAN
      BY <1>2, <2>1
    <2>3. Tap!TypeOK' /\ tap_pc'[i] = to /\ \A j \in Tap!Actors \ {i} : tap_pc'[j] = tap_pc[j]
      <3>1. to \in TapPcs
        BY DEF TapPcs
      <3> HIDE DEF to
      <3> QED
        BY <1>1, <2>1, <2>2, <3>1, TapGoes
    <2>4. (cut => cut') /\ (raced => raced')
      BY <2>1
    <2>5. TapPlaces'
      <3>1. finalized' <=> \E j \in Tap!Actors : tap_pc'[j] \in Flagged
        BY <1>1, <2>1, <2>3 DEF TapPlaces, Flagged
      <3>2. tap_reported' # <<>> => \E j \in Tap!Actors : tap_pc'[j] = "done"
        BY <1>1, <2>1, <2>3 DEF TapPlaces
      <3>3. Len(tap_reported') > 1 => \A j \in Tap!Actors : tap_pc'[j] = "done"
        BY <1>1, <2>1, <2>3 DEF TapPlaces
      <3>4. ~raced' => /\ Len(tap_reported') <= 1
                       /\ \A k \in Tap!Actors : tap_pc'[k] \in Busy =>
                             /\ tap_reported' = <<>>
                             /\ \A j \in Tap!Actors \ {k} : tap_pc'[j] \notin Busy
        <4>1. CASE finalized
          <5>1. tap_pc'[i] = "done" /\ (~raced' => ~raced)
            BY <2>1, <2>3, <4>1
          <5>2. ~raced => /\ Len(tap_reported) <= 1
                          /\ \A k \in Tap!Actors : tap_pc[k] \in Busy =>
                                /\ tap_reported = <<>>
                                /\ \A j \in Tap!Actors \ {k} : tap_pc[j] \notin Busy
            BY <1>1 DEF TapPlaces
          <5>3. \A k \in Tap!Actors : tap_pc'[k] \in Busy => tap_pc[k] \in Busy
            BY <2>3, <5>1 DEF Busy
          <5> QED
            BY <2>1, <5>1, <5>2, <5>3
        <4>2. CASE ~finalized
          <5>1. tap_reported = <<>> /\ \A j \in Tap!Actors : tap_pc[j] \notin Flagged
            BY <1>1, <4>2 DEF TapPlaces, Flagged
          <5>2. Len(tap_reported') <= 1 /\ tap_reported' = <<>>
            BY <2>1, <5>1
          <5>3. SUFFICES ASSUME ~raced', NEW k \in Tap!Actors, NEW j \in Tap!Actors \ {k},
                                tap_pc'[k] \in Busy, tap_pc'[j] \in Busy
                         PROVE  FALSE
            BY <5>2
          <5>4. \A h \in Tap!Actors \ {i} : tap_pc[h] # "claiming"
            BY <2>1, <4>2, <5>3
          <5>5. \A h \in Tap!Actors \ {i} : tap_pc'[h] \notin Busy
            BY <2>3, <5>1, <5>4 DEF Busy, Flagged
          <5> QED
            BY <5>3, <5>5
        <4> QED
          BY <4>1, <4>2
      <3>5. /\ tap_complete' => ended' /\ tap_pc'["reader"] \notin Iterating
            /\ ended' <=> tap_complete' \/ tap_pc'["reader"] = "ending"
        BY <1>1, <2>1, <2>3, <2>4, TwoActors DEF TapPlaces, Iterating
      <3>6. tap_pc'["closer"] \in {"idle", "finalize", "done"} \cup Busy
        BY <1>1, <2>1, <2>3, TwoActors DEF TapPlaces, Busy
      <3>7. ASSUME ~cut', tap_pc'["reader"] \in Iterating
            PROVE  tap_pc'["closer"] \in {"idle", "finalize"}
        <4>1. ~cut /\ tap_pc["reader"] \in Iterating
          BY <2>1, <2>3, <2>4, <3>7, TwoActors DEF Iterating
        <4>2. ~finalized /\ tap_pc["closer"] \in {"idle", "finalize"}
          BY <4>1, TapQuietSoFar
        <4>3. i # "closer"
          BY <1>1, <2>1, <3>7, <4>1, <4>2 DEF TapPlaces
        <4> QED
          BY <2>3, <4>2, <4>3, TwoActors
      <3> QED
        BY <3>1, <3>2, <3>3, <3>4, <3>5, <3>6, <3>7, Zenon DEF TapPlaces
    <2>6. /\ tap_pc["reader"] \notin Iterating => tap_pc'["reader"] \notin Iterating
          /\ tap_pc["reader"] = "feeding" <=> tap_pc'["reader"] = "feeding"
          /\ tap_pc["reader"] = "passing" <=> tap_pc'["reader"] = "passing"
          /\ \A j \in Tap!Actors : tap_pc'[j] \in {"judging", "capturing"} => tap_pc'[j] = tap_pc[j]
      BY <2>1, <2>3, TwoActors DEF Iterating
    <2>7. TapMeasures' /\ TapKeeps' /\ TapTells' /\ TapHolds'
      BY <2>1, <2>4, <2>6, TapQuiet
    <2>8. TapJudges'
      BY <2>1, <2>4, <2>6, TapJudging
    <2> QED
      BY <2>3, <2>5, <2>7, <2>8 DEF TapInv
  <1>5. ASSUME NEW i \in Tap!Actors, Tap!Claim(i) PROVE TapInv'
    <2>1. /\ UNCHANGED <<tap_provider, tap_lines, tap_line, came, too_long, line_buf, cur_frame,
                         frames, retained, overflow, tap_reported, tap_complete, whole,
                         ended, cut, raced>>
          /\ tap_pc[i] = "claiming" /\ tap_pc' = [tap_pc EXCEPT ![i] = "flushing"]
          /\ finalized' = TRUE
      BY <1>5 DEF Tap!Claim, Tap!At, Tap!Goes, Tap!wire, Tap!tap, Tap!past
    <2>2. {tap_complete', overflow', finalized', ended', cut', raced'} \subseteq BOOLEAN
      BY <1>2, <2>1
    <2>3. Tap!TypeOK' /\ tap_pc'[i] = "flushing"
            /\ \A j \in Tap!Actors \ {i} : tap_pc'[j] = tap_pc[j]
      <3>1. "flushing" \in TapPcs
        BY DEF TapPcs
      <3> QED
        BY <1>1, <2>1, <2>2, <3>1, TapGoes
    <2>4. TapPlaces'
      BY <2>1, <2>3, TapFinalizes DEF Busy
    <2>5. /\ tap_pc["reader"] \notin Iterating => tap_pc'["reader"] \notin Iterating
          /\ tap_pc["reader"] = "feeding" <=> tap_pc'["reader"] = "feeding"
          /\ tap_pc["reader"] = "passing" <=> tap_pc'["reader"] = "passing"
          /\ \A j \in Tap!Actors : tap_pc'[j] \in {"judging", "capturing"} => tap_pc'[j] = tap_pc[j]
      BY <2>1, <2>3, TwoActors DEF Iterating
    <2>6. TapMeasures' /\ TapKeeps' /\ TapTells' /\ TapHolds'
      BY <2>1, <2>5, TapQuiet
    <2>7. TapJudges'
      BY <2>1, <2>5, TapJudging
    <2> QED
      BY <2>3, <2>4, <2>6, <2>7 DEF TapInv
  <1> QED
    BY <1>3, <1>4, <1>5

\* What a stream may bring while its iteration goes on.
LEMMA TapArrives ==
  ASSUME TapInv, Tap!InChunk
  PROVE  /\ tap_pc["reader"] \in {"feeding", "passing"} /\ tap_pc["reader"] \in Iterating
         /\ ~tap_complete
         /\ ~cut /\ ~overflow => Tap!Looked
         /\ ~cut => \A i \in Tap!Actors : tap_pc[i] \notin {"judging", "capturing"}
  <1>1. TapPlaces
    BY DEF TapInv
  <1>2. tap_pc["reader"] \in {"feeding", "passing"}
    BY DEF Tap!InChunk, Tap!Reading
  <1>3. tap_pc["reader"] \in Iterating
    BY <1>2 DEF Iterating
  <1>4. ~tap_complete
    BY <1>1, <1>3 DEF TapPlaces
  <1>5. ~cut /\ ~overflow => Tap!Looked
    <2>1. TapMeasures /\ (~cut => ~finalized)
      BY <1>3, TapQuietSoFar DEF TapInv
    <2> QED
      BY <1>2, <2>1 DEF TapMeasures, Tap!Looked
  <1>6. ~cut => \A i \in Tap!Actors : tap_pc[i] \notin {"judging", "capturing"}
    BY <1>3, TapQuietSoFar DEF Busy
  <1> QED
    BY <1>2, <1>3, <1>4, <1>5, <1>6

\* Nothing is said of a stream that is not over.
LEMMA TapSilent ==
  ASSUME TapInv, ~tap_complete, UNCHANGED <<tap_complete, tap_reported>>
  PROVE  TapTells'
  <1>1. TapTells
    BY DEF TapInv
  <1>2. \A n \in 1..Len(tap_reported) : tap_reported[n] = Tap!Untallied
    BY <1>1, Zenon DEF TapTells
  <1>3. ~tap_complete' /\ tap_reported' = tap_reported
    OBVIOUS
  <1>4. \A n \in 1..Len(tap_reported') : tap_reported'[n] = Tap!Untallied
    BY <1>2, <1>3
  <1>5. Tap!Untallied' = Tap!Untallied
    BY DEF Tap!Untallied, Tap!Usage, Tap!NoCount
  <1>6. IsSequence(tap_reported)'
    BY <1>1, <1>3, Zenon DEF TapTells, IsSequence
  <1> QED
    BY <1>3, <1>4, <1>5, <1>6, Zenon DEF TapTells

\* A piece of a line.
LEMMA TapPieces ==
  ASSUME TapInv, NEW l \in Tap!LinesOf[tap_provider], Tap!Piece(l)
  PROVE  TapInv'
  <1>1. /\ UNCHANGED <<tap_provider, tap_lines, cur_frame, frames, retained, overflow,
                       tap_complete, finalized, whole, ended, cut, tap_pc, raced, tap_reported>>
        /\ Tap!InChunk /\ came <= TapLimit
    BY Zenon DEF Tap!Piece, Tap!past, Tap!Arriving
  <1>2. tap_line' = l /\ l # ""
    BY Zenon DEF Tap!Piece
  <1>3. /\ ~Tap!Looked => UNCHANGED <<came, too_long, line_buf>>
        /\ Tap!Looked => /\ line_buf' = line_buf + 1 /\ came' = came + 1
                         /\ too_long' = (too_long \/ came' > TapLimit)
    BY Zenon DEF Tap!Piece
  <1>4. Tap!TypeOK /\ TapPlaces /\ TapMeasures /\ TapKeeps /\ TapHolds
    BY DEF TapInv
  <1>5. /\ line_buf \in 0..TapLimit + 1 /\ came \in 0..TapLimit + 1 /\ TapLimit \in Nat
        /\ too_long \in BOOLEAN
        /\ tap_complete \in BOOLEAN /\ overflow \in BOOLEAN /\ finalized \in BOOLEAN
        /\ ended \in BOOLEAN /\ cut \in BOOLEAN /\ raced \in BOOLEAN
    BY <1>4, TapTypes
  <1>6. Tap!Looked => line_buf = came
    BY <1>4 DEF TapMeasures, Tap!Looked
  <1>7. Tap!TypeOK'
    <2>1. {came', line_buf'} \subseteq 0..TapLimit + 1
      BY <1>1, <1>3, <1>5, <1>6
    <2>2. {tap_complete', overflow', finalized', too_long', ended', cut', raced'} \subseteq BOOLEAN
      BY <1>1, <1>3, <1>5
    <2> QED
      BY <1>1, <1>2, <1>4, <2>1, <2>2, Zenon DEF Tap!TypeOK
  <1>8. TapPlaces'
    BY <1>1, <1>4, Zenon DEF TapPlaces
  <1>9. TapMeasures'
    BY <1>1, <1>3, <1>4, <1>5, <1>6 DEF TapMeasures, Tap!Looked, Tap!InChunk, Tap!Reading
  <1>10. TapKeeps'
    <2>1. SUFFICES ASSUME Tap!Solo', ~overflow'
                   PROVE  /\ line_buf' = 0 <=> tap_line' = ""
                          /\ \E u \in 0..Len(tap_lines') : Fed(u)'
                          /\ (\E i \in Tap!Actors : tap_pc'[i] \in {"judging", "capturing"}) =>
                                FramesOf(tap_lines', frames', Len(tap_lines'))
      BY Zenon DEF TapKeeps
    <2>2. Tap!Solo /\ ~overflow /\ ~cut
      BY <1>1, <2>1 DEF Tap!Solo
    <2>3. Tap!Looked
      BY <1>1, <2>2, TapArrives
    <2>4. line_buf' # 0
      BY <1>3, <1>5, <2>3
    <2>5. PICK u \in 0..Len(tap_lines) : Fed(u)
      BY <1>4, <2>2, Zenon DEF TapKeeps
    <2>6. Fed(u)'
      BY <1>1, <2>5, Zenon DEF Fed
    <2>7. \E v \in 0..Len(tap_lines') : Fed(v)'
      BY <1>1, <2>6, Zenon
    <2>8. \A i \in Tap!Actors : tap_pc'[i] \notin {"judging", "capturing"}
      BY <1>1, <2>2, TapArrives
    <2> QED
      BY <1>2, <2>4, <2>7, <2>8, Zenon
  <1>11. TapTells'
    BY <1>1, TapArrives, TapSilent
  <1>12. TapHolds'
    BY <1>1, <1>3, <1>4 DEF TapHolds, Tap!Looked
  <1>13. TapJudges'
    BY <1>1, TapJudging
  <1> QED
    BY <1>7, <1>8, <1>9, <1>10, <1>11, <1>12, <1>13 DEF TapInv

\* The end of a line.
LEMMA TapEndsLine ==
  ASSUME TapInv, Tap!Newline
  PROVE  TapInv'
  <1> DEFINE d == Tap!Dispatched(cur_frame, frames, retained)
  <1>1. /\ UNCHANGED <<tap_provider, too_long, tap_complete, finalized, whole, ended, cut, tap_pc,
                       raced, tap_reported>>
        /\ Tap!InChunk /\ Len(tap_lines) < MaxLines
        /\ tap_lines' = Append(tap_lines, tap_line) /\ came' = 0
    BY Zenon DEF Tap!Newline, Tap!past, Tap!Arriving
  <1>2. tap_line' = ""
    BY Zenon DEF Tap!Newline
  <1>3. ~Tap!Looked => UNCHANGED <<line_buf, cur_frame, frames, retained, overflow>>
    BY Zenon DEF Tap!Newline, Tap!tap
  <1>4. Tap!Looked => line_buf' = 0
    BY Zenon DEF Tap!Newline
  <1>5. Tap!Looked /\ line_buf > 0 =>
          /\ cur_frame' = Append(cur_frame, <<Len(tap_lines'), tap_line>>)
          /\ UNCHANGED <<frames, retained, overflow>>
    BY Zenon DEF Tap!Newline
  <1>6. Tap!Looked /\ ~(line_buf > 0) =>
          /\ cur_frame' = <<>> /\ frames' = d.frames /\ retained' = d.retained
          /\ overflow' = (overflow \/ d.overflow)
    BY Zenon DEF Tap!Newline
  <1>7. Tap!TypeOK /\ TapPlaces /\ TapMeasures /\ TapKeeps /\ TapHolds
    BY DEF TapInv
  <1>8. /\ tap_lines \in Seq(Letters) /\ tap_line \in Letters
        /\ line_buf \in 0..TapLimit + 1 /\ retained \in Nat
        /\ cur_frame \in EventsOf(Letters) /\ frames \in Seq(EventsOf(Letters))
        /\ overflow \in BOOLEAN /\ TapLimit \in Nat /\ MaxLines \in Nat
        /\ tap_complete \in BOOLEAN /\ finalized \in BOOLEAN /\ too_long \in BOOLEAN
        /\ ended \in BOOLEAN /\ cut \in BOOLEAN /\ raced \in BOOLEAN
    BY <1>7, TapTypes
  <1>9. /\ d.frames \in Seq(EventsOf(Letters)) /\ d.retained \in Nat /\ d.overflow \in BOOLEAN
        /\ Tap!LinesIn(d.frames) \in 0..d.retained
        /\ d.frames = <<>> \/ d.retained <= TapLimit
        /\ ~d.overflow => Retains(d.frames, frames, cur_frame)
        /\ d.retained >= retained /\ (d.overflow => d.retained > TapLimit)
    BY <1>7, <1>8, DispatchedIs DEF TapHolds, EventsOf
  <1> HIDE DEF d
  <1>10. Tap!TypeOK'
    <2>1. tap_lines' \in Seq(Letters) /\ Len(tap_lines') = Len(tap_lines) + 1
            /\ Len(tap_lines') \in 1..MaxLines
      BY <1>1, <1>8
    <2>2. "" \in Letters
      <3>1. "" \in Tap!LinesOf["openai"] /\ "" \in Tap!LinesOf["anthropic"]
        BY DEF Tap!LinesOf
      <3>2. tap_provider = "openai" \/ tap_provider = "anthropic"
        BY <1>7, Zenon DEF Tap!TypeOK, Tap!Providers
      <3> QED
        BY <3>1, <3>2, Zenon DEF Letters
    <2>3. cur_frame' \in EventsOf(Letters) /\ frames' \in Seq(EventsOf(Letters))
            /\ retained' \in Nat
          /\ overflow' \in BOOLEAN /\ line_buf' \in 0..TapLimit + 1
      <3>1. CASE ~Tap!Looked
        BY <1>3, <1>8, <3>1
      <3>2. CASE Tap!Looked /\ line_buf > 0
        <4>1. <<Len(tap_lines'), tap_line>> \in (1..MaxLines) \X Letters
          BY <1>8, <2>1
        <4>2. Append(cur_frame, <<Len(tap_lines'), tap_line>>) \in EventsOf(Letters)
          BY <1>8, <4>1 DEF EventsOf
        <4>3. cur_frame' \in EventsOf(Letters) /\ frames' = frames /\ retained' = retained
              /\ overflow' = overflow /\ line_buf' = 0
          BY <1>4, <1>5, <3>2, <4>2
        <4>4. 0 \in 0..TapLimit + 1
          BY <1>8
        <4> QED
          BY <1>8, <4>3, <4>4
      <3>3. CASE Tap!Looked /\ ~(line_buf > 0)
        <4>1. <<>> \in EventsOf(Letters)
          BY DEF EventsOf
        <4> QED
          BY <1>4, <1>6, <1>8, <1>9, <3>3, <4>1
      <3> QED
        BY <3>1, <3>2, <3>3
    <2>4. {tap_complete', overflow', finalized', too_long', ended', cut', raced'} \subseteq BOOLEAN
      BY <1>1, <1>8, <2>3
    <2>5. tap_provider' = tap_provider /\ tap_pc' = tap_pc /\ tap_reported' = tap_reported
            /\ whole' = whole
      BY <1>1
    <2>6. {came', line_buf'} \subseteq 0..TapLimit + 1
      <3>1. 0 \in 0..TapLimit + 1
        BY <1>8
      <3> QED
        BY <1>1, <2>3, <3>1
    <2> QED
      BY <1>2, <1>7, <2>1, <2>2, <2>3, <2>4, <2>5, <2>6, Zenon DEF Tap!TypeOK, Letters, EventsOf
  <1>11. TapPlaces'
    BY <1>1, <1>7, Zenon DEF TapPlaces
  <1>12. TapKeeps'
    <2>0. SUFFICES ASSUME Tap!Solo', ~overflow'
                   PROVE  /\ line_buf' = 0 <=> tap_line' = ""
                          /\ \E u \in 0..Len(tap_lines') : Fed(u)'
                          /\ (\E i \in Tap!Actors : tap_pc'[i] \in {"judging", "capturing"}) =>
                                FramesOf(tap_lines', frames', Len(tap_lines'))
      BY Zenon DEF TapKeeps
    <2>2. Tap!Solo /\ ~overflow /\ ~cut
      <3>1. overflow => overflow'
        BY <1>3, <1>5, <1>6
      <3> QED
        BY <1>1, <2>0, <3>1 DEF Tap!Solo
    <2>3. Tap!Looked /\ tap_pc["reader"] \in Iterating
            /\ \A i \in Tap!Actors : tap_pc'[i] \notin {"judging", "capturing"}
      BY <1>1, <2>2, TapArrives
    <2>1. SUFFICES (line_buf' = 0 <=> tap_line' = "") /\ \E u \in 0..Len(tap_lines') : Fed(u)'
      BY <2>3, Zenon
    <2>4. PICK u \in 0..Len(tap_lines) : Fed(u)
      BY <1>7, <2>2, Zenon DEF TapKeeps
    <2>5. line_buf = 0 <=> tap_line = ""
      BY <1>7, <2>2, Zenon DEF TapKeeps
    <2>6. /\ cur_frame = [k \in 1..Len(tap_lines) - u |-> <<u + k, tap_lines[u + k]>>]
          /\ Unbroken(tap_lines, u + 1, Len(tap_lines))
          /\ EndsEvent(tap_lines, u) /\ FramesOf(tap_lines, frames, u)
      BY <2>3, <2>4, Zenon DEF Fed
    <2>7. /\ Len(tap_lines') = Len(tap_lines) + 1 /\ tap_lines' \in Seq(Letters)
          /\ Len(tap_lines) \in Nat
          /\ \A k \in 1..Len(tap_lines) : tap_lines'[k] = tap_lines[k]
          /\ tap_lines'[Len(tap_lines) + 1] = tap_line
      BY <1>1, <1>8
    <2>8. FramesOf(tap_lines', frames, u)
      BY <1>1, <1>8, <2>6, FramesStay
    <2>9. EndsEvent(tap_lines', u)
      <3>1. u = 0 \/ u \in 1..Len(tap_lines)
        OBVIOUS
      <3> QED
        BY <2>6, <2>7, <3>1, Zenon DEF EndsEvent
    <2>10. Unbroken(tap_lines', u + 1, Len(tap_lines))
      <3>1. \A k \in u + 1..Len(tap_lines) : k \in 1..Len(tap_lines)
        BY <2>7
      <3> QED
        BY <2>6, <2>7, <3>1, Zenon DEF Unbroken
    <2>11. cur_frame = [k \in 1..Len(tap_lines) - u |-> <<u + k, tap_lines'[u + k]>>]
      <3>1. \A k \in 1..Len(tap_lines) - u : u + k \in 1..Len(tap_lines)
        BY <2>7
      <3>2. \A k \in 1..Len(tap_lines) - u : tap_lines'[u + k] = tap_lines[u + k]
        BY <2>7, <3>1, Zenon
      <3> QED
        BY <2>6, <3>2
    <2>12. CASE line_buf > 0
      <3>1. tap_line # ""
        <4>1. line_buf # 0
          BY <2>12
        <4> QED
          BY <2>5, <4>1, Zenon
      <3>2. cur_frame' = Append(cur_frame, <<Len(tap_lines'), tap_line>>) /\ frames' = frames
        BY <1>5, <2>3, <2>12
      <3>3. cur_frame' = [k \in 1..Len(tap_lines') - u |-> <<u + k, tap_lines'[u + k]>>]
        <4>1. PICK m \in Nat : m = Len(tap_lines) - u
          BY <2>7
        <4>2. cur_frame = [k \in 1..m |-> <<u + k, tap_lines'[u + k]>>]
          BY <2>11, <4>1
        <4>3. u + (m + 1) = Len(tap_lines') /\ Len(tap_lines') - u = m + 1
          BY <2>7, <4>1
        <4>4. Append(cur_frame, <<Len(tap_lines'), tap_line>>)
                = [k \in 1..m + 1 |-> IF k = m + 1 THEN <<Len(tap_lines'), tap_line>>
                                      ELSE <<u + k, tap_lines'[u + k]>>]
          BY <4>2
        <4>5. tap_lines'[u + (m + 1)] = tap_line
          BY <2>7, <4>3
        <4> QED
          BY <3>2, <4>3, <4>4, <4>5
      <3>4. Unbroken(tap_lines', u + 1, Len(tap_lines'))
        <4>1. \A k \in u + 1..Len(tap_lines') :
                  k \in u + 1..Len(tap_lines) \/ k = Len(tap_lines) + 1
          BY <2>7
        <4> QED
          BY <2>7, <2>10, <3>1, <4>1, Zenon DEF Unbroken
      <3>5. Fed(u)'
        BY <2>8, <2>9, <3>2, <3>3, <3>4, Zenon DEF Fed
      <3>6. u \in 0..Len(tap_lines')
        BY <2>7
      <3>7. line_buf' = 0
        BY <1>4, <2>3
      <3> QED
        BY <1>2, <3>5, <3>6, <3>7, Zenon
    <2>13. CASE ~(line_buf > 0)
      <3>0. PICK n \in Nat : n = Len(tap_lines)
        BY <2>7
      <3>1. tap_line = ""
        <4>1. line_buf = 0
          BY <1>8, <2>13
        <4> QED
          BY <2>5, <4>1, Zenon
      <3>2. /\ cur_frame' = <<>> /\ frames' = d.frames /\ ~d.overflow
        BY <1>6, <2>0, <2>3, <2>13
      <3>3. Retains(frames', frames, cur_frame)
        BY <1>9, <3>2
      <3>4. EndsEvent(tap_lines', n + 1)
        BY <2>7, <3>0, <3>1, Zenon DEF EndsEvent
      <3>5. FramesOf(tap_lines', frames', n)
        <4>1. u \in Nat /\ u <= n /\ n <= Len(tap_lines')
          BY <2>7, <3>0
        <4>2. cur_frame = [k \in 1..n - u |-> <<u + k, tap_lines'[u + k]>>]
                /\ Unbroken(tap_lines', u + 1, n)
          BY <2>10, <2>11, <3>0
        <4>3. tap_lines' \in Seq(Letters) /\ frames \in Seq(EventsOf(Letters))
                /\ cur_frame \in EventsOf(Letters)
          BY <1>8, <2>7
        <4> QED
          BY <2>8, <2>9, <3>3, <3>4, <4>1, <4>2, <4>3, FramesClose
      <3>6. FramesOf(tap_lines', frames', n + 1)
        <4>1. ~Tap!Marked(tap_lines'[n + 1])
          BY <2>7, <3>0, <3>1, Zenon DEF Tap!Marked
        <4>2. \A i \in n + 1..n + 1 : i = n + 1
          OBVIOUS
        <4>3. \A i \in n + 1..n + 1 : ~Tap!Marked(tap_lines'[i])
          BY <4>1, <4>2, Zenon
        <4>4. n \in Nat /\ n + 1 \in Nat /\ n <= n + 1
          OBVIOUS
        <4> QED
          BY <3>5, <4>3, <4>4, FramesSkip
      <3>7. Fed(n + 1)'
        <4>1. cur_frame' = [k \in 1..Len(tap_lines') - (n + 1) |->
                              <<(n + 1) + k, tap_lines'[(n + 1) + k]>>]
          <5>1. 1..Len(tap_lines') - (n + 1) = {}
            BY <2>7, <3>0
          <5>2. <<>> = [k \in {} |-> <<(n + 1) + k, tap_lines'[(n + 1) + k]>>]
            OBVIOUS
          <5> QED
            BY <3>2, <5>1, <5>2, Zenon
        <4>2. Unbroken(tap_lines', (n + 1) + 1, Len(tap_lines'))
          <5>1. (n + 1) + 1..Len(tap_lines') = {}
            BY <2>7, <3>0
          <5> QED
            BY <5>1, Zenon DEF Unbroken
        <4> QED
          BY <3>4, <3>6, <4>1, <4>2, Zenon DEF Fed
      <3>8. n + 1 \in 0..Len(tap_lines')
        BY <2>7, <3>0
      <3>9. line_buf' = 0
        BY <1>4, <2>3
      <3> QED
        BY <1>2, <3>7, <3>8, <3>9, Zenon
    <2> QED
      BY <2>12, <2>13, Zenon
  <1>13. TapTells'
    BY <1>1, TapArrives, TapSilent
  <1>14. TapHolds'
    <2>1. tap_pc' = tap_pc
      BY <1>1
    <2>2. CASE ~Tap!Looked
      BY <1>3, <1>7, <2>1, <2>2 DEF TapHolds
    <2>3. CASE Tap!Looked /\ line_buf > 0
      BY <1>4, <1>5, <1>7, <1>8, <2>1, <2>3 DEF TapHolds
    <2>4. CASE Tap!Looked /\ ~(line_buf > 0)
      BY <1>4, <1>6, <1>8, <1>9, <2>1, <2>4 DEF TapHolds
    <2> QED
      BY <2>2, <2>3, <2>4
  <1>15. TapMeasures'
    <2>1. CASE ~Tap!Looked
      BY <1>1, <1>3, <1>7, <1>8, <2>1
         DEF TapMeasures, Tap!Looked, Tap!InChunk, Tap!Reading
    <2>2. CASE Tap!Looked /\ line_buf > 0
      BY <1>1, <1>4, <1>5, <1>7, <1>8, <2>2 DEF TapMeasures, Tap!Looked
    <2>3. CASE Tap!Looked /\ ~(line_buf > 0)
      <3>1. ~(came' > TapLimit) /\ line_buf' = came'
        BY <1>1, <1>4, <1>8, <2>3
      <3>2. tap_pc'["reader"] = "feeding"
        BY <1>1, <2>3 DEF Tap!Looked
      <3>3. overflow' => too_long' \/ retained' > TapLimit
        <4>1. retained' >= retained /\ retained' \in Nat /\ (d.overflow => retained' > TapLimit)
          BY <1>6, <1>9, <2>3
        <4>2. overflow' = (overflow \/ d.overflow) /\ too_long' = too_long
          BY <1>1, <1>6, <2>3
        <4>3. overflow => too_long \/ retained > TapLimit
          BY <1>7 DEF TapMeasures
        <4>4. retained > TapLimit => retained' > TapLimit
          BY <1>8, <4>1
        <4> QED
          BY <4>1, <4>2, <4>3, <4>4
      <3> QED
        BY <3>1, <3>2, <3>3 DEF TapMeasures
    <2> QED
      BY <2>1, <2>2, <2>3
  <1>16. TapJudges'
    BY <1>1, TapArrives, TapJudging
  <1> QED
    BY <1>10, <1>11, <1>12, <1>13, <1>14, <1>15, <1>16 DEF TapInv

\* What appending does to any sequence.
LEMMA SequenceGrows ==
  ASSUME NEW s, IsSequence(s), NEW e
  PROVE  /\ IsSequence(Append(s, e)) /\ Len(s) \in Nat /\ Len(Append(s, e)) = Len(s) + 1
         /\ \A n \in 1..Len(s) : Append(s, e)[n] = s[n]
         /\ Append(s, e)[Len(s) + 1] = e
         /\ s = <<>> <=> Len(s) = 0
  <1> DEFINE S == {s[n] : n \in 1..Len(s)} \cup {e}
  <1>1. Len(s) \in Nat /\ s \in Seq(S)
    BY DEF IsSequence
  <1>2. e \in S
    OBVIOUS
  <1> HIDE DEF S
  <1>3. Append(s, e) \in Seq(S)
    BY <1>1, <1>2
  <1>4. IsSequence(Append(s, e))
    <2>1. \A x \in Seq(S) : Len(x) \in Nat /\ x = [n \in 1..Len(x) |-> x[n]]
      OBVIOUS
    <2> QED
      BY <1>3, <2>1, Zenon DEF IsSequence
  <1> QED
    BY <1>1, <1>2, <1>4

\* The chunk is used up.
LEMMA TapChunkEnds ==
  ASSUME TapInv, Tap!ChunkEnds
  PROVE  TapInv'
  <1> DEFINE flood == Tap!Looked /\ line_buf > TapLimit
  <1>1. /\ UNCHANGED <<tap_provider, tap_lines, tap_line, came, too_long, cur_frame, frames,
                       retained, tap_complete, finalized, whole, ended, cut, raced, tap_reported>>
        /\ Tap!InChunk /\ tap_pc' = [tap_pc EXCEPT !["reader"] = "yielded"]
        /\ line_buf' = IF flood THEN 0 ELSE line_buf
        /\ overflow' = (overflow \/ flood)
    BY DEF Tap!ChunkEnds, Tap!ReaderAt, Tap!wire, Tap!past, Tap!Flooded
  <1> HIDE DEF flood
  <1>2. Tap!TypeOK /\ TapPlaces /\ TapMeasures /\ TapKeeps /\ TapHolds
    BY DEF TapInv
  <1>3. /\ tap_pc \in [Tap!Actors -> TapPcs] /\ line_buf \in 0..TapLimit + 1 /\ TapLimit \in Nat
        /\ came \in 0..TapLimit + 1
        /\ tap_complete \in BOOLEAN /\ overflow \in BOOLEAN /\ finalized \in BOOLEAN
        /\ too_long \in BOOLEAN /\ ended \in BOOLEAN /\ cut \in BOOLEAN /\ raced \in BOOLEAN
    BY <1>2, TapTypes
  <1>4. tap_pc'["reader"] = "yielded" /\ tap_pc'["closer"] = tap_pc["closer"]
        /\ tap_pc' \in [Tap!Actors -> TapPcs]
    BY <1>1, <1>3, TwoActors DEF TapPcs
  <1>5. /\ tap_pc["reader"] \in {"feeding", "passing"} /\ tap_pc["reader"] \in Iterating
        /\ ~tap_complete
    BY <1>1, TapArrives
  <1>6. (overflow => overflow') /\ (flood => overflow') /\ overflow' \in BOOLEAN
    BY <1>1, <1>3 DEF flood
  <1>7. Tap!TypeOK'
    <2>1. {came', line_buf'} \subseteq 0..TapLimit + 1
      BY <1>1, <1>3
    <2>2. {tap_complete', overflow', finalized', too_long', ended', cut', raced'} \subseteq BOOLEAN
      BY <1>1, <1>3, <1>6
    <2> QED
      BY <1>1, <1>2, <1>4, <2>1, <2>2, Zenon DEF Tap!TypeOK, TapPcs
  <1>8. \A i \in Tap!Actors : \A q \in Flagged \cup Busy : tap_pc'[i] = q <=> tap_pc[i] = q
    BY <1>4, <1>5, TwoActors DEF Flagged, Busy
  <1>9. TapPlaces'
    <2>1. finalized' <=> \E i \in Tap!Actors : tap_pc'[i] \in Flagged
      BY <1>1, <1>2, <1>8 DEF TapPlaces
    <2>2. /\ tap_reported' # <<>> => \E i \in Tap!Actors : tap_pc'[i] = "done"
          /\ Len(tap_reported') > 1 => \A i \in Tap!Actors : tap_pc'[i] = "done"
      BY <1>1, <1>2, <1>8 DEF TapPlaces, Flagged
    <2>3. ~raced' => /\ Len(tap_reported') <= 1
                     /\ \A i \in Tap!Actors : tap_pc'[i] \in Busy =>
                           /\ tap_reported' = <<>>
                           /\ \A j \in Tap!Actors \ {i} : tap_pc'[j] \notin Busy
      BY <1>1, <1>2, <1>8 DEF TapPlaces
    <2>4. /\ tap_complete' => ended' /\ tap_pc'["reader"] \notin Iterating
          /\ ended' <=> tap_complete' \/ tap_pc'["reader"] = "ending"
          /\ ~cut' /\ tap_pc'["reader"] \in Iterating => tap_pc'["closer"] \in {"idle", "finalize"}
          /\ tap_pc'["closer"] \in {"idle", "finalize", "done"} \cup Busy
      BY <1>1, <1>2, <1>4, <1>5 DEF TapPlaces
    <2> QED
      BY <2>1, <2>2, <2>3, <2>4, Zenon DEF TapPlaces
  <1>10. TapMeasures'
    <2>1. flood => too_long
      BY <1>2, <1>3 DEF flood, Tap!Looked, TapMeasures
    <2>2. ~(finalized' \/ overflow') => line_buf' = came'
      <3>1. ASSUME ~(finalized' \/ overflow') PROVE ~flood /\ line_buf = came
        BY <1>1, <1>2, <1>6, <3>1 DEF TapMeasures
      <3> QED
        BY <1>1, <3>1
    <2> QED
      BY <1>1, <1>2, <1>3, <1>4, <2>1, <2>2 DEF TapMeasures
  <1>11. TapKeeps'
    <2>1. SUFFICES ASSUME Tap!Solo', ~overflow'
                   PROVE  /\ line_buf' = 0 <=> tap_line' = ""
                          /\ \E u \in 0..Len(tap_lines') : Fed(u)'
                          /\ (\E i \in Tap!Actors : tap_pc'[i] \in {"judging", "capturing"}) =>
                                FramesOf(tap_lines', frames', Len(tap_lines'))
      BY Zenon DEF TapKeeps
    <2>2. Tap!Solo /\ ~overflow /\ ~flood /\ ~cut
      BY <1>1, <1>6, <2>1 DEF Tap!Solo
    <2>3. line_buf' = line_buf
      BY <1>1, <2>2
    <2>4. (line_buf = 0 <=> tap_line = "") /\ \E u \in 0..Len(tap_lines) : Fed(u)
      BY <1>2, <2>2, Zenon DEF TapKeeps
    <2>5. PICK u \in 0..Len(tap_lines) : Fed(u)
      BY <2>4, Zenon
    <2>6. Fed(u)'
      BY <1>1, <1>5, <2>5, Zenon DEF Fed
    <2>7. \E v \in 0..Len(tap_lines') : Fed(v)'
      BY <1>1, <2>6, Zenon
    <2>8. tap_line' = tap_line
      BY <1>1
    <2>9. \A i \in Tap!Actors : tap_pc'[i] \notin {"judging", "capturing"}
      <3>1. \A i \in Tap!Actors : tap_pc[i] \notin {"judging", "capturing"}
        BY <1>1, <2>2, TapArrives
      <3> QED
        BY <1>4, <3>1, TwoActors
    <2> QED
      BY <2>3, <2>4, <2>7, <2>8, <2>9, Zenon
  <1>12. TapTells'
    BY <1>1, <1>5, TapSilent
  <1>13. TapHolds'
    <2>1. line_buf' <= TapLimit
      <3>1. CASE flood
        BY <1>1, <1>3, <3>1
      <3>2. CASE ~flood /\ tap_pc["reader"] = "feeding"
        <4>1. ~(line_buf > TapLimit)
          BY <3>2 DEF flood, Tap!Looked
        <4> QED
          BY <1>1, <1>3, <3>2, <4>1
      <3>3. CASE ~flood /\ tap_pc["reader"] # "feeding"
        BY <1>1, <1>2, <3>3 DEF TapHolds
      <3> QED
        BY <3>1, <3>2, <3>3
    <2> QED
      BY <1>1, <1>2, <2>1 DEF TapHolds
  <1>14. TapJudges'
    <2>1. \A i \in Tap!Actors : tap_pc'[i] = "capturing" => tap_pc[i] = "capturing"
      BY <1>4, TwoActors
    <2> QED
      BY <1>1, <1>5, <2>1, TapJudging
  <1> QED
    BY <1>7, <1>9, <1>10, <1>11, <1>12, <1>13, <1>14 DEF TapInv

\* Whoever goes on in finalize() uncut does so when the iteration is over.
LEMMA TapOver ==
  ASSUME TapInv, ~cut, NEW i \in Tap!Actors, tap_pc[i] \in Busy
  PROVE  tap_pc["reader"] \notin Iterating
  BY TapQuietSoFar

\* The trailing event is dispatched.
LEMMA TapFlushes ==
  ASSUME TapInv, NEW i \in Tap!Actors, Tap!Flush(i)
  PROVE  TapInv'
  <1> DEFINE d == Tap!Dispatched(cur_frame, frames, retained)
  <1>1. /\ UNCHANGED <<tap_provider, tap_lines, tap_line, came, too_long, line_buf, tap_complete,
                       finalized, whole, ended, cut, raced, tap_reported>>
        /\ tap_pc[i] = "flushing" /\ tap_pc' = [tap_pc EXCEPT ![i] = "judging"]
        /\ frames' = d.frames /\ retained' = d.retained /\ overflow' = (overflow \/ d.overflow)
        /\ cur_frame' = <<>>
    BY DEF Tap!Flush, Tap!At, Tap!Goes, Tap!wire, Tap!past
  <1>2. Tap!TypeOK /\ TapPlaces /\ TapMeasures /\ TapKeeps /\ TapJudges /\ TapTells /\ TapHolds
    BY DEF TapInv
  <1>3. /\ tap_lines \in Seq(Letters)
        /\ line_buf \in 0..TapLimit + 1 /\ came \in 0..TapLimit + 1 /\ retained \in Nat
        /\ cur_frame \in EventsOf(Letters) /\ frames \in Seq(EventsOf(Letters))
        /\ TapLimit \in Nat /\ MaxLines \in Nat
        /\ tap_pc \in [Tap!Actors -> TapPcs]
        /\ tap_complete \in BOOLEAN /\ overflow \in BOOLEAN /\ finalized \in BOOLEAN
        /\ too_long \in BOOLEAN /\ ended \in BOOLEAN /\ cut \in BOOLEAN /\ raced \in BOOLEAN
    BY <1>2, TapTypes
  <1>4. /\ d.frames \in Seq(EventsOf(Letters)) /\ d.retained \in Nat /\ d.overflow \in BOOLEAN
        /\ Tap!LinesIn(d.frames) \in 0..d.retained
        /\ d.frames = <<>> \/ d.retained <= TapLimit
        /\ ~d.overflow => Retains(d.frames, frames, cur_frame)
        /\ d.retained >= retained /\ (d.overflow => d.retained > TapLimit)
    BY <1>2, <1>3, DispatchedIs DEF TapHolds, EventsOf
  <1> HIDE DEF d
  <1>5. tap_pc'[i] = "judging" /\ (\A j \in Tap!Actors \ {i} : tap_pc'[j] = tap_pc[j])
        /\ tap_pc' \in [Tap!Actors -> TapPcs]
    BY <1>1, <1>3 DEF TapPcs
  <1>6. (overflow => overflow') /\ (~overflow' => ~d.overflow) /\ overflow' \in BOOLEAN
    BY <1>1, <1>3, <1>4
  <1>7. Tap!TypeOK'
    <2>1. <<>> \in EventsOf(Letters)
      BY DEF EventsOf
    <2>2. cur_frame' \in EventsOf(Letters) /\ frames' \in Seq(EventsOf(Letters))
            /\ retained' \in Nat
      BY <1>1, <1>4, <2>1
    <2>3. {tap_complete', overflow', finalized', too_long', ended', cut', raced'} \subseteq BOOLEAN
      BY <1>1, <1>3, <1>6
    <2> QED
      BY <1>1, <1>2, <1>5, <2>2, <2>3, Zenon DEF Tap!TypeOK, Letters, EventsOf, TapPcs
  <1>8. tap_pc[i] \in Busy \ {"capturing"} /\ tap_pc[i] \in Flagged
    BY <1>1 DEF Busy, Flagged
  <1>9. TapPlaces'
    <2>1. finalized = TRUE
      BY <1>2, <1>3, <1>8 DEF TapPlaces
    <2> QED
      BY <1>1, <1>5, <1>8, <2>1, TapFinalizes
  <1>10. /\ tap_pc'["reader"] = "feeding" <=> tap_pc["reader"] = "feeding"
         /\ tap_pc'["reader"] = "passing" <=> tap_pc["reader"] = "passing"
    BY <1>1, <1>5, TwoActors
  <1>11. TapMeasures'
    BY <1>1, <1>2, <1>3, <1>4, <1>6, <1>10 DEF TapMeasures
  <1>12. TapKeeps'
    <2>1. SUFFICES ASSUME Tap!Solo', ~overflow'
                   PROVE  /\ line_buf' = 0 <=> tap_line' = ""
                          /\ \E u \in 0..Len(tap_lines') : Fed(u)'
                          /\ (\E j \in Tap!Actors : tap_pc'[j] \in {"judging", "capturing"}) =>
                                FramesOf(tap_lines', frames', Len(tap_lines'))
      BY Zenon DEF TapKeeps
    <2>2. Tap!Solo /\ ~overflow /\ ~d.overflow /\ ~cut
      BY <1>1, <1>6, <2>1 DEF Tap!Solo
    <2>3. line_buf' = 0 <=> tap_line' = ""
      BY <1>1, <1>2, <2>2, Zenon DEF TapKeeps
    <2>4. PICK n \in Nat : n = Len(tap_lines)
      BY <1>3
    <2>5. PICK u \in 0..Len(tap_lines) : Fed(u)
      BY <1>2, <2>2, Zenon DEF TapKeeps
    <2>6. /\ cur_frame = [k \in 1..n - u |-> <<u + k, tap_lines[u + k]>>]
          /\ Unbroken(tap_lines, u + 1, n) /\ FramesOf(tap_lines, frames, u)
          /\ EndsEvent(tap_lines, u) \/ u = n
      BY <2>4, <2>5, Zenon DEF Fed
    <2>7. Retains(frames', frames, cur_frame)
      BY <1>1, <1>4, <2>2
    <2>8. u \in Nat /\ u <= n /\ n <= Len(tap_lines) /\ (u < n => EndsEvent(tap_lines, u))
      BY <2>4, <2>6
    <2>9. FramesOf(tap_lines, frames', n)
      BY <1>3, <2>4, <2>6, <2>7, <2>8, FramesClose
    <2>10. tap_pc'["reader"] \notin Iterating
      <3>1. tap_pc["reader"] \notin Iterating
        BY <1>8, <2>2, TapOver
      <3> QED
        BY <1>5, <3>1, TwoActors DEF Iterating
    <2>11. tap_lines' = tap_lines
      BY <1>1
    <2>12. cur_frame' = [k \in 1..n - n |-> <<n + k, tap_lines'[n + k]>>]
      <3>1. 1..n - n = {}
        OBVIOUS
      <3>2. <<>> = [k \in {} |-> <<n + k, tap_lines'[n + k]>>]
        OBVIOUS
      <3> QED
        BY <1>1, <3>1, <3>2, Zenon
    <2>13. Unbroken(tap_lines', n + 1, n)
      <3>1. n + 1..n = {}
        OBVIOUS
      <3> QED
        BY <3>1, Zenon DEF Unbroken
    <2>14. Fed(n)'
      BY <2>4, <2>9, <2>10, <2>11, <2>12, <2>13, Zenon DEF Fed
    <2>15. n \in 0..Len(tap_lines')
      BY <2>4, <2>11
    <2>16. FramesOf(tap_lines', frames', Len(tap_lines'))
      BY <2>4, <2>9, <2>11
    <2> QED
      BY <2>3, <2>14, <2>15, <2>16, Zenon
  <1>13. TapTells'
    <2>1. /\ tap_complete' = tap_complete /\ tap_reported' = tap_reported
          /\ Truthful' = Truthful /\ Tap!Untallied' = Tap!Untallied
      BY <1>1, Zenon DEF Truthful, Tap!Untallied, Tap!Usage, Tap!NoCount
    <2>2. Tap!Solo' = Tap!Solo
      BY <1>1 DEF Tap!Solo
    <2>3. IsSequence(tap_reported)'
      BY <1>2, <2>1, Zenon DEF TapTells, IsSequence
    <2> QED
      BY <1>2, <1>6, <2>1, <2>2, <2>3, Zenon DEF TapTells
  <1>14. TapHolds'
    BY <1>1, <1>2, <1>4, <1>10 DEF TapHolds
  <1>15. TapJudges'
    <2>1. SUFFICES ASSUME NEW j \in Tap!Actors
                   PROVE  /\ whole'[j] => tap_complete'
                          /\ Tap!Solo' /\ tap_pc'[j] = "capturing" =>
                                whole'[j] = (tap_complete' /\ ~overflow')
      BY Zenon DEF TapJudges
    <2>2. whole'[j] => tap_complete'
      BY <1>1, <1>2 DEF TapJudges
    <2>3. ASSUME ~raced', tap_pc'[j] = "capturing" PROVE FALSE
      <3>1. j \in Tap!Actors \ {i} /\ tap_pc[j] \in Busy /\ ~raced
        BY <1>1, <1>5, <2>3 DEF Busy
      <3> QED
        BY <1>2, <1>8, <3>1 DEF TapPlaces
    <2> QED
      BY <2>2, <2>3 DEF Tap!Solo
  <1> QED
    BY <1>7, <1>9, <1>11, <1>12, <1>13, <1>14, <1>15 DEF TapInv

\* What to make of it is judged.
LEMMA TapJudged ==
  ASSUME TapInv, NEW i \in Tap!Actors, Tap!Judge(i)
  PROVE  TapInv'
  <1>1. /\ UNCHANGED <<tap_provider, tap_lines, tap_line, came, too_long, line_buf, cur_frame,
                       frames, retained, overflow, tap_reported, tap_complete, finalized,
                       ended, cut, raced>>
        /\ tap_pc[i] = "judging" /\ tap_pc' = [tap_pc EXCEPT ![i] = "capturing"]
        /\ whole' = [whole EXCEPT ![i] = tap_complete /\ ~overflow]
    BY DEF Tap!Judge, Tap!At, Tap!Goes, Tap!wire, Tap!tap, Tap!past
  <1>2. Tap!TypeOK /\ TapPlaces /\ TapJudges
    BY DEF TapInv
  <1>3. /\ tap_pc \in [Tap!Actors -> TapPcs] /\ whole \in [Tap!Actors -> BOOLEAN]
        /\ tap_complete \in BOOLEAN /\ overflow \in BOOLEAN /\ finalized \in BOOLEAN
    BY <1>2, TapTypes
  <1>4. /\ tap_pc'[i] = "capturing" /\ \A j \in Tap!Actors \ {i} : tap_pc'[j] = tap_pc[j]
        /\ whole'[i] = (tap_complete /\ ~overflow)
        /\ \A j \in Tap!Actors \ {i} : whole'[j] = whole[j]
        /\ tap_pc' \in [Tap!Actors -> TapPcs] /\ whole' \in [Tap!Actors -> BOOLEAN]
    BY <1>1, <1>3 DEF TapPcs
  <1>5. Tap!TypeOK'
    BY <1>1, <1>2, <1>4, Zenon DEF Tap!TypeOK, TapPcs
  <1>6. tap_pc[i] \in Busy \ {"capturing"} /\ tap_pc[i] \in Flagged
    BY <1>1 DEF Busy, Flagged
  <1>7. TapPlaces'
    <2>1. finalized = TRUE
      BY <1>2, <1>3, <1>6 DEF TapPlaces
    <2> QED
      BY <1>1, <1>4, <1>6, <2>1, TapFinalizes
  <1>8. /\ tap_pc["reader"] \notin Iterating => tap_pc'["reader"] \notin Iterating
        /\ tap_pc["reader"] = "feeding" <=> tap_pc'["reader"] = "feeding"
        /\ tap_pc["reader"] = "passing" <=> tap_pc'["reader"] = "passing"
        /\ \A j \in Tap!Actors : tap_pc'[j] \in {"judging", "capturing"} =>
              tap_pc[j] \in {"judging", "capturing"}
    BY <1>1, <1>4, TwoActors DEF Iterating
  <1>9. TapMeasures' /\ TapKeeps' /\ TapTells' /\ TapHolds'
    BY <1>1, <1>8, TapQuiet
  <1>10. TapJudges'
    <2>1. SUFFICES ASSUME NEW j \in Tap!Actors
                   PROVE  /\ whole'[j] => tap_complete'
                          /\ Tap!Solo' /\ tap_pc'[j] = "capturing" =>
                                whole'[j] = (tap_complete' /\ ~overflow')
      BY Zenon DEF TapJudges
    <2>2. Tap!Solo' = Tap!Solo
      BY <1>1 DEF Tap!Solo
    <2>3. CASE j = i
      BY <1>1, <1>4, <2>3
    <2>4. CASE j # i
      BY <1>1, <1>2, <1>4, <2>2, <2>4 DEF TapJudges
    <2> QED
      BY <2>3, <2>4
  <1> QED
    BY <1>5, <1>7, <1>9, <1>10 DEF TapInv

\* finalize() reports.
LEMMA TapReports ==
  ASSUME TapInv, NEW i \in Tap!Actors, Tap!Capture(i)
  PROVE  TapInv'
  <1> DEFINE told == Tap!capture_stream_usage(frames, whole[i])
  <1>1. /\ UNCHANGED <<tap_provider, tap_lines, tap_line, came, too_long, line_buf, cur_frame,
                       frames, retained, overflow, tap_complete, finalized, whole,
                       ended, cut, raced>>
        /\ tap_pc[i] = "capturing" /\ tap_pc' = [tap_pc EXCEPT ![i] = "done"]
        /\ tap_reported' = Append(tap_reported, told)
    BY DEF Tap!Capture, Tap!At, Tap!Goes, Tap!wire, Tap!tap, Tap!past
  <1> HIDE DEF told
  <1>2. Tap!TypeOK /\ TapPlaces /\ TapMeasures /\ TapKeeps /\ TapJudges /\ TapTells /\ TapHolds
    BY DEF TapInv
  <1>3. /\ tap_lines \in Seq(Letters) /\ frames \in Seq(EventsOf(Letters))
        /\ tap_pc \in [Tap!Actors -> TapPcs] /\ Len(tap_reported) <= 2
        /\ whole \in [Tap!Actors -> BOOLEAN] /\ tap_complete \in BOOLEAN /\ overflow \in BOOLEAN
    BY <1>2, TapTypes
  <1>4. tap_pc'[i] = "done" /\ (\A j \in Tap!Actors \ {i} : tap_pc'[j] = tap_pc[j])
        /\ tap_pc' \in [Tap!Actors -> TapPcs]
    BY <1>1, <1>3 DEF TapPcs
  <1>5. /\ Len(tap_reported') = Len(tap_reported) + 1 /\ Len(tap_reported) \in Nat
        /\ \A n \in 1..Len(tap_reported) : tap_reported'[n] = tap_reported[n]
        /\ tap_reported'[Len(tap_reported) + 1] = told
        /\ tap_reported = <<>> <=> Len(tap_reported) = 0
        /\ IsSequence(tap_reported')
    BY <1>1, <1>2, SequenceGrows DEF TapTells
  <1>6. tap_pc[i] \in Busy /\ tap_pc[i] \in Flagged
    BY <1>1 DEF Busy, Flagged
  <1>7. /\ Len(tap_reported) <= 1
        /\ ~raced => tap_reported = <<>>
        /\ Len(tap_reported) = 1 => \E j \in Tap!Actors \ {i} : tap_pc[j] = "done"
    <2>1. tap_pc[i] # "done"
      BY <1>1
    <2>2. ~(Len(tap_reported) > 1)
      BY <1>2, <2>1 DEF TapPlaces
    <2>3. ~raced => tap_reported = <<>>
      BY <1>2, <1>6 DEF TapPlaces
    <2>4. tap_reported # <<>> => \E j \in Tap!Actors : tap_pc[j] = "done"
      BY <1>2 DEF TapPlaces
    <2> QED
      BY <1>5, <2>1, <2>2, <2>3, <2>4
  <1>8. Tap!TypeOK'
    <2>1. Len(tap_reported') <= 2
      BY <1>5, <1>7
    <2> QED
      BY <1>1, <1>2, <1>4, <2>1, Zenon DEF Tap!TypeOK, TapPcs
  <1>9. TapPlaces'
    <2>1. finalized' <=> \E j \in Tap!Actors : tap_pc'[j] \in Flagged
      BY <1>1, <1>2, <1>4, <1>6 DEF TapPlaces, Flagged
    <2>2. \E j \in Tap!Actors : tap_pc'[j] = "done"
      BY <1>4
    <2>3. Len(tap_reported') > 1 => \A j \in Tap!Actors : tap_pc'[j] = "done"
      <3>1. SUFFICES ASSUME Len(tap_reported') > 1 PROVE \A j \in Tap!Actors : tap_pc'[j] = "done"
        OBVIOUS
      <3>2. Len(tap_reported) = 1
        <4>1. PICK m \in Nat : m = Len(tap_reported)
          BY <1>5
        <4>2. m <= 1 /\ Len(tap_reported') = m + 1
          BY <1>5, <1>7, <4>1
        <4>3. m + 1 > 1
          BY <3>1, <4>2
        <4>4. m = 1
          BY <4>2, <4>3
        <4> QED
          BY <4>1, <4>4
      <3>3. PICK j \in Tap!Actors \ {i} : tap_pc[j] = "done"
        BY <1>7, <3>2
      <3>4. Tap!Actors = {i, j}
        BY <3>3, TwoActors
      <3> QED
        BY <1>4, <3>3, <3>4
    <2>4. ~raced' => /\ Len(tap_reported') <= 1
                     /\ \A k \in Tap!Actors : tap_pc'[k] \in Busy =>
                           /\ tap_reported' = <<>>
                           /\ \A j \in Tap!Actors \ {k} : tap_pc'[j] \notin Busy
      <3>1. SUFFICES ASSUME ~raced'
                     PROVE  /\ Len(tap_reported') <= 1
                            /\ \A k \in Tap!Actors : tap_pc'[k] \notin Busy
        OBVIOUS
      <3>2. ~raced
        BY <1>1, <3>1
      <3>3. Len(tap_reported') <= 1
        BY <1>5, <1>7, <3>2
      <3>4. \A j \in Tap!Actors \ {i} : tap_pc[j] \notin Busy
        BY <1>2, <1>6, <3>2 DEF TapPlaces
      <3> QED
        BY <1>4, <3>3, <3>4 DEF Busy
    <2>5. /\ tap_complete' => ended' /\ tap_pc'["reader"] \notin Iterating
          /\ ended' <=> tap_complete' \/ tap_pc'["reader"] = "ending"
          /\ ~cut' /\ tap_pc'["reader"] \in Iterating => tap_pc'["closer"] \in {"idle", "finalize"}
          /\ tap_pc'["closer"] \in {"idle", "finalize", "done"} \cup Busy
      BY <1>1, <1>2, <1>4, TwoActors DEF TapPlaces, Iterating
    <2> QED
      BY <2>1, <2>2, <2>3, <2>4, <2>5, Zenon DEF TapPlaces
  <1>10. /\ tap_pc["reader"] \notin Iterating => tap_pc'["reader"] \notin Iterating
         /\ tap_pc["reader"] = "feeding" <=> tap_pc'["reader"] = "feeding"
         /\ tap_pc["reader"] = "passing" <=> tap_pc'["reader"] = "passing"
         /\ \A j \in Tap!Actors : tap_pc'[j] \in {"judging", "capturing"} => tap_pc'[j] = tap_pc[j]
    BY <1>1, <1>4, TwoActors DEF Iterating
  <1>11. TapMeasures' /\ TapHolds'
    BY <1>1, <1>2, <1>10 DEF TapMeasures, TapHolds
  <1>12. TapKeeps'
    <2>1. SUFFICES ASSUME Tap!Solo', ~overflow'
                   PROVE  /\ line_buf' = 0 <=> tap_line' = ""
                          /\ \E u \in 0..Len(tap_lines') : Fed(u)'
                          /\ (\E j \in Tap!Actors : tap_pc'[j] \in {"judging", "capturing"}) =>
                                FramesOf(tap_lines', frames', Len(tap_lines'))
      BY Zenon DEF TapKeeps
    <2>2. Tap!Solo /\ ~overflow
      BY <1>1, <2>1 DEF Tap!Solo
    <2>3. /\ line_buf = 0 <=> tap_line = ""
          /\ \E u \in 0..Len(tap_lines) : Fed(u)
          /\ (\E j \in Tap!Actors : tap_pc[j] \in {"judging", "capturing"}) =>
                FramesOf(tap_lines, frames, Len(tap_lines))
      BY <1>2, <2>2, Zenon DEF TapKeeps
    <2>4. PICK u \in 0..Len(tap_lines) : Fed(u)
      BY <2>3, Zenon
    <2>5. Fed(u)'
      BY <1>1, <1>10, <2>4, Zenon DEF Fed
    <2>6. (\E j \in Tap!Actors : tap_pc'[j] \in {"judging", "capturing"})
            => \E j \in Tap!Actors : tap_pc[j] \in {"judging", "capturing"}
      BY <1>10
    <2>7. tap_lines' = tap_lines /\ line_buf' = line_buf /\ tap_line' = tap_line /\ frames' = frames
      BY <1>1
    <2> QED
      BY <2>3, <2>5, <2>6, <2>7, Zenon
  <1>13. TapJudges'
    BY <1>1, <1>10, TapJudging
  <1>14. /\ told # Tap!Untallied => tap_complete
         /\ Tap!Solo => told = IF tap_complete /\ ~overflow THEN Truthful ELSE Tap!Untallied
    <2>1. CASE ~whole[i]
      <3>1. told = Tap!Untallied
        BY <2>1, Zenon DEF told, Tap!capture_stream_usage
      <3>2. Tap!Solo => ~(tap_complete /\ ~overflow)
        BY <1>1, <1>2, <2>1 DEF TapJudges
      <3> QED
        BY <3>1, <3>2
    <2>2. CASE whole[i]
      <3>1. tap_complete /\ whole[i] = TRUE
        BY <1>2, <1>3, <2>2 DEF TapJudges
      <3>2. ASSUME Tap!Solo PROVE ~overflow /\ told = Truthful
        <4>1. ~overflow
          BY <1>1, <1>2, <2>2, <3>2 DEF TapJudges
        <4>2. FramesOf(tap_lines, frames, Len(tap_lines))
          <5>1. \E j \in Tap!Actors : tap_pc[j] \in {"judging", "capturing"}
            BY <1>1
          <5> QED
            BY <1>2, <3>2, <4>1, <5>1, Zenon DEF TapKeeps
        <4>3. Tap!capture_stream_usage(frames, TRUE) = Truthful
          BY <1>2, <1>3, <4>2, Captured DEF Truthful
        <4> QED
          BY <3>1, <4>1, <4>3, Zenon DEF told
      <3> QED
        BY <3>1, <3>2
    <2> QED
      BY <2>1, <2>2
  <1>15. TapTells'
    <2>1. /\ tap_complete' = tap_complete /\ overflow' = overflow
          /\ Truthful' = Truthful /\ Tap!Untallied' = Tap!Untallied
      BY <1>1, Zenon DEF Truthful, Tap!Untallied, Tap!Usage, Tap!NoCount
    <2>2. Tap!Solo' = Tap!Solo
      BY <1>1 DEF Tap!Solo
    <2>3. ASSUME NEW n \in 1..Len(tap_reported'), tap_reported'[n] # Tap!Untallied
          PROVE  tap_complete /\ (Tap!Solo => tap_reported'[n] = Truthful)
      <3>1. n \in 1..Len(tap_reported) \/ n = Len(tap_reported) + 1
        BY <1>5
      <3>2. CASE n \in 1..Len(tap_reported)
        <4>1. tap_reported'[n] = tap_reported[n]
          BY <1>5, <3>2, Zenon
        <4>2. tap_reported[n] # Tap!Untallied =>
                tap_complete /\ (Tap!Solo => tap_reported[n] = Truthful)
          BY <1>2, <3>2, Zenon DEF TapTells
        <4> QED
          BY <2>3, <4>1, <4>2, Zenon
      <3>3. CASE n = Len(tap_reported) + 1
        <4>1. tap_reported'[n] = told
          BY <1>5, <3>3, Zenon
        <4>2. told # Tap!Untallied
          BY <2>3, <4>1
        <4> QED
          BY <1>14, <4>1, <4>2
      <3> QED
        BY <3>1, <3>2, <3>3
    <2>4. ASSUME Tap!Solo, tap_complete, ~overflow PROVE tap_reported'[1] = Truthful
      <3>1. tap_reported = <<>>
        BY <1>7, <2>4 DEF Tap!Solo
      <3>2. tap_reported'[1] = told
        BY <1>5, <3>1
      <3> QED
        BY <1>14, <2>4, <3>2
    <2> QED
      BY <1>5, <2>1, <2>2, <2>3, <2>4, Zenon DEF TapTells
  <1> QED
    BY <1>8, <1>9, <1>11, <1>12, <1>13, <1>15 DEF TapInv

\* Every step of a tap keeps its invariant.
LEMMA TapMoves == TapInv /\ Tap!Next => TapInv'
  <1> SUFFICES ASSUME TapInv, Tap!Next PROVE TapInv'
    OBVIOUS
  <1>1. CASE Tap!Iteration
    BY <1>1, TapReads, TapPieces, TapEndsLine, TapChunkEnds DEF Tap!Iteration
  <1>2. CASE ~Tap!Iteration
    BY <1>2, TapCloses, TapFlushes, TapJudged, TapReports DEF Tap!Next, Tap!Finalize
  <1> QED
    BY <1>1, <1>2

\* While others move, a tap stays as it is.
LEMMA TapRests == TapInv /\ UNCHANGED tapVars => TapInv'
  <1> SUFFICES ASSUME TapInv, UNCHANGED tapVars PROVE TapInv'
    OBVIOUS
  <1>1. TapMeasures' /\ TapKeeps' /\ TapTells' /\ TapHolds'
    BY TapQuiet DEF tapVars
  <1>2. TapJudges'
    BY TapJudging DEF tapVars
  <1>3. Tap!TypeOK'
    BY Zenon DEF TapInv, Tap!TypeOK, tapVars
  <1>4. TapPlaces'
    BY Zenon DEF TapInv, TapPlaces, tapVars
  <1> QED
    BY <1>1, <1>2, <1>3, <1>4 DEF TapInv

\* The invariant is what is promised of a tap, and more.
LEMMA TapKept == TapInv => Tap!TapHonest /\ Tap!TapBounded
  <1> SUFFICES ASSUME TapInv PROVE Tap!TapHonest /\ Tap!TapBounded
    OBVIOUS
  <1>1. Tap!TypeOK /\ TapPlaces /\ TapMeasures /\ TapTells /\ TapHolds
    BY DEF TapInv
  <1>2. Len(tap_reported) \in Nat
    BY <1>1 DEF TapTells, IsSequence
  <1>3. Len(tap_reported) > 1 => raced
    BY <1>1, <1>2 DEF TapPlaces
  <1>4. ASSUME Tap!Solo, ended, tap_reported # <<>> PROVE tap_complete
    <2>1. ~cut
      BY <1>4 DEF Tap!Solo
    <2>2. tap_pc["reader"] \notin Iterating
      BY <1>4, <2>1, TapQuietSoFar
    <2> QED
      BY <1>1, <1>4, <2>2 DEF TapPlaces, Iterating
  <1>5. tap_complete => ended
    BY <1>1 DEF TapPlaces
  <1>6. Tap!TapHonest
    BY <1>1, <1>3, <1>4, <1>5, Zenon DEF Tap!TapHonest, TapTells, TapMeasures, Truthful
  <1>7. Tap!TapBounded
    <2>1. retained \in Nat /\ TapLimit \in Nat
      BY <1>1, TapTypes
    <2>2. Tap!LinesIn(frames) <= TapLimit
      <3>1. CASE frames = <<>>
        BY <2>1, <3>1, SumsNone
      <3>2. CASE retained <= TapLimit
        BY <1>1, <2>1, <3>2 DEF TapHolds
      <3> QED
        BY <1>1, <3>1, <3>2 DEF TapHolds
    <2>3. tap_pc["reader"] \notin {"feeding", "passing"} => line_buf <= TapLimit
      BY <1>1 DEF TapHolds
    <2> QED
      BY <2>2, <2>3 DEF Tap!TapBounded
  <1> QED
    BY <1>6, <1>7

-------------------------------------------------------------------------------
(* The JavaScript reader. *)

\* SseEvents has one meaning for both readers.
LEMMA SameEvents ==
  /\ \A ls, i : Tee!Sole(ls, i) <=> Tap!Sole(ls, i)
  /\ \A ls, kinds : Tee!Soles(ls, kinds) = Tap!Soles(ls, kinds)
  /\ \A X : Tee!Latest(X) = Tap!Latest(X)
  /\ \A l : Tee!IsData(l) <=> Tap!IsData(l)
  <1>1. \A ls, i, j : Tee!SameEvent(ls, i, j) <=> Tap!SameEvent(ls, i, j)
    BY Zenon DEF Tee!SameEvent, Tap!SameEvent
  <1>2. \A l : Tee!IsData(l) <=> Tap!IsData(l)
    BY Zenon DEF Tee!IsData, Tap!IsData
  <1>3. \A ls, i : Tee!Sole(ls, i) <=> Tap!Sole(ls, i)
    BY <1>1, <1>2, Zenon DEF Tee!Sole, Tap!Sole
  <1>4. \A ls, kinds : Tee!Soles(ls, kinds) = Tap!Soles(ls, kinds)
    BY <1>3 DEF Tee!Soles, Tap!Soles
  <1>5. \A X : Tee!Latest(X) = Tap!Latest(X)
    BY Zenon DEF Tee!Latest, Tap!Latest, Tee!NoCount, Tap!NoCount
  <1> QED
    BY <1>2, <1>3, <1>4, <1>5

\* Of the first lines, those of some kinds that are all the data of their event.
SolesUpTo(ls, kinds, n) == {i \in 1..n : ls[i] \in kinds /\ Tap!Sole(ls, i)}

\* What the state of the reader says of the events of the first lines.
Counts(acc, ls, n) ==
  /\ acc.usage = Tee!Usage(Tap!Latest(SolesUpTo(ls, {"both", "in", "start"}, n)),
                           Tap!Latest(SolesUpTo(ls, {"both", "delta"}, n)))
  /\ acc.terminal = (SolesUpTo(ls, {"both", "in", "delta"}, n) # {})

\* What the reader has of the event that is coming in, of lines u + 1 to n.
Gathers(d, ls, u, n) ==
  /\ IsSequence(d)
  /\ \A k \in 1..Len(d) : \E i \in u + 1..n : Tap!IsData(ls[i]) /\ d[k] = <<i, ls[i]>>
  /\ \A i \in u + 1..n : Tap!IsData(ls[i]) => \E k \in 1..Len(d) : d[k] = <<i, ls[i]>>
  /\ \A j, k \in 1..Len(d) : d[j] = d[k] => j = k

\* None of these lines is blank.
NoneBlank(kinds) == "" \notin kinds

\* Another line changes nothing about the lines of the events before.
LEMMA SolesStay ==
  ASSUME NEW S, NEW ls \in Seq(S), NEW e \in S, NEW u \in 0..Len(ls), EndsEvent(ls, u),
         NEW kinds, NoneBlank(kinds)
  PROVE  SolesUpTo(Append(ls, e), kinds, u) = SolesUpTo(ls, kinds, u)
  <1> DEFINE n == Len(ls)
             ms == Append(ls, e)
  <1>1. n \in Nat /\ DOMAIN ls = 1..n /\ DOMAIN ms = 1..n + 1 /\ \A i \in 1..n : ms[i] = ls[i]
    OBVIOUS
  <1> HIDE DEF n, ms
  <1>2. \A i \in 1..u : i \in 1..n
    BY <1>1 DEF n
  <1>3. ASSUME NEW i \in 1..u, ls[i] # "" PROVE ~Tap!SameEvent(ms, i, n + 1)
    <2>1. u \in 1..n /\ i <= u /\ u <= n + 1 /\ n + 1 \in DOMAIN ms /\ u \in DOMAIN ms
      BY <1>1 DEF n
    <2>2. u # 0
      BY <2>1
    <2>3. ms[u] = ""
      BY <1>1, <2>1, <2>2, Zenon DEF EndsEvent
    <2> QED
      BY <2>1, <2>3, Zenon DEF Tap!SameEvent
  <1>4. ASSUME NEW i \in 1..n, NEW j \in 1..n
        PROVE  Tap!SameEvent(ms, i, j) <=> Tap!SameEvent(ls, i, j)
    <2>1. \A k \in 1..n + 1 : (i <= k /\ k <= j) \/ (j <= k /\ k <= i) => k \in 1..n
      BY <1>1
    <2>2. \A k \in 1..n : k \in 1..n + 1
      BY <1>1
    <2> QED
      BY <1>1, <2>1, <2>2, Zenon DEF Tap!SameEvent
  <1>5. ASSUME NEW i \in 1..u, ls[i] # "" PROVE Tap!Sole(ms, i) <=> Tap!Sole(ls, i)
    <2>1. \A j \in 1..n + 1 : j \in 1..n \/ j = n + 1
      BY <1>1
    <2>2. \A j \in 1..n : j \in 1..n + 1
      BY <1>1
    <2>3. i \in 1..n /\ ms[i] = ls[i]
      BY <1>1, <1>2
    <2>4. ~Tap!SameEvent(ms, i, n + 1)
      BY <1>3, <1>5
    <2>5. (\A j \in DOMAIN ms : j # i /\ Tap!SameEvent(ms, i, j) => ~Tap!IsData(ms[j]))
            <=> (\A j \in DOMAIN ls : j # i /\ Tap!SameEvent(ls, i, j) => ~Tap!IsData(ls[j]))
      BY <1>1, <1>4, <2>1, <2>2, <2>3, <2>4, Zenon
    <2> QED
      BY <2>3, <2>5, Zenon DEF Tap!Sole
  <1>6. \A i \in 1..u : ms[i] = ls[i]
    BY <1>1, <1>2
  <1>7. \A i \in 1..u : ls[i] \in kinds => ls[i] # ""
    BY Zenon DEF NoneBlank
  <1>8. \A i \in 1..u : (ms[i] \in kinds /\ Tap!Sole(ms, i))
          <=> (ls[i] \in kinds /\ Tap!Sole(ls, i))
    BY <1>5, <1>6, <1>7, Zenon
  <1> QED
    BY <1>8, Zenon DEF SolesUpTo, ms

\* Nor about what the reader has counted of them.
LEMMA CountsStay ==
  ASSUME NEW S, NEW ls \in Seq(S), NEW e \in S, NEW u \in 0..Len(ls), EndsEvent(ls, u),
         NEW acc, Counts(acc, ls, u)
  PROVE  Counts(acc, Append(ls, e), u)
  <1>1. NoneBlank({"both", "in", "start"}) /\ NoneBlank({"both", "delta"})
          /\ NoneBlank({"both", "in", "delta"})
    BY DEF NoneBlank
  <1>2. /\ SolesUpTo(Append(ls, e), {"both", "in", "start"}, u) = SolesUpTo(ls, {"both", "in", "start"}, u)
        /\ SolesUpTo(Append(ls, e), {"both", "delta"}, u) = SolesUpTo(ls, {"both", "delta"}, u)
        /\ SolesUpTo(Append(ls, e), {"both", "in", "delta"}, u) = SolesUpTo(ls, {"both", "in", "delta"}, u)
    BY <1>1, SolesStay
  <1> QED
    BY <1>2, Zenon DEF Counts

\* The end of an event: at most one of its lines is all its data, the one that the reader
\* has if it has one.
LEMMA EventGathered ==
  ASSUME NEW S, NEW ls \in Seq(S), NEW u \in Nat, NEW n \in Nat, u <= n, n <= Len(ls),
         EndsEvent(ls, u), EndsEvent(ls, n + 1) \/ n = Len(ls), Unbroken(ls, u + 1, n),
         NEW d, Gathers(d, ls, u, n)
  PROVE  /\ Len(d) = 1 => /\ d[1][1] \in u + 1..n /\ d[1][2] = ls[d[1][1]] /\ Tap!Sole(ls, d[1][1])
                          /\ \A i \in u + 1..n : Tap!Sole(ls, i) => i = d[1][1]
         /\ Len(d) # 1 => \A i \in u + 1..n : ~Tap!Sole(ls, i)
  <1>0. Len(d) \in Nat
    BY DEF Gathers, IsSequence
  <1>1. ASSUME NEW i \in u + 1..n, NEW j \in DOMAIN ls
        PROVE  Tap!SameEvent(ls, i, j) <=> j \in u + 1..n
    <2> DEFINE frame == [k \in 1..n - u |-> <<u + k, ls[u + k]>>]
    <2>1. u < n
      OBVIOUS
    <2>2. EventAt(ls, frame, u + 1, n)
      BY <2>1, CurrentEvent
    <2> HIDE DEF frame
    <2> QED
      BY <2>2, EventShares
  <1>2. \A i \in u + 1..n : i \in DOMAIN ls
    OBVIOUS
  <1>3. ASSUME Len(d) = 1
        PROVE  /\ d[1][1] \in u + 1..n /\ d[1][2] = ls[d[1][1]] /\ Tap!Sole(ls, d[1][1])
               /\ \A i \in u + 1..n : Tap!Sole(ls, i) => i = d[1][1]
    <2>1. 1 \in 1..Len(d) /\ \A k \in 1..Len(d) : k = 1
      BY <1>3
    <2>2. PICK i \in u + 1..n : Tap!IsData(ls[i]) /\ d[1] = <<i, ls[i]>>
      BY <2>1 DEF Gathers
    <2>3. d[1][1] = i /\ d[1][2] = ls[i]
      BY <2>2
    <2>4. ASSUME NEW j \in u + 1..n, Tap!IsData(ls[j]) PROVE j = i
      <3>1. d[1] = <<j, ls[j]>>
        BY <2>1, <2>4 DEF Gathers
      <3> QED
        BY <2>2, <3>1
    <2>5. Tap!Sole(ls, i)
      BY <1>1, <2>2, <2>4, Zenon DEF Tap!Sole
    <2>6. \A j \in u + 1..n : Tap!Sole(ls, j) => j = i
      BY <2>4, Zenon DEF Tap!Sole
    <2> QED
      BY <2>2, <2>3, <2>5, <2>6
  <1>4. ASSUME Len(d) # 1, NEW i \in u + 1..n, Tap!Sole(ls, i) PROVE FALSE
    <2>1. PICK k \in 1..Len(d) : d[k] = <<i, ls[i]>>
      BY <1>4 DEF Gathers, Tap!Sole
    <2>2. ASSUME NEW j \in 1..Len(d) PROVE j = k
      <3>1. PICK h \in u + 1..n : Tap!IsData(ls[h]) /\ d[j] = <<h, ls[h]>>
        BY DEF Gathers
      <3>2. h = i
        BY <1>1, <1>2, <1>4, <3>1, Zenon DEF Tap!Sole
      <3> QED
        BY <2>1, <3>1, <3>2 DEF Gathers
    <2>3. 1 \in 1..Len(d) /\ Len(d) \in 1..Len(d)
      BY <1>0, <2>1
    <2>4. Len(d) = 1
      BY <2>2, <2>3
    <2> QED
      BY <1>4, <2>4
  <1> QED
    BY <1>3, <1>4

\* A state of the reader.
IsReading(acc) ==
  /\ acc = [data |-> acc.data, usage |-> acc.usage, terminal |-> acc.terminal]
  /\ acc.terminal \in BOOLEAN

\* The lines, up to the end of an event, that are all the data of theirs: those up to its
\* beginning, and its own if it has one.
LEMMA SolesGain ==
  ASSUME NEW ls, NEW u \in Nat, NEW n \in Nat, u <= n, NEW i \in u + 1..n, Tap!Sole(ls, i),
         \A j \in u + 1..n : Tap!Sole(ls, j) => j = i, NEW kinds
  PROVE  /\ ls[i] \in kinds => /\ SolesUpTo(ls, kinds, n) = SolesUpTo(ls, kinds, u) \cup {i}
                               /\ Tap!Latest(SolesUpTo(ls, kinds, n)) = i
         /\ ls[i] \notin kinds => SolesUpTo(ls, kinds, n) = SolesUpTo(ls, kinds, u)
  <1>1. \A j \in 1..n : j \in 1..u \/ j \in u + 1..n
    OBVIOUS
  <1>2. \A j \in 1..u : j \in 1..n
    OBVIOUS
  <1>3. i \in 1..n
    OBVIOUS
  <1>4. ASSUME ls[i] \in kinds PROVE SolesUpTo(ls, kinds, n) = SolesUpTo(ls, kinds, u) \cup {i}
    BY <1>1, <1>2, <1>3, <1>4 DEF SolesUpTo
  <1>5. ASSUME ls[i] \notin kinds PROVE SolesUpTo(ls, kinds, n) = SolesUpTo(ls, kinds, u)
    BY <1>1, <1>2, <1>3, <1>5 DEF SolesUpTo
  <1>6. ASSUME ls[i] \in kinds PROVE Tap!Latest(SolesUpTo(ls, kinds, n)) = i
    <2> DEFINE X == SolesUpTo(ls, kinds, n)
    <2>1. X \in SUBSET Nat
      BY DEF SolesUpTo
    <2>2. i \in X
      BY <1>4, <1>6
    <2>3. \A j \in X : j <= i
      <3>1. \A j \in SolesUpTo(ls, kinds, u) : j \in 1..u
        BY DEF SolesUpTo
      <3>2. \A j \in 1..u : j <= i
        OBVIOUS
      <3> QED
        BY <1>4, <1>6, <3>1, <3>2
    <2> HIDE DEF X
    <2> QED
      BY <2>1, <2>2, <2>3, LatestIs DEF X
  <1> QED
    BY <1>4, <1>5, <1>6

\* None of the lines after the first u is all the data of its event.
LEMMA SolesNoMore ==
  ASSUME NEW ls, NEW u \in Nat, NEW n \in Nat, u <= n, \A j \in u + 1..n : ~Tap!Sole(ls, j),
         NEW kinds
  PROVE  SolesUpTo(ls, kinds, n) = SolesUpTo(ls, kinds, u)
  <1>1. \A j \in 1..n : j \in 1..u \/ j \in u + 1..n
    OBVIOUS
  <1>2. \A j \in 1..u : j \in 1..n
    OBVIOUS
  <1> QED
    BY <1>1, <1>2 DEF SolesUpTo

\* At the end of an event the reader has counted it.
LEMMA AppliedRight ==
  ASSUME NEW S, NEW ls \in Seq(S), NEW u \in Nat, NEW n \in Nat, u <= n, n <= Len(ls),
         EndsEvent(ls, u), EndsEvent(ls, n + 1) \/ n = Len(ls), Unbroken(ls, u + 1, n),
         NEW acc, IsReading(acc), Gathers(acc.data, ls, u, n), Counts(acc, ls, u)
  PROVE  IsReading(Tee!Applied(acc)) /\ Tee!Applied(acc).data = <<>>
         /\ Counts(Tee!Applied(acc), ls, n)
  <1> DEFINE d == acc.data
             after == Tee!Applied(acc)
             In == {"both", "in", "start"}
             Out == {"both", "delta"}
             End == {"both", "in", "delta"}
  <1>1. /\ Len(d) = 1 => /\ d[1][1] \in u + 1..n /\ d[1][2] = ls[d[1][1]] /\ Tap!Sole(ls, d[1][1])
                         /\ \A i \in u + 1..n : Tap!Sole(ls, i) => i = d[1][1]
        /\ Len(d) # 1 => \A i \in u + 1..n : ~Tap!Sole(ls, i)
    BY EventGathered
  <1>2. CASE Len(d) # 1
    <2>1. after = [acc EXCEPT !.data = <<>>]
      BY <1>2, Zenon DEF Tee!Applied
    <2>2. after.data = <<>> /\ after.usage = acc.usage /\ after.terminal = acc.terminal
          /\ IsReading(after)
      BY <2>1 DEF IsReading
    <2> HIDE DEF after
    <2>3. \A kinds : SolesUpTo(ls, kinds, n) = SolesUpTo(ls, kinds, u)
      BY <1>1, <1>2, SolesNoMore
    <2>4. Counts(after, ls, n)
      BY <2>2, <2>3, Zenon DEF Counts
    <2> QED
      BY <2>2, <2>4 DEF after
  <1>3. CASE Len(d) = 1
    <2> DEFINE i == d[1][1]
               kind == d[1][2]
    <2>1. i \in u + 1..n /\ kind = ls[i] /\ Tap!Sole(ls, i) /\ \A j \in u + 1..n : Tap!Sole(ls, j)
            => j = i
      BY <1>1, <1>3
    <2>2. after = [data |-> <<>>,
                   usage |-> Tee!Usage(IF kind \in In THEN i ELSE acc.usage.input,
                                       IF kind \in Out THEN i ELSE acc.usage.output),
                   terminal |-> acc.terminal \/ kind \in End]
      BY <1>3, Zenon DEF Tee!Applied
    <2> HIDE DEF i, kind, In, Out, End
    <2>3. after.data = <<>> /\ IsReading(after)
          /\ after.usage = Tee!Usage(IF kind \in In THEN i ELSE acc.usage.input,
                                     IF kind \in Out THEN i ELSE acc.usage.output)
          /\ after.terminal = (acc.terminal \/ kind \in End)
      BY <2>2 DEF IsReading
    <2> HIDE DEF after
    <2>4. /\ acc.usage = Tee!Usage(Tap!Latest(SolesUpTo(ls, In, u)), Tap!Latest(SolesUpTo(ls, Out, u)))
          /\ acc.terminal = (SolesUpTo(ls, End, u) # {})
      BY Zenon DEF Counts, In, Out, End
    <2>5. acc.usage.input = Tap!Latest(SolesUpTo(ls, In, u))
            /\ acc.usage.output = Tap!Latest(SolesUpTo(ls, Out, u))
      BY <2>4 DEF Tee!Usage
    <2>6. \A kinds : /\ ls[i] \in kinds => /\ SolesUpTo(ls, kinds, n) = SolesUpTo(ls, kinds, u) \cup {i}
                                           /\ Tap!Latest(SolesUpTo(ls, kinds, n)) = i
                     /\ ls[i] \notin kinds => SolesUpTo(ls, kinds, n) = SolesUpTo(ls, kinds, u)
      BY <2>1, SolesGain
    <2>7. (IF kind \in In THEN i ELSE acc.usage.input) = Tap!Latest(SolesUpTo(ls, In, n))
      BY <2>1, <2>5, <2>6
    <2>8. (IF kind \in Out THEN i ELSE acc.usage.output) = Tap!Latest(SolesUpTo(ls, Out, n))
      BY <2>1, <2>5, <2>6
    <2>9. (acc.terminal \/ kind \in End) = (SolesUpTo(ls, End, n) # {})
      <3>1. CASE ls[i] \in End
        BY <2>1, <2>6, <3>1
      <3>2. CASE ls[i] \notin End
        <4>1. acc.terminal \in BOOLEAN
          BY DEF IsReading
        <4> QED
          BY <2>1, <2>4, <2>6, <3>2, <4>1
      <3> QED
        BY <3>1, <3>2
    <2>10. Counts(after, ls, n)
      BY <2>3, <2>7, <2>8, <2>9, Zenon DEF Counts, In, Out, End
    <2> QED
      BY <2>3, <2>10 DEF after
  <1> QED
    BY <1>2, <1>3

\* A blank line is no count.
LEMMA CountsBlank ==
  ASSUME NEW ls, NEW n \in Nat, EndsEvent(ls, n + 1), NEW acc, Counts(acc, ls, n)
  PROVE  Counts(acc, ls, n + 1)
  <1>1. ASSUME NEW kinds, NoneBlank(kinds)
          PROVE SolesUpTo(ls, kinds, n + 1) = SolesUpTo(ls, kinds, n)
    <2>1. n + 1 # 0 /\ (\A j \in 1..n + 1 : j \in 1..n \/ j = n + 1)
            /\ \A j \in 1..n : j \in 1..n + 1
      OBVIOUS
    <2>2. ls[n + 1] \notin kinds
      BY <1>1, <2>1, Zenon DEF EndsEvent, NoneBlank
    <2> QED
      BY <2>1, <2>2 DEF SolesUpTo
  <1>2. NoneBlank({"both", "in", "start"}) /\ NoneBlank({"both", "delta"})
          /\ NoneBlank({"both", "in", "delta"})
    BY DEF NoneBlank
  <1> QED
    BY <1>1, <1>2, Zenon DEF Counts

\* What the reader has of the lines that it has read.
Right(acc, ls) ==
  /\ IsReading(acc)
  /\ \E u \in 0..Len(ls) : /\ EndsEvent(ls, u)
                           /\ Unbroken(ls, u + 1, Len(ls))
                           /\ Gathers(acc.data, ls, u, Len(ls))
                           /\ Counts(acc, ls, u)

\* Nothing read.
LEMMA RightAtFirst ==
  ASSUME NEW acc, acc = [data |-> <<>>, usage |-> Tee!Untallied, terminal |-> FALSE]
  PROVE  Right(acc, <<>>)
  <1>1. IsReading(acc)
    BY DEF IsReading
  <1>2. EndsEvent(<<>>, 0)
    BY Zenon DEF EndsEvent
  <1>3. Len(<<>>) = 0 /\ 0 + 1..0 = {} /\ 1..0 = {} /\ 0 \in 0..0
    OBVIOUS
  <1>4. Unbroken(<<>>, 0 + 1, 0)
    BY <1>3, Zenon DEF Unbroken
  <1>5. Gathers(acc.data, <<>>, 0, 0)
    <2>1. acc.data = <<>>
      OBVIOUS
    <2>2. IsSequence(<<>>)
      BY DEF IsSequence
    <2> QED
      BY <1>3, <2>1, <2>2, Zenon DEF Gathers
  <1>6. Counts(acc, <<>>, 0)
    <2>1. \A kinds : SolesUpTo(<<>>, kinds, 0) = {}
      BY <1>3 DEF SolesUpTo
    <2>2. Tap!Latest({}) = Tee!NoCount
      BY DEF Tap!Latest, Tap!NoCount, Tee!NoCount
    <2> QED
      BY <2>1, <2>2 DEF Counts, Tee!Untallied
  <1> QED
    BY <1>1, <1>2, <1>3, <1>4, <1>5, <1>6, Zenon DEF Right

\* The reader stays right with every line.
LEMMA RightWithLine ==
  ASSUME NEW S, NEW ls \in Seq(S), NEW e \in S, NEW acc, Right(acc, ls)
  PROVE  Right(Tee!ReadLine(acc, <<Len(ls) + 1, e>>), Append(ls, e))
  <1>1. PICK n : n = Len(ls)
    OBVIOUS
  <1>2. PICK u \in 0..n : /\ EndsEvent(ls, u)
                          /\ Unbroken(ls, u + 1, n)
                          /\ Gathers(acc.data, ls, u, n)
                          /\ Counts(acc, ls, u)
    BY <1>1, Zenon DEF Right
  <1>3. IsReading(acc)
    BY DEF Right
  <1> DEFINE ms == Append(ls, e)
             l == <<n + 1, e>>
             after == Tee!ReadLine(acc, l)
  <1>4. /\ n \in Nat /\ u \in Nat /\ u <= n /\ Len(ms) = n + 1 /\ ms[n + 1] = e
        /\ \A i \in 1..n : ms[i] = ls[i]
        /\ ms \in Seq(S)
    BY <1>1
  <1>5. l[1] = n + 1 /\ l[2] = e
    OBVIOUS
  <1>6. Counts(acc, ms, u)
    BY <1>1, <1>2, CountsStay
  <1> HIDE DEF ms, l
  <1>7. EndsEvent(ms, u)
    <2>1. u # 0 => u \in 1..n
      BY <1>4
    <2> QED
      BY <1>2, <1>4, <2>1, Zenon DEF EndsEvent
  <1>8. \A i \in u + 1..n : i \in 1..n /\ i \in u + 1..n + 1
    BY <1>4
  <1>9. \A i \in u + 1..n + 1 : i \in u + 1..n \/ i = n + 1
    BY <1>4
  <1>10. Unbroken(ms, u + 1, n)
    BY <1>2, <1>4, <1>8, Zenon DEF Unbroken
  <1>11. IsSequence(acc.data)
         /\ (\A k \in 1..Len(acc.data) : \E i \in u + 1..n : Tap!IsData(ms[i])
            /\ acc.data[k] = <<i, ms[i]>>)
         /\ (\A i \in u + 1..n : Tap!IsData(ms[i])
            => \E k \in 1..Len(acc.data) : acc.data[k] = <<i, ms[i]>>)
         /\ \A j, k \in 1..Len(acc.data) : acc.data[j] = acc.data[k] => j = k
    BY <1>2, <1>4, <1>8 DEF Gathers
  <1>12. CASE e = ""
    <2>1. after = Tee!Applied(acc)
      BY <1>5, <1>12, Zenon DEF Tee!ReadLine
    <2>2. EndsEvent(ms, n + 1)
      BY <1>4, <1>12, Zenon DEF EndsEvent
    <2>3. Gathers(acc.data, ms, u, n)
      BY <1>11, Zenon DEF Gathers
    <2>4. IsReading(after) /\ after.data = <<>> /\ Counts(after, ms, n)
      <3>1. n <= Len(ms)
        BY <1>4
      <3> HIDE DEF after
      <3> QED
        BY <1>3, <1>4, <1>6, <1>7, <1>10, <2>1, <2>2, <2>3, <3>1, AppliedRight
    <2> HIDE DEF after
    <2>5. Counts(after, ms, n + 1)
      BY <1>4, <2>2, <2>4, CountsBlank
    <2>6. (n + 1) + 1..n + 1 = {} /\ n + 1 \in 0..n + 1
      BY <1>4
    <2>7. Unbroken(ms, (n + 1) + 1, n + 1)
      BY <2>6, Zenon DEF Unbroken
    <2>8. Gathers(after.data, ms, n + 1, n + 1)
      <3>1. IsSequence(<<>>) /\ 1..Len(<<>>) = {}
        BY DEF IsSequence
      <3> QED
        BY <2>4, <2>6, <3>1, Zenon DEF Gathers
    <2>9. Right(after, ms)
      BY <1>4, <2>2, <2>4, <2>5, <2>6, <2>7, <2>8, Zenon DEF Right
    <2> QED
      BY <1>1, <2>9 DEF after, ms, l
  <1>13. CASE e # ""
    <2>1. Unbroken(ms, u + 1, n + 1)
      BY <1>4, <1>9, <1>10, <1>13, Zenon DEF Unbroken
    <2>2. u \in 0..n + 1
      BY <1>4
    <2>3. CASE Tap!IsData(e)
      <3>1. after = [acc EXCEPT !.data = Append(acc.data, l)]
        BY <1>5, <1>13, <2>3, SameEvents, Zenon DEF Tee!ReadLine
      <3>2. after.data = Append(acc.data, l) /\ IsReading(after)
            /\ after.usage = acc.usage /\ after.terminal = acc.terminal
        BY <1>3, <3>1 DEF IsReading
      <3> HIDE DEF after
      <3>3. Counts(after, ms, u)
        BY <1>6, <3>2, Zenon DEF Counts
      <3> DEFINE d == acc.data
                 m == Len(acc.data)
                 more == Append(acc.data, l)
      <3>4. /\ IsSequence(more) /\ m \in Nat /\ Len(more) = m + 1
            /\ \A k \in 1..m : more[k] = d[k]
            /\ more[m + 1] = l
        BY <1>11, SequenceGrows
      <3> HIDE DEF d, m, more
      <3>5. (\A k \in 1..m + 1 : k \in 1..m \/ k = m + 1) /\ (\A k \in 1..m : k \in 1..m + 1)
              /\ m + 1 \in 1..m + 1
        BY <3>4
      <3>6. l = <<n + 1, ms[n + 1]>> /\ n + 1 \in u + 1..n + 1
        BY <1>4 DEF l
      <3>7. \A k \in 1..m : \E i \in u + 1..n : Tap!IsData(ms[i]) /\ d[k] = <<i, ms[i]>>
        BY <1>11 DEF d, m
      <3>8. \A k \in 1..m + 1 : \E i \in u + 1..n + 1 : Tap!IsData(ms[i])
              /\ more[k] = <<i, ms[i]>>
        BY <1>4, <1>8, <2>3, <3>4, <3>5, <3>6, <3>7
      <3>9. \A i \in u + 1..n + 1 : Tap!IsData(ms[i])
              => \E k \in 1..m + 1 : more[k] = <<i, ms[i]>>
        <4>1. \A i \in u + 1..n : Tap!IsData(ms[i]) => \E k \in 1..m : d[k] = <<i, ms[i]>>
          BY <1>11 DEF d, m
        <4> QED
          BY <1>9, <3>4, <3>5, <3>6, <4>1
      <3>10. \A j, k \in 1..m + 1 : more[j] = more[k] => j = k
        <4>1. \A k \in 1..m : more[k] # l
          <5>1. ASSUME NEW k \in 1..m PROVE more[k][1] # n + 1
            <6>1. PICK i \in u + 1..n : d[k] = <<i, ms[i]>>
              BY <3>7
            <6>2. more[k][1] = i
              BY <3>4, <6>1
            <6> QED
              BY <1>4, <6>2
          <5> QED
            BY <1>5, <5>1
        <4>2. \A j, k \in 1..m : d[j] = d[k] => j = k
          BY <1>11 DEF d, m
        <4> QED
          BY <3>4, <3>5, <4>1, <4>2
      <3>11. Gathers(after.data, ms, u, n + 1)
        <4>1. after.data = more
          BY <3>2 DEF more
        <4> QED
          BY <3>4, <3>8, <3>9, <3>10, <4>1, Zenon DEF Gathers
      <3>12. Right(after, ms)
        BY <1>4, <1>7, <2>1, <2>2, <3>2, <3>3, <3>11, Zenon DEF Right
      <3> QED
        BY <1>1, <3>12 DEF after, ms, l
    <2>4. CASE ~Tap!IsData(e)
      <3>1. after = acc
        BY <1>5, <1>13, <2>4, SameEvents, Zenon DEF Tee!ReadLine
      <3> HIDE DEF after
      <3>2. (\A k \in 1..Len(acc.data) : \E i \in u + 1..n + 1 : Tap!IsData(ms[i])
              /\ acc.data[k] = <<i, ms[i]>>)
        BY <1>8, <1>11, Zenon
      <3>3. (\A i \in u + 1..n + 1 : Tap!IsData(ms[i])
              => \E k \in 1..Len(acc.data) : acc.data[k] = <<i, ms[i]>>)
        BY <1>4, <1>9, <1>11, <2>4, Zenon
      <3>4. Gathers(acc.data, ms, u, n + 1)
        BY <1>11, <3>2, <3>3, Zenon DEF Gathers
      <3>5. Right(after, ms)
        BY <1>3, <1>4, <1>6, <1>7, <2>1, <2>2, <3>1, <3>4, Zenon DEF Right
      <3> QED
        BY <1>1, <3>5 DEF after, ms, l
    <2> QED
      BY <2>3, <2>4
  <1> QED
    BY <1>12, <1>13

\* What it makes of a whole stream is what a reader of its lines would have counted.
LEMMA FinalRight ==
  ASSUME NEW provider \in Tee!Providers, NEW ls \in Seq(Tee!LinesOf[provider]),
         NEW acc, IsReading(acc), Counts(acc, ls, Len(ls))
  PROVE  (IF acc.terminal THEN acc.usage ELSE Tee!Untallied) = Tee!FieldwiseTally(provider, ls)
  <1> DEFINE In == {"both", "in", "start"}
             Out == {"both", "delta"}
             End == {"both", "in", "delta"}
             n == Len(ls)
             newestIn == Tap!Latest(Tap!Soles(ls, In))
             newestOut == Tap!Latest(Tap!Soles(ls, Out))
  <1>1. n \in Nat /\ DOMAIN ls = 1..n /\ \A i \in 1..n : ls[i] \in Tee!LinesOf[provider]
    OBVIOUS
  <1>2. \A kinds : SolesUpTo(ls, kinds, n) = Tap!Soles(ls, kinds)
    BY <1>1 DEF SolesUpTo, Tap!Soles
  <1>3. acc.usage = Tee!Usage(newestIn, newestOut) /\ acc.terminal = (Tap!Soles(ls, End) # {})
    <2>1. SolesUpTo(ls, In, n) = Tap!Soles(ls, In) /\ SolesUpTo(ls, Out, n) = Tap!Soles(ls, Out)
          /\ SolesUpTo(ls, End, n) = Tap!Soles(ls, End)
      BY <1>2
    <2>2. acc.usage = Tee!Usage(Tap!Latest(SolesUpTo(ls, In, n)), Tap!Latest(SolesUpTo(ls, Out, n)))
          /\ acc.terminal = (SolesUpTo(ls, End, n) # {})
      BY Zenon DEF Counts
    <2> HIDE DEF In, Out, End, n
    <2> QED
      BY <2>1, <2>2
  <1>4. Tee!FieldwiseTally(provider, ls) =
          IF provider = "anthropic" /\ newestOut = Tee!NoCount THEN Tee!Untallied ELSE Tee!Usage(newestIn, newestOut)
    BY SameEvents, Zenon DEF Tee!FieldwiseTally
  <1> HIDE DEF n
  <1>5. CASE provider = "openai"
    <2>1. \A i \in 1..n : ls[i] # "start" /\ ls[i] # "delta"
      BY <1>1, <1>5 DEF Tee!LinesOf
    <2>2. Tap!Soles(ls, In) \subseteq Tap!Soles(ls, End)
            /\ Tap!Soles(ls, Out) \subseteq Tap!Soles(ls, End)
      BY <1>1, <2>1 DEF Tap!Soles
    <2>3. Tap!Soles(ls, End) = {} => newestIn = Tee!NoCount /\ newestOut = Tee!NoCount
      BY <2>2 DEF Tap!Latest, Tap!NoCount, Tee!NoCount
    <2> HIDE DEF newestIn, newestOut, End
    <2> QED
      BY <1>3, <1>4, <1>5, <2>3 DEF Tee!Untallied
  <1>6. CASE provider = "anthropic"
    <2>1. \A i \in 1..n : ls[i] # "both" /\ ls[i] # "in"
      BY <1>1, <1>6 DEF Tee!LinesOf
    <2>2. Tap!Soles(ls, Out) = Tap!Soles(ls, End)
      BY <1>1, <2>1 DEF Tap!Soles
    <2>3. Tap!Soles(ls, Out) = {} => newestOut = Tee!NoCount
      BY DEF Tap!Latest, Tap!NoCount, Tee!NoCount
    <2>4. Tap!Soles(ls, Out) # {} => newestOut # Tee!NoCount
      <3>1. Tap!Soles(ls, Out) \in SUBSET (1..n)
        BY <1>1 DEF Tap!Soles
      <3>2. Tap!Soles(ls, Out) # {} => newestOut \in 1..n
        BY <1>1, <3>1, LatestThere
      <3> HIDE DEF newestOut
      <3>3. newestOut \in 1..n => newestOut # 0
        BY <1>1
      <3> QED
        BY <3>2, <3>3 DEF Tee!NoCount
    <2> HIDE DEF newestIn, newestOut, End, Out
    <2> QED
      BY <1>3, <1>4, <1>6, <2>2, <2>3, <2>4
  <1> QED
    BY <1>5, <1>6 DEF Tee!Providers

\* What is always so of the reader: the lines it has read and those in its buffer, read,
\* leave it right; it gives up for good; and it reports once.
TeeInv ==
  /\ tee_provider \in Tee!Providers
  /\ tee_lines \in Seq(Tee!LinesOf[tee_provider]) /\ tee_line \in Tee!LinesOf[tee_provider]
  /\ arrived \in Seq(Nat \X Tee!LinesOf[tee_provider])
  /\ tee_complete \in BOOLEAN
  /\ tee_pc \in {"awaiting", "chunk"} => tee_complete
  /\ tee_pc = "failed" => ~tee_complete
  /\ tee_pc # "done" => tee_reported = <<>>
  /\ tee_pc # "failed" /\ tee_pc # "done" /\ tee_complete =>
        Right(Tee!ReadLines(Tee!Accumulated, arrived), tee_lines)
  /\ tee_pc = "awaiting" \/ (tee_pc = "ended" /\ tee_complete) => arrived = <<>>
  /\ Tee!TeeHonest

\* A reader that has read nothing.
LEMMA TeeStarts == Tee!Init => TeeInv
  <1> SUFFICES ASSUME Tee!Init PROVE TeeInv
    OBVIOUS
  <1>1. /\ tee_provider \in Tee!Providers /\ tee_lines = <<>> /\ tee_line = "" /\ arrived = <<>>
        /\ data = <<>> /\ usage = Tee!Untallied /\ terminal = FALSE
        /\ tee_complete = TRUE /\ tee_pc = "awaiting" /\ tee_reported = <<>>
    BY DEF Tee!Init
  <1>2. Tee!Accumulated = [data |-> <<>>, usage |-> Tee!Untallied, terminal |-> FALSE]
    BY <1>1, Zenon DEF Tee!Accumulated
  <1>3. Right(Tee!ReadLines(Tee!Accumulated, arrived), tee_lines)
    <2>1. Tee!ReadLines(Tee!Accumulated, <<>>) = Tee!Accumulated
      BY ReadsNone
    <2>2. Right(Tee!Accumulated, <<>>)
      BY <1>2, RightAtFirst
    <2> QED
      BY <1>1, <2>1, <2>2, Zenon
  <1>4. tee_line \in Tee!LinesOf[tee_provider]
    <2>1. "" \in Tee!LinesOf["openai"] /\ "" \in Tee!LinesOf["anthropic"]
      BY DEF Tee!LinesOf
    <2>2. tee_provider = "openai" \/ tee_provider = "anthropic"
      BY <1>1, Zenon DEF Tee!Providers
    <2> QED
      BY <1>1, <2>1, <2>2, Zenon
  <1>5. \A X : <<>> \in Seq(X)
    OBVIOUS
  <1>6. Tee!TeeHonest
    <2>1. 1..Len(tee_reported) = {}
      <3>1. tee_reported = <<>>
        BY <1>1
      <3> QED
        BY <3>1
    <2> QED
      BY <2>1, Zenon DEF Tee!TeeHonest
  <1>7. tee_lines \in Seq(Tee!LinesOf[tee_provider])
          /\ arrived \in Seq(Nat \X Tee!LinesOf[tee_provider])
    BY <1>1, <1>5, Zenon
  <1>8. "awaiting" # "failed" /\ "awaiting" # "done" /\ "awaiting" # "ended" /\ TRUE \in BOOLEAN
    OBVIOUS
  <1> QED
    BY <1>1, <1>3, <1>4, <1>6, <1>7, <1>8, Zenon DEF TeeInv

\* A newline.
LEMMA TeeNewline ==
  ASSUME TeeInv, Tee!Newline
  PROVE  TeeInv'
  <1>0. tee_line' = ""
    BY DEF Tee!Newline
  <1>1. /\ tee_lines' = Append(tee_lines, tee_line)
        /\ arrived' = Append(arrived, <<Len(tee_lines'), tee_line>>)
        /\ UNCHANGED <<tee_provider, data, usage, terminal, tee_complete, tee_pc, tee_reported>>
        /\ tee_pc = "chunk"
    BY DEF Tee!Newline, Tee!state, Tee!MoreComes
  <1>2. /\ tee_provider \in Tee!Providers
        /\ tee_lines \in Seq(Tee!LinesOf[tee_provider]) /\ tee_line \in Tee!LinesOf[tee_provider]
        /\ arrived \in Seq(Nat \X Tee!LinesOf[tee_provider])
        /\ tee_complete /\ tee_reported = <<>>
        /\ Right(Tee!ReadLines(Tee!Accumulated, arrived), tee_lines)
    BY <1>1, Zenon DEF TeeInv
  <1>3. tee_lines' \in Seq(Tee!LinesOf[tee_provider]) /\ Len(tee_lines') = Len(tee_lines) + 1
        /\ Len(tee_lines) \in Nat
    BY <1>1, <1>2
  <1>4. <<Len(tee_lines'), tee_line>> \in Nat \X Tee!LinesOf[tee_provider]
    BY <1>2, <1>3
  <1>5. Tee!Accumulated' = Tee!Accumulated
    BY <1>1, Zenon DEF Tee!Accumulated
  <1>6. Tee!ReadLines(Tee!Accumulated, arrived')
          = Tee!ReadLine(Tee!ReadLines(Tee!Accumulated, arrived), <<Len(tee_lines) + 1, tee_line>>)
    BY <1>1, <1>2, <1>3, <1>4, ReadsOn
  <1>7. Right(Tee!ReadLines(Tee!Accumulated, arrived'), tee_lines')
    BY <1>1, <1>2, <1>6, RightWithLine
  <1>8. Right(Tee!ReadLines(Tee!Accumulated, arrived), tee_lines)'
    BY <1>5, <1>7, Zenon
  <1>9. arrived' \in Seq(Nat \X Tee!LinesOf[tee_provider])
    BY <1>1, <1>2, <1>4
  <1>10. tee_line' \in Tee!LinesOf[tee_provider]
    <2>1. "" \in Tee!LinesOf["openai"] /\ "" \in Tee!LinesOf["anthropic"]
      BY DEF Tee!LinesOf
    <2>2. tee_provider = "openai" \/ tee_provider = "anthropic"
      BY <1>2, Zenon DEF Tee!Providers
    <2> QED
      BY <1>0, <1>1, <2>1, <2>2, Zenon
  <1>11. Tee!TeeHonest'
    <2>1. 1..Len(tee_reported') = {}
      BY <1>1, <1>2
    <2> QED
      BY <2>1, Zenon DEF Tee!TeeHonest
  <1>12. tee_pc' = "chunk" /\ "chunk" # "failed" /\ "chunk" # "awaiting" /\ "chunk" # "ended"
    BY <1>1
  <1> QED
    BY <1>1, <1>2, <1>3, <1>8, <1>9, <1>10, <1>11, <1>12, Zenon DEF TeeInv

\* The lines of the chunk are read.
LEMMA TeeReads ==
  ASSUME TeeInv, Tee!ReadChunk
  PROVE  TeeInv'
  <1> DEFINE acc == Tee!ReadLines(Tee!Accumulated, arrived)
  <1>1. /\ tee_pc = "chunk" /\ tee_pc' = "awaiting" /\ arrived' = <<>>
        /\ data' = acc.data /\ usage' = acc.usage /\ terminal' = acc.terminal
        /\ UNCHANGED <<tee_provider, tee_lines, tee_line, tee_complete, tee_reported>>
    BY DEF Tee!ReadChunk, Tee!Becomes, Tee!wire
  <1>2. /\ tee_provider \in Tee!Providers
        /\ tee_lines \in Seq(Tee!LinesOf[tee_provider]) /\ tee_line \in Tee!LinesOf[tee_provider]
        /\ tee_complete /\ tee_complete \in BOOLEAN /\ tee_reported = <<>>
        /\ Right(acc, tee_lines)
    BY <1>1, Zenon DEF TeeInv
  <1> HIDE DEF acc
  <1>3. acc = [data |-> acc.data, usage |-> acc.usage, terminal |-> acc.terminal]
    BY <1>2, Zenon DEF Right, IsReading
  <1>4. Tee!Accumulated' = acc
    <2>1. Tee!Accumulated' = [data |-> data', usage |-> usage', terminal |-> terminal']
      BY Zenon DEF Tee!Accumulated
    <2> QED
      BY <1>1, <1>3, <2>1, Zenon
  <1>5. Tee!ReadLines(acc, <<>>) = acc
    BY ReadsNone
  <1>6. Right(Tee!ReadLines(Tee!Accumulated, arrived), tee_lines)'
    BY <1>1, <1>2, <1>4, <1>5, Zenon
  <1>7. <<>> \in Seq(Nat \X Tee!LinesOf[tee_provider])
    OBVIOUS
  <1>8. Tee!TeeHonest'
    <2>1. 1..Len(tee_reported') = {}
      BY <1>1, <1>2
    <2> QED
      BY <2>1, Zenon DEF Tee!TeeHonest
  <1>9. "awaiting" # "failed"
    OBVIOUS
  <1> QED
    BY <1>1, <1>2, <1>6, <1>7, <1>8, <1>9, Zenon DEF TeeInv

\* The report.
LEMMA TeeTells ==
  ASSUME TeeInv, Tee!Report
  PROVE  TeeInv'
  <1> DEFINE acc == IF tee_pc = "ended" THEN Tee!Applied(Tee!Accumulated) ELSE Tee!Accumulated
  <1>1. /\ tee_pc \in {"ended", "failed"} /\ tee_pc' = "done"
        /\ tee_reported' = Append(tee_reported, Tee!Final(acc))
        /\ UNCHANGED <<tee_provider, tee_lines, tee_line, arrived, tee_complete>>
    BY DEF Tee!Report, Tee!wire
  <1>2. /\ tee_provider \in Tee!Providers
        /\ tee_lines \in Seq(Tee!LinesOf[tee_provider]) /\ tee_line \in Tee!LinesOf[tee_provider]
        /\ arrived \in Seq(Nat \X Tee!LinesOf[tee_provider])
        /\ tee_complete \in BOOLEAN
    BY DEF TeeInv
  <1>3. tee_reported = <<>>
    BY <1>1 DEF TeeInv
  <1> HIDE DEF acc
  <1>4. Len(tee_reported') = 1 /\ tee_reported'[1] = Tee!Final(acc)
    BY <1>1, <1>3
  <1>5. ASSUME tee_complete PROVE Tee!Final(acc) = Tee!FieldwiseTally(tee_provider, tee_lines)
    <2>1. tee_pc = "ended"
      BY <1>1, <1>5 DEF TeeInv
    <2>2. arrived = <<>> /\ Right(Tee!ReadLines(Tee!Accumulated, arrived), tee_lines)
      BY <1>5, <2>1 DEF TeeInv
    <2>3. Right(Tee!Accumulated, tee_lines)
      <3>1. Tee!ReadLines(Tee!Accumulated, <<>>) = Tee!Accumulated
        BY ReadsNone
      <3> QED
        BY <2>2, <3>1, Zenon
    <2>4. PICK n \in Nat : n = Len(tee_lines)
      BY <1>2
    <2>5. PICK u \in 0..n : /\ EndsEvent(tee_lines, u)
                            /\ Unbroken(tee_lines, u + 1, n)
                            /\ Gathers(Tee!Accumulated.data, tee_lines, u, n)
                            /\ Counts(Tee!Accumulated, tee_lines, u)
      BY <2>3, <2>4, Zenon DEF Right
    <2>6. IsReading(Tee!Accumulated)
      BY <2>3, Zenon DEF Right
    <2>7. u \in Nat /\ u <= n /\ n <= Len(tee_lines)
      BY <2>4
    <2>8. IsReading(Tee!Applied(Tee!Accumulated))
            /\ Counts(Tee!Applied(Tee!Accumulated), tee_lines, n)
      BY <1>2, <2>4, <2>5, <2>6, <2>7, AppliedRight
    <2>9. acc = Tee!Applied(Tee!Accumulated)
      BY <2>1 DEF acc
    <2>10. (IF acc.terminal THEN acc.usage ELSE Tee!Untallied) = Tee!FieldwiseTally(tee_provider, tee_lines)
      BY <1>2, <2>4, <2>8, <2>9, FinalRight
    <2>11. Tee!Final(acc) = (IF acc.terminal THEN acc.usage ELSE Tee!Untallied)
      BY <1>5, Zenon DEF Tee!Final
    <2> QED
      BY <2>10, <2>11
  <1>6. ~tee_complete => Tee!Final(acc) = Tee!Untallied
    BY Zenon DEF Tee!Final
  <1>7. Tee!TeeHonest'
    <2>1. \A k \in 1..Len(tee_reported') : k = 1
      BY <1>4
    <2>2. Tee!Final(acc) = IF tee_complete THEN Tee!FieldwiseTally(tee_provider, tee_lines) ELSE Tee!Untallied
      BY <1>5, <1>6, Zenon
    <2>3. tee_reported'[1] = IF tee_complete' THEN Tee!FieldwiseTally(tee_provider', tee_lines') ELSE Tee!Untallied
      BY <1>1, <1>4, <2>2, Zenon
    <2> QED
      BY <2>1, <2>3, Zenon DEF Tee!TeeHonest
  <1>8. "done" # "failed" /\ "done" # "awaiting" /\ "done" # "chunk" /\ "done" # "ended"
    OBVIOUS
  <1>9. tee_pc' \notin {"awaiting", "chunk"}
    BY <1>1
  <1> QED
    BY <1>1, <1>2, <1>7, <1>8, <1>9, Zenon DEF TeeInv

\* Every step of the reader.
LEMMA TeeMoves == TeeInv /\ Tee!Next => TeeInv'
  <1> SUFFICES ASSUME TeeInv, Tee!Next PROVE TeeInv'
    OBVIOUS
  <1> DEFINE still == UNCHANGED <<data, usage, terminal, arrived, tee_lines, tee_provider, tee_reported>>
  <1>1. /\ tee_provider \in Tee!Providers
        /\ tee_lines \in Seq(Tee!LinesOf[tee_provider]) /\ tee_line \in Tee!LinesOf[tee_provider]
        /\ arrived \in Seq(Nat \X Tee!LinesOf[tee_provider])
        /\ tee_complete \in BOOLEAN
        /\ tee_pc \in {"awaiting", "chunk"} => tee_complete /\ tee_reported = <<>>
               /\ Right(Tee!ReadLines(Tee!Accumulated, arrived), tee_lines)
        /\ tee_pc = "awaiting" => arrived = <<>>
        /\ Tee!TeeHonest
    BY DEF TeeInv
  <1>2. ASSUME still PROVE Tee!Accumulated' = Tee!Accumulated
    BY <1>2, Zenon DEF Tee!Accumulated
  <1>3. ASSUME still, tee_pc \in {"awaiting", "chunk"}, tee_line' \in Tee!LinesOf[tee_provider]
        PROVE  /\ tee_provider' \in Tee!Providers
               /\ tee_lines' \in Seq(Tee!LinesOf[tee_provider'])
               /\ tee_line' \in Tee!LinesOf[tee_provider']
               /\ arrived' \in Seq(Nat \X Tee!LinesOf[tee_provider'])
               /\ tee_reported' = <<>>
               /\ Right(Tee!ReadLines(Tee!Accumulated, arrived), tee_lines)'
               /\ Tee!TeeHonest'
    <2>1. Right(Tee!ReadLines(Tee!Accumulated, arrived), tee_lines)'
      BY <1>1, <1>2, <1>3, Zenon
    <2>2. Tee!TeeHonest'
      <3>1. 1..Len(tee_reported') = {}
        BY <1>1, <1>3
      <3> QED
        BY <3>1, Zenon DEF Tee!TeeHonest
    <2> QED
      BY <1>1, <1>3, <2>1, <2>2, Zenon
  <1>4. ASSUME Tee!ChunkArrives PROVE TeeInv'
    <2>1. still /\ tee_line' = tee_line /\ tee_pc = "awaiting" /\ tee_pc' = "chunk"
            /\ tee_complete' = tee_complete
      BY <1>4 DEF Tee!ChunkArrives, Tee!wire, Tee!state
    <2>2. tee_pc \in {"awaiting", "chunk"} /\ tee_line' \in Tee!LinesOf[tee_provider]
      BY <1>1, <2>1
    <2>3. "chunk" # "failed" /\ "chunk" # "awaiting" /\ "chunk" # "ended"
      OBVIOUS
    <2> HIDE DEF still
    <2> QED
      BY <1>1, <1>3, <2>1, <2>2, <2>3, Zenon DEF TeeInv
  <1>5. ASSUME NEW l \in Tee!LinesOf[tee_provider], Tee!Piece(l) PROVE TeeInv'
    <2>1. still /\ tee_line' = l /\ tee_pc = "chunk" /\ tee_pc' = "chunk"
            /\ tee_complete' = tee_complete
      BY <1>5 DEF Tee!Piece, Tee!MoreComes, Tee!state
    <2>2. tee_pc \in {"awaiting", "chunk"} /\ tee_line' \in Tee!LinesOf[tee_provider]
      BY <2>1
    <2>3. "chunk" # "failed" /\ "chunk" # "awaiting" /\ "chunk" # "ended"
      OBVIOUS
    <2> HIDE DEF still
    <2> QED
      BY <1>1, <1>3, <2>1, <2>2, <2>3, Zenon DEF TeeInv
  <1>6. ASSUME Tee!Abort PROVE TeeInv'
    <2>1. still /\ tee_line' = tee_line /\ tee_pc = "chunk" /\ tee_pc' = "ended"
            /\ tee_complete' = FALSE
      BY <1>6 DEF Tee!Abort, Tee!wire, Tee!state
    <2>2. tee_pc \in {"awaiting", "chunk"} /\ tee_line' \in Tee!LinesOf[tee_provider]
      BY <1>1, <2>1
    <2>3. "ended" # "failed" /\ "ended" # "awaiting" /\ "ended" # "chunk"
            /\ tee_pc' \notin {"awaiting", "chunk"} /\ FALSE \in BOOLEAN
      BY <2>1
    <2> HIDE DEF still
    <2> QED
      BY <1>1, <1>3, <2>1, <2>2, <2>3, Zenon DEF TeeInv
  <1>7. ASSUME Tee!Done PROVE TeeInv'
    <2>1. still /\ tee_line' = tee_line /\ tee_pc = "awaiting" /\ tee_pc' = "ended"
            /\ tee_complete' = tee_complete
          /\ arrived' = arrived
      BY <1>7 DEF Tee!Done, Tee!wire, Tee!state
    <2>2. tee_pc \in {"awaiting", "chunk"} /\ tee_line' \in Tee!LinesOf[tee_provider]
      BY <1>1, <2>1
    <2>3. "ended" # "failed" /\ "ended" # "awaiting" /\ "ended" # "chunk"
            /\ tee_pc' \notin {"awaiting", "chunk"}
      BY <2>1
    <2> HIDE DEF still
    <2> QED
      BY <1>1, <1>3, <2>1, <2>2, <2>3, Zenon DEF TeeInv
  <1>8. ASSUME Tee!Throws PROVE TeeInv'
    <2>1. still /\ tee_line' = tee_line /\ tee_pc = "awaiting" /\ tee_pc' = "failed"
            /\ tee_complete' = FALSE
      BY <1>8 DEF Tee!Throws, Tee!wire, Tee!state
    <2>2. tee_pc \in {"awaiting", "chunk"} /\ tee_line' \in Tee!LinesOf[tee_provider]
      BY <1>1, <2>1
    <2>3. "failed" # "ended" /\ "failed" # "awaiting" /\ "failed" # "done"
            /\ tee_pc' \notin {"awaiting", "chunk"} /\ FALSE \in BOOLEAN
      BY <2>1
    <2> HIDE DEF still
    <2> QED
      BY <1>1, <1>3, <2>1, <2>2, <2>3, Zenon DEF TeeInv
  <1> QED
    <2> HIDE DEF TeeInv
    <2> QED
      BY <1>4, <1>5, <1>6, <1>7, <1>8, TeeNewline, TeeReads, TeeTells, Zenon DEF Tee!Next

-------------------------------------------------------------------------------
(* Both readers in the application. *)

\* What is always so of both.
StreamsInv == TapInv /\ TeeInv

\* Any step of the application keeps what is always so of both readers.
LEMMA StreamsMove ==
  ASSUME StreamsInv, [AllNext]_allVars
  PROVE  StreamsInv'
  <1>1. Tap!Next \/ UNCHANGED tapVars
    BY DEF AllNext, PartsNext, Moves, partsVars, allVars
  <1>2. Tee!Next \/ UNCHANGED teeVars
    BY DEF AllNext, PartsNext, Moves, partsVars, allVars
  <1>3. TapInv'
    BY <1>1, TapMoves, TapRests DEF StreamsInv
  <1>4. TeeInv'
    <2>1. CASE UNCHANGED teeVars
      <3>1. UNCHANGED <<tee_provider, tee_lines, tee_line, arrived, data, usage, terminal,
                        tee_complete, tee_pc, tee_reported>>
        BY <2>1 DEF teeVars
      <3>2. TeeInv
        BY DEF StreamsInv
      <3> QED
        BY <3>1, <3>2, Zenon DEF TeeInv, Tee!Accumulated, Tee!TeeHonest
    <2> QED
      BY <1>2, <2>1, TeeMoves DEF StreamsInv
  <1> QED
    BY <1>3, <1>4 DEF StreamsInv

\* Whatever a provider streams, wherever the chunks end and whoever closes the answer
\* when: the usage that each reader reports is that of the whole stream, counted once, or
\* nothing; and what the tap keeps of the stream is bounded.
THEOREM TapsAlwaysHonest == AllSpec => []TapsHonest
  <1>1. AllInit => StreamsInv
    BY TapStarts, TeeStarts DEF AllInit, InitWith, PartsInit, StreamsInv
  <1>2. StreamsInv => TapsHonest
    BY TapKept, Zenon DEF StreamsInv, TapsHonest, TeeInv
  <1> QED
    BY <1>1, <1>2, StreamsMove, PTL DEF AllSpec

\* What has been read of a stream is lines of data with their numbers, and counts that
\* are numbers of lines.
TeeTyped(acc, letters) ==
  /\ acc.data \in Seq((1..MaxLines) \X letters)
  /\ acc.usage.input \in 0..MaxLines /\ acc.usage.output \in 0..MaxLines
  /\ acc.terminal \in BOOLEAN

TeeTypes ==
  /\ arrived \in Seq((1..MaxLines) \X Tee!LinesOf[tee_provider])
  /\ pieces \in 0..EventLimit + 1
  /\ TeeTyped(Tee!Accumulated, Tee!LinesOf[tee_provider])
  /\ tee_pc = "chunk" =>
        TeeTyped(Tee!ReadLines(Tee!Accumulated, arrived), Tee!LinesOf[tee_provider])
  /\ tee_pc \in {"awaiting", "chunk", "ended", "failed", "done"}
  /\ Len(tee_reported) <= 1

\* The end of an event keeps the types of what has been read.
LEMMA AppliedTyped ==
  ASSUME NEW letters, NEW acc, TeeTyped(acc, letters)
  PROVE  TeeTyped(Tee!Applied(acc), letters)
  <1>1. MaxLines \in Nat
    BY TeeAssumed DEF Tee!StreamTeeAssumption
  <1>2. CASE Len(acc.data) # 1
    <2>1. Tee!Applied(acc) = [acc EXCEPT !.data = <<>>]
      BY <1>2, Zenon DEF Tee!Applied
    <2>2. /\ [acc EXCEPT !.data = <<>>].data \in {acc.data, <<>>}
          /\ [acc EXCEPT !.data = <<>>].usage = acc.usage
          /\ [acc EXCEPT !.data = <<>>].terminal = acc.terminal
      OBVIOUS
    <2> QED
      BY <2>1, <2>2 DEF TeeTyped
  <1>3. CASE Len(acc.data) = 1
    <2> DEFINE n == acc.data[1][1]
               kind == acc.data[1][2]
               read == IF kind \in {"both", "in", "start"} THEN n ELSE acc.usage.input
               written == IF kind \in {"both", "delta"} THEN n ELSE acc.usage.output
               over == acc.terminal \/ kind \in {"both", "in", "delta"}
    <2>1. Tee!Applied(acc) = [data |-> <<>>, usage |-> Tee!Usage(read, written), terminal |-> over]
      BY <1>3, Zenon DEF Tee!Applied
    <2>2. n \in 1..MaxLines
      BY <1>3 DEF TeeTyped
    <2>3. read \in 0..MaxLines /\ written \in 0..MaxLines
      BY <1>1, <2>2 DEF TeeTyped
    <2>4. over \in BOOLEAN
      BY DEF TeeTyped
    <2> HIDE DEF n, kind, read, written, over
    <2> QED
      BY <2>1, <2>3, <2>4 DEF TeeTyped, Tee!Usage
  <1>4. Len(acc.data) \in Nat
    BY DEF TeeTyped
  <1> QED
    BY <1>2, <1>3, <1>4

\* So does any line.
LEMMA LineTyped ==
  ASSUME NEW letters, NEW acc, TeeTyped(acc, letters),
         NEW l \in (1..MaxLines) \X letters
  PROVE  TeeTyped(Tee!ReadLine(acc, l), letters)
  <1>1. CASE l[2] = ""
    BY <1>1, AppliedTyped, Zenon DEF Tee!ReadLine
  <1>2. CASE l[2] # "" /\ Tee!IsData(l[2])
    <2>1. Tee!ReadLine(acc, l) = [acc EXCEPT !.data = Append(acc.data, l)]
      BY <1>2, Zenon DEF Tee!ReadLine
    <2>2. /\ [acc EXCEPT !.data = Append(acc.data, l)].data \in {acc.data, Append(acc.data, l)}
          /\ [acc EXCEPT !.data = Append(acc.data, l)].usage = acc.usage
          /\ [acc EXCEPT !.data = Append(acc.data, l)].terminal = acc.terminal
      OBVIOUS
    <2>3. Append(acc.data, l) \in Seq((1..MaxLines) \X letters)
      BY AppendProperties DEF TeeTyped
    <2> QED
      BY <2>1, <2>2, <2>3, Zenon DEF TeeTyped
  <1>3. CASE l[2] # "" /\ ~Tee!IsData(l[2])
    BY <1>3, Zenon DEF Tee!ReadLine
  <1> QED
    BY <1>1, <1>2, <1>3

\* A reader of a stream starts with what its types allow.
LEMMA TeeTypesStart == Tee!Init => TeeTypes
  <1> SUFFICES ASSUME Tee!Init PROVE TeeTypes
    OBVIOUS
  <1>1. MaxLines \in Nat /\ EventLimit \in Nat
    BY TeeAssumed DEF Tee!StreamTeeAssumption
  <1>2. /\ arrived = <<>> /\ pieces = 0 /\ data = <<>> /\ usage = Tee!Untallied
        /\ terminal = FALSE /\ tee_pc = "awaiting" /\ tee_reported = <<>>
    BY DEF Tee!Init
  <1>3. usage.input = 0 /\ usage.output = 0
    BY <1>2 DEF Tee!Untallied, Tee!Usage, Tee!NoCount
  <1>4. /\ Tee!Accumulated.data = <<>> /\ Tee!Accumulated.usage = usage
        /\ Tee!Accumulated.terminal = FALSE
    BY <1>2 DEF Tee!Accumulated
  <1>5. TeeTyped(Tee!Accumulated, Tee!LinesOf[tee_provider])
    <2>1. <<>> \in Seq((1..MaxLines) \X Tee!LinesOf[tee_provider])
      OBVIOUS
    <2>2. 0 \in 0..MaxLines
      BY <1>1
    <2> QED
      BY Zenon, <1>3, <1>4, <2>1, <2>2 DEF TeeTyped
  <1>6. Len(tee_reported) <= 1 /\ pieces \in 0..EventLimit + 1
    BY <1>1, <1>2
  <1> QED
    BY <1>2, <1>5, <1>6 DEF TeeTypes

\* Every step of the reader keeps the types.
LEMMA TeeTypesMove ==
  ASSUME TeeInv, TeeTypes, Tee!Next
  PROVE  TeeTypes'
  <1> DEFINE letters == Tee!LinesOf[tee_provider]
             seen_so_far == Tee!ReadLines(Tee!Accumulated, arrived)
  <1>1. MaxLines \in Nat /\ EventLimit \in Nat /\ "chunk" # "awaiting" /\ "chunk" # "ended"
        /\ "chunk" # "failed" /\ "chunk" # "done"
    BY TeeAssumed DEF Tee!StreamTeeAssumption
  <1>2. /\ arrived \in Seq((1..MaxLines) \X letters) /\ pieces \in 0..EventLimit + 1
        /\ TeeTyped(Tee!Accumulated, letters)
        /\ tee_pc = "chunk" => TeeTyped(seen_so_far, letters)
        /\ Len(tee_reported) <= 1
    BY Zenon DEF TeeTypes
  <1>3. \A acc : TeeTyped(acc, letters) =>
           TeeTyped([data |-> acc.data, usage |-> acc.usage, terminal |-> acc.terminal], letters)
    BY DEF TeeTyped
  <1>4. Tee!Accumulated' = [data |-> data', usage |-> usage', terminal |-> terminal']
    BY Zenon DEF Tee!Accumulated
  <1>5. UNCHANGED <<data, usage, terminal>> => Tee!Accumulated' = Tee!Accumulated
    BY Zenon DEF Tee!Accumulated
  <1>6. CASE Tee!ChunkArrives
    <2>1. /\ tee_pc = "awaiting" /\ tee_pc' = "chunk"
          /\ UNCHANGED <<tee_provider, pieces, arrived, data, usage, terminal, tee_reported>>
      BY <1>6 DEF Tee!ChunkArrives, Tee!wire, Tee!state
    <2>2. arrived = <<>>
      BY <2>1, Zenon DEF TeeInv
    <2>3. Tee!ReadLines(Tee!Accumulated, arrived) = Tee!Accumulated
      BY <2>2, ReadsNone, Zenon
    <2> QED
      BY <1>2, <1>5, <2>1, <2>3, Zenon DEF TeeTypes
  <1>7. ASSUME NEW l \in letters, Tee!Piece(l)
        PROVE  TeeTypes'
    <2>1. /\ tee_pc = "chunk" /\ pieces' = pieces + 1 /\ Len(arrived) + pieces <= EventLimit
          /\ UNCHANGED <<tee_provider, arrived, data, usage, terminal, tee_pc, tee_reported>>
      BY <1>7 DEF Tee!Piece, Tee!MoreComes, Tee!Buffered, Tee!state
    <2>2. Len(arrived) \in Nat
      BY <1>2
    <2>3. pieces' \in 0..EventLimit + 1
      BY <1>1, <1>2, <2>1, <2>2
    <2> QED
      BY <1>2, <1>5, <2>1, <2>3, Zenon DEF TeeTypes
  <1>8. CASE Tee!Newline
    <2> DEFINE new == <<Len(tee_lines) + 1, tee_line>>
    <2>1. /\ tee_pc = "chunk" /\ pieces' = 0 /\ Len(tee_lines) < MaxLines
          /\ tee_lines' = Append(tee_lines, tee_line)
          /\ arrived' = Append(arrived, <<Len(tee_lines'), tee_line>>)
          /\ UNCHANGED <<tee_provider, data, usage, terminal, tee_pc, tee_reported>>
      BY <1>8 DEF Tee!Newline, Tee!MoreComes, Tee!state
    <2>2. tee_lines \in Seq(letters) /\ tee_line \in letters
      BY Zenon DEF TeeInv
    <2>3. Len(tee_lines) \in Nat /\ Len(tee_lines') = Len(tee_lines) + 1
      BY <2>1, <2>2
    <2>4. new \in (1..MaxLines) \X letters /\ arrived' = Append(arrived, new)
      BY <1>1, <2>1, <2>2, <2>3
    <2> HIDE DEF new
    <2>5. arrived' \in Seq((1..MaxLines) \X letters)
      BY <1>2, <2>4, AppendProperties
    <2>6. Tee!ReadLines(Tee!Accumulated, arrived') = Tee!ReadLine(seen_so_far, new)
      BY <1>2, <2>4, ReadsOn
    <2>7. TeeTyped(Tee!ReadLine(seen_so_far, new), letters)
      BY <1>2, <2>1, <2>4, LineTyped
    <2>8. pieces' \in 0..EventLimit + 1
      BY <1>1, <2>1
    <2> QED
      BY <1>2, <1>5, <2>1, <2>5, <2>6, <2>7, <2>8, Zenon DEF TeeTypes
  <1>9. CASE Tee!ReadChunk
    <2>1. /\ tee_pc = "chunk" /\ tee_pc' = "awaiting" /\ arrived' = <<>>
          /\ data' = seen_so_far.data /\ usage' = seen_so_far.usage
          /\ terminal' = seen_so_far.terminal
          /\ UNCHANGED <<tee_provider, pieces, tee_reported>>
      BY <1>9 DEF Tee!ReadChunk, Tee!Becomes, Tee!wire
    <2>2. TeeTyped(Tee!Accumulated', letters)
      BY <1>2, <1>3, <1>4, <2>1, Zenon
    <2>3. <<>> \in Seq((1..MaxLines) \X letters)
      OBVIOUS
    <2>4. tee_pc' # "chunk"
      BY <1>1, <2>1
    <2> QED
      BY <1>2, <2>1, <2>2, <2>3, <2>4, Zenon DEF TeeTypes
  <1>10. CASE Tee!Abort \/ Tee!Done \/ Tee!Throws
    <2>1. /\ tee_pc' \in {"ended", "failed"}
          /\ UNCHANGED <<tee_provider, pieces, arrived, data, usage, terminal, tee_reported>>
      BY <1>10 DEF Tee!Abort, Tee!Done, Tee!Throws, Tee!wire, Tee!state
    <2>2. tee_pc' # "chunk"
      BY <1>1, <2>1
    <2> QED
      BY <1>2, <1>5, <2>1, <2>2, Zenon DEF TeeTypes
  <1>11. CASE Tee!Report
    <2> DEFINE acc == IF tee_pc = "ended" THEN Tee!Applied(Tee!Accumulated) ELSE Tee!Accumulated
    <2>1. /\ tee_pc \in {"ended", "failed"} /\ tee_pc' = "done"
          /\ data' = acc.data /\ usage' = acc.usage /\ terminal' = acc.terminal
          /\ tee_reported' = Append(tee_reported, Tee!Final(acc))
          /\ UNCHANGED <<tee_provider, pieces, arrived>>
      BY <1>11 DEF Tee!Report, Tee!Becomes, Tee!wire
    <2>2. TeeTyped(acc, letters)
      BY <1>2, AppliedTyped
    <2> HIDE DEF acc
    <2>3. TeeTyped(Tee!Accumulated', letters)
      BY <1>3, <1>4, <2>1, <2>2, Zenon
    <2>4. tee_reported = <<>>
      <3>1. tee_pc # "done"
        BY <2>1
      <3> QED
        BY <3>1, Zenon DEF TeeInv
    <2>5. Len(tee_reported') <= 1
      BY <2>1, <2>4
    <2>6. tee_pc' # "chunk"
      BY <1>1, <2>1
    <2> QED
      BY <1>2, <2>1, <2>3, <2>5, <2>6, Zenon DEF TeeTypes
  <1> QED
    BY <1>6, <1>7, <1>8, <1>9, <1>10, <1>11, Zenon DEF Tee!Next

\* The types of what a request meets, with what their proofs rest on.
RequestInv == TypeOK /\ IInv /\ StreamsInv /\ TeeTypes

\* No step of the application changes them.
LEMMA RequestTypesMove ==
  ASSUME RequestInv, [AllNext]_allVars
  PROVE  RequestInv'
  <1>1. [Next]_vars
    BY DEF AllNext, PartsNext, Moves, partsVars, allVars
  <1>2. [MatchNext]_matchVars
    BY DEF AllNext, PartsNext, Moves, partsVars, allVars
  <1>3. Tee!Next \/ UNCHANGED teeVars
    BY DEF AllNext, PartsNext, Moves, partsVars, allVars
  <1>4. TypeOK'
    BY <1>1, LimiterTypesKept DEF RequestInv
  <1>5. IInv'
    BY <1>2, NextInv DEF RequestInv
  <1>6. StreamsInv'
    BY StreamsMove DEF RequestInv
  <1>7. TeeTypes'
    <2>1. CASE UNCHANGED teeVars
      <3>1. UNCHANGED <<tee_provider, pieces, arrived, data, usage, terminal, tee_pc, tee_reported>>
        BY <2>1 DEF teeVars
      <3>2. TeeTypes
        BY DEF RequestInv
      <3> QED
        BY <3>1, <3>2, Zenon DEF TeeTypes, Tee!Accumulated
    <2> QED
      BY <1>3, <2>1, TeeTypesMove DEF RequestInv, StreamsInv
  <1> QED
    BY <1>4, <1>5, <1>6, <1>7 DEF RequestInv

\* They hold at first.
LEMMA RequestTypesStart == AllInit => RequestInv
  <1>1. AllInit => Init /\ MatchInit /\ Tap!Init /\ Tee!Init
    BY DEF AllInit, InitWith, PartsInit
  <1> QED
    BY <1>1, LimiterTypesStart, InitInv, TapStarts, TeeStarts, TeeTypesStart
       DEF RequestInv, StreamsInv

\* They are the types of the limiter, the matcher and the two readers.
LEMMA RequestTypesFollow == RequestInv => TypeOK /\ MatchTypeOK /\ Tap!TypeOK /\ Tee!TypeOK
  <1> SUFFICES ASSUME RequestInv PROVE Tee!TypeOK
    BY DEF RequestInv, IInv, StreamsInv, TapInv
  <1>1. /\ tee_provider \in Tee!Providers
        /\ tee_lines \in Seq(Tee!LinesOf[tee_provider]) /\ tee_line \in Tee!LinesOf[tee_provider]
        /\ tee_complete \in BOOLEAN
    BY DEF RequestInv, StreamsInv, TeeInv
  <1>2. TeeTypes
    BY DEF RequestInv
  <1>3. TeeTyped(Tee!Accumulated, Tee!LinesOf[tee_provider])
    BY <1>2 DEF TeeTypes
  <1>4. /\ data \in Seq((1..MaxLines) \X Tee!LinesOf[tee_provider])
        /\ usage.input \in 0..MaxLines /\ usage.output \in 0..MaxLines /\ terminal \in BOOLEAN
    BY <1>3 DEF TeeTyped, Tee!Accumulated
  <1> QED
    BY <1>1, <1>2, <1>4 DEF TeeTypes, Tee!TypeOK
================================================================================
