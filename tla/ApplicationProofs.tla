--------------------------- MODULE ApplicationProofs ---------------------------
(***************************************************************************)
(* Proofs about the parts of MCApplication: that both transports report    *)
(* what their modules say and refine Interception, for any set of requests *)
(* and any capture capacities; that init(), shutdown(), an isolate and the *)
(* patching of a library leave nothing behind, for any threads and any     *)
(* number of calls; and that a call costs what it should, for any          *)
(* catalogues, rates and counts.                                           *)
(*                                                                         *)
(* The invariants of the transports say of every request where it is, and  *)
(* relate the events reported of it so far to its verdict, its outcome and *)
(* what a tap or a capture still owes (Heard, Told).  A report is then one *)
(* lemma: what appending an event does to those numbers.  That of the      *)
(* Python SDK gives, of every part that runs, why it does (Accounted).     *)
(* That of the prices is that the table is the merged one and the result   *)
(* that of the last call (PriceInv): what is shown of them is shown of the *)
(* functions, from what rounding and saturating do to one amount.          *)
(***************************************************************************)
EXTENDS RequestProofs, FunctionTheorems

\* How many members of a sequence are in a set.
Count(s, T) == Cardinality({n \in DOMAIN s : s[n] \in T})

\* Nothing is counted before the first report.
LEMMA CountNone == ASSUME NEW T PROVE Count(<<>>, T) = 0
  <1>1. {n \in DOMAIN <<>> : <<>>[n] \in T} = {}
    OBVIOUS
  <1> QED
    BY <1>1, FS_EmptySet DEF Count

\* The reports of a kind are finitely many.
LEMMA CountType ==
  ASSUME NEW S, NEW s \in Seq(S), NEW T
  PROVE  IsFiniteSet({n \in DOMAIN s : s[n] \in T}) /\ Count(s, T) \in Nat
  <1> DEFINE Those == {n \in DOMAIN s : s[n] \in T}
  <1>1. Those \subseteq 1..Len(s) /\ Len(s) \in Nat
    OBVIOUS
  <1>2. IsFiniteSet(Those)
    BY <1>1, FS_Interval, FS_Subset
  <1>3. Cardinality(Those) \in Nat
    BY <1>2, FS_CardinalityType
  <1> QED
    BY <1>2, <1>3 DEF Count

\* A report adds one to the count of its kinds, and nothing to the others.
LEMMA CountAppended ==
  ASSUME NEW S, NEW s \in Seq(S), NEW e \in S, NEW T
  PROVE  Count(Append(s, e), T) = Count(s, T) + (IF e \in T THEN 1 ELSE 0)
  <1> DEFINE Before == {n \in DOMAIN s : s[n] \in T}
             After == {n \in DOMAIN Append(s, e) : Append(s, e)[n] \in T}
  <1>1. IsFiniteSet(Before) /\ Cardinality(Before) \in Nat
    BY CountType DEF Count
  <1>2. Count(s, T) = Cardinality(Before) /\ Count(Append(s, e), T) = Cardinality(After)
    BY DEF Count
  <1>3. CASE e \in T
    <2>1. After = Before \cup {Len(s) + 1} /\ Len(s) + 1 \notin Before
      BY <1>3
    <2> QED
      BY <1>1, <1>2, <1>3, <2>1, FS_AddElement
  <1>4. CASE e \notin T
    <2>1. After = Before
      BY <1>4
    <2> HIDE DEF Before, After
    <2> QED
      BY <1>1, <1>2, <1>4, <2>1
  <1> QED
    BY <1>3, <1>4

-------------------------------------------------------------------------------
(* The httpx transport.                                                    *)

\* What handle_request reports, and how often it has.
HttpxEvents == [kind : {"denied", "answered", "stream"}, usage : BOOLEAN]
Refusals(s) == Count(s, {e \in HttpxEvents : e.kind = "denied"})
Answers(s) == Count(s, {e \in HttpxEvents : e.kind = "answered"})
Streams(s) == Count(s, {e \in HttpxEvents : e.kind = "stream"})
WithUsage(s) == Count(s, {e \in HttpxEvents : e.usage})

\* Where a request is says what it was judged and what became of it.
HttpxPlaced ==
    /\ httpx_setup \in [enforce : BOOLEAN, strict : BOOLEAN]
    /\ httpx_metering \in BOOLEAN /\ httpx_async \in BOOLEAN
    /\ httpx_pc \in [Requests -> {"size", "hook", "evaluate", "sent", "reading", "over"}]
    /\ httpx_judged \in [Requests -> Httpx!Gate!Verdicts \cup {"none"}]
    /\ httpx_outcome \in [Requests -> Httpx!Gate!Outcomes]
    /\ httpx_tapped \subseteq Requests
    /\ httpx_reported \in [Requests -> Seq(HttpxEvents)]
    /\ \A r \in Requests :
          /\ httpx_pc[r] \in {"size", "hook", "evaluate"} =>
                httpx_outcome[r] = "open" /\ httpx_judged[r] = "none"
          /\ httpx_pc[r] \in {"sent", "reading"} =>
                httpx_outcome[r] = "sent" /\ httpx_judged[r] # "oversized"
          /\ httpx_pc[r] = "reading" => httpx_judged[r] \in {"allow", "deny"}
          /\ httpx_pc[r] = "over" => httpx_outcome[r] \in {"answered", "refused", "failed"}

\* What has been reported of a request so far: a tap owes a report, which is counted
\* as one of the stream and of its usage until it comes.
Heard(s, owed, judgement, became) ==
    /\ Refusals(s) = IF judgement \in {"deny", "oversized"} THEN 1 ELSE 0
    /\ Answers(s) = IF became = "answered" /\ judgement \in {"allow", "deny"} THEN 1 ELSE 0
    /\ Streams(s) + owed <= Answers(s)
    /\ WithUsage(s) + owed <= Answers(s)
    /\ judgement = "none" => s = <<>>
    /\ s # <<>> /\ judgement \in {"deny", "oversized"} => s[1].kind = "denied"

\* The reports that the tap of a request still owes.
Owed(r) == IF r \in httpx_tapped THEN 1 ELSE 0

HttpxHeard(r) ==
    Heard(httpx_reported[r], Owed(r), httpx_judged[r], httpx_outcome[r])

HttpxInv == HttpxPlaced /\ \A r \in Requests : HttpxHeard(r)

\* Counts of reports are numbers.
LEMMA HttpxCounts ==
  ASSUME NEW s \in Seq(HttpxEvents)
  PROVE  {Refusals(s), Answers(s), Streams(s), WithUsage(s)} \subseteq Nat
  BY CountType DEF Refusals, Answers, Streams, WithUsage

\* What a report changes: the counts of its kind, and the first event when there was none.
LEMMA HttpxEnqueued ==
  ASSUME NEW s \in Seq(HttpxEvents), NEW e \in HttpxEvents
  PROVE  /\ Append(s, e) \in Seq(HttpxEvents)
         /\ Refusals(Append(s, e)) = Refusals(s) + (IF e.kind = "denied" THEN 1 ELSE 0)
         /\ Answers(Append(s, e)) = Answers(s) + (IF e.kind = "answered" THEN 1 ELSE 0)
         /\ Streams(Append(s, e)) = Streams(s) + (IF e.kind = "stream" THEN 1 ELSE 0)
         /\ WithUsage(Append(s, e)) = WithUsage(s) + (IF e.usage THEN 1 ELSE 0)
         /\ Append(s, e) # <<>>
         /\ Append(s, e)[1] = IF s = <<>> THEN e ELSE s[1]
  <1>1. /\ e \in {f \in HttpxEvents : f.kind = "denied"} <=> e.kind = "denied"
        /\ e \in {f \in HttpxEvents : f.kind = "answered"} <=> e.kind = "answered"
        /\ e \in {f \in HttpxEvents : f.kind = "stream"} <=> e.kind = "stream"
    OBVIOUS
  <1>2. e \in {f \in HttpxEvents : f.usage} <=> e.usage
    BY Zenon
  <1>3. Append(s, e) # <<>> /\ Append(s, e)[1] = IF s = <<>> THEN e ELSE s[1]
    BY AppendProperties, EmptySeq
  <1> QED
    BY <1>1, <1>2, <1>3, CountAppended, AppendProperties
       DEF Refusals, Answers, Streams, WithUsage

\* Nothing is judged or reported when the transport is made.
LEMMA HttpxStarts == Httpx!Init => HttpxInv
  <1> SUFFICES ASSUME Httpx!Init
               PROVE  HttpxInv
    OBVIOUS
  <1>1. HttpxPlaced
    BY DEF Httpx!Init, HttpxPlaced, Httpx!Gate!Verdicts, Httpx!Gate!Outcomes
  <1>2. ASSUME NEW r \in Requests
        PROVE  HttpxHeard(r)
    <2>1. /\ httpx_reported[r] = <<>> /\ httpx_judged[r] = "none" /\ httpx_tapped = {}
          /\ httpx_outcome[r] = "open"
      BY DEF Httpx!Init
    <2> QED
      BY <2>1, CountNone DEF HttpxHeard, Heard, Owed, Refusals, Answers, Streams, WithUsage
  <1> QED
    BY <1>1, <1>2 DEF HttpxInv

\* A refusal is the first event of a request.
LEMMA HeardRefused ==
  ASSUME NEW s \in Seq(HttpxEvents), NEW owed \in {0, 1}, NEW became, NEW after,
         Heard(s, owed, "none", became), after # "answered",
         NEW judgement \in {"deny", "oversized"},
         NEW e \in HttpxEvents, e.kind = "denied", ~e.usage
  PROVE  Heard(Append(s, e), owed, judgement, after)
  <1> DEFINE longer == Append(s, e)
  <1>1. /\ Refusals(longer) = Refusals(s) + 1 /\ Answers(longer) = Answers(s)
        /\ Streams(longer) = Streams(s) /\ WithUsage(longer) = WithUsage(s)
        /\ s = <<>> => longer[1] = e
    BY HttpxEnqueued, HttpxCounts
  <1>2. Refusals(s) = 0 /\ Answers(s) = 0 /\ s = <<>>
        /\ Streams(s) + owed <= Answers(s) /\ WithUsage(s) + owed <= Answers(s)
    BY DEF Heard
  <1> HIDE DEF longer
  <1>3. Heard(longer, owed, judgement, after)
    BY <1>1, <1>2, HttpxCounts DEF Heard
  <1> QED
    BY <1>3 DEF longer

\* An answer is reported with its usage or gets a tap, not both.
LEMMA HeardAnswered ==
  ASSUME NEW s \in Seq(HttpxEvents), NEW owed \in {0, 1}, NEW became,
         NEW judgement \in {"allow", "deny"},
         Heard(s, owed, judgement, became), became # "answered",
         NEW e \in HttpxEvents, e.kind = "answered",
         NEW still \in {0, 1}, still = 0 \/ (still = 1 /\ ~e.usage)
  PROVE  Heard(Append(s, e), still, judgement, "answered")
  <1> DEFINE longer == Append(s, e)
  <1>1. /\ Refusals(longer) = Refusals(s) /\ Answers(longer) = Answers(s) + 1
        /\ Streams(longer) = Streams(s)
        /\ WithUsage(longer) = WithUsage(s) + (IF e.usage THEN 1 ELSE 0)
        /\ s # <<>> => longer[1] = s[1]
        /\ longer # <<>>
    BY HttpxEnqueued, HttpxCounts
  <1>2. Answers(s) = 0 /\ (s = <<>> => Refusals(s) = 0)
        /\ Streams(s) + owed <= Answers(s) /\ WithUsage(s) + owed <= Answers(s)
    BY HttpxCounts, CountNone DEF Heard, Refusals
  <1> HIDE DEF longer
  <1>3. Heard(longer, still, judgement, "answered")
    BY <1>1, <1>2, HttpxCounts DEF Heard
  <1> QED
    BY <1>3 DEF longer

\* A tap reports what is owed.
LEMMA HeardStream ==
  ASSUME NEW s \in Seq(HttpxEvents), NEW judgement, NEW became,
         Heard(s, 1, judgement, became), NEW e \in HttpxEvents, e.kind = "stream"
  PROVE  Heard(Append(s, e), 0, judgement, became)
  <1> DEFINE longer == Append(s, e)
  <1>1. /\ Refusals(longer) = Refusals(s) /\ Answers(longer) = Answers(s)
        /\ Streams(longer) = Streams(s) + 1
        /\ WithUsage(longer) = WithUsage(s) + (IF e.usage THEN 1 ELSE 0)
        /\ s # <<>> => longer[1] = s[1]
        /\ longer # <<>>
    BY HttpxEnqueued, HttpxCounts
  <1>2. Answers(s) \in {0, 1} /\ s # <<>> /\ judgement # "none"
        /\ Streams(s) + 1 <= Answers(s) /\ WithUsage(s) + 1 <= Answers(s)
    BY HttpxCounts, CountNone DEF Heard, Answers
  <1> HIDE DEF longer
  <1>3. Heard(longer, 0, judgement, became)
    BY <1>1, <1>2, HttpxCounts DEF Heard
  <1> QED
    BY <1>3 DEF longer

\* Every step of handle_request keeps the reports in line with verdict and outcome.
LEMMA HttpxMoves == HttpxInv /\ Httpx!Next => HttpxInv'
  <1> SUFFICES ASSUME HttpxInv, NEW r \in Requests,
                      \/ Httpx!Inspectable(r) \/ Httpx!Oversized(r) \/ Httpx!Unread(r)
                      \/ Httpx!HookProceeds(r) \/ Httpx!HookWaives(r)
                      \/ Httpx!EngineFaults(r) \/ Httpx!Allowed(r) \/ Httpx!Denied(r)
                      \/ Httpx!SendFails(r) \/ Httpx!AnsweredUnjudged(r)
                      \/ Httpx!AnsweredPlain(r) \/ Httpx!AnsweredStream(r)
                      \/ Httpx!ReadBody(r) \/ Httpx!BodyHasUsage(r)
                      \/ Httpx!Cancelled(r) \/ Httpx!TapReports(r)
               PROVE  HttpxPlaced' /\ \A q \in Requests : HttpxHeard(q)'
    BY DEF Httpx!Next, HttpxInv
  <1>1. HttpxPlaced /\ \A q \in Requests : HttpxHeard(q)
    BY DEF HttpxInv
  <1> USE DEF Httpx!options, Httpx!Goto, Httpx!Judge, Httpx!Outcome, Httpx!Send,
              Httpx!Refuse, Httpx!Judged, Httpx!Gate!Verdicts, Httpx!Gate!Outcomes
  <1>2. CASE Httpx!Inspectable(r)
    BY <1>1, <1>2 DEF HttpxPlaced, HttpxHeard, Heard, Owed, Httpx!Inspectable
  <1>3. CASE Httpx!Oversized(r)
    <2>1. CASE ~Httpx!FailsClosed
      <3>1. /\ httpx_pc[r] = "size"
            /\ httpx_pc' = [httpx_pc EXCEPT ![r] = "hook"]
            /\ UNCHANGED <<httpx_setup, httpx_metering, httpx_async, httpx_judged,
                           httpx_outcome, httpx_tapped, httpx_reported>>
        BY <1>3, <2>1 DEF Httpx!Oversized
      <3> QED
        BY <1>1, <3>1 DEF HttpxPlaced, HttpxHeard, Owed
    <2> SUFFICES ASSUME Httpx!FailsClosed
                 PROVE  HttpxPlaced' /\ \A q \in Requests : HttpxHeard(q)'
      BY <2>1
    <2>2. LET e == Httpx!Event("denied", FALSE)
          IN  e \in HttpxEvents /\ e.kind = "denied" /\ ~e.usage
      BY DEF HttpxEvents, Httpx!Event
    <2> PICK e \in HttpxEvents :
          /\ e.kind = "denied" /\ ~e.usage
          /\ httpx_pc[r] = "size"
          /\ httpx_pc' = [httpx_pc EXCEPT ![r] = "over"]
          /\ httpx_outcome' = [httpx_outcome EXCEPT ![r] = "refused"]
          /\ httpx_judged' = [httpx_judged EXCEPT ![r] = "oversized"]
          /\ httpx_reported' = [httpx_reported EXCEPT ![r] = Append(@, e)]
          /\ UNCHANGED <<httpx_setup, httpx_metering, httpx_async, httpx_tapped>>
      BY <1>3, <2>2 DEF Httpx!Oversized, Httpx!Enqueue
    <2> DEFINE s == httpx_reported[r]
    <2>3. s \in Seq(HttpxEvents) /\ Append(s, e) \in Seq(HttpxEvents)
      BY <1>1, HttpxEnqueued DEF HttpxPlaced
    <2>4. HttpxPlaced'
      BY <1>1, <2>3 DEF HttpxPlaced
    <2>5. ASSUME NEW q \in Requests \ {r}
          PROVE  HttpxHeard(q)'
      BY <1>1 DEF HttpxPlaced, HttpxHeard, Owed
    <2>6. Heard(s, Owed(r), "none", httpx_outcome[r])
      BY <1>1 DEF HttpxPlaced, HttpxHeard, Owed
    <2>7. Heard(Append(s, e), Owed(r), "oversized", "refused")
      BY <1>1, <2>3, <2>6, HeardRefused DEF HttpxPlaced, Owed
    <2>8. HttpxHeard(r)'
      BY <1>1, <2>7 DEF HttpxPlaced, HttpxHeard, Owed
    <2> QED
      BY <2>4, <2>5, <2>8
  <1>4. CASE Httpx!Unread(r)
    BY <1>1, <1>4 DEF HttpxPlaced, HttpxHeard, Heard, Owed, Httpx!Unread
  <1>5. CASE Httpx!HookProceeds(r)
    BY <1>1, <1>5 DEF HttpxPlaced, HttpxHeard, Heard, Owed, Httpx!HookProceeds
  <1>6. CASE Httpx!HookWaives(r)
    BY <1>1, <1>6 DEF HttpxPlaced, HttpxHeard, Heard, Owed, Httpx!HookWaives
  <1>7. CASE Httpx!EngineFaults(r)
    <2>1. /\ httpx_pc[r] = "evaluate"
          /\ \/ /\ httpx_pc' = [httpx_pc EXCEPT ![r] = "sent"]
                /\ httpx_outcome' = [httpx_outcome EXCEPT ![r] = "sent"]
             \/ /\ httpx_pc' = [httpx_pc EXCEPT ![r] = "over"]
                /\ httpx_outcome' = [httpx_outcome EXCEPT ![r] = "refused"]
          /\ httpx_judged' = [httpx_judged EXCEPT ![r] = "fault"]
          /\ UNCHANGED <<httpx_setup, httpx_metering, httpx_async, httpx_tapped,
                         httpx_reported>>
      BY <1>7 DEF Httpx!EngineFaults
    <2>2. HttpxPlaced'
      BY <1>1, <2>1 DEF HttpxPlaced
    <2> QED
      BY <1>1, <2>1, <2>2 DEF HttpxPlaced, HttpxHeard, Heard, Owed
  <1>8. CASE Httpx!Allowed(r)
    BY <1>1, <1>8 DEF HttpxPlaced, HttpxHeard, Heard, Owed, Httpx!Allowed
  <1>9. CASE Httpx!Denied(r)
    <2>1. LET e == Httpx!Event("denied", FALSE)
          IN  e \in HttpxEvents /\ e.kind = "denied" /\ ~e.usage
      BY DEF HttpxEvents, Httpx!Event
    <2> PICK e \in HttpxEvents :
          /\ e.kind = "denied" /\ ~e.usage
          /\ httpx_pc[r] = "evaluate"
          /\ \/ /\ httpx_pc' = [httpx_pc EXCEPT ![r] = "sent"]
                /\ httpx_outcome' = [httpx_outcome EXCEPT ![r] = "sent"]
             \/ /\ httpx_pc' = [httpx_pc EXCEPT ![r] = "over"]
                /\ httpx_outcome' = [httpx_outcome EXCEPT ![r] = "refused"]
          /\ httpx_judged' = [httpx_judged EXCEPT ![r] = "deny"]
          /\ httpx_reported' = [httpx_reported EXCEPT ![r] = Append(@, e)]
          /\ UNCHANGED <<httpx_setup, httpx_metering, httpx_async, httpx_tapped>>
      BY <1>9, <2>1 DEF Httpx!Denied, Httpx!Enqueue
    <2> DEFINE s == httpx_reported[r]
    <2>2. s \in Seq(HttpxEvents) /\ Append(s, e) \in Seq(HttpxEvents)
      BY <1>1, HttpxEnqueued DEF HttpxPlaced
    <2>3. HttpxPlaced'
      BY <1>1, <2>2 DEF HttpxPlaced
    <2>4. ASSUME NEW q \in Requests \ {r}
          PROVE  HttpxHeard(q)'
      BY <1>1 DEF HttpxPlaced, HttpxHeard, Owed
    <2>5. Heard(s, Owed(r), "none", httpx_outcome[r])
      BY <1>1 DEF HttpxPlaced, HttpxHeard, Owed
    <2>6. Heard(Append(s, e), Owed(r), "deny", httpx_outcome'[r])
      BY <1>1, <2>2, <2>5, HeardRefused DEF HttpxPlaced, Owed
    <2>7. HttpxHeard(r)'
      BY <1>1, <2>6 DEF HttpxPlaced, HttpxHeard, Owed
    <2> QED
      BY <2>3, <2>4, <2>7
  <1>10. CASE Httpx!SendFails(r)
    BY <1>1, <1>10 DEF HttpxPlaced, HttpxHeard, Heard, Owed, Httpx!SendFails
  <1>11. CASE Httpx!AnsweredUnjudged(r)
    BY <1>1, <1>11 DEF HttpxPlaced, HttpxHeard, Heard, Owed, Httpx!AnsweredUnjudged
  <1>12. CASE Httpx!AnsweredPlain(r)
    <2>1. LET e == Httpx!Event("answered", FALSE)
          IN  e \in HttpxEvents /\ e.kind = "answered" /\ ~e.usage
      BY DEF HttpxEvents, Httpx!Event
    <2> PICK e \in HttpxEvents :
          /\ e.kind = "answered" /\ ~e.usage
          /\ httpx_pc[r] \in {"sent", "reading"} /\ httpx_judged[r] \in {"allow", "deny"}
          /\ httpx_pc' = [httpx_pc EXCEPT ![r] = "over"]
          /\ httpx_outcome' = [httpx_outcome EXCEPT ![r] = "answered"]
          /\ httpx_reported' = [httpx_reported EXCEPT ![r] = Append(@, e)]
          /\ UNCHANGED <<httpx_setup, httpx_metering, httpx_async, httpx_judged,
                         httpx_tapped>>
      BY <1>12, <2>1 DEF Httpx!AnsweredPlain, Httpx!Enqueue
    <2> DEFINE s == httpx_reported[r]
    <2>2. s \in Seq(HttpxEvents) /\ Append(s, e) \in Seq(HttpxEvents)
      BY <1>1, HttpxEnqueued DEF HttpxPlaced
    <2>3. HttpxPlaced'
      BY <1>1, <2>2 DEF HttpxPlaced
    <2>4. ASSUME NEW q \in Requests \ {r}
          PROVE  HttpxHeard(q)'
      BY <1>1 DEF HttpxPlaced, HttpxHeard, Owed
    <2>5. Heard(s, Owed(r), httpx_judged[r], httpx_outcome[r])
      BY <1>1 DEF HttpxPlaced, HttpxHeard, Owed
    <2>6. /\ Owed(r) = 0 /\ httpx_outcome[r] # "answered"
          /\ httpx_judged[r] \in {"allow", "deny"}
      BY <1>1, <2>2, <2>5, HttpxCounts DEF HttpxPlaced, Heard, Owed
    <2>7. Heard(Append(s, e), 0, httpx_judged[r], "answered")
      BY <1>1, <2>2, <2>5, <2>6, HeardAnswered DEF HttpxPlaced, Owed
    <2>8. HttpxHeard(r)'
      BY <1>1, <2>6, <2>7 DEF HttpxPlaced, HttpxHeard, Owed
    <2> QED
      BY <2>3, <2>4, <2>8
  <1>13. CASE Httpx!AnsweredStream(r)
    <2>1. LET e == Httpx!Event("answered", FALSE)
          IN  e \in HttpxEvents /\ e.kind = "answered" /\ ~e.usage
      BY DEF HttpxEvents, Httpx!Event
    <2> PICK e \in HttpxEvents :
          /\ e.kind = "answered" /\ ~e.usage
          /\ httpx_pc[r] = "sent" /\ httpx_judged[r] \in {"allow", "deny"}
          /\ httpx_pc' = [httpx_pc EXCEPT ![r] = "over"]
          /\ httpx_outcome' = [httpx_outcome EXCEPT ![r] = "answered"]
          /\ httpx_tapped' = httpx_tapped \cup {r}
          /\ httpx_reported' = [httpx_reported EXCEPT ![r] = Append(@, e)]
          /\ UNCHANGED <<httpx_setup, httpx_metering, httpx_async, httpx_judged>>
      BY <1>13, <2>1 DEF Httpx!AnsweredStream, Httpx!Enqueue
    <2> DEFINE s == httpx_reported[r]
    <2>2. s \in Seq(HttpxEvents) /\ Append(s, e) \in Seq(HttpxEvents)
      BY <1>1, HttpxEnqueued DEF HttpxPlaced
    <2>3. HttpxPlaced'
      BY <1>1, <2>2 DEF HttpxPlaced
    <2>4. ASSUME NEW q \in Requests \ {r}
          PROVE  HttpxHeard(q)'
      BY <1>1 DEF HttpxPlaced, HttpxHeard, Owed
    <2>5. Heard(s, Owed(r), httpx_judged[r], httpx_outcome[r])
      BY <1>1 DEF HttpxPlaced, HttpxHeard, Owed
    <2>6. Heard(Append(s, e), 1, httpx_judged[r], "answered")
      BY <1>1, <2>2, <2>5, HeardAnswered DEF HttpxPlaced, Owed
    <2>7. HttpxHeard(r)'
      BY <1>1, <2>6 DEF HttpxPlaced, HttpxHeard, Owed
    <2> QED
      BY <2>3, <2>4, <2>7
  <1>14. CASE Httpx!ReadBody(r)
    BY <1>1, <1>14 DEF HttpxPlaced, HttpxHeard, Heard, Owed, Httpx!ReadBody
  <1>15. CASE Httpx!BodyHasUsage(r)
    <2>1. LET e == Httpx!Event("answered", TRUE)
          IN  e \in HttpxEvents /\ e.kind = "answered" /\ e.usage
      BY DEF HttpxEvents, Httpx!Event
    <2> PICK e \in HttpxEvents :
          /\ e.kind = "answered"
          /\ httpx_pc[r] = "reading"
          /\ httpx_pc' = [httpx_pc EXCEPT ![r] = "over"]
          /\ httpx_outcome' = [httpx_outcome EXCEPT ![r] = "answered"]
          /\ httpx_reported' = [httpx_reported EXCEPT ![r] = Append(@, e)]
          /\ UNCHANGED <<httpx_setup, httpx_metering, httpx_async, httpx_judged,
                         httpx_tapped>>
      BY <1>15, <2>1 DEF Httpx!BodyHasUsage, Httpx!Enqueue
    <2> DEFINE s == httpx_reported[r]
    <2>2. s \in Seq(HttpxEvents) /\ Append(s, e) \in Seq(HttpxEvents)
      BY <1>1, HttpxEnqueued DEF HttpxPlaced
    <2>3. HttpxPlaced'
      BY <1>1, <2>2 DEF HttpxPlaced
    <2>4. ASSUME NEW q \in Requests \ {r}
          PROVE  HttpxHeard(q)'
      BY <1>1 DEF HttpxPlaced, HttpxHeard, Owed
    <2>5. Heard(s, Owed(r), httpx_judged[r], httpx_outcome[r])
      BY <1>1 DEF HttpxPlaced, HttpxHeard, Owed
    <2>6. /\ Owed(r) = 0 /\ httpx_outcome[r] # "answered"
          /\ httpx_judged[r] \in {"allow", "deny"}
      BY <1>1, <2>2, <2>5, HttpxCounts DEF HttpxPlaced, Heard, Owed
    <2>7. Heard(Append(s, e), 0, httpx_judged[r], "answered")
      BY <1>1, <2>2, <2>5, <2>6, HeardAnswered DEF HttpxPlaced, Owed
    <2>8. HttpxHeard(r)'
      BY <1>1, <2>6, <2>7 DEF HttpxPlaced, HttpxHeard, Owed
    <2> QED
      BY <2>3, <2>4, <2>8
  <1>16. CASE Httpx!Cancelled(r)
    BY <1>1, <1>16 DEF HttpxPlaced, HttpxHeard, Heard, Owed, Httpx!Cancelled
  <1>17. CASE Httpx!TapReports(r)
    <2>1. \A u \in BOOLEAN : /\ Httpx!Event("stream", u) \in HttpxEvents
                              /\ Httpx!Event("stream", u).kind = "stream"
      BY DEF HttpxEvents, Httpx!Event
    <2> PICK e \in HttpxEvents :
          /\ e.kind = "stream"
          /\ r \in httpx_tapped
          /\ httpx_tapped' = httpx_tapped \ {r}
          /\ httpx_reported' = [httpx_reported EXCEPT ![r] = Append(@, e)]
          /\ UNCHANGED <<httpx_setup, httpx_metering, httpx_async, httpx_pc, httpx_judged,
                         httpx_outcome>>
      BY <1>17, <2>1 DEF Httpx!TapReports, Httpx!Enqueue
    <2> DEFINE s == httpx_reported[r]
    <2>2. s \in Seq(HttpxEvents) /\ Append(s, e) \in Seq(HttpxEvents)
      BY <1>1, HttpxEnqueued DEF HttpxPlaced
    <2>3. HttpxPlaced'
      BY <1>1, <2>2 DEF HttpxPlaced
    <2>4. ASSUME NEW q \in Requests \ {r}
          PROVE  HttpxHeard(q)'
      BY <1>1 DEF HttpxPlaced, HttpxHeard, Owed
    <2>5. Heard(s, 1, httpx_judged[r], httpx_outcome[r])
      BY <1>1 DEF HttpxPlaced, HttpxHeard, Owed
    <2>6. Heard(Append(s, e), 0, httpx_judged[r], httpx_outcome[r])
      BY <1>1, <2>2, <2>5, HeardStream DEF HttpxPlaced, Owed
    <2>7. HttpxHeard(r)'
      BY <1>1, <2>6 DEF HttpxPlaced, HttpxHeard, Owed
    <2> QED
      BY <2>3, <2>4, <2>7
  <1> QED
    BY <1>2, <1>3, <1>4, <1>5, <1>6, <1>7, <1>8, <1>9,
       <1>10, <1>11, <1>12, <1>13, <1>14, <1>15, <1>16, <1>17

\* The invariant implies what the module states of the reports.
LEMMA HttpxReports == HttpxInv => Httpx!Reports
  <1> SUFFICES ASSUME HttpxInv
               PROVE  Httpx!Reports
    OBVIOUS
  <1>1. ASSUME NEW r \in Requests
        PROVE
           /\ Httpx!Number(r, "denied")
                 = IF httpx_judged[r] \in {"deny", "oversized"} THEN 1 ELSE 0
           /\ Httpx!Number(r, "answered")
                 = IF httpx_outcome[r] = "answered" /\ Httpx!Judged(r) THEN 1 ELSE 0
           /\ httpx_reported[r] # <<>> /\ httpx_judged[r] \in {"deny", "oversized"}
                 => httpx_reported[r][1].kind = "denied"
           /\ Cardinality({n \in DOMAIN httpx_reported[r] : httpx_reported[r][n].usage}) <= 1
           /\ Httpx!Number(r, "stream") <= Httpx!Number(r, "answered")
    <2> DEFINE s == httpx_reported[r]
               Of(kind) == {n \in DOMAIN s : s[n].kind = kind}
               Used == {n \in DOMAIN s : s[n].usage}
    <2>1. s \in Seq(HttpxEvents) /\ HttpxHeard(r)
      BY DEF HttpxInv, HttpxPlaced
    <2>2. \A kind : Of(kind) = {n \in DOMAIN s : s[n] \in {e \in HttpxEvents : e.kind = kind}}
      BY <2>1
    <2>3. Used = {n \in DOMAIN s : s[n] \in {e \in HttpxEvents : e.usage}}
      BY <2>1
    <2>4. /\ Cardinality(Of("denied")) = Refusals(s)
          /\ Cardinality(Of("answered")) = Answers(s)
          /\ Cardinality(Of("stream")) = Streams(s)
          /\ Cardinality(Used) = WithUsage(s)
      BY <2>2, <2>3, Zenon DEF Refusals, Answers, Streams, WithUsage, Count
    <2>5. \A kind : Httpx!Number(r, kind) = Cardinality(Of(kind))
      BY Zenon DEF Httpx!Number, Httpx!Cardinality, Cardinality
    <2>6. {Answers(s), Streams(s), WithUsage(s)} \subseteq Nat
      BY <2>1, HttpxCounts
    <2>7. /\ Httpx!Number(r, "denied") = Refusals(s)
          /\ Httpx!Number(r, "answered") = Answers(s)
          /\ Httpx!Number(r, "stream") = Streams(s)
      BY <2>4, <2>5
    <2> HIDE DEF Of, Used
    <2>8. Cardinality(Used) <= 1
      BY <2>1, <2>4, <2>6 DEF HttpxHeard, Heard, Owed
    <2> QED
      BY <2>1, <2>6, <2>7, <2>8 DEF HttpxHeard, Heard, Owed, Httpx!Judged, Used
  <1> QED
    BY <1>1, Zenon DEF Httpx!Reports, Httpx!Cardinality, Cardinality

\* What a step may do to one request, as Interception has it.
HttpxHandled(r) ==
    /\ UNCHANGED httpx_setup
    /\ \/ UNCHANGED httpx_judged
       \/ /\ httpx_judged[r] = "none"
          /\ \E v \in Httpx!Gate!Verdicts : httpx_judged' = [httpx_judged EXCEPT ![r] = v]
    /\ \/ UNCHANGED httpx_outcome
       \/ /\ httpx_outcome[r] = "open" /\ Httpx!Gate!MaySend(httpx_judged'[r])
          /\ httpx_outcome' = [httpx_outcome EXCEPT ![r] = "sent"]
       \/ /\ httpx_outcome[r] = "open" /\ Httpx!Gate!MayRefuse(httpx_judged'[r])
          /\ httpx_outcome' = [httpx_outcome EXCEPT ![r] = "refused"]
       \/ /\ httpx_outcome[r] = "sent"
          /\ httpx_outcome' = [httpx_outcome EXCEPT ![r] = "answered"]
       \/ /\ httpx_outcome[r] \in {"open", "sent"}
          /\ httpx_outcome' = [httpx_outcome EXCEPT ![r] = "failed"]

\* Every step of handle_request is one that Interception allows, or none.
LEMMA HttpxGate ==
    HttpxInv /\ Httpx!Next => [Httpx!Gate!Next]_(Httpx!Gate!vars)
  <1>1. ASSUME HttpxPlaced, NEW r \in Requests, HttpxHandled(r)
        PROVE  [Httpx!Gate!Next]_(Httpx!Gate!vars)
    BY <1>1 DEF HttpxPlaced, HttpxHandled, Httpx!Gate!Next, Httpx!Gate!Handle, Httpx!Gate!vars
  <1>2. ASSUME HttpxPlaced, NEW r \in Requests,
               \/ Httpx!Inspectable(r) \/ Httpx!Oversized(r) \/ Httpx!Unread(r)
               \/ Httpx!HookProceeds(r) \/ Httpx!HookWaives(r)
               \/ Httpx!EngineFaults(r) \/ Httpx!Allowed(r) \/ Httpx!Denied(r)
               \/ Httpx!SendFails(r) \/ Httpx!AnsweredUnjudged(r)
               \/ Httpx!AnsweredPlain(r) \/ Httpx!AnsweredStream(r)
               \/ Httpx!ReadBody(r) \/ Httpx!BodyHasUsage(r)
               \/ Httpx!Cancelled(r) \/ Httpx!TapReports(r)
        PROVE  HttpxHandled(r)
    <2> USE <1>2 DEF HttpxPlaced, HttpxHandled, Httpx!options, Httpx!Goto, Httpx!Judge,
              Httpx!Outcome, Httpx!Send, Httpx!Refuse, Httpx!FailsClosed,
              Httpx!Gate!Verdicts, Httpx!Gate!MaySend, Httpx!Gate!MayRefuse
    <2>1. CASE Httpx!Inspectable(r)
      BY <2>1 DEF Httpx!Inspectable
    <2>2. CASE Httpx!Oversized(r)
      BY <2>2 DEF Httpx!Oversized
    <2>3. CASE Httpx!Unread(r)
      BY <2>3 DEF Httpx!Unread
    <2>4. CASE Httpx!HookProceeds(r)
      BY <2>4 DEF Httpx!HookProceeds
    <2>5. CASE Httpx!HookWaives(r)
      BY <2>5 DEF Httpx!HookWaives
    <2>6. CASE Httpx!EngineFaults(r)
      BY <2>6 DEF Httpx!EngineFaults
    <2>7. CASE Httpx!Allowed(r)
      BY <2>7 DEF Httpx!Allowed
    <2>8. CASE Httpx!Denied(r)
      BY <2>8 DEF Httpx!Denied
    <2>9. CASE Httpx!SendFails(r)
      BY <2>9 DEF Httpx!SendFails
    <2>10. CASE Httpx!AnsweredUnjudged(r)
      BY <2>10 DEF Httpx!AnsweredUnjudged
    <2>11. CASE Httpx!AnsweredPlain(r)
      BY <2>11 DEF Httpx!AnsweredPlain
    <2>12. CASE Httpx!AnsweredStream(r)
      BY <2>12 DEF Httpx!AnsweredStream
    <2>13. CASE Httpx!ReadBody(r)
      BY <2>13 DEF Httpx!ReadBody
    <2>14. CASE Httpx!BodyHasUsage(r)
      BY <2>14 DEF Httpx!BodyHasUsage
    <2>15. CASE Httpx!Cancelled(r)
      BY <2>15 DEF Httpx!Cancelled
    <2>16. CASE Httpx!TapReports(r)
      BY <2>16 DEF Httpx!TapReports
    <2> QED
      BY <2>1, <2>2, <2>3, <2>4, <2>5, <2>6, <2>7, <2>8, <2>9,
         <2>10, <2>11, <2>12, <2>13, <2>14, <2>15, <2>16
  <1> QED
    BY <1>1, <1>2 DEF HttpxInv, Httpx!Next

-------------------------------------------------------------------------------
(* The fetch wrapper.                                                      *)

\* What wrapFetch reports, and the captures that the budget has to count.
FetchEvents == {"denied", "answered", "stream"}
Captures == {r \in Requests : fetch_capture[r] \in {"reading", "read"}}

\* Where a request is says what it was judged, what became of it and whether its
\* stream is captured.
FetchPlaced ==
    /\ fetch_setup \in [enforce : BOOLEAN, strict : BOOLEAN]
    /\ fetch_pc \in [Requests -> {"body", "sent", "over"}]
    /\ fetch_judged \in [Requests -> Fetch!Gate!Verdicts \cup {"none"}]
    /\ fetch_outcome \in [Requests -> Fetch!Gate!Outcomes]
    /\ fetch_capture \in [Requests -> {"none", "reading", "read", "over"}]
    /\ capacity \in Capacities /\ dropped_budget \in Nat
    /\ fetch_reported \in [Requests -> Seq(FetchEvents)]
    /\ \A r \in Requests :
          /\ fetch_pc[r] = "body" =>
                fetch_outcome[r] = "open" /\ fetch_judged[r] = "none" /\ fetch_capture[r] = "none"
          /\ fetch_pc[r] = "sent" =>
                /\ fetch_outcome[r] = "sent" /\ fetch_judged[r] \in {"allow", "deny", "fault"}
                /\ fetch_capture[r] = "none"
          /\ fetch_pc[r] = "over" => fetch_outcome[r] \in {"answered", "refused", "failed"}
          /\ fetch_capture[r] # "none" =>
                fetch_outcome[r] = "answered" /\ fetch_judged[r] \in {"allow", "fault"}

\* How often an event was reported.
Times(s, kind) == Count(s, {kind})

\* What has been reported of a request so far.
Told(s, judgement, became, state) ==
    /\ Times(s, "denied") = IF judgement = "deny" THEN 1 ELSE 0
    /\ Times(s, "answered") = IF became = "answered" /\ judgement # "fault" THEN 1 ELSE 0
    /\ Times(s, "stream") = IF state \in {"read", "over"} THEN 1 ELSE 0
    /\ judgement = "none" => s = <<>>
    /\ judgement = "deny" => s # <<>> /\ s[1] = "denied"

FetchTold(r) ==
    Told(fetch_reported[r], fetch_judged[r], fetch_outcome[r], fetch_capture[r])

\* The capture budget counts the captures that run.
BudgetCounts == IsFiniteSet(Captures) /\ in_use = Cardinality(Captures)

FetchInv == FetchPlaced /\ BudgetCounts /\ \A r \in Requests : FetchTold(r)

\* What a report changes: the count of its kind, and the first event when there was none.
LEMMA FetchEnqueued ==
  ASSUME NEW s \in Seq(FetchEvents), NEW e \in FetchEvents
  PROVE  /\ Append(s, e) \in Seq(FetchEvents)
         /\ \A kind : Times(s, kind) \in Nat
         /\ \A kind : Times(Append(s, e), kind) = Times(s, kind) + (IF e = kind THEN 1 ELSE 0)
         /\ Append(s, e) # <<>>
         /\ Append(s, e)[1] = IF s = <<>> THEN e ELSE s[1]
  <1>1. \A kind : e \in {kind} <=> e = kind
    OBVIOUS
  <1>2. Append(s, e) # <<>> /\ Append(s, e)[1] = IF s = <<>> THEN e ELSE s[1]
    BY AppendProperties, EmptySeq
  <1>3. ASSUME NEW kind
        PROVE  /\ Times(s, kind) \in Nat
               /\ Times(Append(s, e), kind) = Times(s, kind) + (IF e = kind THEN 1 ELSE 0)
    BY <1>1, CountType, CountAppended DEF Times
  <1> QED
    BY <1>2, <1>3, AppendProperties

\* A refusal is the first event of a request, and an answer and a stream follow.
LEMMA ToldMore ==
  ASSUME NEW s \in Seq(FetchEvents), NEW judgement, NEW became, NEW state,
         Told(s, judgement, became, state)
  PROVE  /\ judgement = "none" =>
               \A after : after # "answered" => Told(Append(s, "denied"), "deny", after, state)
         /\ judgement \notin {"fault", "none"} /\ became # "answered" =>
               Told(Append(s, "answered"), judgement, "answered", state)
         /\ state = "reading" /\ judgement # "none" =>
               Told(Append(s, "stream"), judgement, became, "read")
  <1>1. /\ {"denied", "answered", "stream"} \subseteq FetchEvents
        /\ \A e \in FetchEvents :
              /\ Times(Append(s, e), e) = Times(s, e) + 1
              /\ \A kind \in FetchEvents \ {e} : Times(Append(s, e), kind) = Times(s, kind)
              /\ Append(s, e) # <<>>
              /\ Append(s, e)[1] = IF s = <<>> THEN e ELSE s[1]
    BY FetchEnqueued DEF FetchEvents
  <1>2. /\ Times(Append(s, "denied"), "denied") = Times(s, "denied") + 1
        /\ Times(Append(s, "denied"), "answered") = Times(s, "answered")
        /\ Times(Append(s, "denied"), "stream") = Times(s, "stream")
    BY <1>1
  <1>3. /\ Times(Append(s, "answered"), "denied") = Times(s, "denied")
        /\ Times(Append(s, "answered"), "answered") = Times(s, "answered") + 1
        /\ Times(Append(s, "answered"), "stream") = Times(s, "stream")
    BY <1>1
  <1>4. /\ Times(Append(s, "stream"), "denied") = Times(s, "denied")
        /\ Times(Append(s, "stream"), "answered") = Times(s, "answered")
        /\ Times(Append(s, "stream"), "stream") = Times(s, "stream") + 1
    BY <1>1
  <1>5. judgement = "none" =>
           \A after : after # "answered" => Told(Append(s, "denied"), "deny", after, state)
    <2>1. \A kind : Times(<<>>, kind) = 0
      BY CountNone DEF Times
    <2> QED
      BY <1>1, <1>2, <2>1 DEF Told
  <1>6. judgement \notin {"fault", "none"} /\ became # "answered" =>
           Told(Append(s, "answered"), judgement, "answered", state)
    BY <1>1, <1>3 DEF Told
  <1>7. state = "reading" /\ judgement # "none" => Told(Append(s, "stream"), judgement, became, "read")
    BY <1>1, <1>4 DEF Told
  <1> QED
    BY <1>5, <1>6, <1>7

\* Nothing is judged, captured or reported when fetch is wrapped.
LEMMA FetchStarts == Fetch!Init => FetchInv
  <1> SUFFICES ASSUME Fetch!Init
               PROVE  FetchInv
    OBVIOUS
  <1>1. FetchPlaced
    BY DEF Fetch!Init, FetchPlaced, Fetch!Gate!Verdicts, Fetch!Gate!Outcomes
  <1>2. ASSUME NEW r \in Requests
        PROVE  FetchTold(r)
    <2>1. /\ fetch_reported[r] = <<>> /\ fetch_judged[r] = "none"
          /\ fetch_outcome[r] = "open" /\ fetch_capture[r] = "none"
      BY DEF Fetch!Init
    <2> QED
      BY <2>1, CountNone DEF FetchTold, Told, Times
  <1>3. Captures = {}
    BY DEF Fetch!Init, Captures
  <1>4. BudgetCounts
    BY <1>3, FS_EmptySet DEF BudgetCounts, Fetch!Init
  <1> QED
    BY <1>1, <1>2, <1>4 DEF FetchInv

\* A capture that begins, goes on or ends is counted.
LEMMA CaptureMoves ==
  ASSUME FetchPlaced, BudgetCounts, NEW r \in Requests,
         NEW state \in {"none", "reading", "read", "over"},
         fetch_capture' = [fetch_capture EXCEPT ![r] = state]
  PROVE  /\ in_use \in Nat /\ Captures \subseteq Requests
         /\ fetch_capture[r] = "none" /\ state = "reading" =>
               IsFiniteSet(Captures') /\ Cardinality(Captures') = in_use + 1
         /\ fetch_capture[r] = "reading" /\ state = "read" => Captures' = Captures
         /\ fetch_capture[r] = "read" /\ state = "over" =>
               IsFiniteSet(Captures') /\ Cardinality(Captures') = in_use - 1 /\ in_use # 0
  <1>1. in_use \in Nat /\ Captures \subseteq Requests
    BY FS_CardinalityType DEF BudgetCounts, Captures
  <1>2. CASE fetch_capture[r] = "none" /\ state = "reading"
    <2>1. Captures' = Captures \cup {r} /\ r \notin Captures
      BY <1>2 DEF FetchPlaced, Captures
    <2> QED
      BY <1>1, <1>2, <2>1, FS_AddElement DEF BudgetCounts
  <1>3. CASE fetch_capture[r] = "reading" /\ state = "read"
    <2>1. Captures' = Captures
      BY <1>3 DEF FetchPlaced, Captures
    <2> QED
      BY <1>1, <1>3, <2>1
  <1>4. CASE fetch_capture[r] = "read" /\ state = "over"
    <2>1. Captures' = Captures \ {r} /\ r \in Captures
      BY <1>4 DEF FetchPlaced, Captures
    <2>2. IsFiniteSet(Captures') /\ Cardinality(Captures') = in_use - 1
      BY <2>1, FS_RemoveElement DEF BudgetCounts
    <2>3. in_use # 0
      BY <2>1, FS_EmptySet DEF BudgetCounts
    <2> QED
      BY <1>1, <1>4, <2>2, <2>3
  <1> QED
    BY <1>1, <1>2, <1>3, <1>4

\* Every step of wrapFetch and of its captures keeps the invariant.
LEMMA FetchMoves == FetchInv /\ Fetch!Next => FetchInv'
  <1>1. ASSUME FetchInv, Fetch!SetCapacity
        PROVE  FetchInv'
    BY <1>1, Zenon DEF Fetch!SetCapacity, FetchInv, FetchPlaced, BudgetCounts, Captures, FetchTold
  <1>2. ASSUME FetchInv, NEW r \in Requests,
                      \/ Fetch!Throws(r) \/ Fetch!Oversized(r) \/ Fetch!Stopped(r)
                      \/ Fetch!EngineFaults(r) \/ Fetch!Allowed(r) \/ Fetch!Denied(r)
                      \/ Fetch!FetchRejects(r) \/ Fetch!AnsweredPlain(r)
                      \/ Fetch!AnsweredStream(r) \/ Fetch!CaptureReports(r)
                      \/ Fetch!Release(r)
        PROVE  FetchPlaced' /\ BudgetCounts' /\ \A q \in Requests : FetchTold(q)'
    <2>1. FetchPlaced /\ BudgetCounts /\ \A q \in Requests : FetchTold(q)
      BY <1>2 DEF FetchInv
    <2>2. UNCHANGED <<in_use, fetch_capture>> => BudgetCounts'
      BY <2>1, Zenon DEF BudgetCounts, Captures
    <2> USE DEF Fetch!budget, Fetch!Settle, Fetch!Send, Fetch!Finish, Fetch!Enqueue,
                Fetch!ReportAnswer, Fetch!Gate!Verdicts, Fetch!Gate!Outcomes
    <2>3. CASE Fetch!Throws(r)
      BY <2>1, <2>2, <2>3 DEF FetchPlaced, FetchTold, Told, Fetch!Throws
    <2>4. CASE Fetch!Oversized(r)
      BY <2>1, <2>2, <2>4 DEF FetchPlaced, FetchTold, Told, Fetch!Oversized
    <2>5. CASE Fetch!Stopped(r)
      BY <2>1, <2>2, <2>5 DEF FetchPlaced, FetchTold, Told, Fetch!Stopped
    <2>6. CASE Fetch!EngineFaults(r)
      <3>1. /\ fetch_pc[r] = "body" /\ fetch_judged' = [fetch_judged EXCEPT ![r] = "fault"]
            /\ \/ /\ fetch_pc' = [fetch_pc EXCEPT ![r] = "sent"]
                  /\ fetch_outcome' = [fetch_outcome EXCEPT ![r] = "sent"]
               \/ /\ fetch_pc' = [fetch_pc EXCEPT ![r] = "over"]
                  /\ fetch_outcome' = [fetch_outcome EXCEPT ![r] = "refused"]
            /\ UNCHANGED <<fetch_setup, fetch_capture, in_use, capacity, dropped_budget,
                           fetch_reported>>
        BY <2>6 DEF Fetch!EngineFaults
      <3>2. FetchPlaced'
        BY <2>1, <3>1 DEF FetchPlaced
      <3> QED
        BY <2>1, <2>2, <3>1, <3>2 DEF FetchPlaced, FetchTold, Told
    <2>7. CASE Fetch!Allowed(r)
      BY <2>1, <2>2, <2>7 DEF FetchPlaced, FetchTold, Told, Fetch!Allowed
    <2>8. CASE Fetch!Denied(r)
      <3>1. /\ fetch_pc[r] = "body" /\ fetch_judged' = [fetch_judged EXCEPT ![r] = "deny"]
            /\ \/ /\ fetch_pc' = [fetch_pc EXCEPT ![r] = "sent"]
                  /\ fetch_outcome' = [fetch_outcome EXCEPT ![r] = "sent"]
               \/ /\ fetch_pc' = [fetch_pc EXCEPT ![r] = "over"]
                  /\ fetch_outcome' = [fetch_outcome EXCEPT ![r] = "refused"]
            /\ fetch_reported' = [fetch_reported EXCEPT ![r] = Append(@, "denied")]
            /\ UNCHANGED <<fetch_setup, fetch_capture, in_use, capacity, dropped_budget>>
        BY <2>8 DEF Fetch!Denied
      <3>2. /\ "denied" \in FetchEvents /\ fetch_reported[r] \in Seq(FetchEvents)
            /\ Append(fetch_reported[r], "denied") \in Seq(FetchEvents)
        BY <2>1, FetchEnqueued DEF FetchPlaced, FetchEvents
      <3>3. FetchPlaced'
        BY <2>1, <3>1, <3>2 DEF FetchPlaced
      <3>4. Told(Append(fetch_reported[r], "denied"), "deny", fetch_outcome'[r], fetch_capture[r])
        BY <2>1, <3>1, <3>2, ToldMore DEF FetchPlaced, FetchTold
      <3> QED
        BY <2>1, <2>2, <3>1, <3>3, <3>4 DEF FetchPlaced, FetchTold
    <2>9. CASE Fetch!FetchRejects(r)
      BY <2>1, <2>2, <2>9 DEF FetchPlaced, FetchTold, Told, Fetch!FetchRejects
    <2>10. CASE Fetch!AnsweredPlain(r)
      <3>1. /\ fetch_pc[r] = "sent" /\ fetch_pc' = [fetch_pc EXCEPT ![r] = "over"]
            /\ fetch_outcome' = [fetch_outcome EXCEPT ![r] = "answered"]
            /\ \/ fetch_judged[r] = "fault" /\ UNCHANGED fetch_reported
               \/ /\ fetch_judged[r] # "fault"
                  /\ fetch_reported' = [fetch_reported EXCEPT ![r] = Append(@, "answered")]
            /\ UNCHANGED <<fetch_setup, fetch_judged, capacity>>
        BY <2>10 DEF Fetch!AnsweredPlain
      <3>2. UNCHANGED <<in_use, fetch_capture, dropped_budget>>
        BY <2>10 DEF Fetch!AnsweredPlain
      <3>3. /\ "answered" \in FetchEvents /\ fetch_reported[r] \in Seq(FetchEvents)
            /\ Append(fetch_reported[r], "answered") \in Seq(FetchEvents)
        BY <2>1, FetchEnqueued DEF FetchPlaced, FetchEvents
      <3>4. FetchPlaced'
        <4>1. dropped_budget' \in Nat
          BY <2>1, <3>2 DEF FetchPlaced
        <4>2. fetch_reported' \in [Requests -> Seq(FetchEvents)]
          BY <2>1, <3>1, <3>3 DEF FetchPlaced
        <4>3. fetch_capture' \in [Requests -> {"none", "reading", "read", "over"}]
              /\ \A q \in Requests : fetch_capture'[q] # "none" => q = r \/ fetch_capture[q] # "none"
          BY <2>1, <3>2 DEF FetchPlaced
        <4> QED
          BY <2>1, <3>1, <3>2, <4>1, <4>2, <4>3 DEF FetchPlaced
      <3>5. fetch_judged[r] # "fault" =>
               Told(Append(fetch_reported[r], "answered"), fetch_judged[r], "answered", fetch_capture[r])
        BY <2>1, <3>1, <3>3, ToldMore DEF FetchPlaced, FetchTold
      <3>6. BudgetCounts'
        BY <2>1, <2>2, <3>1, <3>2, CaptureMoves DEF BudgetCounts, FetchPlaced
      <3>7. ASSUME NEW q \in Requests \ {r}
            PROVE  FetchTold(q)'
        BY <2>1, <3>1, <3>2 DEF FetchPlaced, FetchTold
      <3>8. FetchTold(r)'
        BY <2>1, <3>1, <3>2, <3>5 DEF FetchPlaced, FetchTold, Told
      <3> QED
        BY <3>4, <3>6, <3>7, <3>8
    <2>11. CASE Fetch!AnsweredStream(r)
      <3>1. /\ fetch_pc[r] = "sent" /\ fetch_pc' = [fetch_pc EXCEPT ![r] = "over"]
            /\ fetch_outcome' = [fetch_outcome EXCEPT ![r] = "answered"]
            /\ \/ fetch_judged[r] = "fault" /\ UNCHANGED fetch_reported
               \/ /\ fetch_judged[r] # "fault"
                  /\ fetch_reported' = [fetch_reported EXCEPT ![r] = Append(@, "answered")]
            /\ UNCHANGED <<fetch_setup, fetch_judged, capacity>>
        BY <2>11 DEF Fetch!AnsweredStream
      <3>2. /\ fetch_judged[r] # "deny"
            /\ \/ UNCHANGED <<in_use, fetch_capture>> /\ dropped_budget' = dropped_budget + 1
               \/ /\ fetch_capture' = [fetch_capture EXCEPT ![r] = "reading"]
                  /\ in_use' = in_use + 1 /\ UNCHANGED dropped_budget
        BY <2>11 DEF Fetch!AnsweredStream
      <3>3. /\ "answered" \in FetchEvents /\ fetch_reported[r] \in Seq(FetchEvents)
            /\ Append(fetch_reported[r], "answered") \in Seq(FetchEvents)
        BY <2>1, FetchEnqueued DEF FetchPlaced, FetchEvents
      <3>4. FetchPlaced'
        <4>1. dropped_budget' \in Nat
          BY <2>1, <3>2 DEF FetchPlaced
        <4>2. fetch_reported' \in [Requests -> Seq(FetchEvents)]
          BY <2>1, <3>1, <3>3 DEF FetchPlaced
        <4>3. fetch_capture' \in [Requests -> {"none", "reading", "read", "over"}]
              /\ \A q \in Requests : fetch_capture'[q] # "none" => q = r \/ fetch_capture[q] # "none"
          BY <2>1, <3>2 DEF FetchPlaced
        <4> QED
          BY <2>1, <3>1, <3>2, <4>1, <4>2, <4>3 DEF FetchPlaced
      <3>5. fetch_judged[r] # "fault" =>
               Told(Append(fetch_reported[r], "answered"), fetch_judged[r], "answered", fetch_capture[r])
        BY <2>1, <3>1, <3>3, ToldMore DEF FetchPlaced, FetchTold
      <3>6. BudgetCounts'
        BY <2>1, <2>2, <3>1, <3>2, CaptureMoves DEF BudgetCounts, FetchPlaced
      <3>7. ASSUME NEW q \in Requests \ {r}
            PROVE  FetchTold(q)'
        BY <2>1, <3>1, <3>2 DEF FetchPlaced, FetchTold
      <3>8. FetchTold(r)'
        BY <2>1, <3>1, <3>2, <3>5 DEF FetchPlaced, FetchTold, Told
      <3> QED
        BY <3>4, <3>6, <3>7, <3>8
    <2>12. CASE Fetch!CaptureReports(r)
      <3>1. /\ fetch_capture[r] = "reading" /\ fetch_capture' = [fetch_capture EXCEPT ![r] = "read"]
            /\ fetch_reported' = [fetch_reported EXCEPT ![r] = Append(@, "stream")]
            /\ UNCHANGED <<fetch_setup, fetch_pc, fetch_judged, fetch_outcome, in_use, capacity,
                           dropped_budget>>
        BY <2>12 DEF Fetch!CaptureReports
      <3>2. /\ "stream" \in FetchEvents /\ fetch_reported[r] \in Seq(FetchEvents)
            /\ Append(fetch_reported[r], "stream") \in Seq(FetchEvents)
        BY <2>1, FetchEnqueued DEF FetchPlaced, FetchEvents
      <3>3. FetchPlaced'
        BY <2>1, <3>1, <3>2 DEF FetchPlaced
      <3>4. Told(Append(fetch_reported[r], "stream"), fetch_judged[r], fetch_outcome[r], "read")
        BY <2>1, <3>1, <3>2, ToldMore DEF FetchPlaced, FetchTold
      <3>5. BudgetCounts'
        BY <2>1, <3>1, CaptureMoves DEF BudgetCounts
      <3> QED
        BY <2>1, <3>1, <3>3, <3>4, <3>5 DEF FetchPlaced, FetchTold
    <2>13. CASE Fetch!Release(r)
      <3>1. /\ fetch_capture[r] = "read" /\ fetch_capture' = [fetch_capture EXCEPT ![r] = "over"]
            /\ in_use' = IF in_use = 0 THEN 0 ELSE in_use - 1
            /\ UNCHANGED <<fetch_setup, fetch_pc, fetch_judged, fetch_outcome, capacity,
                           dropped_budget, fetch_reported>>
        BY <2>13 DEF Fetch!Release
      <3>2. FetchPlaced'
        BY <2>1, <3>1 DEF FetchPlaced
      <3>3. BudgetCounts'
        BY <2>1, <3>1, CaptureMoves DEF BudgetCounts
      <3> QED
        BY <2>1, <3>1, <3>2, <3>3 DEF FetchPlaced, FetchTold, Told
    <2> QED
      BY <1>2, <2>3, <2>4, <2>5, <2>6, <2>7, <2>8, <2>9, <2>10, <2>11, <2>12, <2>13
  <1> QED
    BY <1>1, <1>2 DEF Fetch!Next, FetchInv

\* The invariant implies what the module states of the reports and the budget.
LEMMA FetchReports == FetchInv => Fetch!Reports
  <1> SUFFICES ASSUME FetchInv
               PROVE  Fetch!Reports
    OBVIOUS
  <1>1. \A s : Fetch!Cardinality(s) = Cardinality(s)
    BY DEF Fetch!Cardinality, Cardinality
  <1>2. ASSUME NEW r \in Requests
        PROVE  /\ Fetch!Times(r, "denied") = IF fetch_judged[r] = "deny" THEN 1 ELSE 0
               /\ Fetch!Times(r, "answered") =
                     IF fetch_outcome[r] = "answered" /\ fetch_judged[r] # "fault" THEN 1 ELSE 0
               /\ Fetch!Times(r, "stream") = IF fetch_capture[r] \in {"read", "over"} THEN 1 ELSE 0
               /\ fetch_capture[r] # "none" =>
                     fetch_outcome[r] = "answered" /\ fetch_judged[r] \in {"allow", "fault"}
               /\ fetch_judged[r] = "deny" => fetch_reported[r][1] = "denied"
    <2> DEFINE s == fetch_reported[r]
    <2>1. \A kind : {n \in DOMAIN s : s[n] = kind} = {n \in DOMAIN s : s[n] \in {kind}}
      OBVIOUS
    <2>2. \A kind : Fetch!Times(r, kind) = Times(s, kind)
      BY <1>1, <2>1, Zenon DEF Fetch!Times, Times, Count
    <2> QED
      BY <2>2 DEF FetchInv, FetchPlaced, FetchTold, Told
  <1>3. in_use = Fetch!Cardinality({r \in Requests : fetch_capture[r] \in {"reading", "read"}})
    BY <1>1 DEF FetchInv, BudgetCounts, Captures
  <1> QED
    BY <1>2, <1>3, Zenon DEF Fetch!Reports

\* What a step may do to one request, as Interception has it.
FetchHandled(r) ==
    /\ UNCHANGED fetch_setup
    /\ \/ UNCHANGED fetch_judged
       \/ /\ fetch_judged[r] = "none"
          /\ \E v \in Fetch!Gate!Verdicts : fetch_judged' = [fetch_judged EXCEPT ![r] = v]
    /\ \/ UNCHANGED fetch_outcome
       \/ /\ fetch_outcome[r] = "open" /\ Fetch!Gate!MaySend(fetch_judged'[r])
          /\ fetch_outcome' = [fetch_outcome EXCEPT ![r] = "sent"]
       \/ /\ fetch_outcome[r] = "open" /\ Fetch!Gate!MayRefuse(fetch_judged'[r])
          /\ fetch_outcome' = [fetch_outcome EXCEPT ![r] = "refused"]
       \/ /\ fetch_outcome[r] = "sent"
          /\ fetch_outcome' = [fetch_outcome EXCEPT ![r] = "answered"]
       \/ /\ fetch_outcome[r] \in {"open", "sent"}
          /\ fetch_outcome' = [fetch_outcome EXCEPT ![r] = "failed"]

\* Every step of wrapFetch is one that Interception allows, or none.
LEMMA FetchGate ==
    FetchInv /\ Fetch!Next => [Fetch!Gate!Next]_(Fetch!Gate!vars)
  <1>1. ASSUME FetchPlaced, NEW r \in Requests, FetchHandled(r)
        PROVE  [Fetch!Gate!Next]_(Fetch!Gate!vars)
    BY <1>1 DEF FetchPlaced, FetchHandled, Fetch!Gate!Next, Fetch!Gate!Handle, Fetch!Gate!vars
  <1>2. ASSUME FetchPlaced, NEW r \in Requests,
               \/ Fetch!Throws(r) \/ Fetch!Oversized(r) \/ Fetch!Stopped(r)
               \/ Fetch!EngineFaults(r) \/ Fetch!Allowed(r) \/ Fetch!Denied(r)
               \/ Fetch!FetchRejects(r) \/ Fetch!AnsweredPlain(r)
               \/ Fetch!AnsweredStream(r) \/ Fetch!CaptureReports(r)
               \/ Fetch!Release(r)
        PROVE  FetchHandled(r)
    <2> USE <1>2 DEF FetchPlaced, FetchHandled, Fetch!Settle, Fetch!Send, Fetch!Finish,
              Fetch!FailsClosed, Fetch!Gate!Verdicts, Fetch!Gate!MaySend, Fetch!Gate!MayRefuse
    <2>1. CASE Fetch!Throws(r)
      BY <2>1 DEF Fetch!Throws
    <2>2. CASE Fetch!Oversized(r)
      BY <2>2 DEF Fetch!Oversized
    <2>3. CASE Fetch!Stopped(r)
      BY <2>3 DEF Fetch!Stopped
    <2>4. CASE Fetch!EngineFaults(r)
      BY <2>4 DEF Fetch!EngineFaults
    <2>5. CASE Fetch!Allowed(r)
      BY <2>5 DEF Fetch!Allowed
    <2>6. CASE Fetch!Denied(r)
      BY <2>6 DEF Fetch!Denied
    <2>7. CASE Fetch!FetchRejects(r)
      BY <2>7 DEF Fetch!FetchRejects
    <2>8. CASE Fetch!AnsweredPlain(r)
      BY <2>8 DEF Fetch!AnsweredPlain
    <2>9. CASE Fetch!AnsweredStream(r)
      BY <2>9 DEF Fetch!AnsweredStream
    <2>10. CASE Fetch!CaptureReports(r)
      BY <2>10 DEF Fetch!CaptureReports
    <2>11. CASE Fetch!Release(r)
      BY <2>11 DEF Fetch!Release
    <2> QED
      BY <2>1, <2>2, <2>3, <2>4, <2>5, <2>6, <2>7, <2>8, <2>9, <2>10, <2>11
  <1>3. Fetch!SetCapacity => UNCHANGED Fetch!Gate!vars
    BY DEF Fetch!SetCapacity, Fetch!Gate!vars
  <1> QED
    BY <1>1, <1>2, <1>3 DEF FetchInv, Fetch!Next

-------------------------------------------------------------------------------
(* init() and shutdown() in Python.  A context is shut down by the thread that *)
(* holds the lock, part by part; meanwhile, and afterwards, the thread that    *)
(* installed it may still be starting its parts.                               *)

Threads == AppThreads
Contexts == PyLife!Contexts
Stopping == {"stop_receiver", "stop_watchers", "clear_watchers", "stop_sink"}
Holding == Stopping \cup {"install"}
Begun == {"start_receiver", "note_receiver", "start_policy_watcher", "note_policy_watcher",
          "start_switch_watcher", "note_switch_watcher", "return"}
LifeLabels == {"outside", "build", "lock"} \cup Holding \cup Begun

\* The parts that a thread has yet to note, and the one it has started among them.
ToNote(place) ==
    {part \in {"receiver"} \cup PyLife!Watchers :
        \/ place \in {"start_receiver", "note_receiver"}
        \/ part # "receiver" /\ place \in {"start_policy_watcher", "note_policy_watcher"}
        \/ part = "switch_watcher" /\ place \in {"start_switch_watcher", "note_switch_watcher"}}
Noting(place) ==
    {part \in {"receiver"} \cup PyLife!Watchers :
        \/ part = "receiver" /\ place = "note_receiver"
        \/ part = "policy_watcher" /\ place = "note_policy_watcher"
        \/ part = "switch_watcher" /\ place = "note_switch_watcher"}

\* What the thread that shuts a context down has yet to stop of it.
ToStop(place) ==
    {part \in PyLife!Parts :
        \/ place = "stop_receiver"
        \/ part # "receiver" /\ place = "stop_watchers"
        \/ part = "sink" /\ place \in {"clear_watchers", "stop_sink"}}

LifeTypes == PyLife!LifeTypeOK /\ life_pc \in [Threads -> LifeLabels]

\* One thread holds the lock, which shuts down the context there is; each context is one
\* thread's.
Owned ==
    /\ \A u \in Threads : life_pc[u] \in Holding <=> lock = u
    /\ \A u \in Threads : /\ mine[u] <= inits
                          /\ life_pc[u] = "outside" => mine[u] = 0
                          /\ life_pc[u] \in {"build"} \cup Begun => mine[u] # 0
    /\ \A u \in Threads : /\ old[u] # 0 <=> life_pc[u] \in Stopping
                          /\ old[u] # 0 => old[u] = context
    /\ \A t1, t2 \in Threads : mine[t1] = mine[t2] /\ mine[t1] # 0 => t1 = t2
    /\ context <= inits

\* Contexts to come are nothing yet.
Later ==
    \A x \in Contexts : x > inits =>
        noted[x] = {} /\ running[x] = {} /\ \A part \in PyLife!Parts : <<x, part>> \notin overtaken

\* A context that is not installed yet has at most its sink, and nobody has heard of it.
Fresh(u) == mine[u] # 0 /\ life_pc[u] \notin Begun
Unheard ==
    \A u \in Threads : Fresh(u) =>
        /\ mine[u] # context /\ noted[mine[u]] = {} /\ running[mine[u]] \subseteq {"sink"}
        /\ life_pc[u] = "build" => running[mine[u]] = {}
        /\ \A part \in PyLife!Parts : <<mine[u], part>> \notin overtaken

\* What a thread in init() has yet to note is not noted, and what it has started of that
\* runs; if another shuts its context down, or has, it has been overtaken.
Ordered ==
    \A u \in Threads : life_pc[u] \in Begun =>
        /\ ToNote(life_pc[u]) \cap noted[mine[u]] = {}
        /\ ToNote(life_pc[u]) \cap running[mine[u]] = Noting(life_pc[u])
Overtaking ==
    \A u \in Threads : life_pc[u] \in Begun /\ ~(mine[u] = context /\ lock = Nobody) =>
        \A part \in ToNote(life_pc[u]) : <<mine[u], part>> \in overtaken

\* Why a part of a context runs: its init() has yet to install it, it has been overtaken,
\* its context is the one there is and will find it when it is shut down, or is about to.
Accounted(x, part) ==
    \/ part = "sink" /\ \E u \in Threads : mine[u] = x /\ Fresh(u)
    \/ part # "sink" /\ <<x, part>> \in overtaken
    \/ x = context /\ part \in noted[x] /\ (lock = Nobody \/ part \in ToStop(life_pc[lock]))
    \/ x = context /\ lock = Nobody /\ \E u \in Threads : mine[u] = x /\ part \in ToNote(life_pc[u])
AllAccounted == \A x \in Contexts : \A part \in running[x] : Accounted(x, part)

\* What is noted of the context runs, but for watchers that were just stopped.
Serving ==
    context # 0 =>
        \A part \in noted[context] \ running[context] :
            /\ part \in PyLife!Watchers
            /\ lock # Nobody /\ life_pc[lock] \in {"stop_watchers", "clear_watchers"}

LifeRest == Later /\ Unheard /\ Ordered /\ Overtaking /\ AllAccounted /\ Serving
LifeInv == LifeTypes /\ Owned /\ LifeRest

\* What the types come to where a thread stands.
LEMMA LifeContexts ==
  ASSUME LifeTypes, Owned, NEW v \in Threads
  PROVE  /\ mine[v] # 0 => mine[v] \in Contexts
         /\ old[v] # 0 => old[v] \in Contexts /\ old[v] = context
         /\ context # 0 => context \in Contexts
         /\ MaxInits \in Nat /\ MaxShutdowns \in Nat /\ Nobody \notin Threads
         /\ \A asked \in Settings : asked \subseteq PyLife!Parts
BY PyLifeAssumed DEF PyLife!LifecycleAssumption, LifeTypes, PyLife!LifeTypeOK, Owned, Contexts, PyLife!Contexts, Threads

\* Types, locks and owners, across the steps of a thread before the lock.
LEMMA LifeOwnedEnters ==
  ASSUME LifeTypes, Owned, NEW v \in Threads, PyLife!Enter(v)
  PROVE  LifeTypes' /\ Owned'
<1> USE DEF LifeTypes, PyLife!LifeTypeOK, PyLife!Enter, PyLife!BeginInit, PyLife!NoRuntime,
           PyLife!Degrade, PyLife!BuildRuntime, PyLife!BeginShutdown, PyLife!Go,
           PyLife!shared, PyLife!Stop, PyLife!Start, PyLife!Note, PyLife!Acquire, Threads,
           Contexts, LifeLabels, Holding, Stopping, Begun
<1>0. /\ mine[v] # 0 => mine[v] \in Contexts
      /\ old[v] # 0 => old[v] \in Contexts /\ old[v] = context
      /\ context # 0 => context \in Contexts
      /\ MaxInits \in Nat /\ MaxShutdowns \in Nat /\ Nobody \notin Threads
      /\ \A asked \in Settings : asked \subseteq PyLife!Parts
  BY LifeContexts
<1>1. (life_pc \in [Threads -> LifeLabels])'
  OBVIOUS
<1>2. (lock \in Threads \cup {Nobody} /\ degraded \in BOOLEAN)'
  OBVIOUS
<1>3. (wanted \in [Threads -> SUBSET PyLife!Parts])'
  BY <1>0
<1>4. (running \in [Contexts -> SUBSET PyLife!Parts])'
  BY <1>0 DEF Owned, PyLife!Watchers, PyLife!Parts
<1>5. (noted \in [Contexts -> SUBSET PyLife!Parts])'
  BY <1>0 DEF Owned, PyLife!Watchers, PyLife!Parts
<1>6. (mine \in [Threads -> 0..MaxInits] /\ old \in [Threads -> 0..MaxInits])'
  BY <1>0
<1>7. (context \in 0..MaxInits /\ inits \in 0..MaxInits /\ shutdowns \in 0..MaxShutdowns)'
  BY <1>0
<1>8. (overtaken \subseteq Contexts \X PyLife!Parts)'
  BY <1>0
<1>9. (\A u \in Threads : life_pc[u] \in Holding <=> lock = u)'
  BY <1>0 DEF Owned
<1>10. (\A u \in Threads : /\ mine[u] <= inits
                           /\ life_pc[u] = "outside" => mine[u] = 0
                           /\ life_pc[u] \in {"build"} \cup Begun => mine[u] # 0)'
  BY <1>0 DEF Owned
<1>11. (\A u \in Threads : /\ old[u] # 0 <=> life_pc[u] \in Stopping
                           /\ old[u] # 0 => old[u] = context)'
  BY <1>0 DEF Owned
<1>12. (\A t1, t2 \in Threads : mine[t1] = mine[t2] /\ mine[t1] # 0 => t1 = t2)'
  BY <1>0 DEF Owned
<1>13. (context <= inits)'
  BY <1>0 DEF Owned
<1> HIDE DEF PyLife!Enter, PyLife!BeginInit, PyLife!NoRuntime, PyLife!Degrade,
            PyLife!BuildRuntime, PyLife!BeginShutdown, PyLife!Go, PyLife!shared,
            PyLife!Stop, PyLife!Start, PyLife!Note, PyLife!Acquire
<1>14. LifeTypes'
  <2>1. DOMAIN life_pc' = Threads
    BY <1>1
  <2> QED
    BY <1>1, <1>2, <1>3, <1>4, <1>5, <1>6, <1>7, <1>8, <2>1 DEF PyLife!Contexts
<1> HIDE DEF LifeTypes, PyLife!LifeTypeOK, LifeLabels, Holding, Stopping, Begun, Threads, Contexts
<1>15. Owned'
  BY <1>9, <1>10, <1>11, <1>12, <1>13, Zenon DEF Owned
<1> QED
  BY <1>14, <1>15

\* Types, locks and owners, across the exchange of the context.
LEMMA LifeOwnedExchanges ==
  ASSUME LifeTypes, Owned, NEW v \in Threads, PyLife!Exchange(v)
  PROVE  LifeTypes' /\ Owned'
<1> USE DEF LifeTypes, PyLife!LifeTypeOK, PyLife!Exchange, PyLife!ShutDownPrevious,
           PyLife!NothingToShutDown, PyLife!StopReceiver, PyLife!StopWatcher,
           PyLife!NoMoreWatchers, PyLife!ClearWatchers, PyLife!StopSink, PyLife!Install,
           PyLife!Go, PyLife!shared, PyLife!Stop, PyLife!Start, PyLife!Note, PyLife!Acquire,
           Threads, Contexts, LifeLabels, Holding, Stopping, Begun
<1>0. /\ mine[v] # 0 => mine[v] \in Contexts
      /\ old[v] # 0 => old[v] \in Contexts /\ old[v] = context
      /\ context # 0 => context \in Contexts
      /\ MaxInits \in Nat /\ MaxShutdowns \in Nat /\ Nobody \notin Threads
      /\ \A asked \in Settings : asked \subseteq PyLife!Parts
  BY LifeContexts
<1>1. (life_pc \in [Threads -> LifeLabels])'
  OBVIOUS
<1>2. (lock \in Threads \cup {Nobody} /\ degraded \in BOOLEAN)'
  OBVIOUS
<1>3. (wanted \in [Threads -> SUBSET PyLife!Parts])'
  BY <1>0
<1>4. (running \in [Contexts -> SUBSET PyLife!Parts])'
  BY <1>0 DEF Owned, PyLife!Watchers, PyLife!Parts
<1>5. (noted \in [Contexts -> SUBSET PyLife!Parts])'
  BY <1>0 DEF Owned, PyLife!Watchers, PyLife!Parts
<1>6. (mine \in [Threads -> 0..MaxInits] /\ old \in [Threads -> 0..MaxInits])'
  BY <1>0
<1>7. (context \in 0..MaxInits /\ inits \in 0..MaxInits /\ shutdowns \in 0..MaxShutdowns)'
  BY <1>0
<1>8. (overtaken \subseteq Contexts \X PyLife!Parts)'
  BY <1>0
<1>9. (\A u \in Threads : life_pc[u] \in Holding <=> lock = u)'
  BY <1>0 DEF Owned
<1>10. (\A u \in Threads : /\ mine[u] <= inits
                           /\ life_pc[u] = "outside" => mine[u] = 0
                           /\ life_pc[u] \in {"build"} \cup Begun => mine[u] # 0)'
  BY <1>0 DEF Owned
<1>11. (\A u \in Threads : /\ old[u] # 0 <=> life_pc[u] \in Stopping
                           /\ old[u] # 0 => old[u] = context)'
  BY <1>0 DEF Owned
<1>12. (\A t1, t2 \in Threads : mine[t1] = mine[t2] /\ mine[t1] # 0 => t1 = t2)'
  BY <1>0 DEF Owned
<1>13. (context <= inits)'
  BY <1>0 DEF Owned
<1> HIDE DEF PyLife!Exchange, PyLife!ShutDownPrevious, PyLife!NothingToShutDown,
            PyLife!StopReceiver, PyLife!StopWatcher, PyLife!NoMoreWatchers,
            PyLife!ClearWatchers, PyLife!StopSink, PyLife!Install, PyLife!Go, PyLife!shared,
            PyLife!Stop, PyLife!Start, PyLife!Note, PyLife!Acquire
<1>14. LifeTypes'
  <2>1. DOMAIN life_pc' = Threads
    BY <1>1
  <2> QED
    BY <1>1, <1>2, <1>3, <1>4, <1>5, <1>6, <1>7, <1>8, <2>1 DEF PyLife!Contexts
<1> HIDE DEF LifeTypes, PyLife!LifeTypeOK, LifeLabels, Holding, Stopping, Begun, Threads, Contexts
<1>15. Owned'
  BY <1>9, <1>10, <1>11, <1>12, <1>13, Zenon DEF Owned
<1> QED
  BY <1>14, <1>15

\* Types, locks and owners, across the steps of init() after the exchange.
LEMMA LifeOwnedStartsParts ==
  ASSUME LifeTypes, Owned, NEW v \in Threads, PyLife!StartParts(v)
  PROVE  LifeTypes' /\ Owned'
<1> USE DEF LifeTypes, PyLife!LifeTypeOK, PyLife!StartParts, PyLife!StartReceiver,
           PyLife!NoteReceiver, PyLife!StartWatcher, PyLife!NoteWatcher, PyLife!SkipPart,
           PyLife!ReturnFromInit, PyLife!Go, PyLife!shared, PyLife!Stop, PyLife!Start,
           PyLife!Note, PyLife!Acquire, Threads, Contexts, LifeLabels, Holding, Stopping,
           Begun
<1>0. /\ mine[v] # 0 => mine[v] \in Contexts
      /\ old[v] # 0 => old[v] \in Contexts /\ old[v] = context
      /\ context # 0 => context \in Contexts
      /\ MaxInits \in Nat /\ MaxShutdowns \in Nat /\ Nobody \notin Threads
      /\ \A asked \in Settings : asked \subseteq PyLife!Parts
  BY LifeContexts
<1>1. (life_pc \in [Threads -> LifeLabels])'
  OBVIOUS
<1>2. (lock \in Threads \cup {Nobody} /\ degraded \in BOOLEAN)'
  OBVIOUS
<1>3. (wanted \in [Threads -> SUBSET PyLife!Parts])'
  BY <1>0
<1>4. (running \in [Contexts -> SUBSET PyLife!Parts])'
  BY <1>0 DEF Owned, PyLife!Watchers, PyLife!Parts
<1>5. (noted \in [Contexts -> SUBSET PyLife!Parts])'
  BY <1>0 DEF Owned, PyLife!Watchers, PyLife!Parts
<1>6. (mine \in [Threads -> 0..MaxInits] /\ old \in [Threads -> 0..MaxInits])'
  BY <1>0
<1>7. (context \in 0..MaxInits /\ inits \in 0..MaxInits /\ shutdowns \in 0..MaxShutdowns)'
  BY <1>0
<1>8. (overtaken \subseteq Contexts \X PyLife!Parts)'
  BY <1>0
<1>9. (\A u \in Threads : life_pc[u] \in Holding <=> lock = u)'
  BY <1>0 DEF Owned
<1>10. (\A u \in Threads : /\ mine[u] <= inits
                           /\ life_pc[u] = "outside" => mine[u] = 0
                           /\ life_pc[u] \in {"build"} \cup Begun => mine[u] # 0)'
  BY <1>0 DEF Owned
<1>11. (\A u \in Threads : /\ old[u] # 0 <=> life_pc[u] \in Stopping
                           /\ old[u] # 0 => old[u] = context)'
  BY <1>0 DEF Owned
<1>12. (\A t1, t2 \in Threads : mine[t1] = mine[t2] /\ mine[t1] # 0 => t1 = t2)'
  BY <1>0 DEF Owned
<1>13. (context <= inits)'
  BY <1>0 DEF Owned
<1> HIDE DEF PyLife!StartParts, PyLife!StartReceiver, PyLife!NoteReceiver,
            PyLife!StartWatcher, PyLife!NoteWatcher, PyLife!SkipPart, PyLife!ReturnFromInit,
            PyLife!Go, PyLife!shared, PyLife!Stop, PyLife!Start, PyLife!Note, PyLife!Acquire
<1>14. LifeTypes'
  <2>1. DOMAIN life_pc' = Threads
    BY <1>1
  <2> QED
    BY <1>1, <1>2, <1>3, <1>4, <1>5, <1>6, <1>7, <1>8, <2>1 DEF PyLife!Contexts
<1> HIDE DEF LifeTypes, PyLife!LifeTypeOK, LifeLabels, Holding, Stopping, Begun, Threads, Contexts
<1>15. Owned'
  BY <1>9, <1>10, <1>11, <1>12, <1>13, Zenon DEF Owned
<1> QED
  BY <1>14, <1>15

\* The thread that holds the lock stops the parts R of the context and forgets the parts N.
LEMMA LifeStops ==
  ASSUME LifeTypes, Owned, LifeRest, NEW v \in Threads, NEW to \in Holding, NEW R, NEW N,
         life_pc[v] \in Stopping, life_pc' = [life_pc EXCEPT ![v] = to],
         running' = [running EXCEPT ![context] = @ \ R],
         noted' = [noted EXCEPT ![context] = @ \ N],
         UNCHANGED <<lock, context, mine, inits, overtaken>>,
         R \subseteq noted[context],
         \A part \in ToStop(life_pc[v]) \cap noted[context] :
             part \in R \/ (part \in ToStop(to) /\ part \notin N)
                        \/ part \notin running[context],
         \A part \in noted[context] \ N : part \in R \/ part \notin running[context] =>
             part \in PyLife!Watchers /\ to \in {"stop_watchers", "clear_watchers"}
  PROVE  LifeRest'
<1> USE DEF Threads, Contexts, Holding, Stopping, Begun
<1>0. lock = v /\ context \in Contexts /\ lock' # Nobody /\ lock' = v /\ life_pc'[v] = to
  BY LifeContexts DEF Owned, LifeTypes
<1>1. \A u \in Threads : u # v => life_pc'[u] = life_pc[u]
  BY DEF LifeTypes
<1>2. \A u \in Threads : /\ life_pc'[u] \in Begun <=> life_pc[u] \in Begun
                         /\ life_pc'[u] \in Begun => life_pc'[u] = life_pc[u]
                         /\ Fresh(u)' <=> Fresh(u)
  BY <1>0, <1>1 DEF Fresh
<1>3. \A x \in Contexts : x # context => running'[x] = running[x] /\ noted'[x] = noted[x]
  BY DEF LifeTypes, PyLife!LifeTypeOK
<1>4. running'[context] = running[context] \ R /\ noted'[context] = noted[context] \ N
  BY <1>0 DEF LifeTypes, PyLife!LifeTypeOK
<1>5. \A u \in Threads : mine[u] # 0 => mine[u] \in Contexts
  BY LifeContexts
<1>6. Later'
  BY <1>3, <1>4 DEF Later, LifeRest
<1>7. Unheard'
  BY <1>2, <1>3, <1>5 DEF Unheard, LifeRest, Fresh
<1>8. Ordered'
  <2> SUFFICES ASSUME NEW u \in Threads, life_pc'[u] \in Begun
               PROVE  /\ ToNote(life_pc'[u]) \cap noted'[mine[u]] = {}
                      /\ ToNote(life_pc'[u]) \cap running'[mine[u]] = Noting(life_pc'[u])
    BY DEF Ordered
  <2>1. mine[u] \in Contexts /\ life_pc'[u] = life_pc[u] /\ life_pc[u] \in Begun
    BY <1>2, <1>5 DEF Owned
  <2> QED
    BY <2>1, <1>3, <1>4 DEF Ordered, LifeRest
<1>9. Overtaking'
  BY <1>0, <1>2 DEF Overtaking, LifeRest
<1>10. AllAccounted'
  <2> SUFFICES ASSUME NEW x \in Contexts, NEW part \in running'[x]
               PROVE  Accounted(x, part)'
    BY DEF AllAccounted
  <2>1. part \in running[x] /\ (x = context => part \notin R)
    BY <1>3, <1>4
  <2>2. Accounted(x, part)
    BY <2>1 DEF AllAccounted, LifeRest
  <2>3. CASE part = "sink" /\ \E u \in Threads : mine[u] = x /\ Fresh(u)
    BY <2>3, <1>2 DEF Accounted
  <2>4. CASE part # "sink" /\ <<x, part>> \in overtaken
    BY <2>4 DEF Accounted
  <2>5. CASE x = context /\ part \in noted[x] /\ part \in ToStop(life_pc[lock])
    BY <2>5, <2>1, <1>0, <1>4 DEF Accounted
  <2> QED
    BY <2>2, <2>3, <2>4, <2>5, <1>0 DEF Accounted
<1>11. Serving'
  BY <1>0, <1>4 DEF Serving, LifeRest
<1> QED
  BY <1>6, <1>7, <1>8, <1>9, <1>10, <1>11 DEF LifeRest

\* A thread in init() starts the parts S of its context and notes the parts N.
LEMMA LifeBegins ==
  ASSUME LifeTypes, Owned, LifeRest, NEW v \in Threads, NEW to \in Begun, NEW S, NEW N,
         life_pc[v] \in Begun, life_pc' = [life_pc EXCEPT ![v] = to],
         running' = [running EXCEPT ![mine[v]] = @ \cup S],
         noted' = [noted EXCEPT ![mine[v]] = @ \cup N],
         UNCHANGED <<lock, context, mine, inits, overtaken>>,
         S \subseteq ToNote(to), N \subseteq Noting(life_pc[v]),
         ToNote(to) \subseteq ToNote(life_pc[v]) \ N,
         ToNote(to) \cap (Noting(life_pc[v]) \cup S) = Noting(to),
         Noting(life_pc[v]) \subseteq N \cup ToNote(to)
  PROVE  LifeRest'
<1> USE DEF Threads, Contexts, Begun
<1> DEFINE y == mine[v]
<1>0. /\ y \in Contexts /\ life_pc'[v] = to /\ lock # v /\ y <= inits /\ y # 0
      /\ Noting(life_pc[v]) \subseteq ToNote(life_pc[v])
      /\ ToNote(life_pc[v]) \cap noted[y] = {}
      /\ ToNote(life_pc[v]) \cap running[y] = Noting(life_pc[v])
      /\ "sink" \notin ToNote(life_pc[v])
  <2>1. y \in Contexts /\ life_pc'[v] = to /\ lock # v /\ y <= inits /\ y # 0
    BY LifeContexts DEF Owned, LifeTypes, Holding, Stopping
  <2>2. Noting(life_pc[v]) \subseteq ToNote(life_pc[v]) /\ "sink" \notin ToNote(life_pc[v])
    BY DEF Noting, ToNote, PyLife!Watchers
  <2> QED
    BY <2>1, <2>2 DEF Ordered, LifeRest
<1>1. \A u \in Threads : u # v => life_pc'[u] = life_pc[u] /\ mine[u] # y
  BY <1>0 DEF LifeTypes, Owned
<1>2. \A u \in Threads : Fresh(u)' <=> Fresh(u)
  BY <1>0, <1>1 DEF Fresh
<1>3. \A x \in Contexts : x # y => running'[x] = running[x] /\ noted'[x] = noted[x]
  BY DEF LifeTypes, PyLife!LifeTypeOK
<1>4. running'[y] = running[y] \cup S /\ noted'[y] = noted[y] \cup N
  BY <1>0 DEF LifeTypes, PyLife!LifeTypeOK
<1>5. \A u \in Threads : mine[u] # 0 => mine[u] \in Contexts
  BY LifeContexts
<1>51. inits \in Nat
  BY DEF LifeTypes, PyLife!LifeTypeOK
<1> HIDE DEF y
<1>6. Later'
  BY <1>0, <1>3, <1>51 DEF Later, LifeRest, PyLife!Contexts
<1>7. Unheard'
  <2> SUFFICES ASSUME NEW u \in Threads, Fresh(u)
               PROVE  /\ mine[u] # context /\ noted'[mine[u]] = {} /\ running'[mine[u]] \subseteq {"sink"}
                      /\ life_pc'[u] = "build" => running'[mine[u]] = {}
                      /\ \A part \in PyLife!Parts : <<mine[u], part>> \notin overtaken
    BY <1>2 DEF Unheard
  <2>1. u # v /\ mine[u] \in Contexts
    BY <1>5 DEF Fresh
  <2> QED
    BY <2>1, <1>1, <1>3 DEF Unheard, LifeRest
<1>8. Ordered'
  <2> SUFFICES ASSUME NEW u \in Threads, life_pc'[u] \in Begun
               PROVE  /\ ToNote(life_pc'[u]) \cap noted'[mine[u]] = {}
                      /\ ToNote(life_pc'[u]) \cap running'[mine[u]] = Noting(life_pc'[u])
    BY DEF Ordered
  <2>1. CASE u = v
    BY <2>1, <1>0, <1>4 DEF y
  <2>2. CASE u # v
    <3>1. mine[u] \in Contexts /\ life_pc'[u] = life_pc[u] /\ mine[u] # y
      BY <2>2, <1>1, <1>5 DEF Owned
    <3> QED
      BY <3>1, <1>3 DEF Ordered, LifeRest
  <2> QED
    BY <2>1, <2>2
<1>9. Overtaking'
  BY <1>0, <1>1 DEF Overtaking, LifeRest
<1>10. AllAccounted'
  <2> SUFFICES ASSUME NEW x \in Contexts, NEW part \in running'[x]
               PROVE  Accounted(x, part)'
    BY DEF AllAccounted
  <2>1. CASE x # y
    <3>1. Accounted(x, part)
      BY <2>1, <1>3 DEF AllAccounted, LifeRest
    <3>2. \A u \in Threads : mine[u] = x => life_pc'[u] = life_pc[u]
      BY <2>1, <1>1 DEF y
    <3>3. lock # Nobody /\ lock \in Threads => life_pc'[lock] = life_pc[lock]
      BY <1>0, <1>1
    <3>4. lock \in Threads \cup {Nobody}
      BY DEF LifeTypes, PyLife!LifeTypeOK
    <3> QED
      BY <3>1, <3>2, <3>3, <3>4, <2>1, <1>2, <1>3 DEF Accounted
  <2>2. CASE x = y /\ part \in ToNote(to)
    <3>1. CASE context = y /\ lock = Nobody
      BY <2>2, <3>1, <1>0 DEF Accounted, y
    <3>2. CASE ~(context = y /\ lock = Nobody)
      BY <2>2, <3>2, <1>0 DEF Accounted, Overtaking, LifeRest, y
    <3> QED
      BY <3>1, <3>2
  <2>3. CASE x = y /\ part \notin ToNote(to)
    <3>1. part \in running[y] /\ Accounted(y, part)
      BY <2>3, <1>4 DEF AllAccounted, LifeRest
    <3>2. CASE part = "sink" /\ \E u \in Threads : mine[u] = y /\ Fresh(u)
      BY <3>2, <2>3, <1>2 DEF Accounted
    <3>3. CASE part # "sink" /\ <<y, part>> \in overtaken
      BY <3>3, <2>3 DEF Accounted
    <3>4. CASE y = context /\ part \in noted[y] /\ (lock = Nobody \/ part \in ToStop(life_pc[lock]))
      <4>1. lock \in Threads => life_pc'[lock] = life_pc[lock]
        BY <1>0, <1>1
      <4>2. lock \in Threads \cup {Nobody}
        BY DEF LifeTypes, PyLife!LifeTypeOK
      <4> QED
        BY <3>4, <4>1, <4>2, <2>3, <1>4 DEF Accounted
    <3>5. CASE y = context /\ lock = Nobody /\ \E u \in Threads : mine[u] = y /\ part \in ToNote(life_pc[u])
      <4>1. part \in ToNote(life_pc[v])
        BY <3>5, <1>1
      <4>2. part \in N
        BY <4>1, <3>1, <2>3, <1>0
      <4> QED
        BY <3>5, <4>2, <2>3, <1>4 DEF Accounted
    <3> QED
      BY <3>1, <3>2, <3>3, <3>4, <3>5 DEF Accounted
  <2> QED
    BY <2>1, <2>2, <2>3
<1>11. Serving'
  <2>1. lock \in Threads \cup {Nobody} /\ (lock \in Threads => life_pc'[lock] = life_pc[lock])
    BY <1>0, <1>1 DEF LifeTypes, PyLife!LifeTypeOK
  <2>2. context # 0 => context \in Contexts
    BY LifeContexts
  <2>3. N \subseteq running[y]
    BY <1>0
  <2> QED
    BY <2>1, <2>2, <2>3, <1>3, <1>4 DEF Serving, LifeRest
<1> QED
  BY <1>6, <1>7, <1>8, <1>9, <1>10, <1>11 DEF LifeRest

\* What the labels of the lemmas below stand for.
LEMMA LifePlaces ==
  /\ \A place \in {"outside", "build", "lock", "return"} \cup Holding : ToNote(place) = {}
  /\ \A place \in LifeLabels : "sink" \notin ToNote(place) /\ ToNote(place) \subseteq PyLife!Parts
  /\ ToStop("stop_receiver") = PyLife!Parts /\ ToStop("install") = {}
  /\ ToNote("start_receiver") = {"receiver"} \cup PyLife!Watchers
  /\ Noting("start_receiver") = {}
BY DEF ToNote, ToStop, Noting, Holding, Stopping, LifeLabels, PyLife!Parts, PyLife!Watchers, Begun

\* The lock is taken to shut the context down: what is not noted yet has been overtaken.
LEMMA LifeShutsDown ==
  ASSUME LifeTypes, Owned, LifeRest, NEW v \in Threads, PyLife!ShutDownPrevious(v)
  PROVE  LifeRest'
<1> USE DEF Threads, Contexts
<1>0. /\ context \in Contexts /\ context <= inits /\ inits \in Nat /\ lock = Nobody /\ lock' = v /\ lock' # Nobody
      /\ life_pc[v] = "lock" /\ life_pc'[v] = "stop_receiver" /\ v \notin {Nobody}
      /\ UNCHANGED <<context, mine, inits, running, noted>>
  BY LifeContexts DEF Owned, LifeTypes, PyLife!ShutDownPrevious, PyLife!Acquire, PyLife!Go, PyLife!LifeTypeOK
<1>1. \A u \in Threads : u # v => life_pc'[u] = life_pc[u]
  BY DEF LifeTypes, PyLife!ShutDownPrevious, PyLife!Go
<1>2. \A u \in Threads : /\ life_pc'[u] \in Begun <=> life_pc[u] \in Begun
                         /\ life_pc'[u] \in Begun => u # v
                         /\ Fresh(u)' <=> Fresh(u)
  BY <1>0, <1>1 DEF Fresh, Begun
<1>3. overtaken \subseteq overtaken'
  BY DEF PyLife!ShutDownPrevious
<1>4. \A x \in Contexts : \A part \in PyLife!Parts :
         <<x, part>> \in overtaken' /\ <<x, part>> \notin overtaken => x = context
  BY DEF PyLife!ShutDownPrevious
<1>5. ASSUME NEW u \in Threads, life_pc[u] \in Begun, mine[u] = context, NEW part \in ToNote(life_pc[u])
      PROVE  <<context, part>> \in overtaken' /\ part # "sink"
  <2>1. life_pc[u] \notin {"build", "lock"}
    BY <1>5 DEF Begun
  <2>2. PyLife!Starting(context)
    BY <1>5, <2>1 DEF PyLife!Starting
  <2>3. part \in PyLife!Parts /\ part \notin noted[context] /\ part # "sink"
    BY <1>5, LifePlaces DEF LifeRest, Ordered, LifeTypes
  <2> QED
    BY <2>2, <2>3 DEF PyLife!ShutDownPrevious
<1>6. Later'
  BY <1>0, <1>4 DEF Later, LifeRest, PyLife!Contexts
<1>7. Unheard'
  <2> SUFFICES ASSUME NEW u \in Threads, Fresh(u)
               PROVE  /\ mine[u] # context /\ noted[mine[u]] = {} /\ running[mine[u]] \subseteq {"sink"}
                      /\ life_pc'[u] = "build" => running[mine[u]] = {}
                      /\ \A part \in PyLife!Parts : <<mine[u], part>> \notin overtaken'
    BY <1>0, <1>2 DEF Unheard
  <2>1. mine[u] \in Contexts
    BY LifeContexts DEF Fresh
  <2>2. life_pc'[u] = "build" => life_pc[u] = "build"
    BY <1>0, <1>1
  <2> QED
    BY <2>1, <2>2, <1>4 DEF Unheard, LifeRest
<1>8. Ordered'
  BY <1>0, <1>1, <1>2 DEF Ordered, LifeRest
<1>9. Overtaking'
  <2> SUFFICES ASSUME NEW u \in Threads, life_pc'[u] \in Begun, NEW part \in ToNote(life_pc'[u])
               PROVE  <<mine[u], part>> \in overtaken'
    BY <1>0 DEF Overtaking
  <2>1. life_pc'[u] = life_pc[u] /\ life_pc[u] \in Begun
    BY <1>1, <1>2
  <2>2. CASE mine[u] = context
    BY <2>1, <2>2, <1>5
  <2>3. CASE mine[u] # context
    BY <2>1, <2>3, <1>3 DEF Overtaking, LifeRest
  <2> QED
    BY <2>2, <2>3
<1>10. AllAccounted'
  <2> SUFFICES ASSUME NEW x \in Contexts, NEW part \in running[x]
               PROVE  Accounted(x, part)'
    BY <1>0 DEF AllAccounted
  <2>0. part \in PyLife!Parts
    BY DEF LifeTypes, PyLife!LifeTypeOK
  <2>1. Accounted(x, part)
    BY DEF AllAccounted, LifeRest
  <2>2. CASE part = "sink" /\ \E u \in Threads : mine[u] = x /\ Fresh(u)
    BY <2>2, <1>0, <1>2 DEF Accounted
  <2>3. CASE part # "sink" /\ <<x, part>> \in overtaken
    BY <2>3, <1>3 DEF Accounted
  <2>4. CASE x = context /\ part \in noted[x]
    BY <2>4, <2>0, <1>0, LifePlaces DEF Accounted
  <2>5. CASE x = context /\ \E u \in Threads : mine[u] = x /\ part \in ToNote(life_pc[u])
    <3>1. PICK u \in Threads : mine[u] = x /\ part \in ToNote(life_pc[u])
      BY <2>5
    <3>2. life_pc[u] \in Begun
      BY <3>1, LifePlaces DEF LifeTypes, LifeLabels
    <3> QED
      BY <3>1, <3>2, <1>5, <2>5 DEF Accounted
  <2> QED
    BY <2>1, <2>2, <2>3, <2>4, <2>5 DEF Accounted
<1>11. Serving'
  BY <1>0 DEF Serving, LifeRest
<1> QED
  BY <1>6, <1>7, <1>8, <1>9, <1>10, <1>11 DEF LifeRest

\* There is no context to shut down.
LEMMA LifeFindsNothing ==
  ASSUME LifeTypes, Owned, LifeRest, NEW v \in Threads, PyLife!NothingToShutDown(v)
  PROVE  LifeRest'
<1> USE DEF Threads, Contexts
<1>0. /\ context = 0 /\ lock' = v /\ life_pc[v] = "lock" /\ life_pc'[v] = "install"
      /\ UNCHANGED <<context, mine, inits, running, noted, overtaken>>
  BY DEF LifeTypes, PyLife!NothingToShutDown, PyLife!Acquire, PyLife!Go
<1>1. \A u \in Threads : u # v => life_pc'[u] = life_pc[u]
  BY DEF LifeTypes, PyLife!NothingToShutDown, PyLife!Go
<1>2. \A u \in Threads : /\ life_pc'[u] \in Begun <=> life_pc[u] \in Begun
                         /\ life_pc'[u] \in Begun => life_pc'[u] = life_pc[u] /\ mine[u] # 0
                         /\ life_pc'[u] = "build" => life_pc[u] = "build"
                         /\ Fresh(u)' <=> Fresh(u)
  BY <1>0, <1>1 DEF Fresh, Begun, Owned
<1>3. \A x \in Contexts : x # 0
  BY DEF PyLife!Contexts
<1>4. Later' /\ Unheard' /\ Ordered' /\ Overtaking' /\ Serving'
  BY <1>0, <1>2 DEF Later, Unheard, Ordered, Overtaking, Serving, LifeRest
<1>5. AllAccounted'
  BY <1>0, <1>2, <1>3 DEF AllAccounted, Accounted, LifeRest
<1> QED
  BY <1>4, <1>5 DEF LifeRest

\* The exchange: what is left running of the old context has been overtaken.
LEMMA LifeInstalls ==
  ASSUME LifeTypes, Owned, LifeRest, NEW v \in Threads, PyLife!Install(v)
  PROVE  LifeRest'
<1> USE DEF Threads, Contexts
<1> DEFINE y == mine[v]
<1>0. /\ life_pc[v] = "install" /\ lock = v /\ v # Nobody /\ lock' = Nobody /\ context' = y
      /\ y # 0 => y \in Contexts /\ y <= inits
      /\ UNCHANGED <<mine, inits, running, overtaken>>
  BY LifeContexts DEF Owned, LifeTypes, PyLife!Install, Holding
<1>1. \A u \in Threads : u # v => life_pc'[u] = life_pc[u] /\ (mine[u] # 0 => mine[u] # y)
  BY DEF LifeTypes, PyLife!Install, PyLife!Go, Owned
<1>2. life_pc'[v] = IF y = 0 THEN "outside" ELSE "start_receiver"
  BY DEF LifeTypes, PyLife!Install, PyLife!Go
<1>3. /\ \A x \in Contexts : x # y => noted'[x] = noted[x]
      /\ y # 0 => noted'[y] = running[y]
  BY <1>0 DEF LifeTypes, PyLife!LifeTypeOK, PyLife!Install
<1>4. y # 0 => y # context /\ noted[y] = {} /\ running[y] \subseteq {"sink"} /\ "sink" \notin ToNote("start_receiver")
  <2>1. y # 0 => Fresh(v)
    BY <1>0 DEF Fresh, Begun
  <2> QED
    BY <2>1, LifePlaces DEF Unheard, LifeRest, PyLife!Watchers
<1>5. \A u \in Threads : /\ mine[u] # 0 => mine[u] \in Contexts
                         /\ life_pc[u] \in Begun => mine[u] # 0
  BY LifeContexts DEF Owned
<1>51. \A u \in Threads : Fresh(u)' => Fresh(u) /\ u # v
  BY <1>0, <1>1, <1>2 DEF Fresh, Begun
<1>52. \A u \in Threads : u # v => (Fresh(u)' <=> Fresh(u))
  BY <1>0, <1>1 DEF Fresh
<1>53. inits \in Nat
  BY DEF LifeTypes, PyLife!LifeTypeOK
<1> HIDE DEF y
<1>6. Later'
  BY <1>0, <1>3, <1>53 DEF Later, LifeRest, PyLife!Contexts
<1>7. Unheard'
  <2> SUFFICES ASSUME NEW u \in Threads, Fresh(u)'
               PROVE  /\ mine[u] # context' /\ noted'[mine[u]] = {} /\ running[mine[u]] \subseteq {"sink"}
                      /\ life_pc'[u] = "build" => running[mine[u]] = {}
                      /\ \A part \in PyLife!Parts : <<mine[u], part>> \notin overtaken
    BY <1>0 DEF Unheard
  <2>1. Fresh(u) /\ u # v /\ mine[u] # 0
    BY <1>51 DEF Fresh
  <2> QED
    BY <2>1, <1>0, <1>1, <1>3, <1>5 DEF Unheard, LifeRest
<1>8. Ordered'
  <2> SUFFICES ASSUME NEW u \in Threads, life_pc'[u] \in Begun
               PROVE  /\ ToNote(life_pc'[u]) \cap noted'[mine[u]] = {}
                      /\ ToNote(life_pc'[u]) \cap running[mine[u]] = Noting(life_pc'[u])
    BY <1>0 DEF Ordered
  <2>1. CASE u = v
    <3>1. y # 0 /\ life_pc'[u] = "start_receiver"
      BY <2>1, <1>2 DEF Begun
    <3>2. ToNote("start_receiver") \cap running[y] = {} /\ ToNote("start_receiver") \cap noted'[y] = {}
      BY <3>1, <1>3, <1>4
    <3> QED
      BY <2>1, <3>1, <3>2, LifePlaces DEF y
  <2>2. CASE u # v
    BY <2>2, <1>1, <1>3, <1>5 DEF Ordered, LifeRest
  <2> QED
    BY <2>1, <2>2
<1>9. Overtaking'
  <2> SUFFICES ASSUME NEW u \in Threads, life_pc'[u] \in Begun, mine[u] # y, NEW part \in ToNote(life_pc'[u])
               PROVE  <<mine[u], part>> \in overtaken
    BY <1>0 DEF Overtaking
  <2>1. u # v
    BY DEF y
  <2> QED
    BY <2>1, <1>0, <1>1 DEF Overtaking, LifeRest
<1>10. AllAccounted'
  <2> SUFFICES ASSUME NEW x \in Contexts, NEW part \in running[x]
               PROVE  Accounted(x, part)'
    BY <1>0 DEF AllAccounted
  <2>1. CASE x = y
    <3>1. y # 0
      BY <2>1 DEF PyLife!Contexts
    <3> QED
      BY <3>1, <2>1, <1>0, <1>3 DEF Accounted
  <2>2. CASE x # y
    <3>1. Accounted(x, part)
      BY DEF AllAccounted, LifeRest
    <3>2. CASE part = "sink" /\ \E u \in Threads : mine[u] = x /\ Fresh(u)
      BY <3>2, <2>2, <1>0, <1>52 DEF Accounted, y
    <3>3. CASE part # "sink" /\ <<x, part>> \in overtaken
      BY <3>3, <1>0 DEF Accounted
    <3> QED
      BY <3>1, <3>2, <3>3, <1>0, LifePlaces DEF Accounted
  <2> QED
    BY <2>1, <2>2
<1>11. Serving'
  BY <1>0, <1>3 DEF Serving
<1> QED
  BY <1>6, <1>7, <1>8, <1>9, <1>10, <1>11 DEF LifeRest

\* The steps of init() and shutdown() around the exchange.
LEMMA LifeEnters ==
  ASSUME LifeTypes, Owned, LifeRest, NEW v \in Threads, PyLife!Enter(v)
  PROVE  LifeRest'
<1> USE DEF Threads, Contexts
<1> DEFINE y == mine'[v]
<1>0. /\ UNCHANGED <<lock, context, noted, overtaken>> /\ life_pc[v] \in {"outside", "build"}
      /\ life_pc'[v] \in {"outside", "build", "lock"} /\ inits \in Nat /\ inits' \in Nat
      /\ \A x \in Contexts : x > inits' => x > inits
  BY DEF PyLife!Enter, PyLife!BeginInit, PyLife!NoRuntime, PyLife!Degrade, PyLife!BuildRuntime,
         PyLife!BeginShutdown, PyLife!Go, PyLife!shared, LifeTypes, PyLife!LifeTypeOK, PyLife!Contexts
<1>1. \A u \in Threads : u # v => life_pc'[u] = life_pc[u] /\ mine'[u] = mine[u]
  BY DEF PyLife!Enter, PyLife!BeginInit, PyLife!NoRuntime, PyLife!Degrade, PyLife!BuildRuntime,
         PyLife!BeginShutdown, PyLife!Go, LifeTypes, PyLife!LifeTypeOK
<1>2. /\ \A x \in Contexts : x # y => running'[x] = running[x]
      /\ y # 0 => running'[y] \subseteq {"sink"} /\ (life_pc'[v] = "build" => running'[y] = {})
      /\ y # 0 => y # context /\ noted[y] = {} /\ (\A part \in PyLife!Parts : <<y, part>> \notin overtaken)
                  /\ y \in Contexts /\ y <= inits'
      /\ mine[v] # 0 /\ y = 0 => running[mine[v]] = {}
  <2>1. CASE PyLife!BeginInit(v)
    <3>1. y = inits + 1 /\ y \in Contexts /\ y <= inits' /\ mine[v] = 0 /\ life_pc'[v] = "build"
      BY <2>1, LifeContexts DEF PyLife!BeginInit, PyLife!Go, LifeTypes, PyLife!LifeTypeOK, PyLife!Contexts, Owned
    <3>2. y > inits /\ y # context /\ running' = running
      BY <2>1, <3>1, <1>0 DEF Owned, PyLife!BeginInit, LifeTypes, PyLife!LifeTypeOK
    <3> HIDE DEF y
    <3> QED
      BY <3>1, <3>2 DEF Later, LifeRest
  <2>2. CASE PyLife!NoRuntime(v) \/ PyLife!Degrade(v)
    <3>1. y = 0 /\ running' = running /\ life_pc[v] = "build" /\ Fresh(v)
      BY <2>2 DEF PyLife!NoRuntime, PyLife!Degrade, LifeTypes, PyLife!LifeTypeOK, Fresh, Owned, Begun
    <3> QED
      BY <3>1 DEF Unheard, LifeRest
  <2>3. CASE PyLife!BuildRuntime(v)
    <3>1. y = mine[v] /\ life_pc[v] = "build" /\ Fresh(v) /\ y \in Contexts /\ y <= inits' /\ life_pc'[v] = "lock"
      BY <2>3, LifeContexts DEF PyLife!BuildRuntime, PyLife!Go, LifeTypes, PyLife!LifeTypeOK, Fresh, Owned, Begun
    <3>2. PICK asked \in Settings : running' = [running EXCEPT ![mine[v]] = asked \cap {"sink"}]
      BY <2>3 DEF PyLife!BuildRuntime
    <3>3. running'[y] \subseteq {"sink"} /\ \A x \in Contexts : x # y => running'[x] = running[x]
      BY <3>1, <3>2 DEF LifeTypes, PyLife!LifeTypeOK
    <3> QED
      BY <3>1, <3>3 DEF Unheard, LifeRest, PyLife!Contexts
  <2>4. CASE PyLife!BeginShutdown(v)
    BY <2>4 DEF PyLife!BeginShutdown, LifeTypes, PyLife!LifeTypeOK, Owned
  <2> QED
    BY <2>1, <2>2, <2>3, <2>4 DEF PyLife!Enter
<1>3. \A u \in Threads : u # v => Fresh(u)' = Fresh(u)
  BY <1>1 DEF Fresh
<1>4. \A u \in Threads : /\ life_pc'[u] \in Begun => u # v /\ mine[u] # 0
                         /\ mine[u] # 0 => mine[u] \in Contexts
                         /\ u # v /\ mine[u] # 0 => mine[u] # y
  <2>1. \A u \in Threads : u # v /\ mine[u] # 0 => mine[u] # y
    <3>1. CASE PyLife!BeginInit(v)
      BY <3>1 DEF PyLife!BeginInit, LifeTypes, PyLife!LifeTypeOK, Owned
    <3>2. CASE ~PyLife!BeginInit(v)
      <4>1. y = mine[v] \/ y = 0
        BY <3>2 DEF PyLife!Enter, PyLife!NoRuntime, PyLife!Degrade, PyLife!BuildRuntime,
           PyLife!BeginShutdown, LifeTypes, PyLife!LifeTypeOK
      <4> QED
        BY <4>1 DEF Owned
    <3> QED
      BY <3>1, <3>2
  <2> QED
    BY <2>1, <1>0, <1>1, LifeContexts DEF Begun, Owned
<1>5. y # 0 => Fresh(v)'
  BY <1>0 DEF Fresh, Begun
<1>55. Fresh(v)' => y # 0
  BY DEF Fresh
<1> HIDE DEF y
<1>6. Later'
  BY <1>0, <1>2 DEF Later, LifeRest, PyLife!Contexts
<1>7. Unheard'
  <2> SUFFICES ASSUME NEW u \in Threads, Fresh(u)'
               PROVE  /\ mine'[u] # context /\ noted[mine'[u]] = {} /\ running'[mine'[u]] \subseteq {"sink"}
                      /\ life_pc'[u] = "build" => running'[mine'[u]] = {}
                      /\ \A part \in PyLife!Parts : <<mine'[u], part>> \notin overtaken
    BY <1>0 DEF Unheard
  <2>1. CASE u = v
    BY <2>1, <1>2, <1>55 DEF y
  <2>2. CASE u # v
    <3>1. Fresh(u) /\ mine[u] # 0
      BY <2>2, <1>3 DEF Fresh
    <3> QED
      BY <2>2, <3>1, <1>1, <1>2, <1>4 DEF Unheard, LifeRest
  <2> QED
    BY <2>1, <2>2
<1>8. Ordered'
  BY <1>0, <1>1, <1>2, <1>4 DEF Ordered, LifeRest
<1>9. Overtaking'
  BY <1>0, <1>1, <1>4 DEF Overtaking, LifeRest
<1>10. AllAccounted'
  <2> SUFFICES ASSUME NEW x \in Contexts, NEW part \in running'[x]
               PROVE  Accounted(x, part)'
    BY DEF AllAccounted
  <2>1. CASE x = y
    BY <2>1, <1>2, <1>5 DEF Accounted, PyLife!Contexts, y
  <2>2. CASE x # y
    <3>1. part \in running[x] /\ Accounted(x, part)
      BY <2>2, <1>2 DEF AllAccounted, LifeRest
    <3>2. x # mine[v]
      <4>1. CASE y = 0
        BY <4>1, <3>1, <1>2 DEF PyLife!Contexts
      <4>2. CASE y # 0
        <5>1. PyLife!BeginInit(v) \/ PyLife!BuildRuntime(v) \/ PyLife!BeginShutdown(v)
          BY <4>2 DEF y, PyLife!Enter, PyLife!NoRuntime, PyLife!Degrade, LifeTypes, PyLife!LifeTypeOK
        <5>2. mine[v] = 0 \/ mine[v] = y
          BY <5>1 DEF y, PyLife!BeginInit, PyLife!BuildRuntime, PyLife!BeginShutdown, Owned
        <5> QED
          BY <5>2, <2>2 DEF PyLife!Contexts
      <4> QED
        BY <4>1, <4>2
    <3>3. CASE part = "sink" /\ \E u \in Threads : mine[u] = x /\ Fresh(u)
      BY <3>2, <3>3, <1>1, <1>3 DEF Accounted
    <3>4. CASE part # "sink" /\ <<x, part>> \in overtaken
      BY <3>4, <1>0 DEF Accounted
    <3>5. CASE x = context /\ part \in noted[x] /\ (lock = Nobody \/ part \in ToStop(life_pc[lock]))
      <4>1. lock \in Threads \cup {Nobody} /\ lock # v
        BY <1>0 DEF LifeTypes, PyLife!LifeTypeOK, Owned, Holding, Stopping
      <4> QED
        BY <3>5, <4>1, <1>0, <1>1 DEF Accounted
    <3>6. CASE x = context /\ lock = Nobody /\ \E u \in Threads : mine[u] = x /\ part \in ToNote(life_pc[u])
      BY <3>6, <3>2, <1>0, <1>1 DEF Accounted
    <3> QED
      BY <3>1, <3>3, <3>4, <3>5, <3>6 DEF Accounted
  <2> QED
    BY <2>1, <2>2
<1>11. Serving'
  <2>1. lock \in Threads \cup {Nobody} /\ lock # v
    BY <1>0 DEF LifeTypes, PyLife!LifeTypeOK, Owned, Holding, Stopping
  <2>2. context # 0 => context \in Contexts /\ context # y
    BY LifeContexts, <1>2 DEF PyLife!Contexts
  <2> QED
    BY <2>1, <2>2, <1>0, <1>1, <1>2 DEF Serving, LifeRest
<1> QED
  BY <1>6, <1>7, <1>8, <1>9, <1>10, <1>11 DEF LifeRest

\* init() returns when nothing is left to note.
LEMMA LifeReturns ==
  ASSUME LifeTypes, Owned, LifeRest, NEW v \in Threads, PyLife!ReturnFromInit(v)
  PROVE  LifeRest'
<1> USE DEF Threads, Contexts
<1>0. /\ life_pc[v] = "return" /\ life_pc'[v] = "outside" /\ mine'[v] = 0 /\ lock # v
      /\ UNCHANGED <<lock, context, running, noted, inits, overtaken>>
      /\ lock \in Threads \cup {Nobody}
  BY DEF LifeTypes, PyLife!LifeTypeOK, PyLife!ReturnFromInit, PyLife!Go, PyLife!shared, Owned, Holding, Stopping
<1>1. \A u \in Threads : u # v => life_pc'[u] = life_pc[u] /\ mine'[u] = mine[u]
  BY DEF LifeTypes, PyLife!LifeTypeOK, PyLife!ReturnFromInit, PyLife!Go
<1>2. \A u \in Threads : /\ life_pc'[u] \in Begun => u # v
                         /\ Fresh(u)' => Fresh(u) /\ u # v
                         /\ Fresh(u) => Fresh(u)' /\ u # v
  BY <1>0, <1>1 DEF Fresh, Begun
<1>3. Later' /\ Unheard' /\ Ordered' /\ Overtaking' /\ Serving'
  BY <1>0, <1>1, <1>2 DEF Later, Unheard, Ordered, Overtaking, Serving, LifeRest
<1>4. AllAccounted'
  <2> SUFFICES ASSUME NEW x \in Contexts, NEW part \in running[x]
               PROVE  Accounted(x, part)'
    BY <1>0 DEF AllAccounted
  <2>1. Accounted(x, part)
    BY DEF AllAccounted, LifeRest
  <2>2. ToNote(life_pc[v]) = {}
    BY <1>0, LifePlaces
  <2> QED
    BY <2>1, <2>2, <1>0, <1>1, <1>2 DEF Accounted
<1> QED
  BY <1>3, <1>4 DEF LifeRest

\* What is left to stop after each step.
LEMMA LifeLeft ==
  /\ ToStop("stop_receiver") = {"sink", "receiver", "policy_watcher", "switch_watcher"}
  /\ ToStop("stop_watchers") = {"sink", "policy_watcher", "switch_watcher"}
  /\ ToStop("clear_watchers") = {"sink"} /\ ToStop("stop_sink") = {"sink"}
BY DEF ToStop, PyLife!Parts, PyLife!Watchers

\* The steps by which the thread that holds the lock shuts the context down.
LEMMA LifeShutsDownFurther ==
  ASSUME LifeTypes, Owned, LifeRest, NEW v \in Threads,
         \/ PyLife!StopReceiver(v) \/ PyLife!StopWatcher(v) \/ PyLife!NoMoreWatchers(v)
         \/ PyLife!ClearWatchers(v) \/ PyLife!StopSink(v)
  PROVE  LifeRest'
<1> USE DEF Threads, Contexts
<1>0. /\ lock = v /\ old[v] = context /\ context \in Contexts /\ life_pc[v] \in Stopping
      /\ running[context] \subseteq PyLife!Parts /\ noted[context] \subseteq PyLife!Parts
      /\ \A part \in noted[context] \ running[context] :
            part \in PyLife!Watchers /\ life_pc[v] \in {"stop_watchers", "clear_watchers"}
  <2>1. life_pc[v] \in Stopping
    BY DEF PyLife!StopReceiver, PyLife!StopWatcher, PyLife!NoMoreWatchers,
       PyLife!ClearWatchers, PyLife!StopSink, Stopping
  <2>2. lock = v /\ old[v] = context /\ context \in Contexts /\ context # 0
    BY <2>1, LifeContexts DEF Owned, Holding
  <2> QED
    BY <2>1, <2>2 DEF LifeTypes, PyLife!LifeTypeOK, LifeRest, Serving
<1>1. running = [running EXCEPT ![context] = @ \ {}] /\ noted = [noted EXCEPT ![context] = @ \ {}]
  BY <1>0 DEF LifeTypes, PyLife!LifeTypeOK
<1> DEFINE Ends(from, to, R, N) ==
             /\ life_pc[v] = from /\ life_pc' = [life_pc EXCEPT ![v] = to]
             /\ running' = [running EXCEPT ![context] = @ \ R]
             /\ noted' = [noted EXCEPT ![context] = @ \ N]
             /\ UNCHANGED <<lock, context, mine, inits, overtaken>>
<1>2. ASSUME NEW from \in Stopping, NEW to \in Holding, NEW R, NEW N, Ends(from, to, R, N),
             R \subseteq noted[context],
             \A part \in ToStop(from) \cap noted[context] :
                part \in R \/ (part \in ToStop(to) /\ part \notin N) \/ part \notin running[context],
             \A part \in noted[context] \ N : part \in R \/ part \notin running[context] =>
                part \in PyLife!Watchers /\ to \in {"stop_watchers", "clear_watchers"}
      PROVE  LifeRest'
  BY <1>2, <1>0, LifeStops
<1>3. CASE PyLife!StopReceiver(v)
  <2> DEFINE R == noted[context] \cap {"receiver"}
  <2>1. Ends("stop_receiver", "stop_watchers", R, R)
    <3>1. CASE "receiver" \in noted[context]
      <4>1. R = {"receiver"}
        BY <3>1
      <4> QED
        BY <3>1, <4>1, <1>0, <1>3 DEF PyLife!StopReceiver, PyLife!Stop, PyLife!Go, PyLife!shared
    <3>2. CASE "receiver" \notin noted[context]
      <4>1. R = {}
        BY <3>2
      <4> QED
        BY <3>2, <4>1, <1>0, <1>1, <1>3 DEF PyLife!StopReceiver, PyLife!Stop, PyLife!Go, PyLife!shared
    <3> QED
      BY <3>1, <3>2
  <2>2. \A part \in noted[context] \ R : part \in running[context]
    <3>1. life_pc[v] = "stop_receiver"
      BY <1>3 DEF PyLife!StopReceiver
    <3> QED
      BY <3>1, <1>0
  <2> HIDE DEF Ends
  <2> QED
    BY <2>1, <2>2, <1>2, LifeLeft DEF Stopping, Holding
<1>4. CASE PyLife!StopWatcher(v)
  <2>1. PICK part \in PyLife!Watchers \cap noted[context] \cap running[context] :
           Ends("stop_watchers", "stop_watchers", {part}, {})
    <3>1. life_pc' = [life_pc EXCEPT ![v] = "stop_watchers"]
      BY <1>4 DEF PyLife!StopWatcher, LifeTypes
    <3> QED
      BY <3>1, <1>0, <1>1, <1>4 DEF PyLife!StopWatcher, PyLife!Stop, PyLife!shared
  <2>2. \A p1 \in noted[context] : p1 \in {part} \/ p1 \notin running[context] => p1 \in PyLife!Watchers
    BY <1>0, <2>1
  <2> HIDE DEF Ends
  <2> QED
    BY <2>1, <2>2, <1>2, LifeLeft DEF Stopping, Holding
<1>5. CASE PyLife!NoMoreWatchers(v)
  <2>1. Ends("stop_watchers", "clear_watchers", {}, {})
    BY <1>1, <1>5 DEF PyLife!NoMoreWatchers, PyLife!Go, PyLife!shared
  <2>2. PyLife!Watchers \cap noted[context] \cap running[context] = {}
    BY <1>0, <1>5 DEF PyLife!NoMoreWatchers
  <2>3. \A part \in noted[context] : part \notin running[context] => part \in PyLife!Watchers
    BY <1>0
  <2> HIDE DEF Ends
  <2> QED
    BY <2>1, <2>2, <2>3, <1>2, LifeLeft DEF Stopping, Holding, PyLife!Watchers
<1>6. CASE PyLife!ClearWatchers(v)
  <2>1. Ends("clear_watchers", "stop_sink", {}, PyLife!Watchers)
    BY <1>0, <1>1, <1>6 DEF PyLife!ClearWatchers, PyLife!Go, PyLife!shared
  <2>2. \A part \in noted[context] \ PyLife!Watchers : part \in running[context]
    BY <1>0
  <2> HIDE DEF Ends
  <2> QED
    BY <2>1, <2>2, <1>2, LifeLeft DEF Stopping, Holding, PyLife!Watchers
<1>7. CASE PyLife!StopSink(v)
  <2> DEFINE R == noted[context] \cap {"sink"}
  <2>1. Ends("stop_sink", "install", R, {"sink"})
    BY <1>0, <1>7 DEF PyLife!StopSink, PyLife!Go, PyLife!shared
  <2>2. \A part \in noted[context] : part \in running[context]
    <3>1. life_pc[v] = "stop_sink"
      BY <1>7 DEF PyLife!StopSink
    <3> QED
      BY <3>1, <1>0
  <2> HIDE DEF Ends
  <2> QED
    BY <2>1, <2>2, <1>2, LifeLeft DEF Stopping, Holding
<1> QED
  BY <1>3, <1>4, <1>5, <1>6, <1>7

\* Which parts each step of init() leaves to be noted.
LEMMA LifeSteps ==
  /\ Noting("start_receiver") = {} /\ Noting("note_receiver") = {"receiver"}
  /\ Noting("start_policy_watcher") = {} /\ Noting("note_policy_watcher") = {"policy_watcher"}
  /\ Noting("start_switch_watcher") = {} /\ Noting("note_switch_watcher") = {"switch_watcher"}
  /\ Noting("return") = {} /\ ToNote("return") = {}
  /\ ToNote("start_receiver") = {"receiver", "policy_watcher", "switch_watcher"}
  /\ ToNote("note_receiver") = {"receiver", "policy_watcher", "switch_watcher"}
  /\ ToNote("start_policy_watcher") = {"policy_watcher", "switch_watcher"}
  /\ ToNote("note_policy_watcher") = {"policy_watcher", "switch_watcher"}
  /\ ToNote("start_switch_watcher") = {"switch_watcher"}
  /\ ToNote("note_switch_watcher") = {"switch_watcher"}
BY DEF ToNote, Noting, PyLife!Watchers

\* The steps of init() after the exchange.
LEMMA LifeStartsParts ==
  ASSUME LifeTypes, Owned, LifeRest, NEW v \in Threads,
         \/ PyLife!StartReceiver(v) \/ PyLife!NoteReceiver(v) \/ PyLife!StartWatcher(v)
         \/ PyLife!NoteWatcher(v) \/ PyLife!SkipPart(v)
  PROVE  LifeRest'
<1> DEFINE Moves1(from, to, S, N) ==
             /\ life_pc[v] = from /\ life_pc' = [life_pc EXCEPT ![v] = to]
             /\ running' = [running EXCEPT ![mine[v]] = @ \cup S]
             /\ noted' = [noted EXCEPT ![mine[v]] = @ \cup N]
             /\ UNCHANGED <<lock, context, mine, inits, overtaken>>
<1>1. ASSUME NEW from \in Begun, NEW to \in Begun, NEW S, NEW N, Moves1(from, to, S, N),
             S \subseteq ToNote(to), N \subseteq Noting(from), ToNote(to) \subseteq ToNote(from) \ N,
             ToNote(to) \cap (Noting(from) \cup S) = Noting(to), Noting(from) \subseteq N \cup ToNote(to)
      PROVE  LifeRest'
  BY <1>1, LifeBegins
<1>2. running = [running EXCEPT ![mine[v]] = @ \cup {}] /\ noted = [noted EXCEPT ![mine[v]] = @ \cup {}]
  BY DEF LifeTypes, PyLife!LifeTypeOK
<1>3. \/ Moves1("start_receiver", "note_receiver", {"receiver"}, {})
      \/ Moves1("note_receiver", "start_policy_watcher", {}, {"receiver"})
      \/ Moves1("start_policy_watcher", "note_policy_watcher", {"policy_watcher"}, {})
      \/ Moves1("note_policy_watcher", "start_switch_watcher", {}, {"policy_watcher"})
      \/ Moves1("start_switch_watcher", "note_switch_watcher", {"switch_watcher"}, {})
      \/ Moves1("note_switch_watcher", "return", {}, {"switch_watcher"})
      \/ Moves1("start_receiver", "start_policy_watcher", {}, {})
      \/ Moves1("start_policy_watcher", "start_switch_watcher", {}, {})
      \/ Moves1("start_switch_watcher", "return", {}, {})
  BY <1>2 DEF PyLife!StartReceiver, PyLife!NoteReceiver, PyLife!StartWatcher,
         PyLife!NoteWatcher, PyLife!SkipPart, PyLife!Start, PyLife!Note, PyLife!Go, PyLife!shared
<1> HIDE DEF Moves1
<1> USE LifeSteps DEF Begun
<1>4. CASE Moves1("start_receiver", "note_receiver", {"receiver"}, {})
  BY <1>4, <1>1
<1>5. CASE Moves1("note_receiver", "start_policy_watcher", {}, {"receiver"})
  BY <1>5, <1>1
<1>6. CASE Moves1("start_policy_watcher", "note_policy_watcher", {"policy_watcher"}, {})
  BY <1>6, <1>1
<1>7. CASE Moves1("note_policy_watcher", "start_switch_watcher", {}, {"policy_watcher"})
  BY <1>7, <1>1
<1>8. CASE Moves1("start_switch_watcher", "note_switch_watcher", {"switch_watcher"}, {})
  BY <1>8, <1>1
<1>9. CASE Moves1("note_switch_watcher", "return", {}, {"switch_watcher"})
  BY <1>9, <1>1
<1>10. CASE Moves1("start_receiver", "start_policy_watcher", {}, {})
  BY <1>10, <1>1
<1>11. CASE Moves1("start_policy_watcher", "start_switch_watcher", {}, {})
  BY <1>11, <1>1
<1>12. CASE Moves1("start_switch_watcher", "return", {}, {})
  BY <1>12, <1>1
<1> QED
  BY <1>3, <1>4, <1>5, <1>6, <1>7, <1>8, <1>9, <1>10, <1>11, <1>12

\* Both SDKs' contexts begin as nothing.
LEMMA LifeStarts == PyLife!LifeInit => LifeInv
<1> SUFFICES ASSUME PyLife!LifeInit PROVE LifeInv
  OBVIOUS
<1> USE DEF PyLife!LifeInit, Threads, Contexts
<1>0. MaxInits \in Nat /\ MaxShutdowns \in Nat /\ Nobody \notin Threads
  BY PyLifeAssumed DEF PyLife!LifecycleAssumption
<1>1. LifeTypes
  <2>1. degraded \in BOOLEAN
    OBVIOUS
  <2>2. wanted \in [Threads -> SUBSET PyLife!Parts] /\ running \in [Contexts -> SUBSET PyLife!Parts]
          /\ noted \in [Contexts -> SUBSET PyLife!Parts]
    OBVIOUS
  <2>3. mine \in [Threads -> 0..MaxInits] /\ old \in [Threads -> 0..MaxInits]
    BY <1>0
  <2>4. life_pc \in [Threads -> LifeLabels] /\ DOMAIN life_pc = Threads
    BY DEF LifeLabels
  <2> QED
    BY <1>0, <2>1, <2>2, <2>3, <2>4 DEF LifeTypes, PyLife!LifeTypeOK
<1>2. Owned
  BY <1>0 DEF Owned, Holding, Stopping, Begun
<1>3. Later /\ Unheard /\ Ordered /\ Overtaking /\ AllAccounted /\ Serving
  BY <1>0 DEF Later, Unheard, Fresh, Ordered, Overtaking, AllAccounted, Serving, Begun, PyLife!Contexts
<1> QED
  BY <1>1, <1>2, <1>3 DEF LifeInv, LifeRest

\* Every step of a thread in init() or shutdown() keeps the invariant.
LEMMA LifeMoves == LifeInv /\ PyLife!LifeNext => LifeInv'
<1> SUFFICES ASSUME LifeInv, NEW v \in Threads,
                    PyLife!Enter(v) \/ PyLife!Exchange(v) \/ PyLife!StartParts(v)
             PROVE  LifeInv'
  BY DEF PyLife!LifeNext, Threads
<1>1. LifeTypes /\ Owned /\ LifeRest
  BY DEF LifeInv
<1>2. LifeTypes' /\ Owned'
  BY <1>1, LifeOwnedEnters, LifeOwnedExchanges, LifeOwnedStartsParts
<1>3. CASE PyLife!Enter(v)
  BY <1>1, <1>2, <1>3, LifeEnters DEF LifeInv
<1>4. CASE PyLife!Exchange(v)
  <2>1. LifeRest'
    BY <1>1, <1>4, LifeShutsDown, LifeFindsNothing, LifeShutsDownFurther, LifeInstalls
       DEF PyLife!Exchange
  <2> QED
    BY <1>2, <2>1 DEF LifeInv
<1>5. CASE PyLife!StartParts(v)
  <2>1. LifeRest'
    BY <1>1, <1>5, LifeStartsParts, LifeReturns DEF PyLife!StartParts
  <2> QED
    BY <1>2, <2>1 DEF LifeInv
<1> QED
  BY <1>3, <1>4, <1>5

\* Nothing moves: nothing changes.
LEMMA LifeRests == LifeInv /\ UNCHANGED pyLifeVars => LifeInv'
BY DEF pyLifeVars, LifeInv, LifeTypes, PyLife!LifeTypeOK, Owned, LifeRest, Later, Unheard, Fresh, Ordered,
       Overtaking, AllAccounted, Accounted, Serving, ToNote, ToStop

\* What runs is accounted for, and what a context refers to runs.
LEMMA LifeKept == LifeInv => PyLife!NothingLeaks /\ PyLife!ContextServes
<1> SUFFICES ASSUME LifeInv PROVE PyLife!NothingLeaks /\ PyLife!ContextServes
  OBVIOUS
<1>1. PyLife!NothingLeaks
  <2> SUFFICES ASSUME NEW x \in Contexts, NEW part \in running[x]
               PROVE  x = context \/ PyLife!OnItsWay(x) \/ (<<x, part>> \in overtaken /\ part # "sink")
    BY DEF PyLife!NothingLeaks, Contexts
  <2>1. Accounted(x, part)
    BY DEF LifeInv, LifeRest, AllAccounted
  <2> QED
    BY <2>1 DEF Accounted, PyLife!OnItsWay, Threads
<1>2. PyLife!ContextServes
  <2> SUFFICES ASSUME context # 0, ~(\E u \in Threads : old[u] = context)
               PROVE  noted[context] \subseteq running[context]
    BY DEF PyLife!ContextServes, Threads
  <2>1. lock = Nobody \/ life_pc[lock] \notin Stopping
    BY DEF LifeInv, LifeTypes, PyLife!LifeTypeOK, Owned, Threads
  <2> QED
    BY <2>1 DEF LifeInv, LifeRest, Serving, Stopping
<1> QED
  BY <1>1, <1>2

-------------------------------------------------------------------------------
(* init(), initAsync() and shutdown() in JavaScript.  Every part is registered *)
(* as it starts and a drain asks the whole registry, so that what runs beside a *)
(* shutdown() was started after it: each part bears the number of its init(),   *)
(* and an init() that is still awaited has started none.                        *)

Started == {i \in 1..js_inits : i \notin pending}
StartedOnly(S) == \A part \in S : part[2] \in Started

JsKept ==
    /\ Isolate!JsLifeTypeOK
    /\ pending \subseteq 1..js_inits /\ js_context <= js_inits
    /\ live \subseteq disposables /\ StartedOnly(live)
    /\ \A k \in Isolate!Calls : /\ StartedOnly(call[k].ran)
                                /\ call[k].at # "none" => call[k].ran \cap live \subseteq call[k].newer

\* The parts of one init() are the only ones with its number.
LEMMA JsParts ==
  /\ \A part \in Isolate!Parts : part[2] \in Isolate!Inits
  /\ \A i \in Isolate!Inits : /\ <<"batcher", i>> \in Isolate!Parts /\ <<"batcher", i>>[2] = i
                              /\ <<"receiver", i>> \in Isolate!Parts /\ <<"receiver", i>>[2] = i
BY DEF Isolate!Parts

\* An init() completes: its parts start and are registered.
LEMMA JsCompletes ==
  ASSUME JsKept, NEW i \in Isolate!Inits, i \notin Started, Isolate!CompleteInit(i),
         js_degraded' \in BOOLEAN,
         js_inits' \in 0..MaxJsInits, i \in 1..js_inits', js_inits <= js_inits',
         pending' = pending \ {i}
  PROVE  JsKept'
<1>0. MaxJsInits \in Nat /\ MaxJsShutdowns \in Nat
  BY IsolateAssumed DEF Isolate!WorkerIsolateAssumption
<1>1. PICK new \in SUBSET Isolate!Parts :
         /\ \A part \in new : part[2] = i
         /\ live' = live \cup new /\ disposables' = disposables \cup new
         /\ js_context' = i /\ UNCHANGED <<closing, draining, in_flight, call>>
  <2>1. <<"batcher", i>>[2] = i /\ <<"receiver", i>>[2] = i
    OBVIOUS
  <2>2. PICK new \in {{}, {<<"batcher", i>>}, {<<"receiver", i>>}, {<<"batcher", i>>, <<"receiver", i>>}} :
           /\ live' = live \cup new /\ disposables' = disposables \cup new
           /\ js_context' = i /\ UNCHANGED <<closing, draining, in_flight, call>>
    BY DEF Isolate!CompleteInit
  <2>3. \A part \in new : part = <<"batcher", i>> \/ part = <<"receiver", i>>
    BY <2>2
  <2> QED
    BY <2>1, <2>2, <2>3, JsParts
<1>2. js_inits \in Nat /\ js_inits' \in Nat
  BY <1>0 DEF JsKept, Isolate!JsLifeTypeOK
<1>3. \A n \in Started : n \in Started' /\ n # i
  BY <1>2, IsolateAssumed DEF Started, Isolate!Inits
<1>4. i \in Started'
  BY DEF Started
<1>5. Isolate!JsLifeTypeOK'
  <2>1. js_degraded' \in BOOLEAN /\ in_flight' \in BOOLEAN
    BY <1>1 DEF JsKept, Isolate!JsLifeTypeOK
  <2>2. call' \in [Isolate!Calls -> [at : {"none", "waits", "back"}, ran : SUBSET Isolate!Parts,
                                     newer : SUBSET Isolate!Parts]]
    BY <1>1 DEF JsKept, Isolate!JsLifeTypeOK
  <2>3. js_context' \in 0..MaxJsInits
    BY <1>0, <1>1 DEF Isolate!Inits
  <2> QED
    BY <1>1, <2>1, <2>2, <2>3 DEF JsKept, Isolate!JsLifeTypeOK
<1>6. (pending \subseteq 1..js_inits /\ js_context <= js_inits)'
  <2>1. \A n \in 1..js_inits : n \in 1..js_inits'
    BY <1>2
  <2>2. js_context' <= js_inits'
    BY <1>1
  <2> QED
    BY <2>1, <2>2 DEF JsKept
<1>7. (live \subseteq disposables /\ StartedOnly(live))'
  BY <1>1, <1>3, <1>4 DEF JsKept, StartedOnly
<1>8. ASSUME NEW k \in Isolate!Calls
      PROVE  (/\ StartedOnly(call[k].ran)
              /\ call[k].at # "none" => call[k].ran \cap live \subseteq call[k].newer)'
  <2>1. call'[k] = call[k] /\ StartedOnly(call[k].ran)
    BY <1>1 DEF JsKept
  <2>2. \A part \in call[k].ran : part \notin new
    BY <1>1, <1>3, <2>1 DEF StartedOnly
  <2> QED
    BY <1>1, <1>3, <2>1, <2>2 DEF JsKept, StartedOnly
<1> QED
  BY <1>5, <1>6, <1>7, <1>8 DEF JsKept

\* A shutdown asks the whole registry, unless one is in flight.
LEMMA JsDrains ==
  ASSUME JsKept, Isolate!shutdownAll
  PROVE  /\ live' \subseteq disposables' /\ live' \subseteq live
         /\ in_flight \/ live' = {}
         /\ closing' \subseteq Isolate!Parts /\ disposables' \subseteq Isolate!Parts
         /\ draining' \subseteq closing' /\ in_flight' \in BOOLEAN
         /\ in_flight => disposables' = disposables
<1>1. CASE in_flight
  <2>1. UNCHANGED <<live, closing, disposables, draining, in_flight>>
    BY <1>1 DEF Isolate!shutdownAll, Isolate!registry
  <2> QED
    BY <1>1, <2>1 DEF JsKept, Isolate!JsLifeTypeOK
<1>2. CASE ~in_flight
  <2>1. in_flight' \in BOOLEAN
    BY <1>2 DEF Isolate!shutdownAll, Isolate!Drain
  <2> QED
    BY <1>2, <2>1 DEF JsKept, Isolate!JsLifeTypeOK, Isolate!shutdownAll, Isolate!Drain
<1> QED
  BY <1>1, <1>2

\* shutdown() and the handlers of the process.
LEMMA JsShutsDown ==
  ASSUME JsKept, Isolate!shutdown \/ Isolate!ProcessHandler
  PROVE  JsKept'
<1>0. /\ live' \subseteq disposables' /\ live' \subseteq live
      /\ in_flight \/ live' = {}
      /\ closing' \subseteq Isolate!Parts /\ disposables' \subseteq Isolate!Parts
      /\ draining' \subseteq closing' /\ in_flight' \in BOOLEAN
      /\ UNCHANGED <<pending, js_inits>>
      /\ js_context' \in {js_context, 0} /\ js_degraded' \in {js_degraded, FALSE}
  BY JsDrains DEF Isolate!shutdown, Isolate!ProcessHandler
<1>1. \A k \in Isolate!Calls : \/ call'[k] = call[k]
                               \/ call'[k] = [at |-> "waits", ran |-> live, newer |-> Isolate!Newer]
  BY DEF Isolate!shutdown, Isolate!ProcessHandler, JsKept, Isolate!JsLifeTypeOK
<1>2. Isolate!Newer \subseteq Isolate!Parts /\ live' \subseteq Isolate!Newer
  BY <1>0 DEF Isolate!Newer, JsKept, Isolate!JsLifeTypeOK
<1>3. Isolate!JsLifeTypeOK'
  <2>1. js_degraded' \in BOOLEAN
    BY <1>0 DEF JsKept, Isolate!JsLifeTypeOK
  <2>2. call' \in [Isolate!Calls -> [at : {"none", "waits", "back"}, ran : SUBSET Isolate!Parts,
                                     newer : SUBSET Isolate!Parts]]
    BY <1>2 DEF Isolate!shutdown, Isolate!ProcessHandler, JsKept, Isolate!JsLifeTypeOK
  <2>3. js_context' \in 0..MaxJsInits
    BY <1>0, IsolateAssumed DEF Isolate!WorkerIsolateAssumption, JsKept, Isolate!JsLifeTypeOK
  <2> QED
    BY <1>0, <2>1, <2>2, <2>3 DEF JsKept, Isolate!JsLifeTypeOK
<1>4. Started' = Started
  BY <1>0 DEF Started
<1>5. js_context' <= js_inits'
  BY <1>0 DEF JsKept, Isolate!JsLifeTypeOK
<1>6. ASSUME NEW k \in Isolate!Calls
      PROVE  (/\ StartedOnly(call[k].ran)
              /\ call[k].at # "none" => call[k].ran \cap live \subseteq call[k].newer)'
  BY <1>0, <1>1, <1>2, <1>4 DEF JsKept, StartedOnly
<1> QED
  BY <1>0, <1>3, <1>4, <1>5, <1>6 DEF JsKept, StartedOnly

\* The steps of a shutdown in flight, and of no shutdown at all.
LEMMA JsWaits ==
  ASSUME JsKept,
         Isolate!Closed \/ Isolate!GiveUp \/ Isolate!Drained \/ UNCHANGED jsLifeVars
  PROVE  JsKept'
<1>0. /\ UNCHANGED <<js_context, js_degraded, pending, js_inits, live, disposables>>
      /\ closing' \subseteq closing /\ draining' \subseteq closing'
  BY DEF Isolate!Closed, Isolate!GiveUp, Isolate!Drained, jsLifeVars, JsKept, Isolate!JsLifeTypeOK
<1>1. in_flight' \in BOOLEAN
  BY DEF Isolate!Closed, Isolate!GiveUp, Isolate!Drained, jsLifeVars, JsKept, Isolate!JsLifeTypeOK
<1>2. /\ call' \in [Isolate!Calls -> [at : {"none", "waits", "back"}, ran : SUBSET Isolate!Parts,
                                      newer : SUBSET Isolate!Parts]]
      /\ \A k \in Isolate!Calls : /\ call'[k].ran = call[k].ran /\ call'[k].newer = call[k].newer
                                  /\ call'[k].at # "none" => call[k].at # "none"
  BY DEF Isolate!Closed, Isolate!GiveUp, Isolate!Drained, jsLifeVars, JsKept, Isolate!JsLifeTypeOK
<1>3. Isolate!JsLifeTypeOK'
  <2>1. js_degraded' \in BOOLEAN
    BY <1>0 DEF JsKept, Isolate!JsLifeTypeOK
  <2> QED
    BY <1>0, <1>1, <1>2, <2>1 DEF JsKept, Isolate!JsLifeTypeOK
<1>4. Started' = Started
  BY <1>0 DEF Started
<1>5. ASSUME NEW k \in Isolate!Calls
      PROVE  (/\ StartedOnly(call[k].ran)
              /\ call[k].at # "none" => call[k].ran \cap live \subseteq call[k].newer)'
  BY <1>0, <1>2, <1>4 DEF JsKept, StartedOnly
<1> QED
  BY <1>0, <1>3, <1>4, <1>5 DEF JsKept, StartedOnly

\* init() and initAsync(), which may find no engine.
LEMMA JsInits ==
  ASSUME JsKept, Isolate!init \/ Isolate!initAsync \/ Isolate!InitResumes
  PROVE  JsKept'
<1>0. MaxJsInits \in Nat /\ js_inits \in Nat /\ js_inits <= MaxJsInits
  BY IsolateAssumed DEF Isolate!WorkerIsolateAssumption, JsKept, Isolate!JsLifeTypeOK
<1>1. ASSUME UNCHANGED <<js_context, live, closing, disposables, draining, in_flight, call>>,
             js_degraded' \in BOOLEAN, js_inits' \in js_inits..MaxJsInits,
             pending' \subseteq 1..js_inits', Started \subseteq Started'
      PROVE  JsKept'
  <2>1. Isolate!JsLifeTypeOK'
    <3>1. pending' \subseteq Isolate!Inits
      BY <1>0, <1>1 DEF Isolate!Inits
    <3> QED
      BY <1>0, <1>1, <3>1 DEF JsKept, Isolate!JsLifeTypeOK
  <2>2. (StartedOnly(live) /\ \A k \in Isolate!Calls : StartedOnly(call[k].ran))'
    BY <1>1 DEF JsKept, StartedOnly
  <2>3. (js_context <= js_inits)'
    BY <1>0, <1>1 DEF JsKept, Isolate!JsLifeTypeOK
  <2> QED
    BY <1>1, <2>1, <2>2, <2>3 DEF JsKept
<1>2. CASE Isolate!init
  <2> DEFINE i == js_inits + 1
  <2>1. js_inits' = i /\ i \in Isolate!Inits /\ i \notin Started /\ pending' = pending
        /\ i \notin pending /\ i \in 1..js_inits' /\ js_inits' \in 0..MaxJsInits
    BY <1>0, <1>2 DEF Isolate!init, Isolate!Inits, Started, JsKept
  <2>2. CASE Isolate!CompleteInit(js_inits') /\ js_degraded' = FALSE
    <3>1. js_degraded' \in BOOLEAN
      BY <2>2
    <3>2. js_inits' \in Isolate!Inits /\ js_inits' \notin Started /\ js_inits <= js_inits'
          /\ js_inits' \in 1..js_inits' /\ pending' = pending \ {js_inits'}
      BY <1>0, <2>1
    <3> QED
      BY <2>1, <2>2, <3>1, <3>2, JsCompletes
  <2>3. CASE js_degraded' \in BOOLEAN
             /\ UNCHANGED <<js_context, live, closing, disposables, draining, in_flight, call>>
    <3>1. Started \subseteq Started' /\ pending' \subseteq 1..js_inits'
      BY <1>0, <2>1 DEF Started, JsKept
    <3> QED
      BY <1>0, <1>1, <2>1, <2>3, <3>1
  <2> QED
    BY <1>2, <2>2, <2>3 DEF Isolate!init, Isolate!registry
<1>3. CASE Isolate!initAsync
  <2>1. js_inits' = js_inits + 1 /\ js_inits' <= MaxJsInits /\ pending' = pending \cup {js_inits'}
        /\ js_degraded' = FALSE
        /\ UNCHANGED <<js_context, live, closing, disposables, draining, in_flight, call>>
    BY <1>0, <1>3 DEF Isolate!initAsync, Isolate!registry
  <2>2. Started \subseteq Started' /\ pending' \subseteq 1..js_inits'
    BY <1>0, <2>1 DEF Started, JsKept
  <2>3. js_degraded' \in BOOLEAN
    BY <2>1
  <2>4. js_inits' \in js_inits..MaxJsInits
    BY <1>0, <2>1
  <2> QED
    BY <1>1, <2>1, <2>2, <2>3, <2>4
<1>4. CASE Isolate!InitResumes
  <2>1. PICK i \in pending :
           /\ pending' = pending \ {i}
           /\ \/ Isolate!CompleteInit(i) /\ UNCHANGED js_degraded
              \/ /\ js_degraded' \in {js_degraded, TRUE}
                 /\ UNCHANGED <<js_context, live, closing, disposables, draining, in_flight, call>>
    BY <1>4 DEF Isolate!InitResumes, Isolate!registry
  <2>2. js_inits' = js_inits
    BY <1>4 DEF Isolate!InitResumes
  <2>3. js_degraded' \in BOOLEAN
    BY <2>1 DEF Isolate!CompleteInit, JsKept, Isolate!JsLifeTypeOK
  <2>4. i \in Isolate!Inits /\ i \notin Started /\ i \in 1..js_inits' /\ js_inits' \in 0..MaxJsInits
    BY <1>0, <2>1, <2>2 DEF JsKept, Isolate!JsLifeTypeOK, Started
  <2>5. CASE Isolate!CompleteInit(i)
    BY <1>0, <2>1, <2>2, <2>3, <2>4, <2>5, JsCompletes
  <2>6. CASE UNCHANGED <<js_context, live, closing, disposables, draining, in_flight, call>>
    <3>1. Started \subseteq Started' /\ pending' \subseteq 1..js_inits'
      BY <1>0, <2>1, <2>2 DEF Started, JsKept
    <3> QED
      BY <1>0, <1>1, <2>2, <2>3, <2>6, <3>1
  <2> QED
    BY <2>1, <2>5, <2>6
<1> QED
  BY <1>2, <1>3, <1>4

\* The invariant of the JavaScript SDK, from its initial states on.
LEMMA JsStarts == Isolate!JsLifeInit => JsKept
<1> SUFFICES ASSUME Isolate!JsLifeInit PROVE JsKept
  OBVIOUS
<1> USE DEF Isolate!JsLifeInit
<1>1. js_degraded \in BOOLEAN /\ in_flight \in BOOLEAN
  OBVIOUS
<1>2. call \in [Isolate!Calls -> [at : {"none", "waits", "back"}, ran : SUBSET Isolate!Parts,
                                  newer : SUBSET Isolate!Parts]]
  BY DEF Isolate!NoCall
<1>3. \A k \in Isolate!Calls : call[k].at = "none" /\ call[k].ran = {}
  BY DEF Isolate!NoCall
<1> QED
  BY <1>1, <1>2, <1>3, IsolateAssumed
     DEF JsKept, Isolate!JsLifeTypeOK, StartedOnly, Isolate!WorkerIsolateAssumption

\* Every step of the JavaScript SDK keeps its invariant.
LEMMA JsMoves == JsKept /\ Isolate!JsLifeNext => JsKept'
BY JsInits, JsShutsDown, JsWaits DEF Isolate!JsLifeNext

-------------------------------------------------------------------------------
(* An isolate.  There are no more attempts than init() calls.                  *)

Attempt == [at : {"init", "wrap", "init_again", "wrap_again", "ready", "failed"},
            env : Envs, init : Isolate!Inits, serves : 0..MaxJsInits]

\* A request awaits an attempt there is.
Awaits ==
    \A r \in WorkerRequests :
        request[r].at # "none" => request[r].awaits \in 1..Len(attempts)

IsolateKept ==
    /\ plane \in BOOLEAN
    /\ attempts \in Seq(Attempt) /\ Len(attempts) <= js_inits
    /\ cached \in 0..Len(attempts) /\ last_env \in Envs \cup {"none"}
    /\ cached # 0 => attempts[cached].env = last_env
    /\ request \in [WorkerRequests -> [at : {"none", "awaits", "handles", "done"},
                                       env : Envs \cup {"none"}, awaits : 0..MaxJsInits]]
    /\ started \in [Isolate!Inits -> SUBSET Isolate!Parts]
    /\ Awaits /\ Isolate!IsolateCaches

\* The isolate's invariant, from its initial states on.
LEMMA IsolateStarts == Isolate!IsolateInit => JsKept /\ IsolateKept
<1> SUFFICES ASSUME Isolate!IsolateInit PROVE JsKept /\ IsolateKept
  OBVIOUS
<1> USE DEF Isolate!IsolateInit
<1>1. JsKept
  BY JsStarts
<1>2. js_inits = 0 /\ MaxJsInits \in Nat
  BY IsolateAssumed DEF Isolate!JsLifeInit, Isolate!WorkerIsolateAssumption
<1>3. attempts \in Seq(Attempt) /\ Len(attempts) = 0
  BY EmptySeq
<1>4. request \in [WorkerRequests -> [at : {"none", "awaits", "handles", "done"},
                                      env : Envs \cup {"none"}, awaits : 0..MaxJsInits]]
  BY <1>2 DEF Isolate!Idle
<1>5. \A r \in WorkerRequests : request[r].at = "none"
  BY DEF Isolate!Idle
<1>6. plane \in BOOLEAN
  OBVIOUS
<1> QED
  BY <1>1, <1>2, <1>3, <1>4, <1>5, <1>6 DEF IsolateKept, Awaits, Isolate!IsolateCaches

\* The isolate's invariant has its types in it.
LEMMA IsolateTyped == JsKept /\ IsolateKept => Isolate!IsolateTypeOK
<1> SUFFICES ASSUME JsKept, IsolateKept PROVE Isolate!IsolateTypeOK
  OBVIOUS
<1>1. \A n \in DOMAIN attempts : attempts[n] \in Attempt
  BY DEF IsolateKept
<1> QED
  BY <1>1 DEF IsolateKept, Isolate!IsolateTypeOK, Attempt

\* An attempt goes on: it ends badly, and is no longer cached, or does not.
LEMMA AttemptGoes ==
  ASSUME IsolateKept, NEW n \in DOMAIN attempts, NEW new \in Attempt,
         attempts' = [attempts EXCEPT ![n] = new],
         new.env = attempts[n].env, attempts[n].at # "failed",
         IF new.at = "failed" THEN Isolate!Forget(n) ELSE UNCHANGED <<cached, last_env>>,
         js_inits <= js_inits', js_inits \in Nat, js_inits' \in Nat,
         UNCHANGED <<plane, request>>,
         started' \in [Isolate!Inits -> SUBSET Isolate!Parts]
  PROVE  IsolateKept'
<1>1. /\ attempts \in Seq(Attempt) /\ n \in 1..Len(attempts) /\ Len(attempts) \in Nat
  BY DEF IsolateKept
<1>2. /\ attempts' \in Seq(Attempt) /\ Len(attempts') = Len(attempts)
      /\ \A m \in 1..Len(attempts) : attempts'[m] = IF m = n THEN new ELSE attempts[m]
  BY <1>1, ExceptSeq
<1>3. Len(attempts') <= js_inits'
  BY <1>1, <1>2 DEF IsolateKept
<1>4. \A m \in 1..Len(attempts) : attempts'[m].env = attempts[m].env
  BY <1>2
<1>5. attempts' # <<>> /\ attempts # <<>>
  BY <1>1, <1>2
<1>6. attempts[Len(attempts)] \in Attempt /\ Len(attempts) # 0 /\ Len(attempts) \in 1..Len(attempts)
  BY <1>1
<1>7. cached = IF attempts[Len(attempts)].at = "failed" THEN 0 ELSE Len(attempts)
  BY <1>5 DEF IsolateKept, Isolate!IsolateCaches
<1>8. /\ cached' = IF attempts'[Len(attempts)].at = "failed" THEN 0 ELSE Len(attempts)
      /\ cached' \in {0, cached}
      /\ cached' # 0 => last_env' = last_env
      /\ last_env' \in {last_env, "none"}
  BY <1>1, <1>2, <1>6, <1>7 DEF Isolate!Forget
<1>9. Isolate!IsolateCaches'
  <2>1. \A r \in WorkerRequests : request'[r].at # "none" => attempts'[request'[r].awaits].env = request'[r].env
    BY <1>4 DEF IsolateKept, Isolate!IsolateCaches, Isolate!Awaited, Awaits
  <2> QED
    BY <1>2, <1>5, <1>8, <2>1 DEF Isolate!IsolateCaches, Isolate!Awaited
<1>10. Awaits'
  BY <1>2 DEF Awaits, IsolateKept
<1>11. (cached \in 0..Len(attempts) /\ last_env \in Envs \cup {"none"}
        /\ (cached # 0 => attempts[cached].env = last_env))'
  <2>1. cached \in 0..Len(attempts) /\ last_env \in Envs \cup {"none"}
        /\ (cached # 0 => attempts[cached].env = last_env)
    BY DEF IsolateKept
  <2>2. cached' \in 0..Len(attempts')
    BY <1>1, <1>2, <1>8, <2>1
  <2>3. cached' # 0 => cached \in 1..Len(attempts) /\ cached' = cached /\ last_env' = last_env
    BY <1>1, <1>8, <2>1
  <2> QED
    BY <1>4, <1>8, <2>1, <2>2, <2>3
<1>12. (plane \in BOOLEAN)'
  BY DEF IsolateKept
<1> QED
  BY <1>2, <1>3, <1>9, <1>10, <1>11, <1>12 DEF IsolateKept

\* The steps of an attempt.
LEMMA AttemptMoves ==
  ASSUME JsKept, IsolateKept, NEW n \in DOMAIN attempts,
         \/ Isolate!Initialised(n) \/ Isolate!WrapContext(n)
         \/ Isolate!WrapInitialises(n) \/ Isolate!WrapLocal(n)
  PROVE  JsKept' /\ IsolateKept'
<1>0. /\ MaxJsInits \in Nat /\ js_inits \in 0..MaxJsInits /\ js_inits \in Nat
      /\ attempts[n] \in Attempt /\ attempts \in Seq(Attempt)
      /\ js_context \in 0..MaxJsInits
  BY IsolateAssumed DEF Isolate!WorkerIsolateAssumption, JsKept, Isolate!JsLifeTypeOK, IsolateKept
<1>1. JsKept' /\ js_inits' \in Nat /\ js_inits <= js_inits'
  <2>1. JsKept'
    <3>1. Isolate!InitResumes \/ Isolate!initAsync \/ UNCHANGED jsLifeVars
      BY DEF Isolate!Initialised, Isolate!WrapContext, Isolate!WrapInitialises, Isolate!WrapLocal,
             Isolate!js, Isolate!registry, jsLifeVars
    <3> QED
      BY <3>1, JsInits, JsWaits
  <2>2. js_inits' \in {js_inits, js_inits + 1}
    BY DEF Isolate!Initialised, Isolate!WrapContext, Isolate!WrapInitialises, Isolate!WrapLocal,
           Isolate!js, Isolate!InitResumes, Isolate!initAsync
  <2> QED
    BY <1>0, <2>1, <2>2
<1>2. UNCHANGED <<plane, request>> /\ attempts[n].at # "failed"
  BY DEF Isolate!Initialised, Isolate!WrapContext, Isolate!WrapInitialises, Isolate!WrapLocal
<1>3. started' \in [Isolate!Inits -> SUBSET Isolate!Parts]
  <2>1. live' \subseteq Isolate!Parts
    BY <1>1 DEF JsKept, Isolate!JsLifeTypeOK
  <2>2. started \in [Isolate!Inits -> SUBSET Isolate!Parts]
    BY DEF IsolateKept
  <2> QED
    BY <2>1, <2>2 DEF Isolate!Initialised, Isolate!WrapContext, Isolate!WrapInitialises, Isolate!WrapLocal
<1>4. ASSUME NEW new \in Attempt, attempts' = [attempts EXCEPT ![n] = new],
             new.env = attempts[n].env,
             IF new.at = "failed" THEN Isolate!Forget(n) ELSE UNCHANGED <<cached, last_env>>
      PROVE  IsolateKept'
  BY <1>0, <1>1, <1>2, <1>3, <1>4, AttemptGoes
<1>5. ASSUME NEW place \in {"wrap", "wrap_again"}, Isolate!Goes(n, place)
      PROVE  IsolateKept'
  <2> DEFINE new == [attempts[n] EXCEPT !.at = place]
  <2>1. new \in Attempt /\ new.env = attempts[n].env /\ new.at = place
    BY <1>0 DEF Attempt
  <2>2. attempts' = [attempts EXCEPT ![n] = new] /\ UNCHANGED <<cached, last_env>>
    BY <1>0, <1>5 DEF Isolate!Goes
  <2> HIDE DEF new
  <2> QED
    BY <2>1, <2>2, <1>4
<1>6. ASSUME Isolate!Fails(n) PROVE IsolateKept'
  <2> DEFINE new == [attempts[n] EXCEPT !.at = "failed"]
  <2>1. new \in Attempt /\ new.env = attempts[n].env /\ new.at = "failed"
    BY <1>0 DEF Attempt
  <2>2. attempts' = [attempts EXCEPT ![n] = new] /\ Isolate!Forget(n)
    BY <1>0, <1>6 DEF Isolate!Fails
  <2> HIDE DEF new
  <2> QED
    BY <2>1, <2>2, <1>4
<1>7. ASSUME NEW i \in 0..MaxJsInits, Isolate!Serves(n, i) PROVE IsolateKept'
  <2> DEFINE new == [attempts[n] EXCEPT !.at = "ready", !.serves = i]
  <2>1. new \in Attempt /\ new.env = attempts[n].env /\ new.at = "ready"
    BY <1>0 DEF Attempt
  <2>2. attempts' = [attempts EXCEPT ![n] = new] /\ UNCHANGED <<cached, last_env>>
    BY <1>0, <1>7 DEF Isolate!Serves
  <2> HIDE DEF new
  <2> QED
    BY <2>1, <2>2, <1>4
<1>8. CASE Isolate!Initialised(n)
  <2>1. Isolate!Goes(n, "wrap") \/ Isolate!Goes(n, "wrap_again") \/ Isolate!Fails(n)
    BY <1>8 DEF Isolate!Initialised
  <2> QED
    BY <1>1, <1>5, <1>6, <2>1
<1>9. CASE Isolate!WrapContext(n)
  BY <1>0, <1>1, <1>7, <1>9 DEF Isolate!WrapContext
<1>10. CASE Isolate!WrapInitialises(n)
  <2> DEFINE new == [attempts[n] EXCEPT !.at = "init_again", !.init = js_inits']
  <2>1. js_inits' \in Isolate!Inits
    BY <1>0, <1>10 DEF Isolate!WrapInitialises, Isolate!initAsync, Isolate!Inits
  <2>2. new \in Attempt /\ new.env = attempts[n].env /\ new.at = "init_again"
    BY <1>0, <2>1 DEF Attempt
  <2>3. attempts' = [attempts EXCEPT ![n] = new] /\ UNCHANGED <<cached, last_env>>
    BY <1>0, <1>10 DEF Isolate!WrapInitialises
  <2> HIDE DEF new
  <2> QED
    BY <1>1, <2>2, <2>3, <1>4
<1>11. CASE Isolate!WrapLocal(n)
  <2>1. 0 \in 0..MaxJsInits
    BY <1>0
  <2> QED
    BY <1>1, <1>6, <1>7, <1>11, <2>1 DEF Isolate!WrapLocal
<1> QED
  BY <1>8, <1>9, <1>10, <1>11

\* The steps of a request.
LEMMA RequestMoves ==
  ASSUME JsKept, IsolateKept, NEW r \in WorkerRequests,
         \/ \E env \in Envs : Isolate!ArriveCold(r, env) \/ Isolate!ArriveWarm(r, env)
         \/ Isolate!Handle(r) \/ Isolate!AttemptFailed(r) \/ Isolate!Respond(r)
         \/ Isolate!HandlerThrows(r)
  PROVE  JsKept' /\ IsolateKept'
<1>0. /\ MaxJsInits \in Nat /\ js_inits \in 0..MaxJsInits /\ js_inits \in Nat
      /\ attempts \in Seq(Attempt) /\ Len(attempts) \in Nat /\ Len(attempts) <= js_inits
      /\ cached \in 0..Len(attempts) /\ last_env \in Envs \cup {"none"}
      /\ plane \in BOOLEAN
  BY IsolateAssumed DEF Isolate!WorkerIsolateAssumption, JsKept, Isolate!JsLifeTypeOK, IsolateKept
<1>1. JsKept'
  <2>1. Isolate!initAsync \/ Isolate!shutdown \/ UNCHANGED jsLifeVars
    BY DEF Isolate!ArriveCold, Isolate!ArriveWarm, Isolate!Handle, Isolate!AttemptFailed,
           Isolate!Respond, Isolate!HandlerThrows, Isolate!js, Isolate!registry, jsLifeVars
  <2> QED
    BY <2>1, JsInits, JsShutsDown, JsWaits
<1>2. started' = started /\ plane' = plane
  BY DEF Isolate!ArriveCold, Isolate!ArriveWarm, Isolate!Handle, Isolate!AttemptFailed,
         Isolate!Respond, Isolate!HandlerThrows
<1>3. ASSUME NEW env \in Envs, NEW n \in 1..Len(attempts), Isolate!Arrives(r, env, n),
             attempts[n].env = env, UNCHANGED <<cached, last_env, attempts, js_inits>>
      PROVE  IsolateKept'
  <2>1. n \in 0..MaxJsInits
    BY <1>0
  <2>2. request'[r] = [at |-> "awaits", env |-> env, awaits |-> n]
        /\ \A q \in WorkerRequests : q # r => request'[q] = request[q]
    BY <1>3 DEF Isolate!Arrives, IsolateKept
  <2>3. request' \in [WorkerRequests -> [at : {"none", "awaits", "handles", "done"},
                                         env : Envs \cup {"none"}, awaits : 0..MaxJsInits]]
    BY <1>3, <2>1 DEF Isolate!Arrives, IsolateKept
  <2>4. /\ request'[r].at = "awaits" /\ request'[r].env = env /\ request'[r].awaits = n
        /\ UNCHANGED <<attempts, cached>>
    BY <1>3, <2>2
  <2>5. Awaits'
    BY <2>2, <2>4 DEF Awaits, IsolateKept
  <2>6. Isolate!IsolateCaches'
    BY <1>3, <2>2, <2>4 DEF IsolateKept, Isolate!IsolateCaches, Isolate!Awaited
  <2> QED
    BY <1>0, <1>2, <1>3, <2>3, <2>5, <2>6 DEF IsolateKept
<1>4. ASSUME NEW env \in Envs, Isolate!ArriveCold(r, env) PROVE IsolateKept'
  <2> DEFINE new == [at |-> "init", env |-> env, init |-> js_inits', serves |-> 0]
             n == Len(attempts) + 1
  <2>1. js_inits' = js_inits + 1 /\ js_inits' \in Isolate!Inits /\ js_inits' \in Nat
    BY <1>0, <1>4 DEF Isolate!ArriveCold, Isolate!initAsync, Isolate!Inits
  <2>2. new \in Attempt
    BY <1>0, <2>1 DEF Attempt
  <2>3. /\ attempts' = Append(attempts, new) /\ cached' = Len(attempts') /\ last_env' = env
        /\ request' = [request EXCEPT ![r] = [at |-> "awaits", env |-> env, awaits |-> cached']]
    BY <1>4 DEF Isolate!ArriveCold, Isolate!Arrives
  <2>4. /\ attempts' \in Seq(Attempt) /\ Len(attempts') = n /\ attempts' # <<>>
        /\ \A m \in 1..Len(attempts) : attempts'[m] = attempts[m]
        /\ attempts'[n] = new
    BY <1>0, <2>2, <2>3, AppendProperties
  <2>5. new.env = env /\ new.at = "init"
    OBVIOUS
  <2> HIDE DEF new
  <2>6. n \in 0..MaxJsInits /\ n \in Nat /\ n <= js_inits' /\ n # 0 /\ \A m \in 1..Len(attempts) : m \in 1..n
    BY <1>0, <2>1 DEF Isolate!Inits
  <2>7. n \in 1..n /\ n \in 0..n
    BY <2>6
  <2> HIDE DEF n
  <2>8. cached' = n
    BY <2>3, <2>4
  <2>9. request'[r] = [at |-> "awaits", env |-> env, awaits |-> n]
        /\ \A q \in WorkerRequests : q # r => request'[q] = request[q]
    BY <2>3, <2>8 DEF IsolateKept
  <2>10. request' \in [WorkerRequests -> [at : {"none", "awaits", "handles", "done"},
                                          env : Envs \cup {"none"}, awaits : 0..MaxJsInits]]
    BY <2>3, <2>6, <2>8 DEF IsolateKept
  <2>11. Awaits'
    BY <2>4, <2>6, <2>7, <2>9 DEF Awaits, IsolateKept
  <2>12. Isolate!IsolateCaches'
    <3>1. \A q \in WorkerRequests : request'[q].at # "none" => attempts'[request'[q].awaits].env = request'[q].env
      <4>1. request'[r].env = env /\ request'[r].awaits = n
        BY <2>9
      <4>2. attempts'[request'[r].awaits].env = request'[r].env
        BY <4>1, <2>4, <2>5
      <4>3. ASSUME NEW q \in WorkerRequests, q # r, request'[q].at # "none"
            PROVE  attempts'[request'[q].awaits].env = request'[q].env
        <5>1. request'[q] = request[q] /\ request[q].awaits \in 1..Len(attempts)
          BY <2>9, <4>3 DEF Awaits, IsolateKept
        <5>2. attempts[request[q].awaits].env = request[q].env
          BY <4>3, <5>1 DEF IsolateKept, Isolate!IsolateCaches, Isolate!Awaited
        <5> QED
          BY <2>4, <5>1, <5>2
      <4> QED
        BY <4>2, <4>3
    <3> QED
      BY <2>4, <2>5, <2>8, <3>1 DEF Isolate!IsolateCaches, Isolate!Awaited
  <2>13. (cached # 0 => attempts[cached].env = last_env)' /\ (cached \in 0..Len(attempts))'
         /\ (last_env \in Envs \cup {"none"})'
    BY <2>3, <2>4, <2>5, <2>7, <2>8
  <2>14. (started \in [Isolate!Inits -> SUBSET Isolate!Parts])' /\ (Len(attempts) <= js_inits)'
    BY <1>2, <2>4, <2>6 DEF IsolateKept
  <2>15. (plane \in BOOLEAN)'
    BY <1>0, <1>2
  <2> QED
    BY <2>4, <2>10, <2>11, <2>12, <2>13, <2>14, <2>15 DEF IsolateKept
<1>5. ASSUME NEW env \in Envs, Isolate!ArriveWarm(r, env) PROVE IsolateKept'
  <2>1. cached # 0 /\ env = last_env /\ cached \in 1..Len(attempts) /\ attempts[cached].env = env
    BY <1>0, <1>5 DEF Isolate!ArriveWarm, Isolate!Stale, IsolateKept
  <2>2. UNCHANGED <<cached, last_env, attempts, js_inits>>
    BY <1>5 DEF Isolate!ArriveWarm, Isolate!js
  <2>3. Isolate!Arrives(r, env, cached)
    BY <1>5 DEF Isolate!ArriveWarm
  <2> QED
    BY <1>3, <2>1, <2>2, <2>3
<1>6. ASSUME NEW place \in {"handles", "done"}, Isolate!To(r, place), request[r].at # "none",
             UNCHANGED <<cached, last_env, attempts, js_inits>>
      PROVE  IsolateKept'
  <2>1. /\ request'[r] = [request[r] EXCEPT !.at = place]
        /\ \A q \in WorkerRequests : q # r => request'[q] = request[q]
    BY <1>6 DEF Isolate!To, IsolateKept
  <2>2. request' \in [WorkerRequests -> [at : {"none", "awaits", "handles", "done"},
                                         env : Envs \cup {"none"}, awaits : 0..MaxJsInits]]
    BY <1>6 DEF Isolate!To, IsolateKept
  <2>3. \A q \in WorkerRequests : /\ request'[q].env = request[q].env
                                  /\ request'[q].awaits = request[q].awaits
                                  /\ request'[q].at # "none" => request[q].at # "none"
    BY <1>6, <2>1 DEF IsolateKept
  <2>4. Awaits' /\ Isolate!IsolateCaches'
    BY <1>6, <2>3 DEF Awaits, IsolateKept, Isolate!IsolateCaches, Isolate!Awaited
  <2> QED
    BY <1>0, <1>2, <1>6, <2>2, <2>4 DEF IsolateKept
<1>7. CASE Isolate!Handle(r) \/ Isolate!AttemptFailed(r) \/ Isolate!Respond(r)
           \/ Isolate!HandlerThrows(r)
  <2>1. Isolate!To(r, "handles") \/ Isolate!To(r, "done")
    BY <1>7 DEF Isolate!Handle, Isolate!AttemptFailed, Isolate!Respond, Isolate!HandlerThrows
  <2>2. UNCHANGED <<cached, last_env, attempts, js_inits>> /\ request[r].at # "none"
    BY <1>7 DEF Isolate!Handle, Isolate!AttemptFailed, Isolate!Respond, Isolate!HandlerThrows,
                Isolate!js, Isolate!shutdown
  <2> QED
    <3>1. CASE Isolate!To(r, "handles")
      BY <1>1, <1>6, <2>2, <3>1
    <3>2. CASE Isolate!To(r, "done")
      BY <1>1, <1>6, <2>2, <3>2
    <3> QED
      BY <2>1, <3>1, <3>2
<1> QED
  BY <1>1, <1>4, <1>5, <1>7

\* The isolate's invariant, across its own steps and those of the JavaScript SDK alone.
LEMMA IsolateMoves == JsKept /\ IsolateKept /\ Isolate!IsolateNext => JsKept' /\ IsolateKept'
<1> SUFFICES ASSUME JsKept, IsolateKept, Isolate!IsolateNext PROVE JsKept' /\ IsolateKept'
  OBVIOUS
<1>1. CASE Isolate!Shutdowns
  <2>1. JsKept'
    BY <1>1, JsWaits DEF Isolate!Shutdowns
  <2>2. UNCHANGED <<isolateVars, js_inits>>
    BY <1>1 DEF Isolate!Shutdowns, isolateVars, Isolate!Closed, Isolate!GiveUp, Isolate!Drained
  <2> QED
    BY <2>1, <2>2 DEF IsolateKept, isolateVars, Awaits, Isolate!IsolateCaches, Isolate!Awaited
<1> QED
  BY <1>1, RequestMoves, AttemptMoves DEF Isolate!IsolateNext

\* The SDK moves without its isolate.
LEMMA IsolateRests == JsKept /\ IsolateKept /\ UNCHANGED isolateVars /\ js_inits <= js_inits'
                        /\ js_inits \in Nat /\ js_inits' \in Nat => IsolateKept'
<1> SUFFICES ASSUME IsolateKept, UNCHANGED isolateVars, js_inits <= js_inits',
                    js_inits \in Nat, js_inits' \in Nat
             PROVE  IsolateKept'
  OBVIOUS
<1>1. Len(attempts) \in Nat /\ Len(attempts) <= js_inits
  BY DEF IsolateKept
<1> QED
  BY <1>1 DEF IsolateKept, isolateVars, Awaits, Isolate!IsolateCaches, Isolate!Awaited

-------------------------------------------------------------------------------
(* The patching of a library in Python.  Two instrumentors may be made at once, *)
(* one by each thread that looks before the first is made; where there is one,  *)
(* its lock serialises the exchange of the constructor.                         *)

Places == {"outside", "look_up", "make", "read", "enter", "patch", "done"}
Instrumentors == Patching!Instrumentors
Seekers == {u \in AppThreads : at[u] \in {"look_up", "make"}}

PatchTypes ==
    /\ Patching!InstrTypeOK
    /\ at \in [AppThreads -> Places]
    /\ wants \in [AppThreads -> {"instrument", "uninstrument"}]
    /\ seen \in [AppThreads -> Seq(Instrumentors)]
    /\ original \in [Instrumentors -> Seq(Instrumentors)]

\* Every call makes an instrumentor at most, and one that is not made yet is untouched.
Makes ==
    /\ singleton = made
    /\ IsFiniteSet(Seekers) /\ made + Cardinality(Seekers) <= calls
    /\ \A u \in AppThreads : /\ at[u] = "read" => made # 0
                             /\ at[u] \in {"enter", "patch", "done"} => using[u] \in 1..made
    /\ made = 0 => constructor = <<>>
    /\ \A i \in Instrumentors : i > made => holder[i] = Nobody /\ ~instrumented[i] /\ original[i] = <<>>

\* The only instrumentor there is patches the library's own constructor.
Alone ==
    made = 1 =>
        /\ \A u \in AppThreads : at[u] \in {"patch", "done"} <=> holder[1] = u
        /\ original[1] = <<>>
        /\ holder[1] = Nobody => constructor = IF instrumented[1] THEN <<1>> ELSE <<>>
        /\ \A u \in AppThreads : at[u] = "patch" =>
              wants[u] = "instrument" /\ ~instrumented[1] /\ constructor = <<>> /\ seen[u] = <<>>
        /\ \A u \in AppThreads : at[u] = "done" =>
              IF wants[u] = "instrument" THEN ~instrumented[1] /\ constructor = <<1>>
              ELSE instrumented[1] /\ constructor = <<>>

PatchInv == PatchTypes /\ Makes /\ Alone

\* Nothing is made or patched at first.
LEMMA PatchStarts == Patching!InstrInit => PatchInv
<1> SUFFICES ASSUME Patching!InstrInit PROVE PatchInv
  OBVIOUS
<1> USE DEF Patching!InstrInit, Instrumentors
<1>0. MaxPatchCalls \in Nat
  BY PatchingAssumed DEF Patching!InstrumentationAssumption
<1>1. instrumented \in [Instrumentors -> BOOLEAN]
  OBVIOUS
<1>2. at \in [AppThreads -> Places] /\ wants \in [AppThreads -> {"instrument", "uninstrument"}]
      /\ using \in [AppThreads -> 0..MaxPatchCalls] /\ holder \in [Instrumentors -> AppThreads \cup {Nobody}]
  BY <1>0 DEF Places
<1>3. /\ constructor \in Seq(Instrumentors)
      /\ seen \in [AppThreads -> Seq(Instrumentors)] /\ original \in [Instrumentors -> Seq(Instrumentors)]
  BY EmptySeq
<1>4. PatchTypes
  BY <1>0, <1>1, <1>2, <1>3 DEF PatchTypes, Patching!InstrTypeOK
<1>5. IsFiniteSet(Seekers) /\ Cardinality(Seekers) = 0
  <2>1. Seekers = {}
    BY DEF Seekers
  <2> QED
    BY <2>1, FS_EmptySet
<1>6. Makes /\ Alone
  BY <1>5 DEF Makes, Alone
<1> QED
  BY <1>4, <1>6 DEF PatchInv

\* What the types come to where a thread stands.
LEMMA PatchPlaces ==
  ASSUME PatchInv, NEW v \in AppThreads
  PROVE  /\ MaxPatchCalls \in Nat /\ made \in 0..MaxPatchCalls /\ calls \in 0..MaxPatchCalls
         /\ Nobody \notin AppThreads
         /\ Instrumentors = 1..MaxPatchCalls
         /\ Cardinality(Seekers) \in Nat
         /\ at[v] \in {"look_up", "make"} => made < MaxPatchCalls
         /\ at[v] \in {"enter", "patch", "done"} => using[v] \in Instrumentors /\ made # 0
                                                    /\ (made = 1 => using[v] = 1)
<1>1. /\ MaxPatchCalls \in Nat /\ made \in 0..MaxPatchCalls /\ calls \in 0..MaxPatchCalls
      /\ Nobody \notin AppThreads /\ Instrumentors = 1..MaxPatchCalls
  BY PatchingAssumed DEF Patching!InstrumentationAssumption, PatchInv, PatchTypes,
     Patching!InstrTypeOK, Instrumentors, Patching!Instrumentors
<1>2. Cardinality(Seekers) \in Nat
  BY FS_CardinalityType DEF PatchInv, Makes
<1>3. at[v] \in {"look_up", "make"} => Cardinality(Seekers) # 0
  BY FS_EmptySet DEF PatchInv, Makes, Seekers
<1>4. at[v] \in {"look_up", "make"} => made < MaxPatchCalls
  BY <1>1, <1>2, <1>3 DEF PatchInv, Makes
<1>5. at[v] \in {"enter", "patch", "done"} => using[v] \in 1..made
  BY DEF PatchInv, Makes
<1>6. using[v] \in 1..made => using[v] \in Instrumentors /\ made # 0 /\ (made = 1 => using[v] = 1)
  BY <1>1
<1> QED
  BY <1>1, <1>2, <1>4, <1>5, <1>6

\* The set of the threads that may yet make an instrumentor, across a step of one.
LEMMA SeekersMove ==
  ASSUME PatchInv, NEW v \in AppThreads, NEW to \in Places, at' = [at EXCEPT ![v] = to]
  PROVE  /\ IsFiniteSet(Seekers') /\ Cardinality(Seekers') \in Nat
         /\ Cardinality(Seekers') <= Cardinality(Seekers) + 1
         /\ v \in Seekers => Cardinality(Seekers') <= Cardinality(Seekers)
         /\ to \notin {"look_up", "make"} => Cardinality(Seekers') <= Cardinality(Seekers)
         /\ v \in Seekers /\ to \notin {"look_up", "make"} => Cardinality(Seekers') = Cardinality(Seekers) - 1
<1>1. IsFiniteSet(Seekers) /\ Cardinality(Seekers) \in Nat
  BY PatchPlaces DEF PatchInv, Makes
<1>2. at'[v] = to /\ \A u \in AppThreads : u # v => at'[u] = at[u]
  BY DEF PatchInv, PatchTypes
<1>3. CASE to \in {"look_up", "make"}
  <2>1. Seekers' = Seekers \cup {v}
    BY <1>2, <1>3 DEF Seekers
  <2>2. v \in Seekers => Seekers' = Seekers
    BY <2>1
  <2> QED
    BY <1>1, <1>3, <2>1, <2>2, FS_AddElement
<1>4. CASE to \notin {"look_up", "make"}
  <2>1. Seekers' = Seekers \ {v}
    BY <1>2, <1>4 DEF Seekers
  <2>2. /\ IsFiniteSet(Seekers')
        /\ Cardinality(Seekers') = IF v \in Seekers THEN Cardinality(Seekers) - 1 ELSE Cardinality(Seekers)
    BY <1>1, <2>1, FS_RemoveElement
  <2>3. Cardinality(Seekers') \in Nat
    BY <2>2, FS_CardinalityType
  <2> QED
    BY <1>1, <1>4, <2>2, <2>3
<1> QED
  BY <1>3, <1>4

\* The steps of a call up to the instrumentor's lock.
LEMMA PatchSeeks ==
  ASSUME PatchInv, NEW v \in AppThreads,
         Patching!Call(v) \/ Patching!FindsNone(v) \/ Patching!Make(v) \/ Patching!Found(v)
  PROVE  PatchInv'
<1> USE DEF Patching!Call, Patching!FindsNone, Patching!Make, Patching!Found, Patching!Step
<1>0. /\ MaxPatchCalls \in Nat /\ made \in 0..MaxPatchCalls /\ calls \in 0..MaxPatchCalls
      /\ Instrumentors = 1..MaxPatchCalls /\ Cardinality(Seekers) \in Nat
      /\ at[v] \in {"look_up", "make"} => made < MaxPatchCalls
  BY PatchPlaces
<1>1. /\ at[v] \in {"outside", "look_up", "make", "read"}
      /\ at' = [at EXCEPT ![v] = at'[v]] /\ at'[v] \in {"look_up", "make", "read", "enter"}
      /\ \A u \in AppThreads : u # v => at'[u] = at[u] /\ using'[u] = using[u] /\ wants'[u] = wants[u]
      /\ UNCHANGED <<holder, instrumented, original, constructor, seen>>
  BY DEF PatchInv, PatchTypes, Patching!InstrTypeOK
<1>2. /\ singleton = made /\ singleton' = made' /\ made' \in {made, made + 1}
      /\ calls' \in 0..MaxPatchCalls /\ made' \in 0..MaxPatchCalls
      /\ at'[v] = "enter" => using'[v] = made /\ made # 0 /\ made' = made
      /\ at'[v] = "read" => made' # 0
  <2>1. singleton = made
    BY DEF PatchInv, Makes
  <2>2. at[v] = "read" => made # 0
    BY DEF PatchInv, Makes
  <2>3. /\ at'[v] = "enter" => using'[v] = singleton /\ made' = made /\ (singleton # 0 \/ at[v] = "read")
        /\ at'[v] = "read" => made' = made + 1
        /\ (made' = made /\ singleton' = singleton) \/ (made' = made + 1 /\ singleton' = made' /\ at[v] = "make")
        /\ calls' = calls \/ (calls' = calls + 1 /\ calls < MaxPatchCalls)
    BY <1>1 DEF PatchInv, PatchTypes, Patching!InstrTypeOK
  <2> HIDE DEF Patching!Call, Patching!FindsNone, Patching!Make, Patching!Found, Patching!Step
  <2> QED
    BY <1>0, <2>1, <2>2, <2>3
<1>3. PatchTypes'
  <2>1. instrumented' \in [Instrumentors -> BOOLEAN]
    BY <1>1 DEF PatchInv, PatchTypes, Patching!InstrTypeOK, Instrumentors
  <2>2. at' \in [AppThreads -> Places]
    BY <1>1 DEF PatchInv, PatchTypes, Places
  <2>3. wants' \in [AppThreads -> {"instrument", "uninstrument"}]
    BY DEF PatchInv, PatchTypes
  <2>4. using' \in [AppThreads -> 0..MaxPatchCalls]
    BY <1>0, <1>2 DEF PatchInv, PatchTypes, Patching!InstrTypeOK
  <2> QED
    BY <1>1, <1>2, <2>1, <2>2, <2>3, <2>4
       DEF PatchInv, PatchTypes, Patching!InstrTypeOK, Instrumentors
<1>4. IsFiniteSet(Seekers') /\ made' + Cardinality(Seekers') <= calls'
  <2>0. made + Cardinality(Seekers) <= calls
    BY DEF PatchInv, Makes
  <2>1. at'[v] \in Places
    BY <1>1 DEF Places
  <2> DEFINE to == at'[v]
  <2>2. /\ IsFiniteSet(Seekers') /\ Cardinality(Seekers') \in Nat
        /\ Cardinality(Seekers') <= Cardinality(Seekers) + 1
        /\ v \in Seekers => Cardinality(Seekers') <= Cardinality(Seekers)
        /\ to \notin {"look_up", "make"} => Cardinality(Seekers') <= Cardinality(Seekers)
        /\ v \in Seekers /\ to \notin {"look_up", "make"} => Cardinality(Seekers') = Cardinality(Seekers) - 1
    <3>1. to \in Places /\ at' = [at EXCEPT ![v] = to]
      BY <1>1, <2>1
    <3> HIDE DEF to
    <3> QED
      BY <3>1, SeekersMove
  <2>3. \/ calls' = calls + 1 /\ made' = made
        \/ calls' = calls /\ made' = made /\ v \in Seekers
        \/ calls' = calls /\ made' = made /\ to \notin {"look_up", "make"}
        \/ calls' = calls /\ made' = made + 1 /\ v \in Seekers /\ to \notin {"look_up", "make"}
    BY <1>1 DEF Seekers, PatchInv, PatchTypes
  <2> QED
    BY <1>0, <2>0, <2>2, <2>3
<1>5. Makes'
  <2>1. \A u \in AppThreads : /\ at'[u] = "read" => made' # 0
                              /\ at'[u] \in {"enter", "patch", "done"} => using'[u] \in 1..made'
    <3> SUFFICES ASSUME NEW u \in AppThreads
                 PROVE  /\ at'[u] = "read" => made' # 0
                        /\ at'[u] \in {"enter", "patch", "done"} => using'[u] \in 1..made'
      OBVIOUS
    <3>1. CASE u = v
      BY <1>0, <1>1, <1>2, <3>1
    <3>2. CASE u # v
      BY <1>0, <1>1, <1>2, <3>2 DEF PatchInv, Makes
    <3> QED
      BY <3>1, <3>2
  <2>2. made' = 0 => constructor' = <<>>
    BY <1>0, <1>1, <1>2 DEF PatchInv, Makes
  <2>3. \A i \in Instrumentors : i > made' => holder'[i] = Nobody /\ ~instrumented'[i] /\ original'[i] = <<>>
    <3>1. \A i \in Instrumentors : i > made' => i > made
      BY <1>0, <1>2
    <3> QED
      BY <1>1, <3>1 DEF PatchInv, Makes
  <2> QED
    BY <1>2, <1>4, <2>1, <2>2, <2>3 DEF Makes, Instrumentors
<1>6. Alone'
  <2> SUFFICES ASSUME made' = 1 PROVE Alone'
    BY DEF Alone
  <2>1. \A u \in AppThreads : at'[u] \in {"patch", "done"} =>
            u # v /\ at'[u] = at[u] /\ wants'[u] = wants[u]
    BY <1>1
  <2>2. CASE made = 1
    BY <1>1, <2>1, <2>2 DEF PatchInv, Alone
  <2>3. CASE made = 0
    <3>1. 1 \in Instrumentors /\ 1 > made
      BY <1>0, <1>2, <2>3
    <3>2. holder[1] = Nobody /\ ~instrumented[1] /\ original[1] = <<>> /\ constructor = <<>>
      BY <2>3, <3>1 DEF PatchInv, Makes
    <3>3. \A u \in AppThreads : at[u] \notin {"patch", "done"}
      BY <2>3 DEF PatchInv, Makes
    <3>4. \A u \in AppThreads : at'[u] \notin {"patch", "done"} /\ u # Nobody
      BY <2>1, <3>3, PatchPlaces
    <3> QED
      BY <1>1, <3>2, <3>4 DEF Alone
  <2> QED
    BY <1>0, <1>2, <2>2, <2>3
<1> QED
  BY <1>3, <1>5, <1>6 DEF PatchInv

\* The steps under the instrumentor's lock.
LEMMA PatchExchanges ==
  ASSUME PatchInv, NEW v \in AppThreads,
         \/ Patching!NothingToDo(v) \/ Patching!ReadConstructor(v) \/ Patching!Patch(v)
         \/ Patching!Restore(v) \/ Patching!Done(v)
  PROVE  PatchInv'
<1> USE DEF Patching!NothingToDo, Patching!ReadConstructor, Patching!Patch, Patching!Restore,
            Patching!Done, Patching!Step, Patching!Acquire, Patching!Release
<1>0. /\ MaxPatchCalls \in Nat /\ made \in 0..MaxPatchCalls /\ calls \in 0..MaxPatchCalls
      /\ Instrumentors = 1..MaxPatchCalls /\ Cardinality(Seekers) \in Nat
      /\ Nobody \notin AppThreads /\ v # Nobody
  BY PatchPlaces
<1>1. /\ at[v] \in {"enter", "patch", "done"}
      /\ at' = [at EXCEPT ![v] = at'[v]] /\ at'[v] \in {"outside", "patch", "done"}
      /\ \A u \in AppThreads : u # v =>
            at'[u] = at[u] /\ using'[u] = using[u] /\ wants'[u] = wants[u] /\ seen'[u] = seen[u]
      /\ UNCHANGED <<singleton, made, wants, calls>>
      /\ at'[v] # "outside" => using'[v] = using[v]
  BY DEF PatchInv, PatchTypes, Patching!InstrTypeOK
<1>2. using[v] \in Instrumentors /\ made # 0 /\ (made = 1 => using[v] = 1)
  BY <1>1, PatchPlaces
<1>3. \A i \in Instrumentors : i # using[v] =>
         holder'[i] = holder[i] /\ instrumented'[i] = instrumented[i] /\ original'[i] = original[i]
  BY <1>2 DEF PatchInv, PatchTypes, Patching!InstrTypeOK, Instrumentors
<1>4. PatchTypes'
  <2> USE DEF PatchInv, PatchTypes, Patching!InstrTypeOK, Instrumentors
  <2>1. instrumented' \in [Instrumentors -> BOOLEAN]
    OBVIOUS
  <2>2. at' \in [AppThreads -> Places]
    BY <1>1 DEF Places
  <2>3. using' \in [AppThreads -> 0..MaxPatchCalls]
    BY <1>0
  <2>4. /\ <<>> \in Seq(Instrumentors)
        /\ Append(seen[v], using[v]) \in Seq(Instrumentors)
    BY <1>2, AppendProperties, EmptySeq
  <2>5. constructor' \in Seq(Instrumentors)
    <3>1. constructor' \in {constructor, Append(seen[v], using[v]), original[using[v]]}
      OBVIOUS
    <3>2. constructor \in Seq(Instrumentors) /\ original[using[v]] \in Seq(Instrumentors)
      BY <1>2
    <3> QED
      BY <2>4, <3>1, <3>2
  <2>6. seen' \in [AppThreads -> Seq(Instrumentors)] /\ original' \in [Instrumentors -> Seq(Instrumentors)]
    <3>1. PICK new \in {seen[v], constructor, <<>>} : seen' = [seen EXCEPT ![v] = new]
      OBVIOUS
    <3>2. PICK kept \in {original[using[v]], constructor, <<>>} :
             original' = [original EXCEPT ![using[v]] = kept]
      BY <1>2
    <3>3. constructor \in Seq(Instrumentors) /\ original[using[v]] \in Seq(Instrumentors)
          /\ seen[v] \in Seq(Instrumentors)
      BY <1>2
    <3>4. new \in Seq(Instrumentors) /\ kept \in Seq(Instrumentors)
      BY <2>4, <3>1, <3>2, <3>3
    <3>5. seen \in [AppThreads -> Seq(Instrumentors)] /\ original \in [Instrumentors -> Seq(Instrumentors)]
      OBVIOUS
    <3> QED
      BY <1>2, <3>1, <3>2, <3>4, <3>5
  <2>7. holder' \in [Instrumentors -> AppThreads \cup {Nobody}]
    BY <1>2
  <2> HIDE DEF Patching!NothingToDo, Patching!ReadConstructor, Patching!Patch, Patching!Restore,
               Patching!Done, Patching!Step, Patching!Acquire, Patching!Release
  <2> QED
    BY <1>1, <2>1, <2>2, <2>3, <2>5, <2>6, <2>7
<1>5. Makes'
  <2>1. Seekers' = Seekers
    BY <1>1 DEF Seekers, PatchInv, PatchTypes
  <2>2. \A u \in AppThreads : /\ at'[u] = "read" => made' # 0
                              /\ at'[u] \in {"enter", "patch", "done"} => using'[u] \in 1..made'
    BY <1>1 DEF PatchInv, Makes
  <2>3. \A i \in Instrumentors : i > made => i # using[v]
    <3>1. using[v] \in 1..made
      BY <1>1 DEF PatchInv, Makes
    <3> QED
      BY <1>0, <3>1
  <2>4. \A i \in Instrumentors : i > made' => holder'[i] = Nobody /\ ~instrumented'[i] /\ original'[i] = <<>>
    BY <1>1, <1>3, <2>3 DEF PatchInv, Makes
  <2>5. made' # 0 /\ singleton' = made' /\ IsFiniteSet(Seekers') /\ made' + Cardinality(Seekers') <= calls'
    BY <1>1, <1>2, <2>1 DEF PatchInv, Makes
  <2> QED
    BY <2>2, <2>4, <2>5 DEF Makes
<1>6. Alone'
  <2> SUFFICES ASSUME made' = 1 PROVE Alone'
    BY DEF Alone
  <2>1. made = 1 /\ using[v] = 1 /\ 1 \in Instrumentors
    BY <1>1, <1>2
  <2>2. /\ \A u \in AppThreads : at[u] \in {"patch", "done"} <=> holder[1] = u
        /\ original[1] = <<>>
        /\ holder[1] = Nobody => constructor = IF instrumented[1] THEN <<1>> ELSE <<>>
        /\ \A u \in AppThreads : at[u] = "patch" =>
              wants[u] = "instrument" /\ ~instrumented[1] /\ constructor = <<>> /\ seen[u] = <<>>
        /\ \A u \in AppThreads : at[u] = "done" =>
              IF wants[u] = "instrument" THEN ~instrumented[1] /\ constructor = <<1>>
              ELSE instrumented[1] /\ constructor = <<>>
    BY <2>1 DEF PatchInv, Alone
  <2>3. /\ at' \in [AppThreads -> Places] /\ holder \in [Instrumentors -> AppThreads \cup {Nobody}]
        /\ instrumented \in [Instrumentors -> BOOLEAN] /\ at \in [AppThreads -> Places]
        /\ original \in [Instrumentors -> Seq(Instrumentors)] /\ seen \in [AppThreads -> Seq(Instrumentors)]
        /\ wants[v] \in {"instrument", "uninstrument"}
    BY <1>4 DEF PatchInv, PatchTypes, Patching!InstrTypeOK, Instrumentors
  <2>4. CASE Patching!NothingToDo(v)
    <3>1. at[v] = "enter" /\ at'[v] = "outside" /\ holder[1] = Nobody
          /\ UNCHANGED <<holder, instrumented, original, constructor, seen>>
      BY <2>1, <2>3, <2>4
    <3> QED
      BY <1>0, <1>1, <2>2, <3>1 DEF Alone
  <2>5. CASE Patching!ReadConstructor(v)
    <3>1. at[v] = "enter" /\ at'[v] = "patch" /\ holder[1] = Nobody /\ holder'[1] = v /\ wants[v] = "instrument"
          /\ ~instrumented[1] /\ seen'[v] = constructor /\ original'[1] = constructor
          /\ UNCHANGED <<instrumented, constructor>>
      BY <2>1, <2>3, <2>5
    <3>2. constructor = <<>> /\ \A u \in AppThreads : at[u] \notin {"patch", "done"}
      BY <1>0, <2>2, <3>1
    <3> QED
      BY <1>0, <1>1, <3>1, <3>2 DEF Alone
  <2>6. CASE Patching!Patch(v)
    <3>1. at[v] = "patch" /\ at'[v] = "done" /\ constructor' = Append(seen[v], 1)
          /\ UNCHANGED <<holder, instrumented, original, seen>>
      BY <2>1, <2>3, <2>6
    <3>2. holder[1] = v /\ wants[v] = "instrument" /\ ~instrumented[1] /\ seen[v] = <<>>
      BY <2>2, <3>1
    <3>3. Append(<<>>, 1) = <<1>>
      OBVIOUS
    <3>4. \A u \in AppThreads : u # v => at[u] \notin {"patch", "done"}
      BY <2>2, <3>2
    <3> QED
      BY <1>0, <1>1, <2>2, <3>1, <3>2, <3>3, <3>4 DEF Alone
  <2>7. CASE Patching!Restore(v)
    <3>1. at[v] = "enter" /\ at'[v] = "done" /\ holder[1] = Nobody /\ holder'[1] = v /\ wants[v] = "uninstrument"
          /\ instrumented[1] /\ constructor' = original[1] /\ UNCHANGED <<instrumented, original, seen>>
      BY <2>1, <2>3, <2>7
    <3>2. \A u \in AppThreads : at[u] \notin {"patch", "done"}
      BY <1>0, <2>2, <3>1
    <3> QED
      BY <1>0, <1>1, <2>2, <3>1, <3>2 DEF Alone
  <2>8. CASE Patching!Done(v)
    <3>1. at[v] = "done" /\ at'[v] = "outside" /\ holder'[1] = Nobody
          /\ instrumented'[1] = (wants[v] = "instrument") /\ original'[1] \in {original[1], <<>>}
          /\ UNCHANGED constructor
      BY <2>1, <2>3, <2>8
    <3>2. holder[1] = v /\ constructor = IF wants[v] = "instrument" THEN <<1>> ELSE <<>>
      BY <2>2, <3>1
    <3>3. \A u \in AppThreads : at'[u] \notin {"patch", "done"} /\ u # Nobody
      BY <1>0, <1>1, <2>2, <3>1, <3>2
    <3> QED
      BY <2>2, <3>1, <3>2, <3>3 DEF Alone
  <2> QED
    BY <2>4, <2>5, <2>6, <2>7, <2>8
<1> QED
  BY <1>4, <1>5, <1>6 DEF PatchInv

\* Every step of the patching keeps its invariant.
LEMMA PatchMoves == PatchInv /\ Patching!InstrNext => PatchInv'
BY PatchSeeks, PatchExchanges DEF Patching!InstrNext

\* Nobody instruments: nothing changes.
LEMMA PatchRests == PatchInv /\ UNCHANGED patchVars => PatchInv'
BY DEF patchVars, PatchInv, PatchTypes, Patching!InstrTypeOK, Makes, Alone, Seekers

\* With nobody inside, the library is patched as its instrumentor says.
LEMMA PatchKept == PatchInv => Patching!PatchedAsSaid
<1> SUFFICES ASSUME PatchInv, made <= 1, \A u \in AppThreads : at[u] = "outside"
             PROVE  constructor = IF singleton # 0 /\ instrumented[singleton] THEN <<singleton>> ELSE <<>>
  BY DEF Patching!PatchedAsSaid
<1>1. made = 0 \/ made = 1
  BY DEF PatchInv, PatchTypes, Patching!InstrTypeOK
<1>2. CASE made = 0
  BY <1>2 DEF PatchInv, Makes
<1>3. CASE made = 1
  <2>1. 1 \in Instrumentors /\ holder[1] \in AppThreads \cup {Nobody}
    BY <1>3, PatchingAssumed DEF PatchInv, PatchTypes, Patching!InstrTypeOK, Instrumentors,
       Patching!Instrumentors, Patching!InstrumentationAssumption
  <2>2. holder[1] = Nobody
    BY <1>3, <2>1 DEF PatchInv, Alone
  <2> QED
    BY <1>3, <2>2 DEF PatchInv, Alone, Makes
<1> QED
  BY <1>1, <1>2, <1>3

-------------------------------------------------------------------------------
(* The application.                                                        *)

\* The invariants of both transports.
TransportsInv == HttpxInv /\ FetchInv

\* The application starts with both invariants, where Interception starts.
LEMMA TransportsStart == AllInit => TransportsInv /\ Httpx!Gate!Init /\ Fetch!Gate!Init
  <1>1. AllInit => Httpx!Init /\ Fetch!Init
    BY DEF AllInit, InitWith, PartsInit
  <1>2. Httpx!Init => Httpx!Gate!Init
    BY DEF Httpx!Init, Httpx!Gate!Init
  <1>3. Fetch!Init => Fetch!Gate!Init
    BY DEF Fetch!Init, Fetch!Gate!Init
  <1> QED
    BY <1>1, <1>2, <1>3, HttpxStarts, FetchStarts DEF TransportsInv

\* A step of any part of the application keeps both, and is a step of Interception or
\* none in each transport.
LEMMA TransportsMove ==
  ASSUME TransportsInv, [AllNext]_allVars
  PROVE  /\ TransportsInv'
         /\ [Httpx!Gate!Next]_(Httpx!Gate!vars)
         /\ [Fetch!Gate!Next]_(Fetch!Gate!vars)
  <1>1. Httpx!Next \/ UNCHANGED httpxVars
    BY DEF AllNext, PartsNext, Moves, partsVars, allVars
  <1>2. Fetch!Next \/ UNCHANGED fetchVars
    BY DEF AllNext, PartsNext, Moves, partsVars, allVars
  <1>3. HttpxInv' /\ [Httpx!Gate!Next]_(Httpx!Gate!vars)
    <2>1. CASE UNCHANGED httpxVars
      BY <2>1 DEF TransportsInv, httpxVars, HttpxInv, HttpxPlaced, HttpxHeard, Owed, Httpx!Gate!vars
    <2> QED
      BY <1>1, <2>1, HttpxMoves, HttpxGate DEF TransportsInv
  <1>4. FetchInv' /\ [Fetch!Gate!Next]_(Fetch!Gate!vars)
    <2>1. CASE UNCHANGED fetchVars
      BY <2>1, Zenon DEF TransportsInv, fetchVars, FetchInv, FetchPlaced, FetchTold, BudgetCounts,
                  Captures, Fetch!Gate!vars
    <2> QED
      BY <1>2, <2>1, FetchMoves, FetchGate DEF TransportsInv
  <1> QED
    BY <1>3, <1>4 DEF TransportsInv

\* The control plane hears of every judged request exactly what its module says: one
\* refusal, first, of what was refused; one answer of what was answered; at most one
\* stream and one usage; and the capture budget counts the captures that run.
THEOREM RequestsAlwaysReported == AllSpec => []RequestsReported
  <1>1. TransportsInv => RequestsReported
    BY HttpxReports, FetchReports DEF TransportsInv, RequestsReported
  <1> QED
    BY <1>1, TransportsStart, TransportsMove, PTL DEF AllSpec

\* Both transports refine Interception: no request is let out twice, judged twice or
\* let out against its verdict and the mode.
THEOREM RequestsAlwaysGated == AllSpec => RequestsGated
  <1> QED
    BY TransportsStart, TransportsMove, PTL
       DEF AllSpec, RequestsGated, Httpx!GateHolds, Fetch!GateHolds, Httpx!Gate!Spec, Fetch!Gate!Spec

AppLifeInv == LifeInv /\ JsKept /\ IsolateKept /\ PatchInv

\* A step of any part of the application keeps what init(), shutdown(), the isolate and
\* the patching keep.
LEMMA AppLifeMoves ==
  ASSUME AppLifeInv, [AllNext]_allVars
  PROVE  AppLifeInv'
<1>1. PyLife!LifeNext \/ UNCHANGED pyLifeVars
  BY DEF AllNext, Moves, allVars
<1>2. \/ Isolate!JsLifeNext /\ UNCHANGED isolateVars
      \/ Isolate!IsolateNext
      \/ UNCHANGED <<jsLifeVars, isolateVars>>
  BY DEF AllNext, Moves, allVars
<1>3. Patching!InstrNext \/ UNCHANGED patchVars
  BY DEF AllNext, Moves, allVars
<1>4. LifeInv'
  BY <1>1, LifeMoves, LifeRests DEF AppLifeInv
<1>5. JsKept' /\ IsolateKept'
  <2>1. JsKept /\ IsolateKept
    BY DEF AppLifeInv
  <2>2. CASE Isolate!JsLifeNext /\ UNCHANGED isolateVars
    <3>1. JsKept'
      BY <2>1, <2>2, JsMoves
    <3>2. js_inits' \in {js_inits, js_inits + 1}
      BY <2>2 DEF Isolate!JsLifeNext, Isolate!init, Isolate!initAsync, Isolate!InitResumes, Isolate!shutdown,
         Isolate!ProcessHandler, Isolate!Closed, Isolate!GiveUp, Isolate!Drained
    <3>3. js_inits \in Nat /\ js_inits' \in Nat
      BY <2>1, <3>1, IsolateAssumed DEF JsKept, Isolate!JsLifeTypeOK, Isolate!WorkerIsolateAssumption
    <3> QED
      BY <2>1, <2>2, <3>1, <3>2, <3>3, IsolateRests
  <2>3. CASE Isolate!IsolateNext
    BY <2>1, <2>3, IsolateMoves
  <2>4. CASE UNCHANGED <<jsLifeVars, isolateVars>>
    <3>1. JsKept'
      BY <2>1, <2>4, JsWaits
    <3>2. js_inits' = js_inits /\ js_inits \in Nat
      BY <2>1, <2>4, IsolateAssumed
         DEF jsLifeVars, JsKept, Isolate!JsLifeTypeOK, Isolate!WorkerIsolateAssumption
    <3> QED
      BY <2>1, <2>4, <3>1, <3>2, IsolateRests
  <2> QED
    BY <1>2, <2>2, <2>3, <2>4
<1>6. PatchInv'
  BY <1>3, PatchMoves, PatchRests DEF AppLifeInv
<1> QED
  BY <1>4, <1>5, <1>6 DEF AppLifeInv

\* However init() and shutdown() overlap, what they leave running is accounted for, in
\* both SDKs; an isolate has its newest attempt cached; and a library is patched once.
THEOREM NothingEverLeftBehind == AllSpec => []NothingLeftBehind
<1>1. AllInit => AppLifeInv
  BY LifeStarts, IsolateStarts, PatchStarts DEF AllInit, InitWith, AppLifeInv
<1>2. AppLifeInv /\ [AllNext]_allVars => AppLifeInv'
  BY AppLifeMoves
<1>3. AppLifeInv => NothingLeftBehind
  <2>1. JsKept => Isolate!AllReachable /\ Isolate!ShutdownStops
    BY DEF JsKept, Isolate!AllReachable, Isolate!ShutdownStops
  <2> QED
    BY <2>1, LifeKept, PatchKept DEF AppLifeInv, IsolateKept, NothingLeftBehind
<1> QED
  BY <1>1, <1>2, <1>3, PTL DEF AllSpec

-------------------------------------------------------------------------------
(* What a call costs.                                                      *)

\* A transitive relation on a finite set that leads from no member to itself leads
\* from one to none: what the members lead to are finite sets, which shrink along it.
LEMMA Topmost ==
  ASSUME NEW S, IsFiniteSet(S), S # {}, NEW R,
         \A x \in S : <<x, x>> \notin R,
         \A x, y, z \in S : <<x, y>> \in R /\ <<y, z>> \in R => <<x, z>> \in R
  PROVE  \E x \in S : \A y \in S : <<x, y>> \notin R
  <1> DEFINE above(x) == {y \in S : <<x, y>> \in R}
             Aboves == {above(x) : x \in S}
  <1>1. Aboves \subseteq FiniteSubsetsOf(S) /\ Aboves # {}
    <2>1. \A x \in S : above(x) \subseteq S /\ IsFiniteSet(above(x))
      BY FS_Subset
    <2>2. \A x \in S : above(x) \in FiniteSubsetsOf(S)
      BY <2>1 DEF FiniteSubsetsOf
    <2> HIDE DEF above
    <2> QED
      BY <2>2
  <1>2. PICK T \in Aboves : \A U \in Aboves : <<U, T>> \notin StrictSubsetOrdering(S)
    <2> HIDE DEF Aboves
    <2>1. IsWellFoundedOn(StrictSubsetOrdering(S), FiniteSubsetsOf(S))
      BY FS_StrictSubsetOrderingWellFounded
    <2> QED
      BY <1>1, <2>1, WFMin
  <1>3. PICK x \in S : T = above(x)
    BY <1>2
  <1>4. ASSUME NEW y \in S, <<x, y>> \in R
        PROVE  FALSE
    <2>1. above(y) \subseteq above(x) /\ y \in above(x) /\ y \notin above(y)
      BY <1>4
    <2>2. <<above(y), above(x)>> \in StrictSubsetOrdering(S)
      BY <2>1 DEF StrictSubsetOrdering
    <2> QED
      BY <1>2, <1>3, <2>2
  <1> QED
    BY <1>4

\* The last of some places.
LEMMA LastPlace ==
  ASSUME NEW n \in Nat, NEW places \in SUBSET (1..n), places # {}
  PROVE  \E i \in places : \A j \in places : j <= i
  <1> DEFINE R == {pair \in places \X places : pair[1] < pair[2]}
  <1>1. IsFiniteSet(places)
    <2>1. IsFiniteSet(1..n)
      BY FS_Interval
    <2> QED
      BY <2>1, FS_Subset
  <1>2. \A i, j \in places : <<i, j>> \in R <=> i < j
    OBVIOUS
  <1>3. \A i \in places : i \in Nat
    OBVIOUS
  <1> HIDE DEF R
  <1>4. /\ \A i \in places : <<i, i>> \notin R
        /\ \A i, j, k \in places : <<i, j>> \in R /\ <<j, k>> \in R => <<i, k>> \in R
    BY <1>2, <1>3
  <1>5. PICK i \in places : \A j \in places : <<i, j>> \notin R
    BY <1>1, <1>4, Topmost
  <1>6. ASSUME NEW j \in places
        PROVE  j <= i
    <2>1. <<i, j>> \notin R
      BY <1>5
    <2>2. ~(i < j)
      BY <1>2, <2>1
    <2>3. i \in Nat /\ j \in Nat
      BY <1>3
    <2> QED
      BY <2>2, <2>3
  <1> QED
    BY <1>6

\* The cardinality of the prices' module is that of the library.
LEMMA PriceCardinality == \A S : Prices!Cardinality(S) = Cardinality(S)
  BY Zenon DEF Prices!Cardinality, Cardinality

\* Places have as many numbers as there are of them, each one of its own.
LEMMA PlacesNumbered ==
  ASSUME NEW n \in Nat, NEW places \in SUBSET (1..n)
  PROVE  /\ Prices!Cardinality(places) \in 0..n
         /\ \A k \in 1..Prices!Cardinality(places) : Prices!Nth(places, k) \in places
         /\ \A i \in places : \E k \in 1..Prices!Cardinality(places) : Prices!Nth(places, k) = i
  <1> DEFINE upto(i) == {j \in places : j <= i}
             count == Cardinality(places)
  <1>1. /\ IsFiniteSet(1..n) /\ Cardinality(1..n) = n
        /\ IsFiniteSet(places) /\ count \in Nat /\ count <= n
    <2>1. IsFiniteSet(1..n) /\ Cardinality(1..n) = n
      BY FS_Interval
    <2>2. IsFiniteSet(places) /\ Cardinality(places) <= Cardinality(1..n)
      BY <2>1, FS_Subset
    <2> QED
      BY <2>1, <2>2, FS_CardinalityType
  <1>2. ASSUME NEW i \in places
        PROVE  IsFiniteSet(upto(i)) /\ Cardinality(upto(i)) \in 1..count
    <2>1. IsFiniteSet(upto(i)) /\ Cardinality(upto(i)) <= count
      BY <1>1, FS_Subset
    <2>2. Cardinality(upto(i)) \in Nat
      BY <2>1, FS_CardinalityType
    <2>3. Cardinality(upto(i)) # 0
      <3>1. i \in upto(i)
        OBVIOUS
      <3> QED
        BY <2>1, <3>1, FS_EmptySet
    <2> HIDE DEF upto, count
    <2> QED
      BY <1>1, <2>1, <2>2, <2>3
  <1>3. ASSUME NEW i \in places, NEW j \in places, i < j
        PROVE  Cardinality(upto(i)) < Cardinality(upto(j))
    <2>1. upto(i) \subseteq upto(j) /\ j \in upto(j) /\ j \notin upto(i)
      <3>1. i \in Nat /\ j \in Nat /\ \A m \in places : m \in Nat
        OBVIOUS
      <3>2. j <= j /\ ~(j <= i) /\ \A m \in places : m <= i => m <= j
        BY <1>3, <3>1
      <3> QED
        BY <3>2
    <2> HIDE DEF upto, count
    <2>2. IsFiniteSet(upto(j)) /\ Cardinality(upto(j)) \in Nat /\ Cardinality(upto(i)) \in Nat
      BY <1>1, <1>2
    <2>3. Cardinality(upto(i)) <= Cardinality(upto(j)) /\ Cardinality(upto(j)) # Cardinality(upto(i))
      BY <2>1, <2>2, FS_Subset
    <2> QED
      BY <2>2, <2>3
  <1>4. ASSUME NEW i \in places, NEW j \in places, Cardinality(upto(i)) = Cardinality(upto(j))
        PROVE  i = j
    <2>1. i \in Nat /\ j \in Nat
      OBVIOUS
    <2> HIDE DEF upto, count
    <2>2. Cardinality(upto(i)) \in Nat /\ Cardinality(upto(j)) \in Nat
      BY <1>1, <1>2
    <2>3. ~(i < j) /\ ~(j < i)
      BY <1>3, <1>4, <2>2
    <2> QED
      BY <2>1, <2>3
  <1>5. \A k \in 1..count : \E i \in places : Cardinality(upto(i)) = k
    <2> DEFINE number == [i \in places |-> Cardinality(upto(i))]
    <2>1. number \in [places -> 1..count]
      BY <1>2
    <2>2. \A i, j \in places : number[i] = number[j] => i = j
      BY <1>4
    <2> HIDE DEF number
    <2>3. number \in Injection(places, 1..count)
      BY <2>1, <2>2, Fun_IsInj
    <2>4. IsFiniteSet(1..count) /\ Cardinality(1..count) = count
      BY <1>1, FS_Interval
    <2>5. number \in Surjection(places, 1..count)
      BY <2>3, <2>4, FS_Injection
    <2>6. \A k \in 1..count : \E i \in places : number[i] = k
      BY <2>5, Fun_SurjectionProperties
    <2> QED
      BY <2>6 DEF number
  <1>6. \A k : Prices!Nth(places, k) = CHOOSE i \in places : Cardinality(upto(i)) = k
    BY Zenon, PriceCardinality DEF Prices!Nth
  <1> HIDE DEF upto
  <1>7. ASSUME NEW k \in 1..count
        PROVE  Prices!Nth(places, k) \in places /\ Cardinality(upto(Prices!Nth(places, k))) = k
    BY Zenon, <1>5, <1>6, <1>7
  <1>8. ASSUME NEW i \in places
        PROVE  \E k \in 1..count : Prices!Nth(places, k) = i
    <2> DEFINE k == Cardinality(upto(i))
    <2>1. k \in 1..count
      BY <1>2
    <2>2. Prices!Nth(places, k) \in places /\ Cardinality(upto(Prices!Nth(places, k))) = k
      BY <1>7, <2>1
    <2>3. Prices!Nth(places, k) = i
      BY <1>4, <2>2
    <2> QED
      BY <2>1, <2>3
  <1>9. Prices!Cardinality(places) = count
    BY PriceCardinality
  <1> HIDE DEF count
  <1>10. count \in 0..n
    BY <1>1
  <1> QED
    BY <1>7, <1>8, <1>9, <1>10

\* The places of the catalogue's rows for which the organisation has no rate.
KeptRows(base, rates) ==
    {i \in DOMAIN base : \A j \in DOMAIN rates : Prices!Key(rates[j]) # Prices!Key(base[i])}

\* The rows of a merged table: the rates, and the catalogue's rows without one.
LEMMA MergedRows ==
  ASSUME NEW base \in Seq(Prices!Sku), NEW rates \in Seq(Prices!Sku),
         NEW merged, merged = Prices!merge_pricing(base, rates)
  PROVE  /\ merged \in Seq(Prices!Sku) /\ Len(merged) <= Len(base) + Len(rates)
         /\ \A m \in DOMAIN merged : \/ \E i \in DOMAIN rates : merged[m] = rates[i]
                                     \/ \E i \in KeptRows(base, rates) : merged[m] = base[i]
         /\ \A i \in DOMAIN rates : \E m \in DOMAIN merged : merged[m] = rates[i]
         /\ \A i \in KeptRows(base, rates) : \E m \in DOMAIN merged : merged[m] = base[i]
  <1> DEFINE kept == KeptRows(base, rates)
             size == Prices!Cardinality(kept)
             front == [k \in 1..size |-> base[Prices!Nth(kept, k)]]
  <1>1. PICK n \in Nat : n = Len(base) /\ DOMAIN base = 1..n
    OBVIOUS
  <1>2. PICK w \in Nat : w = Len(rates) /\ DOMAIN rates = 1..w
    OBVIOUS
  <1>3. kept \in SUBSET (1..n)
    BY <1>1 DEF KeptRows
  <1>4. merged = front \o rates
    BY Zenon DEF Prices!merge_pricing, KeptRows
  <1> HIDE DEF kept
  <1>5. /\ size \in 0..n
        /\ \A k \in 1..size : Prices!Nth(kept, k) \in kept
        /\ \A i \in kept : \E k \in 1..size : Prices!Nth(kept, k) = i
    BY <1>3, PlacesNumbered
  <1> HIDE DEF size
  <1>6. front \in Seq(Prices!Sku) /\ Len(front) = size /\ DOMAIN front = 1..size
    <2>1. \A i \in 1..n : base[i] \in Prices!Sku
      BY <1>1
    <2>2. \A k \in 1..size : base[Prices!Nth(kept, k)] \in Prices!Sku
      BY <1>3, <1>5, <2>1
    <2>3. size \in Nat
      BY <1>5
    <2> QED
      BY <2>2, <2>3
  <1>7. \A k \in 1..size : front[k] = base[Prices!Nth(kept, k)]
    OBVIOUS
  <1> HIDE DEF front
  <1>8. /\ merged \in Seq(Prices!Sku) /\ Len(merged) = size + w /\ DOMAIN merged = 1..(size + w)
        /\ \A k \in 1..size : merged[k] = front[k]
        /\ \A k \in 1..w : merged[size + k] = rates[k]
    <2>1. size \in Nat
      BY <1>5
    <2>2. /\ merged \in Seq(Prices!Sku) /\ Len(merged) = Len(front) + Len(rates)
          /\ \A k \in 1..Len(front) : merged[k] = front[k]
          /\ \A k \in 1..Len(rates) : merged[Len(front) + k] = rates[k]
      BY <1>4, <1>6, ConcatProperties
    <2>3. Len(merged) = size + w /\ DOMAIN merged = 1..Len(merged)
      BY <1>2, <1>6, <2>2
    <2> QED
      BY <1>2, <1>6, <2>2, <2>3
  <1>9. Len(merged) <= Len(base) + Len(rates)
    BY <1>1, <1>2, <1>5, <1>8
  <1>10. ASSUME NEW m \in DOMAIN merged
         PROVE  \/ \E i \in DOMAIN rates : merged[m] = rates[i]
                \/ \E i \in kept : merged[m] = base[i]
    <2>1. CASE m <= size
      BY <1>5, <1>7, <1>8, <2>1
    <2>2. CASE ~(m <= size)
      <3>1. m \in 1..(size + w) /\ size \in Nat
        BY <1>5, <1>8
      <3>2. PICK k \in 1..w : size + k = m
        BY <2>2, <3>1
      <3>3. merged[m] = rates[k]
        BY <1>8, <3>2
      <3> QED
        BY <1>2, <3>3
    <2> QED
      BY <2>1, <2>2
  <1>11. ASSUME NEW i \in DOMAIN rates
         PROVE  \E m \in DOMAIN merged : merged[m] = rates[i]
    <2>1. i \in 1..w
      BY <1>2
    <2>2. merged[size + i] = rates[i]
      BY <1>8, <2>1
    <2>3. size + i \in DOMAIN merged
      <3>1. size + i \in 1..(size + w)
        BY <1>5, <2>1
      <3> QED
        BY <1>8, <3>1
    <2> QED
      BY <2>2, <2>3
  <1>12. ASSUME NEW i \in kept
         PROVE  \E m \in DOMAIN merged : merged[m] = base[i]
    <2>1. PICK k \in 1..size : Prices!Nth(kept, k) = i
      BY <1>5
    <2>2. k \in 1..(size + w)
      BY <1>2, <1>5
    <2> QED
      BY <1>7, <1>8, <2>1, <2>2
  <1> QED
    BY <1>8, <1>9, <1>10, <1>11, <1>12 DEF kept

\* The row of a call: none only if none fits, and else one that fits and that no row
\* that fits is above.
LEMMA RowChosen ==
  ASSUME table \in Seq(Prices!Sku), NEW used
  PROVE  \/ /\ Prices!resolve_sku(used) = None
            /\ \A i \in DOMAIN table : ~Prices!Applies(table[i], used)
         \/ \E i \in DOMAIN table :
               /\ Prices!resolve_sku(used) = table[i] /\ Prices!Applies(table[i], used)
               /\ \A j \in DOMAIN table : Prices!Applies(table[j], used) =>
                                             ~Prices!Below(table[i], table[j])
  <1> DEFINE fit == {i \in DOMAIN table : Prices!Applies(table[i], used)}
             best == {i \in fit : \A j \in fit : ~Prices!Below(table[i], table[j])}
             last == CHOOSE i \in best : \A j \in best : j <= i
  <1>1. Prices!resolve_sku(used) = IF fit = {} THEN None ELSE table[last]
    BY Zenon DEF Prices!resolve_sku
  <1>2. PICK n \in Nat : DOMAIN table = 1..n
    OBVIOUS
  <1>3. CASE fit = {}
    BY <1>1, <1>3
  <1>4. CASE fit # {}
    <2> DEFINE R == {pair \in fit \X fit : Prices!Below(table[pair[1]], table[pair[2]])}
    <2>1. fit \in SUBSET (1..n) /\ IsFiniteSet(fit)
      <3>1. IsFiniteSet(1..n)
        BY FS_Interval
      <3>2. fit \in SUBSET (1..n)
        BY <1>2
      <3> HIDE DEF fit
      <3> QED
        BY <3>1, <3>2, FS_Subset
    <2>2. \A i, j \in fit : <<i, j>> \in R <=> Prices!Below(table[i], table[j])
      OBVIOUS
    <2>3. \A i \in fit : /\ Literals[table[i].model_match] \in Nat
                         /\ table[i].effective_from \in Nat
      <3>1. Literals \in [ModelPatterns -> Nat]
        BY PricesAssumed DEF Prices!SettlementAssumption
      <3>2. \A i \in fit : table[i] \in Prices!Sku
        BY <1>2
      <3>3. \A i \in fit : table[i].model_match \in ModelPatterns /\ table[i].effective_from \in Nat
        BY <3>2 DEF Prices!Sku
      <3> QED
        BY <3>1, <3>3
    <2>4. \A i, j \in fit :
             Prices!Below(table[i], table[j]) <=>
                \/ Literals[table[i].model_match] < Literals[table[j].model_match]
                \/ /\ Literals[table[i].model_match] = Literals[table[j].model_match]
                   /\ table[i].effective_from < table[j].effective_from
      BY DEF Prices!Below
    <2> HIDE DEF fit, R
    <2>5. \A i \in fit : <<i, i>> \notin R
      BY <2>2, <2>3, <2>4
    <2>6. \A i, j, k \in fit : <<i, j>> \in R /\ <<j, k>> \in R => <<i, k>> \in R
      <3>1. SUFFICES ASSUME NEW i \in fit, NEW j \in fit, NEW k \in fit,
                            Prices!Below(table[i], table[j]), Prices!Below(table[j], table[k])
                     PROVE  Prices!Below(table[i], table[k])
        BY <2>2
      <3> DEFINE li == Literals[table[i].model_match]
                 lj == Literals[table[j].model_match]
                 lk == Literals[table[k].model_match]
                 fi == table[i].effective_from
                 fj == table[j].effective_from
                 fk == table[k].effective_from
      <3>2. li \in Nat /\ lj \in Nat /\ lk \in Nat /\ fi \in Nat /\ fj \in Nat /\ fk \in Nat
        BY <2>3
      <3>3. /\ Prices!Below(table[i], table[k]) <=> (li < lk \/ (li = lk /\ fi < fk))
            /\ li < lj \/ (li = lj /\ fi < fj)
            /\ lj < lk \/ (lj = lk /\ fj < fk)
        BY <2>4, <3>1
      <3> HIDE DEF li, lj, lk, fi, fj, fk
      <3> QED
        BY <3>2, <3>3
    <2>7. PICK top \in fit : \A j \in fit : <<top, j>> \notin R
      BY <1>4, <2>1, <2>5, <2>6, Topmost
    <2>8. best \in SUBSET (1..n) /\ top \in best
      BY <2>1, <2>2, <2>7
    <2> HIDE DEF best
    <2>9. \E i \in best : \A j \in best : j <= i
      BY <2>8, LastPlace
    <2>10. last \in best
      BY <2>9
    <2> HIDE DEF last
    <2>11. last \in fit /\ \A j \in fit : ~Prices!Below(table[last], table[j])
      BY <2>10 DEF best
    <2> QED
      BY <1>1, <1>4, <2>11 DEF fit
  <1> QED
    BY <1>3, <1>4

\* A product of two numbers, and how it grows.
LEMMA ProductGrows ==
  ASSUME NEW x \in Nat, NEW y \in Nat, NEW z \in Nat, y <= z
  PROVE  x * y \in Nat /\ x * y = y * x /\ x * y <= x * z
  <1>1. PICK d \in Nat : z = y + d
    <2>1. z - y \in Nat /\ z = y + (z - y)
      OBVIOUS
    <2> QED
      BY <2>1
  <1>2. x * y \in Nat /\ x * d \in Nat /\ x * y = y * x
    OBVIOUS
  <1>3. x * z = x * y + x * d
    BY <1>1
  <1> QED
    BY <1>2, <1>3

\* An amount in whole units, rounded as line_item() rounds.
Rounded(x) == (x + TokensPerUnit \div 2) \div TokensPerUnit

\* Rounding moves an amount by half a unit at most, and keeps the order of amounts.
LEMMA RoundingClose ==
  ASSUME NEW x \in Nat
  PROVE  /\ Rounded(x) \in Nat /\ TokensPerUnit * Rounded(x) \in Nat
         /\ 2 * (TokensPerUnit * Rounded(x)) <= 2 * x + TokensPerUnit
         /\ 2 * x < 2 * (TokensPerUnit * Rounded(x)) + TokensPerUnit
         /\ \A y \in Nat : x <= y => Rounded(x) <= Rounded(y)
  <1>1. PICK unit \in Nat : unit = TokensPerUnit /\ unit # 0
    BY PricesAssumed DEF Prices!SettlementAssumption
  <1>2. PICK h \in Nat : h = unit \div 2 /\ 2 * h <= unit /\ unit <= 2 * h + 1
    <2>1. unit \div 2 \in Nat /\ 2 * (unit \div 2) <= unit /\ unit <= 2 * (unit \div 2) + 1
      OBVIOUS
    <2> QED
      BY <2>1
  <1>3. ASSUME NEW v \in Nat
        PROVE  /\ Rounded(v) \in Nat /\ unit * Rounded(v) \in Nat
               /\ unit * Rounded(v) <= v + h /\ v + h < unit * Rounded(v) + unit
    <2>1. Rounded(v) = (v + h) \div unit
      BY <1>1, <1>2 DEF Rounded
    <2>2. (v + h) \div unit \in Nat
      BY <1>1
    <2>3. /\ unit * ((v + h) \div unit) <= v + h
          /\ v + h < unit * ((v + h) \div unit) + unit
      BY <1>1
    <2> QED
      BY <2>1, <2>2, <2>3, ProductGrows
  <1>4. ASSUME NEW y \in Nat, x <= y, ~(Rounded(x) <= Rounded(y))
        PROVE  FALSE
    <2>1. Rounded(x) \in Nat /\ Rounded(y) \in Nat
      BY <1>3
    <2>2. Rounded(y) + 1 <= Rounded(x) /\ Rounded(y) + 1 \in Nat
      BY <1>4, <2>1
    <2>3. unit * (Rounded(y) + 1) <= unit * Rounded(x)
      BY <2>1, <2>2, ProductGrows
    <2>4. unit * (Rounded(y) + 1) = unit * Rounded(y) + unit
      BY <2>1
    <2>5. PICK m \in Nat : m = unit * Rounded(y)
      BY <1>3
    <2>6. PICK k \in Nat : k = unit * Rounded(x)
      BY <1>3
    <2>7. k <= x + h /\ y + h < m + unit /\ m + unit <= k
      BY <1>3, <2>3, <2>4, <2>5, <2>6
    <2> QED
      BY <1>4, <2>7
  <1>5. PICK k \in Nat : k = unit * Rounded(x)
    BY <1>3
  <1>6. k <= x + h /\ x + h < k + unit
    BY <1>3, <1>5
  <1>7. 2 * k <= 2 * x + unit /\ 2 * x < 2 * k + unit
    BY <1>2, <1>6
  <1>8. Rounded(x) \in Nat
    BY <1>3
  <1> QED
    BY <1>1, <1>4, <1>5, <1>7, <1>8

\* Sums saturate as the sum of what is added.
LEMMA CostsAdd ==
  ASSUME NEW x \in Nat, NEW y \in Nat
  PROVE  Prices!saturating_add(Prices!Cost(x), Prices!Cost(y)) = Prices!Cost(x + y)
  <1>1. MaxInt \in Nat
    BY PricesAssumed DEF Prices!SettlementAssumption
  <1> DEFINE cap(z) == IF z > MaxInt THEN MaxInt ELSE z
  <1>2. \A z : Prices!Cost(z) = [micros |-> cap(z), overflow |-> z > MaxInt]
    BY DEF Prices!Cost
  <1>3. \A z : Prices!Cost(z).micros = cap(z) /\ Prices!Cost(z).overflow = (z > MaxInt)
    BY <1>2
  <1>4. Prices!saturating_add(Prices!Cost(x), Prices!Cost(y)) =
           [micros |-> cap(cap(x) + cap(y)),
            overflow |-> (cap(x) + cap(y) > MaxInt) \/ (x > MaxInt) \/ (y > MaxInt)]
    <2> DEFINE over == (cap(x) + cap(y) > MaxInt) \/ (x > MaxInt) \/ (y > MaxInt)
               sum == Prices!Cost(cap(x) + cap(y))
    <2>1. Prices!saturating_add(Prices!Cost(x), Prices!Cost(y)) = [sum EXCEPT !.overflow = over]
      <3>1. Prices!saturating_add(Prices!Cost(x), Prices!Cost(y)) =
               [Prices!Cost(Prices!Cost(x).micros + Prices!Cost(y).micros) EXCEPT
                  !.overflow = @ \/ Prices!Cost(x).overflow \/ Prices!Cost(y).overflow]
        BY Zenon DEF Prices!saturating_add
      <3> HIDE DEF cap
      <3> QED
        BY Zenon, <1>3, <3>1
    <2>2. sum = [micros |-> cap(cap(x) + cap(y)), overflow |-> cap(x) + cap(y) > MaxInt]
      BY <1>2
    <2>3. \A m, v, w : [[micros |-> m, overflow |-> v] EXCEPT !.overflow = w] =
                          [micros |-> m, overflow |-> w]
      OBVIOUS
    <2> HIDE DEF sum, cap
    <2> QED
      BY Zenon, <2>1, <2>2, <2>3
  <1>5. cap(cap(x) + cap(y)) = cap(x + y)
    BY <1>1
  <1>6. ((cap(x) + cap(y) > MaxInt) \/ (x > MaxInt) \/ (y > MaxInt)) = (x + y > MaxInt)
    BY <1>1
  <1> QED
    BY <1>2, <1>4, <1>5, <1>6

\* What each kind of token comes to, unrounded, and all of them rounded.
FreshItem(sku, used) == Prices!Fresh(used) * sku.input
ReadItem(sku, used) == Prices!AtLeast0(used.cache_read) * Prices!Or(sku.cache_read, sku.input)
WrittenItem(sku, used) ==
    Prices!AtLeast0(used.cache_creation) * Prices!Or(sku.cache_write, sku.input)
OutputItem(sku, used) == Prices!AtLeast0(used.output) * sku.output
ItemTotal(sku, used) ==
    Rounded(FreshItem(sku, used)) + Rounded(ReadItem(sku, used))
        + Rounded(WrittenItem(sku, used)) + Rounded(OutputItem(sku, used))

\* A call's price is the sum of its four rounded items, or the greatest there is.
LEMMA PricedTotal ==
  ASSUME NEW sku \in Prices!Sku, NEW used \in Prices!Usage
  PROVE  /\ FreshItem(sku, used) \in Nat /\ ReadItem(sku, used) \in Nat
         /\ WrittenItem(sku, used) \in Nat /\ OutputItem(sku, used) \in Nat
         /\ ItemTotal(sku, used) \in Nat
         /\ Prices!Priced(sku, used) = Prices!Cost(ItemTotal(sku, used))
  <1>1. /\ sku.input \in Nat /\ sku.output \in Nat
        /\ Prices!Or(sku.cache_read, sku.input) \in Nat
        /\ Prices!Or(sku.cache_write, sku.input) \in Nat
    BY DEF Prices!Sku, Prices!Or
  <1>2. /\ Prices!Fresh(used) \in Nat /\ Prices!AtLeast0(used.cache_read) \in Nat
        /\ Prices!AtLeast0(used.cache_creation) \in Nat /\ Prices!AtLeast0(used.output) \in Nat
    BY DEF Prices!Usage, Prices!Fresh, Prices!AtLeast0
  <1>3. /\ FreshItem(sku, used) \in Nat /\ ReadItem(sku, used) \in Nat
        /\ WrittenItem(sku, used) \in Nat /\ OutputItem(sku, used) \in Nat
    <2>1. \A x, y \in Nat : x * y \in Nat
      OBVIOUS
    <2> QED
      BY <1>1, <1>2, <2>1 DEF FreshItem, ReadItem, WrittenItem, OutputItem
  <1>4. /\ Rounded(FreshItem(sku, used)) \in Nat /\ Rounded(ReadItem(sku, used)) \in Nat
        /\ Rounded(WrittenItem(sku, used)) \in Nat /\ Rounded(OutputItem(sku, used)) \in Nat
    BY <1>3, RoundingClose
  <1>5. \A x, y : Prices!line_item(x, y) = Prices!Cost(Rounded(x * y))
    BY DEF Prices!line_item, Rounded
  <1>6. Prices!Priced(sku, used) =
          Prices!saturating_add(
            Prices!saturating_add(
              Prices!saturating_add(Prices!Cost(Rounded(FreshItem(sku, used))),
                                    Prices!Cost(Rounded(ReadItem(sku, used)))),
              Prices!Cost(Rounded(WrittenItem(sku, used)))),
            Prices!Cost(Rounded(OutputItem(sku, used))))
    BY Zenon, <1>5 DEF Prices!Priced, FreshItem, ReadItem, WrittenItem, OutputItem
  <1>7. Prices!Priced(sku, used) = Prices!Cost(ItemTotal(sku, used))
    <2> DEFINE r1 == Rounded(FreshItem(sku, used))
               r2 == Rounded(ReadItem(sku, used))
               r3 == Rounded(WrittenItem(sku, used))
               r4 == Rounded(OutputItem(sku, used))
    <2>1. r1 \in Nat /\ r2 \in Nat /\ r3 \in Nat /\ r4 \in Nat
      BY <1>4
    <2>2. ItemTotal(sku, used) = r1 + r2 + r3 + r4
      BY DEF ItemTotal
    <2>3. Prices!Priced(sku, used) =
            Prices!saturating_add(
              Prices!saturating_add(
                Prices!saturating_add(Prices!Cost(r1), Prices!Cost(r2)), Prices!Cost(r3)),
              Prices!Cost(r4))
      BY Zenon, <1>6
    <2> HIDE DEF r1, r2, r3, r4
    <2>4. r1 + r2 \in Nat /\ r1 + r2 + r3 \in Nat
      BY <2>1
    <2>5. Prices!saturating_add(Prices!Cost(r1), Prices!Cost(r2)) = Prices!Cost(r1 + r2)
      BY <2>1, CostsAdd
    <2>6. Prices!saturating_add(Prices!Cost(r1 + r2), Prices!Cost(r3)) = Prices!Cost(r1 + r2 + r3)
      BY <2>1, <2>4, CostsAdd
    <2>7. Prices!saturating_add(Prices!Cost(r1 + r2 + r3), Prices!Cost(r4))
             = Prices!Cost(r1 + r2 + r3 + r4)
      BY <2>1, <2>4, CostsAdd
    <2> QED
      BY Zenon, <2>2, <2>3, <2>5, <2>6, <2>7
  <1>8. ItemTotal(sku, used) \in Nat
    BY <1>4 DEF ItemTotal
  <1> QED
    BY <1>3, <1>7, <1>8

\* The catalogue and the rates are as they were given, the table is what they merge to,
\* and the last result is that of the last call under this table.
PriceInv ==
    /\ catalogue \in Seq(Prices!Sku) /\ overlays \in Seq(Prices!Sku)
    /\ table = None \/ table = Prices!merge_pricing(catalogue, overlays)
    /\ settled \in Usages \cup {None}
    /\ settled # None => price_result = Prices!settle(settled)

\* How a call can have been settled.
LEMMA SettledCases ==
  ASSUME PriceInv, settled # None
  PROVE  /\ settled \in Prices!Usage
         /\ \/ /\ table = None
               /\ price_result = [status |-> "disabled", cost |-> Prices!Cost(0), sku |-> None]
            \/ /\ table # None /\ Prices!resolve_sku(settled) = None
               /\ price_result = [status |-> "unpriced_model", cost |-> Prices!Cost(0), sku |-> None]
            \/ /\ table # None /\ Prices!resolve_sku(settled) \in Prices!Sku
               /\ price_result = [status |-> "priced",
                                  cost |-> Prices!Priced(Prices!resolve_sku(settled), settled),
                                  sku |-> Prices!resolve_sku(settled)]
  <1>1. settled \in Prices!Usage
    BY PricesAssumed DEF Prices!SettlementAssumption, PriceInv
  <1>2. price_result =
          IF table = None THEN [status |-> "disabled", cost |-> Prices!Cost(0), sku |-> None]
          ELSE IF Prices!resolve_sku(settled) = None
               THEN [status |-> "unpriced_model", cost |-> Prices!Cost(0), sku |-> None]
               ELSE [status |-> "priced",
                     cost |-> Prices!Priced(Prices!resolve_sku(settled), settled),
                     sku |-> Prices!resolve_sku(settled)]
    BY Zenon DEF PriceInv, Prices!settle
  <1>3. ASSUME table # None, Prices!resolve_sku(settled) # None
        PROVE  Prices!resolve_sku(settled) \in Prices!Sku
    <2>1. table \in Seq(Prices!Sku)
      BY <1>3, MergedRows DEF PriceInv
    <2>2. PICK i \in DOMAIN table : Prices!resolve_sku(settled) = table[i]
      BY <1>3, <2>1, RowChosen
    <2> QED
      BY <2>1, <2>2
  <1> QED
    BY Zenon, <1>1, <1>2, <1>3

\* What the parts of a call come to is what its tokens cost.
LEMMA ExactParts ==
  ASSUME NEW sku \in Prices!Sku, settled \in Prices!Usage, price_result.sku = sku
  PROVE  Prices!ExactCost =
            FreshItem(sku, settled) + ReadItem(sku, settled)
               + WrittenItem(sku, settled) + OutputItem(sku, settled)
  <1> DEFINE spent == Prices!AtLeast0(settled.cache_read) + Prices!AtLeast0(settled.cache_creation)
             rest == IF spent < settled.input THEN settled.input - spent ELSE 0
             read == Prices!Or(sku.cache_read, sku.input)
             write == Prices!Or(sku.cache_write, sku.input)
  <1>1. Prices!ExactCost =
          sku.input * rest + read * Prices!AtLeast0(settled.cache_read)
            + write * Prices!AtLeast0(settled.cache_creation)
            + sku.output * Prices!AtLeast0(settled.output)
    BY Zenon DEF Prices!ExactCost
  <1>2. settled.input \in Int /\ settled.output \in Int
        /\ settled.cache_read \in Int /\ settled.cache_creation \in Int
    BY DEF Prices!Usage
  <1>3. rest \in Nat /\ rest = Prices!Fresh(settled)
    BY <1>2 DEF Prices!Fresh, Prices!AtLeast0
  <1>4. sku.input \in Nat /\ sku.output \in Nat /\ read \in Nat /\ write \in Nat
    BY DEF Prices!Sku, Prices!Or
  <1>5. /\ Prices!AtLeast0(settled.cache_read) \in Nat
        /\ Prices!AtLeast0(settled.cache_creation) \in Nat /\ Prices!AtLeast0(settled.output) \in Nat
    BY <1>2 DEF Prices!AtLeast0
  <1> HIDE DEF rest, read, write
  <1>6. \A x, y \in Nat : x * y = y * x
    OBVIOUS
  <1>7. /\ sku.input * rest = Prices!Fresh(settled) * sku.input
        /\ read * Prices!AtLeast0(settled.cache_read) = Prices!AtLeast0(settled.cache_read) * read
        /\ write * Prices!AtLeast0(settled.cache_creation)
              = Prices!AtLeast0(settled.cache_creation) * write
        /\ sku.output * Prices!AtLeast0(settled.output)
              = Prices!AtLeast0(settled.output) * sku.output
    BY <1>3, <1>4, <1>5, <1>6
  <1> QED
    BY Zenon, <1>1, <1>7 DEF FreshItem, ReadItem, WrittenItem, OutputItem, read, write

\* The four items of a call are as close to what they come to as four roundings are.
LEMMA TotalClose ==
  ASSUME NEW x \in Nat, NEW y \in Nat, NEW z \in Nat, NEW w \in Nat,
         NEW sum, sum = Rounded(x) + Rounded(y) + Rounded(z) + Rounded(w)
  PROVE  /\ sum \in Nat /\ sum * TokensPerUnit \in Nat
         /\ sum * TokensPerUnit <= x + y + z + w + 2 * TokensPerUnit
         /\ x + y + z + w <= sum * TokensPerUnit + 2 * TokensPerUnit
  <1>1. PICK unit \in Nat : unit = TokensPerUnit
    BY PricesAssumed DEF Prices!SettlementAssumption
  <1>2. PICK i \in Nat, j \in Nat, k \in Nat, m \in Nat :
          i = Rounded(x) /\ j = Rounded(y) /\ k = Rounded(z) /\ m = Rounded(w)
    BY RoundingClose
  <1>3. sum = i + j + k + m /\ sum \in Nat
    BY <1>2
  <1>4. sum * unit = unit * i + unit * j + unit * k + unit * m
    BY <1>3
  <1>5. PICK ui \in Nat, uj \in Nat, uk \in Nat, um \in Nat :
          ui = unit * i /\ uj = unit * j /\ uk = unit * k /\ um = unit * m
    BY <1>1, <1>2, RoundingClose
  <1>6. /\ 2 * ui <= 2 * x + unit /\ 2 * x < 2 * ui + unit
        /\ 2 * uj <= 2 * y + unit /\ 2 * y < 2 * uj + unit
        /\ 2 * uk <= 2 * z + unit /\ 2 * z < 2 * uk + unit
        /\ 2 * um <= 2 * w + unit /\ 2 * w < 2 * um + unit
    BY <1>1, <1>2, <1>5, RoundingClose
  <1>7. sum * unit = ui + uj + uk + um
    BY <1>4, <1>5
  <1>8. PICK all_units \in Nat : all_units = sum * unit
    BY <1>7
  <1>9. all_units <= x + y + z + w + 2 * unit /\ x + y + z + w <= all_units + 2 * unit
    BY <1>6, <1>7, <1>8
  <1> QED
    BY <1>1, <1>3, <1>8, <1>9

\* A recorded cost is exact up to the rounding of its items.
LEMMA ExactFollows == PriceInv => Prices!CostExact
  <1> SUFFICES ASSUME PriceInv, Prices!HasPrice
               PROVE  Prices!CostExact
    BY Zenon DEF Prices!CostExact
  <1> DEFINE sku == price_result.sku
  <1>1. settled # None /\ price_result.status = "priced"
    BY DEF Prices!HasPrice
  <1>2. /\ settled \in Prices!Usage /\ sku \in Prices!Sku
        /\ price_result.cost = Prices!Priced(sku, settled)
    BY <1>1, SettledCases
  <1> HIDE DEF sku
  <1> DEFINE x == FreshItem(sku, settled)
             y == ReadItem(sku, settled)
             z == WrittenItem(sku, settled)
             w == OutputItem(sku, settled)
             sum == ItemTotal(sku, settled)
             unit == TokensPerUnit
             exact == Prices!ExactCost
  <1>3. /\ x \in Nat /\ y \in Nat /\ z \in Nat /\ w \in Nat /\ sum \in Nat
        /\ price_result.cost = Prices!Cost(sum)
    BY <1>2, PricedTotal
  <1>4. sum = Rounded(x) + Rounded(y) + Rounded(z) + Rounded(w)
    BY DEF ItemTotal
  <1>5. exact = x + y + z + w
    BY <1>2, ExactParts DEF sku
  <1>6. unit \in Nat /\ MaxInt \in Nat
    BY PricesAssumed DEF Prices!SettlementAssumption
  <1> HIDE DEF x, y, z, w, sum, unit, exact
  <1>7. /\ sum * unit \in Nat
        /\ sum * unit <= exact + 2 * unit /\ exact <= sum * unit + 2 * unit
    BY <1>3, <1>4, <1>5, TotalClose DEF unit
  <1>8. price_result.cost.micros = (IF sum > MaxInt THEN MaxInt ELSE sum)
        /\ price_result.cost.overflow = (sum > MaxInt)
    BY <1>3 DEF Prices!Cost
  <1>9. exact \in Nat
    BY <1>3, <1>5
  <1>10. CASE sum > MaxInt
    <2>1. price_result.cost.overflow /\ price_result.cost.micros = MaxInt
      BY <1>8, <1>10
    <2>2. MaxInt * unit < sum * unit
      <3>1. MaxInt + 1 \in Nat /\ MaxInt + 1 <= sum
        BY <1>3, <1>6, <1>10
      <3>2. unit * (MaxInt + 1) <= unit * sum /\ unit * sum = sum * unit
        BY <1>3, <1>6, <3>1, ProductGrows
      <3>3. unit * (MaxInt + 1) = MaxInt * unit + unit
        BY <1>6
      <3>4. PICK most \in Nat, all_units \in Nat : most = MaxInt * unit /\ all_units = sum * unit
        BY <1>3, <1>6, <1>7, ProductGrows
      <3>5. unit # 0
        BY PricesAssumed DEF Prices!SettlementAssumption, unit
      <3> QED
        BY <1>6, <3>2, <3>3, <3>4, <3>5
    <2>3. exact + 2 * unit > MaxInt * unit
      <3>1. PICK most \in Nat, all_units \in Nat : most = MaxInt * unit /\ all_units = sum * unit
        BY <1>3, <1>6, <1>7, ProductGrows
      <3> QED
        BY <1>6, <1>7, <1>9, <2>2, <3>1
    <2>4. price_result.cost.micros = MaxInt /\ price_result.cost.overflow
          /\ Prices!ExactCost + 2 * TokensPerUnit > price_result.cost.micros * TokensPerUnit
      BY <2>1, <2>3 DEF unit, exact
    <2> QED
      BY Zenon, <2>4 DEF Prices!CostExact
  <1>11. CASE ~(sum > MaxInt)
    <2>1. ~price_result.cost.overflow /\ price_result.cost.micros = sum
      BY <1>8, <1>11
    <2>2. exact - 2 * unit <= sum * unit /\ sum * unit <= exact + 2 * unit
      <3>1. PICK all_units \in Nat : all_units = sum * unit
        BY <1>7
      <3> QED
        BY <1>6, <1>7, <1>9, <3>1
    <2>3. ~price_result.cost.overflow
          /\ Prices!ExactCost - 2 * TokensPerUnit <= price_result.cost.micros * TokensPerUnit
          /\ price_result.cost.micros * TokensPerUnit <= Prices!ExactCost + 2 * TokensPerUnit
      BY <2>1, <2>2 DEF unit, exact
    <2> QED
      BY Zenon, <2>3 DEF Prices!CostExact
  <1> QED
    BY <1>10, <1>11

\* A merged table offers a call what the organisation's rates offer it, and what the
\* catalogue offers it for which there is no rate.
LEMMA OffersOfTable ==
  ASSUME PriceInv, table # None
  PROVE  Prices!Offers(table) =
            Prices!Offers(overlays)
               \cup {s \in Prices!Offers(catalogue) : Prices!Key(s) \notin Prices!OverlayKeys}
  <1> DEFINE fits(row) == Prices!Applies(row, settled)
             own == {row \in Prices!Offers(catalogue) : Prices!Key(row) \notin Prices!OverlayKeys}
  <1>1. /\ catalogue \in Seq(Prices!Sku) /\ overlays \in Seq(Prices!Sku)
        /\ table = Prices!merge_pricing(catalogue, overlays)
    BY DEF PriceInv
  <1>2. /\ \A m \in DOMAIN table :
              \/ \E i \in DOMAIN overlays : table[m] = overlays[i]
              \/ \E i \in KeptRows(catalogue, overlays) : table[m] = catalogue[i]
        /\ \A i \in DOMAIN overlays : \E m \in DOMAIN table : table[m] = overlays[i]
        /\ \A i \in KeptRows(catalogue, overlays) : \E m \in DOMAIN table : table[m] = catalogue[i]
    <2>1. ASSUME NEW m \in DOMAIN table
          PROVE  \/ \E i \in DOMAIN overlays : table[m] = overlays[i]
                 \/ \E i \in KeptRows(catalogue, overlays) : table[m] = catalogue[i]
      BY <1>1, MergedRows
    <2>2. \A i \in DOMAIN overlays : \E m \in DOMAIN table : table[m] = overlays[i]
      BY <1>1, MergedRows
    <2>3. \A i \in KeptRows(catalogue, overlays) : \E m \in DOMAIN table : table[m] = catalogue[i]
      BY <1>1, MergedRows
    <2> QED
      BY Zenon, <2>1, <2>2, <2>3
  <1>3. \A rows, row : row \in Prices!Offers(rows)
                          <=> \E i \in DOMAIN rows : row = rows[i] /\ fits(rows[i])
    BY DEF Prices!Offers
  <1>4. \A i : i \in KeptRows(catalogue, overlays)
                  <=> i \in DOMAIN catalogue /\ Prices!Key(catalogue[i]) \notin Prices!OverlayKeys
    BY Zenon DEF KeptRows, Prices!OverlayKeys
  <1> HIDE DEF fits
  <1>5. \A row : row \in own <=> \E i \in KeptRows(catalogue, overlays) :
                                    row = catalogue[i] /\ fits(catalogue[i])
    BY Zenon, <1>3, <1>4
  <1> HIDE DEF own
  <1>6. \A row : row \in Prices!Offers(table) <=> row \in Prices!Offers(overlays) \/ row \in own
    <2>1. ASSUME NEW row, row \in Prices!Offers(table)
          PROVE  row \in Prices!Offers(overlays) \/ row \in own
      <3>1. PICK m \in DOMAIN table : row = table[m] /\ fits(table[m])
        BY Zenon, <1>3, <2>1
      <3>2. CASE \E i \in DOMAIN overlays : table[m] = overlays[i]
        BY Zenon, <1>3, <3>1, <3>2
      <3>3. CASE \E i \in KeptRows(catalogue, overlays) : table[m] = catalogue[i]
        BY Zenon, <1>5, <3>1, <3>3
      <3> QED
        BY Zenon, <1>2, <3>2, <3>3
    <2>2. ASSUME NEW row, row \in Prices!Offers(overlays)
          PROVE  row \in Prices!Offers(table)
      <3>1. PICK i \in DOMAIN overlays : row = overlays[i] /\ fits(overlays[i])
        BY Zenon, <1>3, <2>2
      <3>2. PICK m \in DOMAIN table : table[m] = overlays[i]
        BY Zenon, <1>2, <3>1
      <3>3. row = table[m] /\ fits(table[m])
        BY <3>1, <3>2
      <3> QED
        BY Zenon, <1>3, <3>3
    <2>3. ASSUME NEW row, row \in own
          PROVE  row \in Prices!Offers(table)
      <3>1. PICK i \in KeptRows(catalogue, overlays) : row = catalogue[i] /\ fits(catalogue[i])
        BY Zenon, <1>5, <2>3
      <3>2. PICK m \in DOMAIN table : table[m] = catalogue[i]
        BY Zenon, <1>2, <3>1
      <3>3. row = table[m] /\ fits(table[m])
        BY <3>1, <3>2
      <3> QED
        BY Zenon, <1>3, <3>3
    <2> QED
      BY Zenon, <2>1, <2>2, <2>3
  <1> QED
    BY Zenon, <1>6 DEF own

\* A call is billed by a row that is the organisation's own choice, and only a call that
\* no row fits goes unbilled.
LEMMA RowFollows == PriceInv => Prices!RowRight
  <1> SUFFICES ASSUME PriceInv, settled # None
               PROVE  Prices!RowRight
    BY Zenon DEF Prices!RowRight, Prices!HasPrice
  <1> DEFINE offered == Prices!Offers(overlays) \cup
                 {s \in Prices!Offers(catalogue) : Prices!Key(s) \notin Prices!OverlayKeys}
  <1>1. ASSUME Prices!HasPrice
        PROVE  /\ price_result.sku \in offered
               /\ \A s \in offered : ~Prices!Below(price_result.sku, s)
    <2>1. /\ table # None /\ Prices!resolve_sku(settled) \in Prices!Sku
          /\ price_result.sku = Prices!resolve_sku(settled)
      BY <1>1, SettledCases DEF Prices!HasPrice
    <2>2. offered = Prices!Offers(table)
      BY <2>1, OffersOfTable
    <2>3. table \in Seq(Prices!Sku)
      BY <2>1, MergedRows DEF PriceInv
    <2>4. Prices!resolve_sku(settled) # None
      BY <2>1, PricesAssumed DEF Prices!SettlementAssumption
    <2>5. PICK i \in DOMAIN table :
             /\ price_result.sku = table[i] /\ Prices!Applies(table[i], settled)
             /\ \A j \in DOMAIN table : Prices!Applies(table[j], settled) =>
                                           ~Prices!Below(table[i], table[j])
      BY <2>1, <2>3, <2>4, RowChosen
    <2>6. \A row : row \in Prices!Offers(table)
                      <=> \E j \in DOMAIN table : row = table[j] /\ Prices!Applies(table[j], settled)
      BY DEF Prices!Offers
    <2> HIDE DEF offered
    <2> QED
      BY Zenon, <2>2, <2>5, <2>6
  <1>2. ASSUME price_result.status = "unpriced_model"
        PROVE  Prices!Offers(overlays) = {} /\ Prices!Offers(catalogue) = {}
    <2>1. table # None /\ Prices!resolve_sku(settled) = None
      BY <1>2, SettledCases
    <2>2. table \in Seq(Prices!Sku)
      BY <2>1, MergedRows DEF PriceInv
    <2>3. \A i \in DOMAIN table : table[i] # None
      BY <2>2, PricesAssumed DEF Prices!SettlementAssumption
    <2>4. \A i \in DOMAIN table : ~Prices!Applies(table[i], settled)
      BY Zenon, <2>1, <2>2, <2>3, RowChosen
    <2>5. Prices!Offers(table) = {}
      BY <2>4 DEF Prices!Offers
    <2>6. offered = {}
      BY <2>1, <2>5, OffersOfTable
    <2>7. Prices!Offers(overlays) = {}
      BY <2>6
    <2>8. ASSUME NEW i \in DOMAIN catalogue, Prices!Applies(catalogue[i], settled)
          PROVE  FALSE
      <3>1. catalogue[i] \in Prices!Offers(catalogue)
        BY <2>8 DEF Prices!Offers
      <3>2. Prices!Key(catalogue[i]) \in Prices!OverlayKeys
        BY <2>6, <3>1
      <3>3. PICK j \in DOMAIN overlays : Prices!Key(overlays[j]) = Prices!Key(catalogue[i])
        BY <3>2 DEF Prices!OverlayKeys
      <3>4. /\ overlays[j].provider = catalogue[i].provider
            /\ overlays[j].model_match = catalogue[i].model_match
        BY <3>3 DEF Prices!Key
      <3>5. Prices!Applies(overlays[j], settled)
        BY <2>8, <3>4 DEF Prices!Applies
      <3> QED
        BY <2>7, <3>5 DEF Prices!Offers
    <2> QED
      BY <2>7, <2>8 DEF Prices!Offers
  <1> QED
    BY Zenon, <1>1, <1>2 DEF Prices!RowRight

\* With the same row, more tokens never come to less.
LEMMA TotalGrows ==
  ASSUME NEW sku \in Prices!Sku, NEW less \in Prices!Usage, NEW more \in Prices!Usage,
         more.cache_read = less.cache_read, more.cache_creation = less.cache_creation,
         more.input >= less.input, more.output >= less.output
  PROVE  Prices!Priced(sku, less).micros <= Prices!Priced(sku, more).micros
  <1>1. /\ sku.input \in Nat /\ sku.output \in Nat
    BY DEF Prices!Sku
  <1>2. /\ Prices!Fresh(less) \in Nat /\ Prices!Fresh(more) \in Nat
        /\ Prices!Fresh(less) <= Prices!Fresh(more)
    BY DEF Prices!Usage, Prices!Fresh, Prices!AtLeast0
  <1>3. /\ Prices!AtLeast0(less.output) \in Nat /\ Prices!AtLeast0(more.output) \in Nat
        /\ Prices!AtLeast0(less.output) <= Prices!AtLeast0(more.output)
    BY DEF Prices!Usage, Prices!AtLeast0
  <1>4. FreshItem(sku, less) <= FreshItem(sku, more)
    <2>1. /\ sku.input * Prices!Fresh(less) <= sku.input * Prices!Fresh(more)
          /\ sku.input * Prices!Fresh(less) = Prices!Fresh(less) * sku.input
      BY <1>1, <1>2, ProductGrows
    <2>2. sku.input * Prices!Fresh(more) = Prices!Fresh(more) * sku.input
      BY <1>1, <1>2, ProductGrows
    <2> QED
      BY <2>1, <2>2 DEF FreshItem
  <1>5. OutputItem(sku, less) <= OutputItem(sku, more)
    <2>1. /\ sku.output * Prices!AtLeast0(less.output) <= sku.output * Prices!AtLeast0(more.output)
          /\ sku.output * Prices!AtLeast0(less.output) = Prices!AtLeast0(less.output) * sku.output
      BY <1>1, <1>3, ProductGrows
    <2>2. sku.output * Prices!AtLeast0(more.output) = Prices!AtLeast0(more.output) * sku.output
      BY <1>1, <1>3, ProductGrows
    <2> QED
      BY <2>1, <2>2 DEF OutputItem
  <1>6. ReadItem(sku, less) = ReadItem(sku, more) /\ WrittenItem(sku, less) = WrittenItem(sku, more)
    BY DEF ReadItem, WrittenItem
  <1>7. \A used \in {less, more} :
           /\ FreshItem(sku, used) \in Nat /\ ReadItem(sku, used) \in Nat
           /\ WrittenItem(sku, used) \in Nat /\ OutputItem(sku, used) \in Nat
           /\ ItemTotal(sku, used) \in Nat
           /\ Prices!Priced(sku, used) = Prices!Cost(ItemTotal(sku, used))
    BY PricedTotal
  <1>8. /\ Rounded(FreshItem(sku, less)) <= Rounded(FreshItem(sku, more))
        /\ Rounded(OutputItem(sku, less)) <= Rounded(OutputItem(sku, more))
    BY <1>4, <1>5, <1>7, RoundingClose
  <1>9. \A used \in {less, more} :
           /\ Rounded(FreshItem(sku, used)) \in Nat /\ Rounded(ReadItem(sku, used)) \in Nat
           /\ Rounded(WrittenItem(sku, used)) \in Nat /\ Rounded(OutputItem(sku, used)) \in Nat
    BY <1>7, RoundingClose
  <1>10. ItemTotal(sku, less) <= ItemTotal(sku, more)
    BY <1>6, <1>8, <1>9 DEF ItemTotal
  <1>11. MaxInt \in Nat
    BY PricesAssumed DEF Prices!SettlementAssumption
  <1> QED
    BY <1>7, <1>10, <1>11 DEF Prices!Cost

\* The prices' parts of a state change by their own steps only.
LEMMA PricesMove ==
  ASSUME [AllNext]_allVars
  PROVE  Prices!SettleNext \/ UNCHANGED Prices!settleVars
  BY DEF AllNext, Moves, allVars, priceVars, Prices!settleVars

\* The prices start with nothing merged and nothing settled.
LEMMA PricesStart == AllInit => PriceInv
  <1> SUFFICES ASSUME Prices!SettleInit PROVE PriceInv
    BY Zenon DEF AllInit, InitWith
  <1>1. PICK pair \in Catalogues : catalogue = pair[1] /\ overlays = pair[2]
    BY DEF Prices!SettleInit
  <1>2. pair \in Seq(Prices!Sku) \X Seq(Prices!Sku)
    BY PricesAssumed DEF Prices!SettlementAssumption
  <1>3. catalogue \in Seq(Prices!Sku) /\ overlays \in Seq(Prices!Sku)
    BY <1>1, <1>2
  <1> QED
    BY <1>3 DEF PriceInv, Prices!SettleInit

\* What settle() answers under a table.
SettleUnder(rows, used) ==
    LET fit == {i \in DOMAIN rows : Prices!Applies(rows[i], used)}
        best == {i \in fit : \A j \in fit : ~Prices!Below(rows[i], rows[j])}
        sku == IF fit = {} THEN None ELSE rows[CHOOSE i \in best : \A j \in best : j <= i]
    IN IF rows = None THEN [status |-> "disabled", cost |-> Prices!Cost(0), sku |-> None]
       ELSE IF sku = None
            THEN [status |-> "unpriced_model", cost |-> Prices!Cost(0), sku |-> None]
            ELSE [status |-> "priced", cost |-> Prices!Priced(sku, used), sku |-> sku]

\* Merging and settling keep the table and the result what they are said to be.
LEMMA PricesKept == PriceInv /\ [AllNext]_allVars => PriceInv'
  <1> SUFFICES ASSUME PriceInv, [AllNext]_allVars PROVE PriceInv'
    OBVIOUS
  <1>1. CASE Prices!Activate
    BY Zenon, <1>1 DEF PriceInv, Prices!Activate
  <1>2. ASSUME NEW used \in Usages, Prices!Settle(used)
        PROVE  PriceInv'
    <2>1. /\ Prices!settle(used) = SettleUnder(table, used)
          /\ Prices!settle(settled)' = SettleUnder(table', settled')
      BY Zenon DEF SettleUnder, Prices!settle, Prices!resolve_sku
    <2>2. settled' = used /\ price_result' = Prices!settle(used)
          /\ catalogue' = catalogue /\ overlays' = overlays /\ table' = table
      BY <1>2 DEF Prices!Settle
    <2> QED
      BY Zenon, <1>2, <2>1, <2>2 DEF PriceInv
  <1>3. CASE UNCHANGED Prices!settleVars
    <2>1. /\ catalogue' = catalogue /\ overlays' = overlays /\ table' = table
          /\ settled' = settled /\ price_result' = price_result
      BY <1>3 DEF Prices!settleVars
    <2>2. /\ Prices!settle(settled) = SettleUnder(table, settled)
          /\ Prices!settle(settled)' = SettleUnder(table', settled')
      BY Zenon DEF SettleUnder, Prices!settle, Prices!resolve_sku
    <2> QED
      BY Zenon, <2>1, <2>2 DEF PriceInv
  <1> QED
    BY <1>1, <1>2, <1>3, PricesMove DEF Prices!SettleNext

\* Two calls of one model and provider are billed by the same row.
LEMMA SameRow ==
  ASSUME NEW less, NEW more, more.provider = less.provider, more.model = less.model
  PROVE  Prices!resolve_sku(more) = Prices!resolve_sku(less)
  <1>1. \A s : Prices!Applies(s, more) <=> Prices!Applies(s, less)
    BY DEF Prices!Applies
  <1> DEFINE fit(used) == {i \in DOMAIN table : Prices!Applies(table[i], used)}
  <1>2. fit(more) = fit(less)
    BY <1>1
  <1>3. \A used : Prices!resolve_sku(used) =
           LET best == {i \in fit(used) : \A j \in fit(used) : ~Prices!Below(table[i], table[j])}
           IN IF fit(used) = {} THEN None ELSE table[CHOOSE i \in best : \A j \in best : j <= i]
    BY Zenon DEF Prices!resolve_sku
  <1> HIDE DEF fit
  <1> DEFINE best(used) == {i \in fit(used) : \A j \in fit(used) : ~Prices!Below(table[i], table[j])}
  <1>5. best(more) = best(less)
    BY <1>2
  <1>6. \A used : Prices!resolve_sku(used) =
           IF fit(used) = {} THEN None
           ELSE table[CHOOSE i \in best(used) : \A j \in best(used) : j <= i]
    BY Zenon, <1>3
  <1> HIDE DEF best
  <1> DEFINE last(places) == CHOOSE i \in places : \A j \in places : j <= i
  <1>7. \A used : Prices!resolve_sku(used) = IF fit(used) = {} THEN None ELSE table[last(best(used))]
    BY Zenon, <1>6
  <1> HIDE DEF last
  <1> QED
    BY Zenon, <1>2, <1>5, <1>7

\* Settling a call that used more than the last one never costs less.
LEMMA MoreFollows == PriceInv /\ PriceInv' /\ [AllNext]_allVars => [
       (Prices!HasPrice /\ settled' # None /\ settled'.model = settled.model
         /\ settled'.provider = settled.provider
         /\ settled'.cache_read = settled.cache_read
         /\ settled'.cache_creation = settled.cache_creation
         /\ settled'.input >= settled.input /\ settled'.output >= settled.output)
        => price_result'.cost.micros >= price_result.cost.micros]_(Prices!settleVars)
  <1> SUFFICES ASSUME PriceInv, PriceInv', Prices!SettleNext,
                      Prices!HasPrice, settled' # None,
                      settled'.model = settled.model, settled'.provider = settled.provider,
                      settled'.cache_read = settled.cache_read,
                      settled'.cache_creation = settled.cache_creation,
                      settled'.input >= settled.input, settled'.output >= settled.output
               PROVE  price_result'.cost.micros >= price_result.cost.micros
    BY PricesMove
  <1> DEFINE row == Prices!resolve_sku(settled)
  <1>1. /\ settled # None /\ settled \in Prices!Usage /\ table # None /\ row \in Prices!Sku
        /\ price_result.cost = Prices!Priced(row, settled)
    BY SettledCases DEF Prices!HasPrice
  <1>2. PICK used \in Usages : Prices!Settle(used)
    BY <1>1 DEF Prices!SettleNext, Prices!Activate
  <1>3. settled' = used /\ price_result' = Prices!settle(used) /\ used \in Prices!Usage
    BY <1>2, PricesAssumed DEF Prices!Settle, Prices!SettlementAssumption
  <1>4. Prices!resolve_sku(used) = row
    BY <1>3, SameRow
  <1>5. row # None
    BY <1>1, PricesAssumed DEF Prices!SettlementAssumption
  <1> HIDE DEF row
  <1>6. Prices!settle(used) = [status |-> "priced", cost |-> Prices!Priced(row, used), sku |-> row]
    BY Zenon, <1>1, <1>4, <1>5 DEF Prices!settle
  <1>7. price_result'.cost = Prices!Priced(row, used)
    BY <1>3, <1>6
  <1>8. /\ used.cache_read = settled.cache_read /\ used.cache_creation = settled.cache_creation
        /\ used.input >= settled.input /\ used.output >= settled.output
    BY <1>3
  <1>9. Prices!Priced(row, settled).micros <= Prices!Priced(row, used).micros
    BY <1>1, <1>3, <1>8, TotalGrows
  <1>10. Prices!Priced(row, settled).micros \in Nat /\ Prices!Priced(row, used).micros \in Nat
    BY <1>1, <1>3, PricedTotal, PricesAssumed DEF Prices!Cost, Prices!SettlementAssumption
  <1> QED
    BY <1>1, <1>7, <1>9, <1>10

\* A call costs what its tokens come to at its organisation's price, up to rounding or
\* marked as out of range, and never less for more tokens (merge_pricing, resolve_sku,
\* settle, line_item, saturating_add).
THEOREM PricesAlwaysRight == AllSpec => PricedRight
  <1> QED
    BY PricesStart, PricesKept, ExactFollows, RowFollows, MoreFollows, PTL
       DEF AllSpec, PricedRight, Prices!MoreCostsMore

\* The types of the prices.
LEMMA PricesTyped == PriceInv => Prices!SettleTypeOK
  <1> SUFFICES ASSUME PriceInv PROVE Prices!SettleTypeOK
    OBVIOUS
  <1>1. MaxInt \in Nat
    BY PricesAssumed DEF Prices!SettlementAssumption
  <1>2. table = None \/ DOMAIN table \subseteq 1..(Len(catalogue) + Len(overlays))
    <2> SUFFICES ASSUME table # None
                 PROVE  DOMAIN table \subseteq 1..(Len(catalogue) + Len(overlays))
      OBVIOUS
    <2>1. table \in Seq(Prices!Sku) /\ Len(table) <= Len(catalogue) + Len(overlays)
      BY MergedRows DEF PriceInv
    <2>2. PICK n \in Nat : n = Len(table) /\ DOMAIN table = 1..n
      BY <2>1
    <2>3. PICK w \in Nat : w = Len(catalogue) + Len(overlays)
      BY DEF PriceInv
    <2> QED
      BY <2>1, <2>2, <2>3
  <1>3. \A x \in Nat : Prices!Cost(x).micros \in 0..MaxInt /\ Prices!Cost(x).overflow \in BOOLEAN
    BY <1>1 DEF Prices!Cost
  <1>4. ASSUME settled # None
        PROVE  /\ price_result.status \in {"disabled", "unpriced_model", "priced"}
               /\ \E x \in Nat : price_result.cost = Prices!Cost(x)
    <2>1. CASE price_result = [status |-> "disabled", cost |-> Prices!Cost(0), sku |-> None]
      BY <2>1
    <2>2. CASE price_result = [status |-> "unpriced_model", cost |-> Prices!Cost(0), sku |-> None]
      BY <2>2
    <2>3. CASE /\ Prices!resolve_sku(settled) \in Prices!Sku
               /\ price_result = [status |-> "priced",
                                  cost |-> Prices!Priced(Prices!resolve_sku(settled), settled),
                                  sku |-> Prices!resolve_sku(settled)]
      <3>1. /\ price_result.status = "priced"
            /\ price_result.cost = Prices!Priced(Prices!resolve_sku(settled), settled)
        BY <2>3
      <3>2. settled \in Prices!Usage
        BY <1>4, SettledCases
      <3> QED
        BY <2>3, <3>1, <3>2, PricedTotal
    <2> QED
      BY <1>4, <2>1, <2>2, <2>3, SettledCases
  <1>5. settled # None => /\ price_result.status \in {"disabled", "unpriced_model", "priced"}
                          /\ price_result.cost.micros \in 0..MaxInt
                          /\ price_result.cost.overflow \in BOOLEAN
    BY <1>3, <1>4
  <1> QED
    BY <1>2, <1>5 DEF Prices!SettleTypeOK, PriceInv

\* The types of the transports.
LEMMA TransportsTyped == TransportsInv => Httpx!TypeOK /\ Fetch!TypeOK
  <1> SUFFICES ASSUME TransportsInv PROVE Httpx!TypeOK /\ Fetch!TypeOK
    OBVIOUS
  <1>1. Httpx!TypeOK
    BY DEF TransportsInv, HttpxInv, HttpxPlaced, HttpxEvents, Httpx!Kinds, Httpx!TypeOK
  <1>2. in_use \in Nat
    BY FS_CardinalityType DEF TransportsInv, FetchInv, BudgetCounts
  <1>3. Fetch!TypeOK
    BY <1>2 DEF TransportsInv, FetchInv, FetchPlaced, FetchEvents, Fetch!TypeOK
  <1> QED
    BY <1>1, <1>3

\* Every variable of every part keeps its type.
THEOREM ApplicationTypesHold == AllSpec => []AllTypeOK
  <1> DEFINE AppInv == RequestInv /\ TransportsInv /\ AppLifeInv /\ PriceInv
  <1>1. AllInit => AppInv
    <2>1. AllInit => AppLifeInv
      BY LifeStarts, IsolateStarts, PatchStarts DEF AllInit, InitWith, AppLifeInv
    <2> QED
      BY <2>1, RequestTypesStart, TransportsStart, PricesStart
  <1>2. AppInv /\ [AllNext]_allVars => AppInv'
    <2> SUFFICES ASSUME AppInv, [AllNext]_allVars PROVE AppInv'
      OBVIOUS
    <2>1. RequestInv'
      BY RequestTypesMove
    <2>2. TransportsInv'
      BY TransportsMove
    <2>3. AppLifeInv'
      BY AppLifeMoves
    <2>4. PriceInv'
      BY PricesKept
    <2> QED
      BY <2>1, <2>2, <2>3, <2>4
  <1>3. AppInv => AllTypeOK
    <2>1. AppLifeInv => /\ PyLife!LifeTypeOK /\ Isolate!JsLifeTypeOK
                        /\ Isolate!IsolateTypeOK /\ Patching!InstrTypeOK
      BY IsolateTyped DEF AppLifeInv, LifeInv, LifeTypes, JsKept, PatchInv, PatchTypes
    <2> QED
      BY <2>1, RequestTypesFollow, TransportsTyped, PricesTyped DEF AllTypeOK, PartsTypeOK
  <1> HIDE DEF AppInv
  <1> QED
    BY <1>1, <1>2, <1>3, PTL DEF AllSpec
================================================================================
