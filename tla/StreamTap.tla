------------------------------- MODULE StreamTap -------------------------------
(***************************************************************************)
(* The usage tap of a streamed answer (transports/_stream_tap.py): the     *)
(* wrapper that hands every chunk to the application and meanwhile picks   *)
(* out the events that carry token usage, and finalize(), which reports    *)
(* what capture_stream_usage (_stream_capture.py) makes of them.           *)
(*                                                                         *)
(* The stream is drawn as it arrives, in pieces smaller than a line, so    *)
(* that a chunk may end anywhere.  The reader is the thread that iterates; *)
(* the closer calls close(), from that thread while its iteration is       *)
(* suspended or, with SecondThread, from another one at any time.  What the *)
(* inner stream gives after it was closed is its own affair: more, an end  *)
(* or an error.                                                            *)
(***************************************************************************)
EXTENDS SseEvents

CONSTANTS MaxLines,      \* bound on the length of the stream
          TapLimit,      \* _MAX_TAP_BYTES, in pieces and in lines
          FrameLimit,    \* _MAX_FRAME_BYTES, in lines
          SecondThread   \* may another thread close the answer?

StreamTapAssumption ==
    /\ MaxLines \in Nat /\ TapLimit \in Nat \ {0} /\ FrameLimit \in Nat \ {0}
    /\ SecondThread \in BOOLEAN

Actors == {"reader", "closer"}

VARIABLES
    provider,
    lines,      \* history: the complete lines that have arrived
    line,       \* the line of which pieces have arrived
    came,       \* history: how many pieces of it were fed to the tap
    too_long,   \* history: more than TapLimit of one line were
    line_buf,   \* _line_buf: how many pieces of it the tap has
    cur_frame,  \* _cur_frame_lines: numbers of the lines of the current event
    frames,     \* _frames: the retained events
    retained,   \* _retained_bytes, in lines
    complete, overflow, finalized,
    pc,         \* where each actor is
    whole,      \* finalize()'s complete, of each actor
    ended,      \* history: the inner stream came to its natural end
    cut,        \* history: close() began to finalize before that end was marked
    raced,      \* history: both actors found the tap not finalized
    reported    \* history: what the stream_completion events said

tap == <<line_buf, cur_frame, frames, retained, overflow>>
wire == <<provider, lines, line, came, too_long>>
past == <<ended, cut, raced>>
vars == <<wire, tap, complete, finalized, pc, whole, past, reported>>

Init ==
    /\ provider \in Providers
    /\ lines = <<>> /\ line = "" /\ came = 0 /\ too_long = FALSE /\ line_buf = 0
    /\ cur_frame = <<>> /\ frames = <<>> /\ retained = 0
    /\ complete = FALSE /\ overflow = FALSE /\ finalized = FALSE
    /\ pc = [a \in Actors |-> "idle"]
    /\ whole = [a \in Actors |-> FALSE]
    /\ ended = FALSE /\ cut = FALSE /\ raced = FALSE
    /\ reported = <<>>

\* The reader may be interrupted by the closer only as SecondThread allows.
Reading(at) ==
    /\ pc["reader"] = at
    /\ SecondThread \/ pc["closer"] \in {"idle", "done"}
ReaderAt(to) == pc' = [pc EXCEPT !["reader"] = to]

-------------------------------------------------------------------------------
(* __iter__: take a chunk, feed it, yield it. *)

Iterate == Reading("idle") /\ ReaderAt("waiting")
           /\ UNCHANGED <<wire, tap, complete, finalized, whole, past, reported>>

\* feed() returns at once when there is nothing left to learn.
ChunkArrives ==
    /\ Reading("waiting")
    /\ ReaderAt(IF finalized \/ overflow THEN "passing" ELSE "feeding")
    /\ UNCHANGED <<wire, tap, complete, finalized, whole, past, reported>>

\* Mutant of Dispatched: retained events are not counted.
DispatchedUncounted(frame, kept, size) ==
    IF frame = <<>> \/ \A n \in 1..Len(frame) : ~Marked(frame[n][2])
    THEN [frames |-> kept, retained |-> size, overflow |-> FALSE]
    ELSE [frames |-> Append(kept, frame), retained |-> size, overflow |-> FALSE]

\* What finalize() and feed() do at the end of an event (_dispatch_frame).
Dispatched(frame, kept, size) ==
    IF frame = <<>> \/ \A n \in 1..Len(frame) : ~Marked(frame[n][2])
    THEN [frames |-> kept, retained |-> size, overflow |-> FALSE]
    ELSE IF size + Len(frame) > TapLimit
         THEN [frames |-> <<>>, retained |-> size + Len(frame), overflow |-> TRUE]
         ELSE [frames |-> Append(kept, frame), retained |-> size + Len(frame), overflow |-> FALSE]

InChunk == Reading("feeding") \/ Reading("passing")
Looked == pc["reader"] = "feeding"

\* Bound: a finalized tap looks at no further chunk, so what is in it is left out.
Arriving == InChunk /\ (Looked \/ ~finalized)

\* A piece of a line, its first or a further one.
Piece(l) ==
    /\ Arriving /\ Len(lines) < MaxLines
    /\ l \in LinesOf[provider] \ {""}
    /\ line \in {"", l}
    /\ pc["closer"] = "idle" \/ line # ""  \* bound: after close() no further line begins
    /\ line' = l
    /\ came <= TapLimit  \* bound: one piece more than the limit is too many
    /\ IF ~Looked THEN UNCHANGED <<came, too_long, line_buf>>
       ELSE /\ line_buf' = line_buf + 1 /\ came' = came + 1
            /\ too_long' = (too_long \/ came' > TapLimit)
    /\ UNCHANGED <<provider, lines, cur_frame, frames, retained, overflow,
                   complete, finalized, pc, whole, past, reported>>

\* The newline, of a blank line too.  The dispatch is one step, here as in Flush: only a
\* finalize() that raced or cut can come in between, and of such a tap the properties
\* below say nothing that would tell.
Newline ==
    /\ Arriving /\ Len(lines) < MaxLines
    /\ lines' = Append(lines, line) /\ line' = "" /\ came' = 0
    /\ IF ~Looked THEN UNCHANGED tap
       ELSE /\ line_buf' = 0
            /\ IF line_buf > 0
               THEN /\ cur_frame' = Append(cur_frame, <<Len(lines'), line>>)
                    /\ UNCHANGED <<frames, retained, overflow>>
               ELSE LET d == Dispatched(cur_frame, frames, retained)
                    IN  /\ cur_frame' = <<>>
                        /\ frames' = d.frames /\ retained' = d.retained
                        /\ overflow' = (overflow \/ d.overflow)
    /\ UNCHANGED <<provider, too_long, complete, finalized, pc, whole, past, reported>>

\* Mutant of Flooded: what is left of a chunk is always given up.
FloodedAlways(pieces) == pieces > 0
\* The chunk is used up: a line that will not end is given up.
Flooded(pieces) == pieces > TapLimit

ChunkEnds ==
    /\ InChunk /\ ReaderAt("yielded")
    /\ LET flood == Looked /\ Flooded(line_buf)
       IN  /\ line_buf' = IF flood THEN 0 ELSE line_buf
           /\ overflow' = (overflow \/ flood)
    /\ UNCHANGED <<wire, cur_frame, frames, retained,
                   complete, finalized, whole, past, reported>>

Resume == Reading("yielded") /\ ReaderAt("waiting")
          /\ UNCHANGED <<wire, tap, complete, finalized, whole, past, reported>>

\* The inner iteration is exhausted.
Ends ==
    /\ Reading("waiting")
    /\ ended' = TRUE
    /\ ReaderAt("ending")
    /\ UNCHANGED <<wire, tap, complete, finalized, whole, cut, raced, reported>>

\* Mutant of MarkComplete: a stream counts as complete however its iteration is left.
Leaves ==
    /\ Reading("waiting") \/ Reading("yielded") \/ Reading("ending")
    /\ complete' = TRUE
    /\ ReaderAt("finalize")
    /\ UNCHANGED <<wire, tap, finalized, whole, past, reported>>

\* mark_complete()
MarkComplete ==
    /\ Reading("ending")
    /\ complete' = TRUE
    /\ ReaderAt("finalize")
    /\ UNCHANGED <<wire, tap, finalized, whole, past, reported>>

\* The connection breaks (or was closed), or the application leaves its loop or
\* drops the iterator.
Abandoned ==
    /\ Reading("waiting") \/ Reading("yielded")
    /\ ReaderAt("finalize")
    /\ UNCHANGED <<wire, tap, complete, finalized, whole, past, reported>>

-------------------------------------------------------------------------------
(* close() and finalize(). *)

\* Closes the inner stream, also when the iteration is over or never began.
Close ==
    /\ pc["closer"] = "idle"
    /\ SecondThread \/ pc["reader"] \in {"idle", "yielded", "done"}
    /\ pc' = [pc EXCEPT !["closer"] = "finalize"]
    /\ UNCHANGED <<wire, tap, complete, finalized, whole, past, reported>>

MayStep(a) == SecondThread \/ a = "closer" \/ pc["closer"] \in {"idle", "done"}

At(a, from) == pc[a] = from /\ MayStep(a)
Goes(a, to) == pc' = [pc EXCEPT ![a] = to]

\* What finding the tap not finalized tells.
Found(a) ==
    /\ raced' = (raced \/ (~finalized /\ \E b \in Actors \ {a} : pc[b] = "claiming"))
    /\ cut' = (cut \/ (a = "closer" /\ ~finalized /\ ~complete))
    /\ UNCHANGED <<wire, tap, complete, finalized, whole, ended, reported>>

\* Mutant of Look: the flag is not consulted.
LookAway(a) == At(a, "finalize") /\ Goes(a, "claiming") /\ Found(a)

\* "if self._finalized: return", a read that another thread may follow with its own.
Look(a) == At(a, "finalize") /\ Goes(a, IF finalized THEN "done" ELSE "claiming") /\ Found(a)

Claim(a) ==
    /\ At(a, "claiming") /\ Goes(a, "flushing")
    /\ finalized' = TRUE
    /\ UNCHANGED <<wire, tap, complete, whole, past, reported>>

\* An event that no blank line ended is dispatched.
Flush(a) ==
    /\ At(a, "flushing") /\ Goes(a, "judging")
    /\ cur_frame' = <<>>
    /\ LET d == Dispatched(cur_frame, frames, retained)
       IN  /\ frames' = d.frames /\ retained' = d.retained
           /\ overflow' = (overflow \/ d.overflow)
    /\ UNCHANGED <<wire, line_buf, complete, finalized, whole, past, reported>>

Judge(a) ==
    /\ At(a, "judging") /\ Goes(a, "capturing")
    /\ whole' = [whole EXCEPT ![a] = complete /\ ~overflow]
    /\ UNCHANGED <<wire, tap, complete, finalized, past, reported>>

\* The data of a retained event, if it is JSON and the event not too large to parse.
Payload(frame) ==
    LET data == {n \in 1..Len(frame) : IsData(frame[n][2])}
    IN  IF Len(frame) <= FrameLimit /\ Cardinality(data) = 1
        THEN frame[CHOOSE n \in data : TRUE] ELSE <<NoCount, "">>

CaptureOpenAI(kept) ==
    LET usages == {n \in 1..Len(kept) : Payload(kept[n])[2] \in {"both", "in"}}
        last == Payload(kept[Latest(usages)])
    IN  IF usages = {} THEN Untallied
        ELSE Usage(last[1], IF last[2] = "both" THEN last[1] ELSE NoCount)

CaptureAnthropic(kept) ==
    LET Numbers(kind) ==
            {Payload(kept[n])[1] : n \in {m \in 1..Len(kept) : Payload(kept[m])[2] = kind}}
    IN  IF Numbers("start") = {} \/ Numbers("delta") = {} THEN Untallied
        ELSE Usage(Latest(Numbers("start")), Latest(Numbers("delta")))

capture_stream_usage(kept, entire) ==
    IF ~entire THEN Untallied
    ELSE IF provider = "openai" THEN CaptureOpenAI(kept) ELSE CaptureAnthropic(kept)

Capture(a) ==
    /\ At(a, "capturing") /\ Goes(a, "done")
    /\ reported' = Append(reported, capture_stream_usage(frames, whole[a]))
    /\ UNCHANGED <<wire, tap, complete, finalized, whole, past>>

-------------------------------------------------------------------------------

Iteration ==
    \/ Iterate \/ ChunkArrives \/ (\E l \in LinesOf[provider] : Piece(l)) \/ Newline
    \/ ChunkEnds \/ Resume \/ Ends \/ MarkComplete \/ Abandoned

Finalize(a) ==
    Look(a) \/ Claim(a) \/ Flush(a) \/ Judge(a) \/ Capture(a)

Next == Iteration \/ Close \/ \E a \in Actors : Finalize(a)

Spec == Init /\ [][Next]_vars

-------------------------------------------------------------------------------

TypeOK ==
    /\ provider \in Providers
    /\ lines \in Seq(LinesOf[provider]) /\ line \in LinesOf[provider]
    /\ {came, line_buf} \subseteq 0..TapLimit + 1 /\ retained \in Nat
    /\ {complete, overflow, finalized, too_long, ended, cut, raced} \subseteq BOOLEAN
    /\ cur_frame \in Seq((1..MaxLines) \X LinesOf[provider])
    /\ frames \in Seq(Seq((1..MaxLines) \X LinesOf[provider]))
    /\ pc \in [Actors -> {"idle", "waiting", "feeding", "passing", "yielded", "ending",
                          "finalize", "claiming", "flushing", "judging", "capturing",
                          "done"}]
    /\ whole \in [Actors -> BOOLEAN]
    /\ Len(reported) <= 2

\* The tap was finalized once, and not before the end of a stream that has one.
Solo == ~cut /\ ~raced

\* A stream is reported once, unless two threads looked at the flag before either
\* set it (finalize).  Usage is reported only of a stream that was read to its
\* natural end.  Unless a close() began before that end was marked, or two threads
\* raced: it is what a reader of the whole stream would have counted that skips the
\* events over the limit of _parse_frame, wherever the chunks ended; a stream read to
\* its end is given up on only when it is said to be too large; and that is said only
\* of one with a line, or with marked events, over the limit (feed, _dispatch_frame).
TapHonest ==
    /\ Len(reported) > 1 => raced
    /\ \A n \in 1..Len(reported) : reported[n] # Untallied =>
          ended /\ (Solo => reported[n] = Tally(provider, lines, FrameLimit))
    /\ Solo /\ ended /\ ~overflow /\ reported # <<>> =>
          reported[1] = Tally(provider, lines, FrameLimit)
    /\ Solo /\ overflow => too_long \/ retained > TapLimit

LinesIn(kept) == FoldLeft(LAMBDA n, frame : n + Len(frame), 0, kept)

\* What the tap keeps of a stream, but for the lines of the event that is still
\* coming in, stays within its limit (_MAX_TAP_BYTES), unless two threads' updates of
\* _retained_bytes may overlap.
TapBounded ==
    /\ Solo => LinesIn(frames) <= TapLimit
    /\ pc["reader"] \notin {"feeding", "passing"} => line_buf <= TapLimit
===============================================================================
