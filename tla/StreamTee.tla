------------------------------- MODULE StreamTee -------------------------------
(***************************************************************************)
(* The usage reader of the JavaScript SDK (captureStreamTokens in          *)
(* _stream_capture.ts): it reads its own half of the teed answer to the    *)
(* end, whatever the application does with the other half, and folds every *)
(* event into one state as it arrives.  Nothing else touches that state,   *)
(* and a chunk is handled without an await.                                *)
(***************************************************************************)
EXTENDS SseEvents

CONSTANTS MaxLines,   \* bound on the length of the stream
          EventLimit  \* MAX_STREAM_EVENT_BYTES, in lines and pieces of a line

StreamTeeAssumption == MaxLines \in Nat /\ EventLimit \in Nat \ {0}

VARIABLES
    provider,   \* vendor
    lines,      \* history: the complete lines that came
    line,       \* the line of which pieces came
    pieces,     \* how many: the end of buffer
    arrived,    \* the complete lines in buffer, with their numbers
    data,       \* dataLines, with their numbers
    usage,      \* rawInput and output of StreamUsageState
    terminal,   \* terminalSeen
    complete,
    pc,         \* "awaiting" a chunk, "chunk" coming in, "ended", "failed", "done"
    reported    \* history: what the stream_completion events said

wire == <<provider, lines, line>>
state == <<data, usage, terminal>>
vars == <<wire, pieces, arrived, state, complete, pc, reported>>

Init ==
    /\ provider \in Providers
    /\ lines = <<>> /\ line = "" /\ pieces = 0 /\ arrived = <<>>
    /\ data = <<>> /\ usage = Untallied /\ terminal = FALSE
    /\ complete = TRUE /\ pc = "awaiting" /\ reported = <<>>

-------------------------------------------------------------------------------
(* A chunk, which may end anywhere in a line. *)

ChunkArrives ==
    /\ pc = "awaiting" /\ pc' = "chunk"
    /\ UNCHANGED <<wire, pieces, arrived, state, complete, reported>>

Buffered == Len(arrived) + pieces
MoreComes == pc = "chunk" /\ Len(lines) < MaxLines /\ Buffered <= EventLimit

Piece(l) ==
    /\ MoreComes
    /\ l \in LinesOf[provider] \ {""} /\ line \in {"", l}
    /\ line' = l /\ pieces' = pieces + 1
    /\ UNCHANGED <<provider, lines, arrived, state, complete, pc, reported>>

Newline ==
    /\ MoreComes
    /\ lines' = Append(lines, line) /\ line' = ""
    /\ arrived' = Append(arrived, <<Len(lines'), line>>) /\ pieces' = 0
    /\ UNCHANGED <<provider, state, complete, pc, reported>>

\* applyOpenAIEvent and applyAnthropicEvent: a count replaces an earlier one.  Two
\* lines of data joined are not JSON.
Applied(acc) ==
    IF Len(acc.data) # 1 THEN [acc EXCEPT !.data = <<>>]
    ELSE LET n == acc.data[1][1]
             kind == acc.data[1][2]
         IN  [data |-> <<>>,
              usage |-> Usage(IF kind \in {"both", "in", "start"} THEN n ELSE acc.usage.input,
                              IF kind \in {"both", "delta"} THEN n ELSE acc.usage.output),
              terminal |-> acc.terminal \/ kind \in {"both", "in", "delta"}]

\* Mutant of ReadLine: the data of an event stays for the next one.
ReadLineKeepsData(acc, l) ==
    IF l[2] = "" THEN [Applied(acc) EXCEPT !.data = acc.data]
    ELSE IF IsData(l[2]) THEN [acc EXCEPT !.data = Append(@, l)] ELSE acc

\* One line of the loop over the buffer.
ReadLine(acc, l) ==
    IF l[2] = "" THEN Applied(acc)
    ELSE IF IsData(l[2]) THEN [acc EXCEPT !.data = Append(@, l)] ELSE acc

\* The loop.
ReadLines(acc, ls) == FoldLeft(ReadLine, acc, ls)

Accumulated == [data |-> data, usage |-> usage, terminal |-> terminal]
Becomes(acc) == data' = acc.data /\ usage' = acc.usage /\ terminal' = acc.terminal

\* The chunk is in the buffer: give up when that is too long, else read its lines.
Abort ==
    /\ pc = "chunk" /\ Buffered > EventLimit
    /\ complete' = FALSE /\ pc' = "ended"
    /\ UNCHANGED <<wire, pieces, arrived, state, reported>>

ReadChunk ==
    /\ pc = "chunk" /\ Buffered <= EventLimit
    /\ Becomes(ReadLines(Accumulated, arrived))
    /\ arrived' = <<>> /\ pc' = "awaiting"
    /\ UNCHANGED <<wire, pieces, complete, reported>>

\* reader.read() says done, or throws.
Done ==
    /\ pc = "awaiting" /\ pc' = "ended"
    /\ UNCHANGED <<wire, pieces, arrived, state, complete, reported>>

Throws ==
    /\ pc = "awaiting" /\ pc' = "failed"
    /\ complete' = FALSE
    /\ UNCHANGED <<wire, pieces, arrived, state, reported>>

-------------------------------------------------------------------------------

\* Mutant of Final: whatever was counted is reported.
FinalAnyhow(acc) == acc.usage
\* finalizeUsage
Final(acc) == IF complete /\ acc.terminal THEN acc.usage ELSE Untallied

\* The trailing event is read unless read() threw; then the event goes to the sink.
Report ==
    /\ pc \in {"ended", "failed"}
    /\ LET acc == IF pc = "ended" THEN Applied(Accumulated) ELSE Accumulated
       IN  Becomes(acc) /\ reported' = Append(reported, Final(acc))
    /\ pc' = "done"
    /\ UNCHANGED <<wire, pieces, arrived, complete>>

Next ==
    \/ ChunkArrives \/ (\E l \in LinesOf[provider] : Piece(l)) \/ Newline
    \/ Abort \/ ReadChunk \/ Done \/ Throws \/ Report

Spec == Init /\ [][Next]_vars

-------------------------------------------------------------------------------

TypeOK ==
    /\ provider \in Providers
    /\ lines \in Seq(LinesOf[provider]) /\ line \in LinesOf[provider]
    /\ pieces \in 0..EventLimit + 1
    /\ {arrived, data} \subseteq Seq((1..MaxLines) \X LinesOf[provider])
    /\ {usage.input, usage.output} \subseteq 0..MaxLines
    /\ {terminal, complete} \subseteq BOOLEAN
    /\ pc \in {"awaiting", "chunk", "ended", "failed", "done"}
    /\ Len(reported) <= 1

\* What is reported of a stream is what a reader of all its lines would have
\* counted field by field, wherever the chunks ended, and nothing is reported of
\* one that broke off or whose buffer grew too long (captureStreamTokens).
TeeHonest ==
    \A n \in 1..Len(reported) :
       reported[n] = IF complete THEN FieldwiseTally(provider, lines) ELSE Untallied
===============================================================================
