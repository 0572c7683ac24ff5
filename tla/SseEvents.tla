------------------------------- MODULE SseEvents -------------------------------
(***************************************************************************)
(* The server-sent events of a provider's answer, as far as the two SDKs'  *)
(* readers of token usage tell them apart: a stream is a sequence of       *)
(* lines, and a blank line ends an event.  A line stands for the fields    *)
(* that arrive together:                                                   *)
(*   "note"     a comment or a field other than data                       *)
(*   "text"     data without the marker "usage"                            *)
(*   "mention"  data with the marker, but no usage object                  *)
(*   "both"     OpenAI usage with prompt and completion tokens             *)
(*   "in"       OpenAI usage with prompt tokens only                       *)
(*   "start"    Anthropic message_start, with the input tokens             *)
(*   "delta"    Anthropic message_delta, with the output tokens            *)
(* The data lines of an event are joined and parsed as JSON: two of them   *)
(* are not JSON.  A count is known by the line it was read from.           *)
(***************************************************************************)
EXTENDS Naturals, Sequences, FiniteSets, SequencesExt

Providers == {"openai", "anthropic"}
LinesOf == [openai |-> {"", "note", "text", "mention", "both", "in"},
            anthropic |-> {"", "note", "text", "mention", "start", "delta"}]

IsData(l) == l \notin {"", "note"}
Marked(l) == l \notin {"", "note", "text"}

NoCount == 0
Usage(input, output) == [input |-> input, output |-> output]
Untallied == Usage(NoCount, NoCount)

\* The largest element of a set of line numbers, NoCount if there is none.
Latest(S) == IF S = {} THEN NoCount ELSE CHOOSE i \in S : \A j \in S : j <= i

-------------------------------------------------------------------------------
(* What a reader of the whole stream would say. *)

SameEvent(lines, i, j) ==
    \A k \in DOMAIN lines : (i <= k /\ k <= j) \/ (j <= k /\ k <= i) => lines[k] # ""

\* Line i is all the data of its event.
Sole(lines, i) ==
    /\ IsData(lines[i])
    /\ \A j \in DOMAIN lines : j # i /\ SameEvent(lines, i, j) => ~IsData(lines[j])

Soles(lines, kinds) == {i \in DOMAIN lines : lines[i] \in kinds /\ Sole(lines, i)}

\* The event of line i has no more than limit lines.
Within(lines, i, limit) ==
    \A j, k \in DOMAIN lines : SameEvent(lines, i, j) /\ SameEvent(lines, i, k) => k < j + limit

Counted(lines, kinds, limit) == {i \in Soles(lines, kinds) : Within(lines, i, limit)}

\* A reader that skips the events of more than limit lines.  OpenAI: the last usage
\* object counts.  Anthropic: the input of message_start and the last output, both of
\* which there have to be.
Tally(provider, lines, limit) ==
    IF provider = "openai"
    THEN LET last == Latest(Counted(lines, {"both", "in"}, limit))
         IN  Usage(last, IF last # NoCount /\ lines[last] = "both" THEN last ELSE NoCount)
    ELSE LET start == Latest(Counted(lines, {"start"}, limit))
             delta == Latest(Counted(lines, {"delta"}, limit))
         IN  IF NoCount \in {start, delta} THEN Untallied ELSE Usage(start, delta)

\* A reader that takes every event, keeps every count until a newer one comes, and
\* asks of Anthropic for the output only.
FieldwiseTally(provider, lines) ==
    LET input == Latest(Soles(lines, {"both", "in", "start"}))
        output == Latest(Soles(lines, {"both", "delta"}))
    IN  IF provider = "anthropic" /\ output = NoCount THEN Untallied ELSE Usage(input, output)
===============================================================================
