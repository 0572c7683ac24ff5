--------------------------------- MODULE Glob ---------------------------------
(***************************************************************************)
(* The wildcard matchers of the core: url_matches and url_matches_glob of  *)
(* policy.rs, over the segments of a path, and model_matches of            *)
(* pricing.rs, over the characters of a model name.  Both run the same     *)
(* loop with two indices and a single point to go back to, the latest run  *)
(* of many-wildcards.  That one point is enough is what is checked here.   *)
(*                                                                         *)
(* Indices count from 1, and a star of 0 is the code's None.               *)
(***************************************************************************)
EXTENDS Integers, SequencesExt

CONSTANTS Names,     \* literal segments, or characters
          Blank,     \* the empty segment that a trailing slash leaves
          One,       \* matches one segment: "*" in a path
          Many,      \* matches any number: "**" in a path, "*" in a model name
          Patterns,  \* patterns as written
          Texts      \* texts to match

ASSUME GlobAssumption ==
    /\ One \notin Names /\ Many \notin Names /\ One # Many /\ Blank \in Names
    /\ Patterns \subseteq Seq(Names \cup {One, Many})
    /\ Texts \subseteq Seq(Names)

VARIABLES
    raw,      \* the pattern as written
    pattern,  \* the pattern as parsed
    text,
    pc,       \* "start", "loop" or "done"
    p, t,     \* the next segments of the pattern and of the text
    star,     \* where the pattern goes on after the latest run, or 0
    mark,     \* the first segment of the text that this run leaves
    result    \* "none" before the end, then "yes" or "no"

input == <<raw, pattern, text>>
matchVars == <<raw, pattern, text, pc, p, t, star, mark, result>>

-------------------------------------------------------------------------------
\* Mutant of Added: a wildcard that follows a many-wildcard is dropped, of
\* whichever kind.
AddedAny(segments, seg) ==
    IF segments # <<>> /\ seg \in {One, Many} /\ Last(segments) = Many
    THEN segments ELSE Append(segments, seg)

\* A many-wildcard that follows another is dropped.
Added(segments, seg) ==
    IF segments # <<>> /\ seg = Many /\ Last(segments) = Many
    THEN segments ELSE Append(segments, seg)

parse_pattern(written) == FoldLeft(Added, <<>>, written)

\* One segment of a pattern, not a many-wildcard, takes one segment of a text.
Fits(seg, s) == seg # Many /\ (seg = One \/ seg = s)

\* Mutant of SkipRun: the segment behind the run is skipped too.
SkipRunPast(pat, i) ==
    1 + CHOOSE q \in i .. Len(pat) + 1 :
            /\ q = Len(pat) + 1 \/ pat[q] # Many
            /\ \A k \in i .. q - 1 : pat[k] = Many

\* The end of the run of many-wildcards that begins at i, i itself if none does.
SkipRun(pat, i) ==
    CHOOSE q \in i .. Len(pat) + 1 :
        /\ q = Len(pat) + 1 \/ pat[q] # Many
        /\ \A k \in i .. q - 1 : pat[k] = Many

\* The URL without its final slash.
Normalized(url) ==
    IF Len(url) > 1 /\ url[Len(url)] = Blank
    THEN SubSeq(url, 1, Len(url) - 1) ELSE url

Start ==
    /\ p = 1 /\ t = 1 /\ star = 0 /\ mark = 1 /\ result = "none"

\* url_matches is called with a parsed pattern; splitting a URL gives at least
\* one segment.
UrlInit ==
    /\ raw \in Patterns \ {<<>>} /\ pattern = parse_pattern(raw)
    /\ \E url \in Texts \ {<<>>} : text = Normalized(url)
    /\ pc = "start" /\ Start

\* model_matches works on the pattern as written, where only Many is special.
ModelInit ==
    /\ raw \in {pat \in Patterns : \A i \in 1 .. Len(pat) : pat[i] # One}
    /\ pattern = raw /\ text \in Texts
    /\ pc = "loop" /\ Start

MatchInit == UrlInit \/ ModelInit

-------------------------------------------------------------------------------
Return(answer) ==
    /\ pc' = "done" /\ result' = (IF answer THEN "yes" ELSE "no")
    /\ UNCHANGED <<star, mark, t>> /\ UNCHANGED input

\* Either wildcard alone matches every URL.
CatchAll ==
    /\ pc = "start" /\ pattern \in {<<One>>, <<Many>>}
    /\ Return(TRUE) /\ UNCHANGED p

\* Without a many-wildcard the segments are compared one by one.
SegmentBySegment ==
    /\ pc = "start" /\ pattern \notin {<<One>>, <<Many>>}
    /\ \A i \in 1 .. Len(pattern) : pattern[i] # Many
    /\ Return(/\ Len(text) = Len(pattern)
              /\ \A i \in 1 .. Len(pattern) : Fits(pattern[i], text[i]))
    /\ UNCHANGED p

UseGlob ==
    /\ pc = "start" /\ pattern \notin {<<One>>, <<Many>>}
    /\ \E i \in 1 .. Len(pattern) : pattern[i] = Many
    /\ pc' = "loop"
    /\ UNCHANGED <<p, t, star, mark, result>> /\ UNCHANGED input

\* The branches of the loop, over what is left of the text.
AtFit == p <= Len(pattern) /\ Fits(pattern[p], text[t])
AtMany == p <= Len(pattern) /\ pattern[p] = Many
InLoop == pc = "loop" /\ t <= Len(text)

Consume ==
    /\ InLoop /\ AtFit
    /\ p' = p + 1 /\ t' = t + 1
    /\ UNCHANGED <<pc, star, mark, result>> /\ UNCHANGED input

\* Mutant of EnterRun: the first run stays the point to go back to.
EnterRunFirst ==
    /\ InLoop /\ AtMany
    /\ p' = SkipRun(pattern, p)
    /\ star' = (IF star = 0 THEN p' ELSE star)
    /\ mark' = (IF star = 0 THEN t ELSE mark)
    /\ pc' = IF p' = Len(pattern) + 1 THEN "done" ELSE "loop"
    /\ result' = IF p' = Len(pattern) + 1 THEN "yes" ELSE result
    /\ UNCHANGED t /\ UNCHANGED input

\* A run takes no segment at first; the last of the pattern takes all.
EnterRun ==
    /\ InLoop /\ AtMany
    /\ p' = SkipRun(pattern, p) /\ star' = p' /\ mark' = t
    /\ pc' = IF p' = Len(pattern) + 1 THEN "done" ELSE "loop"
    /\ result' = IF p' = Len(pattern) + 1 THEN "yes" ELSE result
    /\ UNCHANGED t /\ UNCHANGED input

\* Mutant of Backtrack: the run takes no further segment.
BacktrackIdle ==
    /\ InLoop /\ ~AtFit /\ ~AtMany /\ star # 0
    /\ p' = star /\ mark' = mark /\ t' = mark
    /\ UNCHANGED <<pc, star, result>> /\ UNCHANGED input

\* After a mismatch the latest run takes one segment more.
Backtrack ==
    /\ InLoop /\ ~AtFit /\ ~AtMany /\ star # 0
    /\ p' = star /\ mark' = mark + 1 /\ t' = mark + 1
    /\ UNCHANGED <<pc, star, result>> /\ UNCHANGED input

Fail ==
    /\ InLoop /\ ~AtFit /\ ~AtMany /\ star = 0
    /\ Return(FALSE) /\ UNCHANGED p

\* Behind the text only many-wildcards may be left.
Finish ==
    /\ pc = "loop" /\ t > Len(text)
    /\ p' = SkipRun(pattern, p)
    /\ Return(p' = Len(pattern) + 1)

MatchNext ==
    \/ CatchAll \/ SegmentBySegment \/ UseGlob
    \/ Consume \/ EnterRun \/ Backtrack \/ Fail \/ Finish

MatchSpec == MatchInit /\ [][MatchNext]_matchVars

-------------------------------------------------------------------------------
(***************************************************************************)
(* What a match is: the segments i..q-1 of the pattern take, one after the *)
(* other, the segments x..y-1 of the text; f[i] is the first that segment  *)
(* i takes.                                                                *)
(***************************************************************************)
Takes(pat, txt, i, from, to) ==
    IF pat[i] = Many THEN from <= to
    ELSE from <= Len(txt) /\ to = from + 1 /\ Fits(pat[i], txt[from])

Aligned(pat, txt, i, x, q, y) ==
    \E f \in [i .. q -> 1 .. Len(txt) + 1] :
        /\ f[i] = x /\ f[q] = y
        /\ \A k \in i .. q - 1 : Takes(pat, txt, k, f[k], f[k + 1])

Matches(pat, txt) == Aligned(pat, txt, 1, 1, Len(pat) + 1, Len(txt) + 1)

\* A lone single-wildcard is a catch-all.
Means(pat, txt) == pat = <<One>> \/ Matches(pat, txt)

MatchTypeOK ==
    /\ raw \in Seq(Names \cup {One, Many})
    /\ pattern \in Seq(Names \cup {One, Many})
    /\ text \in Seq(Names)
    /\ pc \in {"start", "loop", "done"}
    /\ result \in {"none", "yes", "no"}
    /\ result = "none" <=> pc # "done"
    /\ p \in 1 .. Len(pattern) + 1 /\ t \in 1 .. Len(text) + 1
    /\ star \in 0 .. Len(pattern) + 1 /\ mark \in 1 .. Len(text) + 1

\* url_matches and model_matches answer yes exactly when the pattern can be
\* laid along the text, although they only ever go back to the latest run.
FindsMatch == pc = "done" => (result = "yes" <=> Means(pattern, text))

\* Collapsing runs of many-wildcards in parse_pattern changes no answer.
ParsingKeepsMeaning == pc = "done" => (Means(pattern, text) <=> Means(raw, text))

\* url_matches_glob runs in O(pattern * url) steps, as its comment promises:
\* every turn of the loop moves the mark on, or the pattern index under the
\* same mark.
Advances ==
    [][pc = "loop" => \/ pc' = "done"
                      \/ mark' > mark
                      \/ mark' = mark /\ p' > p]_matchVars
===============================================================================
