------------------------------- MODULE LogText -------------------------------
(***************************************************************************)
(* What the readers of agent-term compute from the bytes of one log file:  *)
(* the bounded reads of `tail` (tail.rs), the blocks of `grep` (grep.rs),  *)
(* byte ranges of `slice` (slice.rs), the recent window of `summary`       *)
(* (summary.rs) and the escape stripper (pty.rs).                          *)
(*                                                                         *)
(* A file is a sequence of bytes.  Only the bytes the code looks at have   *)
(* names; "m" stands for all others, which are final bytes of a CSI        *)
(* sequence as "[", "]" and BSL, the backslash, are.  Offsets count from   *)
(* 0, as in the code: the byte at offset p is f[p + 1].                    *)
(***************************************************************************)
EXTENDS Naturals, SequencesExt

CONSTANTS
  Chunk,   \* bytes per read: the 4096 of the seeks, READ_CHUNK of the rest
  None     \* an option that was not given, a prefix that is not there

ASSUME ChunkAssumption == Chunk \in Nat \ {0}
ASSUME NoneAssumption == None \notin Nat /\ None \notin [ts : Nat, body : Nat]

NL == "nl"
ESC == "esc"
BEL == "bel"
BSL == "bsl"
Digits == <<"1", "2", "3", "4", "5", "6", "7", "8", "9">>
FinalBytes == {"m", "[", "]", BSL}

-----------------------------------------------------------------------------
(* Lines. *)

Newlines(f) == {i \in DOMAIN f : f[i] = NL}

From(f, p) == SubSeq(f, p + 1, Len(f))

Rank(S, x) == Cardinality({y \in S : y <= x})

\* a finite set of naturals, smallest first
Ascending(S) ==
  [k \in 1 .. Cardinality(S) |-> CHOOSE x \in S : Rank(S, x) = k]

\* the elements of s at these places, in their order
Picked(s, S) ==
  LET places == Ascending(S) IN [k \in 1 .. Cardinality(S) |-> s[places[k]]]

\* each line with its newline; the last one may lack it
SplitLines(f) ==
  LET ends == Ascending(Newlines(f) \cup (DOMAIN f \cap {Len(f)}))
  IN  [k \in DOMAIN ends |->
         SubSeq(f, IF k = 1 THEN 1 ELSE ends[k - 1] + 1, ends[k])]

\* a newline at the end stays at the end
ReverseLinesOn(f) ==
  LET cuts == Ascending(Newlines(f) \cup {0, Len(f) + 1})
      pieces == [k \in 1 .. Len(cuts) - 1 |->
                   SubSeq(f, cuts[k] + 1, cuts[k + 1] - 1)]
      joined == [k \in DOMAIN pieces |->
                   (IF k > 1 THEN <<NL>> ELSE <<>>) \o Reverse(pieces)[k]]
  IN  FlattenSeq(joined)

\* Mutant: a newline at the end is a separator like any other.
ReverseLinesBare(f) == ReverseLinesOn(f)

ReverseLines(f) ==
  CASE f = <<>>    -> <<>>
    [] Last(f) = NL -> Append(ReverseLinesOn(Front(f)), NL)
    [] OTHER       -> ReverseLinesOn(f)

-----------------------------------------------------------------------------
(* Seeking.  Each returns the offset the reads start at. *)

\* Mutant: the newline at the end of the file counts as a separator.
SeekToLastLinesAll(f, n) ==
  LET upto == {i \in Newlines(f) : Cardinality({j \in Newlines(f) : j >= i}) >= n}
  IN  IF n = 0 THEN Len(f) ELSE IF upto = {} THEN 0 ELSE Max(upto)

\* Backwards, a chunk at a time, to the n-th newline that is not the last byte.
SeekToLastLines(f, n) ==
  LET scan[at \in (0 .. Len(f)) \X (0 .. n)] ==
        LET pos == at[1]
            k == at[2]
            start == IF pos > Chunk THEN pos - Chunk ELSE 0
            seps == Ascending((Newlines(f) \ {Len(f)}) \cap (start + 1 .. pos))
        IN  IF pos = 0 THEN 0
            ELSE IF k + Len(seps) >= n THEN seps[Len(seps) - (n - k) + 1]
            ELSE scan[<<start, k + Len(seps)>>]
  IN  IF f = <<>> \/ n = 0 THEN Len(f) ELSE scan[<<Len(f), 0>>]

\* Mutant: forgets that the read may already start on a line.
SeekToLastBytesSkips(f, n) ==
  LET later == {i \in Newlines(f) : i > Len(f) - n}
  IN  IF Len(f) <= n THEN 0 ELSE IF later = {} THEN Len(f) - n ELSE Min(later)

\* Forwards from the n-th byte before the end to the start of a line.
SeekToLastBytes(f, n) ==
  LET raw == Len(f) - n
      probe[pos \in 0 .. Len(f)] ==
        IF pos = Len(f) THEN raw
        ELSE LET end == Min({pos + Chunk, Len(f)})
                 nls == Newlines(f) \cap (pos + 1 .. end)
             IN  IF nls # {} THEN Min(nls) ELSE probe[end]
  IN  IF Len(f) <= n THEN 0
      ELSE IF f[raw] = NL THEN raw ELSE probe[raw]

\* Mutant: counts the newlines of each chunk anew.
HeadLoopForgets(f, n) ==
  LET read[pos \in 0 .. Len(f)] ==
        IF pos = Len(f) THEN pos
        ELSE LET end == Min({pos + Chunk, Len(f)})
                 nls == Ascending(Newlines(f) \cap (pos + 1 .. end))
             IN  IF n \in DOMAIN nls THEN nls[n] ELSE read[end]
  IN  IF n = 0 THEN Min({Chunk, Len(f)}) ELSE read[0]

\* Forwards to the n-th newline; returns the end of what was read.  With n = 0
\* no newline is the n-th, and the loop ends after its first chunk.
HeadLoop(f, n) ==
  LET read[at \in (0 .. Len(f)) \X (0 .. n)] ==
        LET pos == at[1]
            k == at[2]
            end == Min({pos + Chunk, Len(f)})
            nls == Ascending(Newlines(f) \cap (pos + 1 .. end))
        IN  IF pos = Len(f) THEN pos
            ELSE IF n - k \in DOMAIN nls THEN nls[n - k]
            ELSE IF k + Len(nls) >= n THEN end
            ELSE read[<<end, k + Len(nls)>>]
  IN  read[<<0, 0>>]

-----------------------------------------------------------------------------
(* The escape stripper. *)

\* Mutant: whatever follows an ESC inside an OSC ends it.
StripNextHasty(state, b) ==
  CASE state = "Normal" -> IF b = ESC THEN "AfterEsc" ELSE "Normal"
    [] state = "AfterEsc" -> IF b = "[" THEN "Csi"
                             ELSE IF b = "]" THEN "Osc" ELSE "Normal"
    [] state = "Csi" -> IF b \in FinalBytes THEN "Normal" ELSE "Csi"
    [] state = "Osc" -> IF b = BEL THEN "Normal"
                        ELSE IF b = ESC THEN "OscEscPending" ELSE "Osc"
    [] state = "OscEscPending" -> "Normal"

StripNext(state, b) ==
  CASE state = "Normal" -> IF b = ESC THEN "AfterEsc" ELSE "Normal"
    [] state = "AfterEsc" -> IF b = "[" THEN "Csi"
                             ELSE IF b = "]" THEN "Osc" ELSE "Normal"
    [] state = "Csi" -> IF b \in FinalBytes THEN "Normal" ELSE "Csi"
    [] state = "Osc" -> IF b = BEL THEN "Normal"
                        ELSE IF b = ESC THEN "OscEscPending" ELSE "Osc"
    [] state = "OscEscPending" -> IF b = BSL THEN "Normal"
                                  ELSE IF b = ESC THEN "OscEscPending" ELSE "Osc"

\* a stripper fed with f: its state afterwards and the bytes it let through
Feed(stripper, f) ==
  LET one(s, b) ==
        [state |-> StripNext(s.state, b),
         out   |-> IF s.state = "Normal" /\ b # ESC THEN Append(s.out, b) ELSE s.out]
  IN  FoldLeft(one, stripper, f)

NewStripper == [state |-> "Normal", out |-> <<>>]

Strip(f) == Feed(NewStripper, f).out

-----------------------------------------------------------------------------
(* tail. *)

\* the combinations of options that tail accepts
Valid(o) ==
  LET bounded == o.lines # None \/ o.bytes # None IN
  /\ o.head # None => ~ bounded /\ ~ o.reverse /\ ~ o.follow
  /\ o.reverse => ~ o.follow /\ (bounded \/ o.window)
  /\ o.lines = None \/ o.bytes = None
  /\ o.cursor # None => ~ bounded /\ o.head = None /\ ~ o.reverse
  /\ ~ (o.json /\ o.follow)
  /\ o.window => o.cursor = None /\ ~ o.follow

Cleaned(f, o) == IF o.strip THEN Strip(f) ELSE f

\* where the bounds of o make the read begin
SeekStart(f, o) ==
  CASE o.lines # None -> SeekToLastLines(f, o.lines)
    [] o.bytes # None -> SeekToLastBytes(f, o.bytes)
    [] OTHER -> 0

\* `tail` without --json, --follow or a time window: what it prints.  With
\* --head 0 it reads nothing.
Plain(f, o) ==
  CASE o.cursor # None -> Cleaned(From(f, o.cursor), o)
    [] o.head # None ->
         Cleaned(SubSeq(f, 1, IF o.head = 0 THEN 0 ELSE HeadLoop(f, o.head)), o)
    [] o.reverse -> ReverseLines(Cleaned(From(f, SeekStart(f, o)), o))
    [] OTHER -> Cleaned(From(f, SeekStart(f, o)), o)

ReadStart(f, o) == IF o.cursor # None THEN o.cursor ELSE SeekStart(f, o)

ReadEnd(f, o) == IF o.head # None THEN HeadLoop(f, o.head) ELSE Len(f)

EnvelopeOf(start, content, next) ==
  [cursor_start |-> start, content |-> content,
   lines_emitted |-> Cardinality(Newlines(content)), cursor |-> next]

\* Mutant: reverses first and strips the result.
EnvelopeStripsLast(f, o) ==
  LET start == ReadStart(f, o)
      raw == SubSeq(f, start + 1, ReadEnd(f, o))
      content == Cleaned(IF o.reverse THEN ReverseLines(raw) ELSE raw, o)
  IN  EnvelopeOf(start, content,
                 IF o.head # None THEN start + Len(content) ELSE Len(f))

\* Mutant: every read says that the next one starts at the end of the file.
EnvelopeAtEnd(f, o) ==
  LET start == ReadStart(f, o)
      clean == Cleaned(SubSeq(f, start + 1, ReadEnd(f, o)), o)
  IN  EnvelopeOf(start, IF o.reverse THEN ReverseLines(clean) ELSE clean, Len(f))

\* `tail --json`, for a cursor that is not past the end
Envelope(f, o) ==
  LET start == ReadStart(f, o)
      clean == Cleaned(SubSeq(f, start + 1, ReadEnd(f, o)), o)
      content == IF o.reverse THEN ReverseLines(clean) ELSE clean
  IN  EnvelopeOf(start, content,
                 IF o.head # None THEN start + Len(content) ELSE Len(f))

-----------------------------------------------------------------------------
(* Time: the prefix of a line, windows over stamped lines, caps on them. *)

BodyStart(line, close) ==
  IF close < Len(line) /\ line[close + 1] = " " THEN close + 1 ELSE close

\* the time a line says it was written at, and the offset of its body
ParseMsPrefix(line) ==
  LET closes == {j \in DOMAIN line : line[j] = "]"}
      inner == SubSeq(line, 2, Min(closes) - 1)
      value(v, b) == 10 * v + CHOOSE d \in DOMAIN Digits : Digits[d] = b
  IN  IF /\ line # <<>> /\ line[1] = "[" /\ closes # {}
         /\ inner # <<>> /\ Range(inner) \subseteq Range(Digits)
      THEN [ts |-> FoldLeft(value, 0, inner), body |-> BodyStart(line, Min(closes))]
      ELSE None

Stamped(line) == ParseMsPrefix(line) # None

Complete(line) == Last(line) = NL

Early(ts, since) == since # None /\ ts < since
Late(ts, until) == until # None /\ ts > until

\* the places of `lines` that a loop sees which stops at the first line after the
\* window
UpToLate(lines, since, until) ==
  LET late == {k \in DOMAIN lines :
                 LET p == ParseMsPrefix(lines[k])
                 IN  p # None /\ ~ Early(p.ts, since) /\ Late(p.ts, until)}
  IN  {k \in DOMAIN lines : \A j \in late : k < j}

\* the places of the complete lines with a prefix
StampedLines(f) ==
  LET lines == SplitLines(f)
  IN  {k \in DOMAIN lines : Complete(lines[k]) /\ Stamped(lines[k])}

\* the complete stamped lines of a window, up to the first one after it
FilterTimeWindow(f, since, until, keep) ==
  LET lines == SplitLines(f)
      seen == StampedLines(f) \cap UpToLate(lines, since, until)
      kept == Picked(lines, {k \in seen : ~ Early(ParseMsPrefix(lines[k]).ts, since)})
  IN  [k \in DOMAIN kept |->
         IF keep THEN kept[k] ELSE From(kept[k], ParseMsPrefix(kept[k]).body)]

\* Mutant: the line that goes over the byte count is kept too.
KeepFromLoose(lines, n) ==
  Min({Len(lines) + 1} \cup
      {k \in DOMAIN lines : Len(FlattenSeq(SubSeq(lines, k + 1, Len(lines)))) <= n})

\* the first of the trailing lines that together have no more than n bytes
KeepFrom(lines, n) ==
  Min({Len(lines) + 1} \cup
      {k \in DOMAIN lines : Len(FlattenSeq(SubSeq(lines, k, Len(lines)))) <= n})

\* --head, --lines, --bytes and --reverse on the lines of a window
PostFilterCap(lines, o) ==
  LET len == Len(lines)
      capped == CASE o.head # None -> SubSeq(lines, 1, Min({o.head, len}))
                  [] o.lines # None -> SubSeq(lines, len + 1 - Min({o.lines, len}), len)
                  [] o.bytes # None -> SubSeq(lines, KeepFrom(lines, o.bytes), len)
                  [] OTHER -> lines
  IN  IF o.reverse THEN Reverse(capped) ELSE capped

\* `tail --since --until`: None when the log has no stamped line, an error
TimeWindow(f, since, until, keep, o) ==
  IF StampedLines(f) = {} THEN None
  ELSE Cleaned(FlattenSeq(PostFilterCap(FilterTimeWindow(f, since, until, keep), o)), o)

-----------------------------------------------------------------------------
(* slice. *)

\* Mutant: both ends belong to the range.
CursorSliceClosed(f, from, to) ==
  SubSeq(f, (IF from = None THEN 0 ELSE Min({from, Len(f)})) + 1,
            IF to = None THEN Len(f) ELSE Min({to + 1, Len(f)}))

\* `slice --from-cursor --to-cursor`; both ends are clamped to the file.  Empty
\* too for the ends in the wrong order, which the code refuses.
CursorSlice(f, from, to) ==
  SubSeq(f, (IF from = None THEN 0 ELSE Min({from, Len(f)})) + 1,
            IF to = None THEN Len(f) ELSE Min({to, Len(f)}))

\* `slice --from --to`: without either, and without a stamped line, the file
TimeSlice(f, from, to, keep) ==
  CASE StampedLines(f) # {} -> FlattenSeq(FilterTimeWindow(f, from, to, keep))
    [] from = None /\ to = None -> f
    [] OTHER -> None

-----------------------------------------------------------------------------
(* grep. *)

\* a regular expression stands for the bytes it asks for
IsMatch(pattern, s) ==
  \E i \in 0 .. Len(s) - Len(pattern) : SubSeq(s, i + 1, i + Len(pattern)) = pattern

\* Mutant: under a time filter, lines without a prefix are searched as well.
InTimeLax(p, since) == p = None \/ ~ Early(p.ts, since)

InTime(p, since) == p # None /\ ~ Early(p.ts, since)

\* without the newline at its end
Chomp(s) == IF s # <<>> /\ Complete(s) THEN Front(s) ELSE s

\* The indices, from 0, of the lines that match; the limit is looked at after a
\* hit has been taken.
CollectHits(f, o) ==
  LET lines == SplitLines(f)
      timed == o.since # None \/ o.until # None
      body(line, p) == IF o.full \/ p = None THEN line ELSE From(line, p.body)
      hit(line) == LET p == ParseMsPrefix(line)
                   IN  /\ timed => InTime(p, o.since)
                       /\ IsMatch(o.pattern, Chomp(body(line, p)))
      found == Ascending({k \in UpToLate(lines, o.since, o.until) : hit(lines[k])})
      limit == IF o.limit = None THEN Len(found) ELSE Max({o.limit, 1})
  IN  [k \in 1 .. Min({limit, Len(found)}) |-> found[k] - 1]

\* Mutant: blocks that touch stay apart.
CoalesceWindowsStrict(hits, total, around) ==
  LET window(h) == [start |-> IF h > around THEN h - around ELSE 0,
                    end |-> Min({h + around + 1, total})]
      merge(merged, h) ==
        LET w == window(h) IN
        IF merged = <<>> \/ w.start >= Last(merged).end
        THEN Append(merged, w)
        ELSE Append(Front(merged), [Last(merged) EXCEPT !.end = Max({@, w.end})])
  IN  FoldLeft(merge, <<>>, hits)

\* `grep --around`: hits are line indices from 0, in the order of the file, and
\* a block is the half-open range of lines it prints.
CoalesceWindows(hits, total, around) ==
  LET window(h) == [start |-> IF h > around THEN h - around ELSE 0,
                    end |-> Min({h + around + 1, total})]
      merge(merged, h) ==
        LET w == window(h) IN
        IF merged = <<>> \/ w.start > Last(merged).end
        THEN Append(merged, w)
        ELSE Append(Front(merged), [Last(merged) EXCEPT !.end = Max({@, w.end})])
  IN  FoldLeft(merge, <<>>, hits)

\* the blocks of a grep over f, with the lines of each
Blocks(f, o) ==
  CoalesceWindows(CollectHits(f, o), Len(SplitLines(f)), o.around)

\* Plain output: the blocks with a separator between two of them.  One stripper
\* runs through all of it, the separators excepted.
GrepPlain(f, o) ==
  LET lines == SplitLines(f)
      print(s, b) ==
        LET block == FlattenSeq(SubSeq(lines, b.start + 1, b.end))
            fed == Feed([s.stripper EXCEPT !.out = <<>>], block)
        IN  [stripper |-> fed, between |-> <<"--", NL>>,
             out |-> s.out \o s.between \o (IF o.strip THEN fed.out ELSE block)]
  IN  FoldLeft(print, [stripper |-> NewStripper, between |-> <<>>, out |-> <<>>],
               Blocks(f, o)).out

\* Mutant: numbers the lines of each block from 1.
LineNoInBlock(b, k) == k - b.start

LineNo(b, k) == k

\* --json: the hits, and the lines of each block with their numbers, from 1, and
\* whether each is a hit
GrepJson(f, o) ==
  LET lines == SplitLines(f)
      entry(s, b, k) == [line_no |-> LineNo(b, k), content |-> lines[k],
                         is_match |-> Contains(s.hits, k - 1)]
      list(s, b) ==
        [s EXCEPT !.blocks = Append(@, [k \in 1 .. b.end - b.start |->
                                          entry(s, b, b.start + k)])]
  IN  FoldLeft(list, [hits |-> CollectHits(f, o), blocks |-> <<>>], Blocks(f, o))

-----------------------------------------------------------------------------
(* summary. *)

\* Mutant: a line with an error and a warning counts as both.
ClassifyBoth(bodies, err, warn) ==
  LET count(pattern) == Cardinality({k \in DOMAIN bodies : IsMatch(pattern, bodies[k])})
  IN  [lines_scanned |-> Len(bodies), errors |-> count(err), warnings |-> count(warn)]

\* a line with both is an error only
Classify(bodies, err, warn) ==
  LET errors == {k \in DOMAIN bodies : IsMatch(err, bodies[k])}
      warnings == {k \in DOMAIN bodies \ errors : IsMatch(warn, bodies[k])}
  IN  [lines_scanned |-> Len(bodies), errors |-> Cardinality(errors),
       warnings |-> Cardinality(warnings)]

\* The complete lines in the last `max` bytes, without those stamped before
\* `since`; what is left of a line that is cut there is one without a stamp.
ScanRecent(f, since, max, err, warn) ==
  LET start == IF max >= Len(f) THEN 0 ELSE Len(f) - max
      lines == SplitLines(From(f, start))
      counted == {k \in DOMAIN lines :
                    /\ Complete(lines[k])
                    /\ Stamped(lines[k]) => ~ Early(ParseMsPrefix(lines[k]).ts, since)}
      body(line) == IF Stamped(line) THEN From(line, ParseMsPrefix(line).body) ELSE line
      places == Ascending(counted)
  IN  Classify([k \in DOMAIN places |-> body(lines[places[k]])], err, warn)

-----------------------------------------------------------------------------
(* wait. *)

\* what a wait has read, where its next line begins, and the line it has found
NewWait == [stripper |-> NewStripper, cursor |-> 0, match |-> None]

\* drain: what was appended to the log goes through the stripper, or past it
Drain(w, new, o) ==
  LET grown == [w.stripper EXCEPT !.out = @ \o new]
  IN  [w EXCEPT !.stripper = IF o.strip THEN Feed(@, new) ELSE grown]

\* the line, or what there is of it, around the first match
MatchAround(accum, pattern) ==
  LET end == Min({k \in DOMAIN accum : IsMatch(pattern, SubSeq(accum, 1, k))})
      from == Max({0} \cup {k \in Newlines(accum) : k <= end - Len(pattern)})
      upto == Min({Len(accum) + 1} \cup {k \in Newlines(accum) : k > end})
  IN  IF IsMatch(pattern, accum) THEN SubSeq(accum, from + 1, upto - 1) ELSE None

\* the lines from the cursor on that a newline ends, without it
LinesFrom(w) ==
  LET rest == From(w.stripper.out, w.cursor)
  IN  [k \in 1 .. Cardinality(Newlines(rest)) |-> Front(SplitLines(rest)[k])]

Matches(line, o) ==
  LET p == ParseMsPrefix(line)
  IN  IsMatch(o.pattern, IF o.full \/ p = None THEN line ELSE From(line, p.body))

\* Mutant: the start of a line that is not complete yet is passed over.
FindMatchHasty(w, o) ==
  LET lines == LinesFrom(w)
      hits == {k \in DOMAIN lines : Matches(lines[k], o)}
  IN  IF o.multiline THEN [w EXCEPT !.match = MatchAround(w.stripper.out, o.pattern)]
      ELSE [w EXCEPT !.cursor = Len(w.stripper.out),
                     !.match = IF hits = {} THEN None ELSE lines[Min(hits)]]

\* Line by line from the cursor, which passes complete lines only; with
\* --multiline in all that was read.
FindMatch(w, o) ==
  LET lines == LinesFrom(w)
      hits == {k \in DOMAIN lines : Matches(lines[k], o)}
      passed == SubSeq(lines, 1, IF hits = {} THEN Len(lines) ELSE Min(hits))
  IN  IF o.multiline THEN [w EXCEPT !.match = MatchAround(w.stripper.out, o.pattern)]
      ELSE [w EXCEPT !.cursor = @ + Len(FlattenSeq(passed)) + Len(passed),
                     !.match = IF hits = {} THEN None ELSE Last(passed)]
=============================================================================
