------------------------------ MODULE MCLogText ------------------------------
(***************************************************************************)
(* What the readers' functions promise, stated of the file as it is at any *)
(* moment, for every option value that fits the instance.                  *)
(***************************************************************************)
EXTENDS LogText

CONSTANTS
  Alphabet,  \* the bytes the child prints
  Letters,   \* those of them that are no part of an escape sequence
  MaxLen,    \* bound: bytes in the file
  MaxLetters \* bound: the same for a file of letters only

ASSUME BoundsAssumption == MaxLen \in Nat /\ MaxLetters \in Nat
\* no line is taken for the absence of one (an Option of a line in the code)
ASSUME LineAssumption == None \notin Seq(Alphabet)

VARIABLE log   \* the bytes of the file when a reader opens it

Init == log = <<>>

\* the daemon's writer appends what the child prints; no rotation comes between
\* the opening and the end of a read
WriteRaw(b) ==
  /\ log' = Append(log, b)
  /\ \/ Len(log) < MaxLen
     \/ Len(log) < MaxLetters /\ Range(log') \subseteq Letters

Next == \E b \in Alphabet : WriteRaw(b)

Spec == Init /\ [][Next]_log

-----------------------------------------------------------------------------

Counts == 0 .. MaxLen

\* the options of one call; tail runs what Valid accepts
Optional == {None} \cup 0 .. 3
Calls ==
  {o \in [lines : Optional, bytes : Optional, head : Optional, cursor : Optional,
          reverse : BOOLEAN, strip : BOOLEAN, json : {FALSE}, follow : {FALSE},
          window : {FALSE}] : Valid(o)}

\* the calls that a file of this length answers
CallsOn(f) == {o \in Calls : o.cursor = None \/ o.cursor <= Len(f)}

LastOf(lines, n) == SubSeq(lines, IF n >= Len(lines) THEN 1 ELSE Len(lines) - n + 1, Len(lines))

Boundaries(f) == {0} \cup Newlines(f)

\* `--lines N` prints exactly the last N lines, whatever chunks the backward
\* scan reads and whether or not the last line is complete.
LastLinesAreLast ==
  \A n \in Counts :
    From(log, SeekToLastLines(log, n)) = FlattenSeq(LastOf(SplitLines(log), n))

\* `--bytes N` starts at the first line that begins within the last N bytes, if
\* there is one; else in the middle of a line, where tail.rs:311-312 promises a
\* whole one.
LastBytesFromFirstLine ==
  \A n \in Counts :
    LET raw == IF n >= Len(log) THEN 0 ELSE Len(log) - n
        lines == {b \in Boundaries(log) : b >= raw}
    IN  lines # {} => SeekToLastBytes(log, n) = Min(lines)

\* `--head N`, for N > 0, prints exactly the first N lines, whatever the chunks.
HeadIsFirst ==
  \A n \in Counts \ {0} :
    SubSeq(log, 1, HeadLoop(log, n)) =
      FlattenSeq(SubSeq(SplitLines(log), 1, Min({n, Len(SplitLines(log))})))

\* The same options with and without --json give the same content: the two
\* paths of tail agree on order, stripping and bounds.  --head 0 is
\* left out: only the plain form prints nothing (tail.rs:820).
EnvelopeHoldsWhatIsPrinted ==
  \A o \in CallsOn(log) : o.head # 0 => Envelope(log, o).content = Plain(log, o)

\* A head read and then a read from the cursor it returned give the whole file:
\* no byte twice, none skipped.
HeadThenCursor ==
  \A h \in {o \in CallsOn(log) : o.head # None /\ ~ o.strip} :
    LET first == Envelope(log, h)
        rest == Envelope(log, [h EXCEPT !.head = None, !.cursor = first.cursor])
    IN  first.content \o rest.content = log

\* --reverse loses no line and adds none: of a file of complete lines the same
\* lines come back in the opposite order.
ReverseKeepsLines ==
  log # <<>> /\ Last(log) = NL =>
    SplitLines(ReverseLines(log)) = Reverse(SplitLines(log))

\* Cutting a byte range at any cursor and printing both parts gives the range
\* that tail prints from its start: `slice` and `tail --cursor` agree on where
\* an offset is.
SlicesMeet ==
  \A from, mid \in 0 .. Len(log) :
    from <= mid =>
      CursorSlice(log, from, mid) \o CursorSlice(log, mid, None) = From(log, from)

\* Every bounded read gives the lines it is asked for, wherever the chunks of its
\* scan are cut and whether or not the last line is complete (tail.rs:260-404,
\* 874-898).
ReadsMatchLines ==
  LastLinesAreLast /\ LastBytesFromFirstLine /\ HeadIsFirst /\ ReverseKeepsLines

\* The JSON forms hold what the plain ones print, and reads that end where others
\* begin lose and repeat nothing: a head read and the cursor it returned, and the
\* two parts of a byte range (tail.rs:820-869, slice.rs:99-150).
EnvelopesMeet == EnvelopeHoldsWhatIsPrinted /\ HeadThenCursor /\ SlicesMeet

\* The calls of wait, and what one has after the file grew between two rounds.
Waits ==
  [pattern : {<<"m", "m">>}, strip : {TRUE}, full : {FALSE}, multiline : BOOLEAN]
    \cup [pattern : {<<"m", "m">>}, strip : {FALSE}, full : {FALSE}, multiline : {FALSE}]
TwoRounds(cut, o) ==
  LET one == FindMatch(Drain(NewWait, SubSeq(log, 1, cut), o), o)
  IN  IF one.match # None THEN one ELSE FindMatch(Drain(one, From(log, cut), o), o)

\* `wait` finds the first complete line that matches, stripped or not, wherever
\* the output is cut between two of its rounds, in a line or in an escape
\* sequence; with --multiline it finds a match exactly when there is one
\* (wait.rs:167-272).
WaitFindsFirstMatch ==
  \A o \in Waits, cut \in 0 .. Len(log) :
    LET clean == Cleaned(log, o)
        lines == SplitLines(clean)
        hits == {k \in DOMAIN lines : Complete(lines[k]) /\ IsMatch(o.pattern, Front(lines[k]))}
        found == TwoRounds(cut, o).match
    IN  IF o.multiline
        THEN IF found = None THEN ~ IsMatch(o.pattern, clean) ELSE IsMatch(o.pattern, found)
        ELSE found = IF hits = {} THEN None ELSE Front(lines[Min(hits)])

\* the hits of a grep, in file order, as the lines of the file allow
HitSets == SUBSET (0 .. Len(SplitLines(log)) - 1)

\* The blocks of `grep --around A` hold exactly the lines within A of a hit;
\* they come in order, none touches the next, so a separator stands only where
\* lines were left out and no line is printed twice.  Only the number of lines
\* matters here: files of empty lines have them all.
BlocksCoverHits ==
  Range(log) \subseteq {NL} =>
  \A hits \in HitSets, around \in 0 .. 2 :
    LET total == Len(SplitLines(log))
        blocks == CoalesceWindows(Ascending(hits), total, around)
    IN  /\ UNION {blocks[k].start .. blocks[k].end - 1 : k \in DOMAIN blocks} =
             {l \in 0 .. total - 1 : \E h \in hits : l <= h + around /\ h <= l + around}
        /\ \A k \in DOMAIN blocks : k > 1 => blocks[k - 1].end < blocks[k].start

\* The searches of this instance: for "m", with a limit or none.
Searches ==
  [pattern : {<<"m">>}, since : {None}, until : {None}, full : {FALSE},
   limit : {None, 1, 2}, around : 0 .. 2, strip : {FALSE}]

\* `grep --json` and `grep` tell the same: the numbers of its lines are their
\* places in the file, exactly the hits are marked, and the contents are what
\* the plain form prints between its separators.
GrepFormsAgree ==
  Range(log) \subseteq Letters =>
  \A o \in Searches : \A json \in {GrepJson(log, o)} :
    \A listed \in {FlattenSeq(json.blocks)} :
      LET lines == SplitLines(log)
          marked == Picked(listed, {k \in DOMAIN listed : listed[k].is_match})
          contents(b) == FlattenSeq([k \in DOMAIN b |-> b[k].content])
          joined == [i \in DOMAIN json.blocks |->
                       (IF i > 1 THEN <<"--", NL>> ELSE <<>>) \o contents(json.blocks[i])]
      IN  /\ \A k \in DOMAIN listed :
               /\ listed[k].line_no \in DOMAIN lines
               /\ listed[k].content = lines[listed[k].line_no]
          /\ [k \in DOMAIN marked |-> marked[k].line_no - 1] = json.hits
          /\ GrepPlain(log, o) = FlattenSeq(joined)

\* Both forms of grep show each hit, its surroundings, and nothing twice
\* (grep.rs:221-310).
GrepShowsItsHits == BlocksCoverHits /\ GrepFormsAgree

\* Reference for the stripper: the sequence that an ESC at position i begins
\* ends at this position.  An OSC is not ended by a BEL right after an ESC.
SequenceEnd(f, i) ==
  LET after == i + 2 .. Len(f)
      ends == CASE i = Len(f) -> {}
                [] f[i + 1] = "[" -> {j \in after : f[j] \in FinalBytes}
                [] f[i + 1] = "]" ->
                     {j \in after : \/ f[j] = BEL /\ f[j - 1] # ESC
                                    \/ f[j] = BSL /\ f[j - 1] = ESC}
                [] OTHER -> {i + 1}
  IN  IF ends = {} THEN Len(f) ELSE Min(ends)

Outside(f) ==
  LET rest[i \in 1 .. Len(f) + 1] ==
        IF i > Len(f) THEN <<>>
        ELSE IF f[i] = ESC THEN rest[SequenceEnd(f, i) + 1]
        ELSE <<f[i]>> \o rest[i + 1]
  IN  rest[1]

\* --strip-ansi keeps exactly the bytes outside escape sequences.
StripsSequences == Strip(log) = Outside(log)

-----------------------------------------------------------------------------
(* What the documents and comments say where the code differs. *)

\* commands.md 109: `grep --strip-ansi`: "Strip colour codes before matching."
StripsBeforeMatching ==
  \A k \in 0 .. Len(SplitLines(log)) - 1 :
    IsMatch(<<"m", "m">>, Strip(SplitLines(log)[k + 1])) =
      (k \in Range(CollectHits(log, [pattern |-> <<"m", "m">>, since |-> None,
                                     until |-> None, full |-> FALSE, limit |-> None])))

=============================================================================
