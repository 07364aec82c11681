----------------------------- MODULE MCTimedLog ------------------------------
(***************************************************************************)
(* Instances of TimedLog, and what tail, slice and grep promise of a log   *)
(* with timestamps.                                                        *)
(***************************************************************************)
EXTENDS TimedLog

Times == {None} \cup 1 .. MaxTime

In(t, since, until) == (since = None \/ since <= t) /\ (until = None \/ t <= until)

\* The early stop of the filter (tail.rs:643) is right as long as the wall clock
\* was never set back between two lines.
InOrder == \A k \in DOMAIN said : k > 1 => said[k - 1].at <= said[k].at

\* No line only looks stamped: the child prints no bracket where no stamp goes
\* before it.
Unforged == "[" \notin Text \/ unstamped = 0

\* The lines of a time window are, in order and byte for byte, those that began
\* in it, of all the lines that were stamped and are complete: stamping over any
\* chunks and restarts, parsing, filtering and the early stop undo each other.
WindowHoldsWhatWasSaid ==
  InOrder /\ sealed = <<>> /\ Unforged =>
  \A since, until \in Times :
    LET lines == Picked(said, {k \in DOMAIN said : /\ said[k].text # <<>> /\ Complete(said[k].text)
                                                  /\ In(said[k].at, since, until)})
    IN  FilterTimeWindow(file, since, until, FALSE) =
          [k \in DOMAIN lines |-> lines[k].text]

Cap(n, reverse) ==
  [head |-> None, lines |-> None, bytes |-> n, reverse |-> reverse, strip |-> FALSE]

\* summary counts the lines `tail --since` shows and those without a stamp; its
\* errors and warnings are the lines of them that match, each counted once.  Of
\* a log longer than it reads, it may count the rest of the line it begins in.
SummaryAgrees(since, shown) ==
  LET lines == SplitLines(file)
      bare == {k \in DOMAIN lines : Complete(lines[k]) /\ ~ Stamped(lines[k])}
      body(line) == From(line, ParseMsPrefix(line).body)
      counted == Len(shown) + Cardinality(bare)
      errors == Cardinality({k \in DOMAIN shown : IsMatch(<<"m">>, body(shown[k]))})
                  + Cardinality({k \in bare : IsMatch(<<"m">>, lines[k])})
  IN  /\ ScanRecent(file, since, Len(file), <<"m">>, <<NL>>) =
           [lines_scanned |-> counted, errors |-> errors, warnings |-> counted - errors]
      /\ ScanRecent(file, since, 6, <<"m">>, <<NL>>).lines_scanned \in 0 .. counted + 1

\* the complete lines that grep finds are those shown that match
GrepAgrees(since, until, shown) ==
  \A b \in Text \ {NL} :
    LET hits == CollectHits(file, [pattern |-> <<b>>, since |-> since, until |-> until,
                                   full |-> FALSE, limit |-> None])
        lines == [k \in DOMAIN hits |-> SplitLines(file)[hits[k] + 1]]
        body(line) == From(line, ParseMsPrefix(line).body)
    IN  Picked(lines, {k \in DOMAIN lines : Complete(lines[k])}) =
          Picked(shown, {k \in DOMAIN shown : IsMatch(<<b>>, body(shown[k]))})

\* `grep`, `tail`, `slice` and `summary` agree on a time window: slice prints
\* what tail does, the complete lines that grep finds under --since or --until
\* are the lines tail shows that match, and summary counts the same ones
\* (slice.rs:205-230, grep.rs:189-212, tail.rs:610, summary.rs:292-325).
WindowsAgree ==
  \A since, until \in Times :
    since # None \/ until # None =>
      \A shown \in {FilterTimeWindow(file, since, until, TRUE)} :
        /\ TimeSlice(file, since, until, TRUE) =
             TimeWindow(file, since, until, TRUE, Cap(None, FALSE))
        /\ until = None => SummaryAgrees(since, shown)
        /\ GrepAgrees(since, until, shown)

\* `tail --since --bytes N` shows whole lines from the end of the window, no more
\* than N bytes of them and as many as fit; --reverse shows the same ones.
BytesKeepTrailingLines ==
  \A since \in Times :
    \A window \in {FilterTimeWindow(file, since, None, TRUE)}, n \in 0 .. MaxBytes + 4 :
    \A kept \in {PostFilterCap(window, Cap(n, FALSE))} :
      LET before == Len(window) - Len(kept)
          held == Len(FlattenSeq(kept))
      IN  /\ kept = SubSeq(window, before + 1, Len(window))
          /\ held <= n
          /\ before > 0 => Len(window[before]) + held > n
          /\ PostFilterCap(window, Cap(n, TRUE)) = Reverse(kept)

\* When every daemon stamps, a line of `.log` without a stamp can only be the
\* first of a file that rotation began in the middle of it: time filters lose at
\* most that one.
OnlyFirstLineBare ==
  unstamped = 0 =>
  \A k \in DOMAIN SplitLines(file) :
    ~ Stamped(SplitLines(file)[k]) => k = 1 /\ sealed # <<>> /\ Last(sealed) # NL
=============================================================================
