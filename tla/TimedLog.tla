------------------------------ MODULE TimedLog -------------------------------
(***************************************************************************)
(* A log with timestamps: LogWriter::write_all (pty.rs) puts `[<ms>] ` in  *)
(* front of every line it begins, whatever chunks the child's output comes *)
(* in, while time passes; the daemon dies and the next one goes on with    *)
(* the file it finds.  The readers of LogText run on the file at any time. *)
(*                                                                         *)
(* A time is one digit.  Rotation is what is visible of it here: a full    *)
(* file is put away and an empty one takes its place (LogWriter has its    *)
(* steps and failures).                                                    *)
(***************************************************************************)
EXTENDS LogText

CONSTANTS
  Text,       \* the bytes a child prints
  MaxChunk,   \* bytes the PTY reader hands over at once
  FileSizes,  \* choices of the bytes per file, 0 for no rotation
  Modes,      \* whether a daemon stamps: the choices of --timestamps
  MaxBytes, MaxTime, MaxRestarts  \* bounds: child output, clock, daemons

ASSUME TextAssumption == NL \in Text
ASSUME ModesAssumption == Modes \subseteq BOOLEAN /\ Modes # {}
ASSUME BoundsAssumption ==
  /\ FileSizes \subseteq Nat /\ MaxChunk \in Nat \ {0} /\ MaxBytes \in Nat
  /\ MaxTime \in DOMAIN Digits /\ MaxRestarts \in Nat

VARIABLES
  size,         \* AGENT_TERM_LOG_SIZE
  file,         \* the bytes of `.log`
  sealed,       \* those of the files it was before
  timestamps,   \* the daemon stamps lines
  atLineStart,  \* the next byte begins a line
  buf, start, i,\* write_all: its argument, what of it is to be written, the loop
  now,          \* the wall clock
  printed,      \* bytes the child has printed
  restarts,     \* daemons that followed the first
  said,         \* history: time and bytes of each line that was given a stamp
  unstamped     \* history: the daemons that did not stamp

writer == <<timestamps, atLineStart, buf, start, i>>
history == <<said, unstamped>>
vars == <<size, file, sealed, writer, now, printed, restarts, history>>

TypeOK ==
  /\ file \in Seq(Text \cup {"[", "]", " "} \cup Range(Digits))
  /\ size \in FileSizes
  /\ size > 0 => Len(file) < size
  /\ timestamps \in BOOLEAN /\ atLineStart \in BOOLEAN
  /\ buf \in Seq(Text) /\ Len(buf) <= MaxChunk
  /\ start \in 1 .. MaxChunk + 1 /\ i \in start .. MaxChunk + 1
  /\ now \in 1 .. MaxTime
  /\ printed \in 0 .. MaxBytes /\ restarts \in 0 .. MaxRestarts
  /\ unstamped \in 0 .. MaxRestarts + 1
  /\ \A k \in DOMAIN said : said[k].at \in 1 .. MaxTime /\ said[k].text \in Seq(Text)

Init ==
  /\ size \in FileSizes
  /\ file = <<>> /\ sealed = <<>> /\ said = <<>>
  /\ timestamps \in Modes /\ atLineStart = TRUE
  /\ unstamped = IF timestamps THEN 0 ELSE 1
  /\ buf = <<>> /\ start = 1 /\ i = 1
  /\ now = 1 /\ printed = 0 /\ restarts = 0

-----------------------------------------------------------------------------
(* Writing. *)

\* Mutant: a full file is put away only when the next byte comes.
WriteRawLate(bytes) ==
  LET put(s, b) ==
        IF size > 0 /\ Len(s.file) = size
        THEN [file |-> <<b>>, sealed |-> s.sealed \o s.file]
        ELSE [s EXCEPT !.file = Append(@, b)]
      done == FoldLeft(put, [file |-> file, sealed |-> sealed], bytes)
  IN  file' = done.file /\ sealed' = done.sealed

\* write_raw: a file that has become full is put away at once
WriteRaw(bytes) ==
  LET put(s, b) ==
        IF size > 0 /\ Len(s.file) + 1 = size
        THEN [file |-> <<>>, sealed |-> s.sealed \o Append(s.file, b)]
        ELSE [s EXCEPT !.file = Append(@, b)]
      done == FoldLeft(put, [file |-> file, sealed |-> sealed], bytes)
  IN  file' = done.file /\ sealed' = done.sealed

\* History: bytes of the child go to the stamped line they continue.
Say(bytes) ==
  LET nl == {k \in DOMAIN bytes : bytes[k] = NL}
      rest == SubSeq(bytes, 1, IF nl = {} THEN Len(bytes) ELSE Min(nl))
      last == Len(said)
  IN  said' = IF said # <<>> /\ (said[last].text = <<>> \/ ~ Complete(said[last].text))
              THEN [said EXCEPT ![last].text = @ \o rest]
              ELSE said

Prefix(t) == <<"[", Digits[t], "]", " ">>

\* the PTY reader hands over a chunk
Receive(chunk) ==
  /\ buf = <<>> /\ printed + Len(chunk) <= MaxBytes
  /\ printed' = printed + Len(chunk)
  /\ IF timestamps
     THEN /\ buf' = chunk /\ start' = 1 /\ i' = 1
          /\ UNCHANGED <<file, sealed, said>>
     ELSE WriteRaw(chunk) /\ Say(chunk) /\ UNCHANGED <<buf, start, i>>
  /\ UNCHANGED <<size, unstamped, timestamps, atLineStart, now, restarts>>

\* the loop of write_all comes to byte i, which begins a line
Stamp ==
  /\ i \in DOMAIN buf /\ atLineStart
  /\ WriteRaw(SubSeq(buf, start, i - 1) \o Prefix(now))
  /\ said' = Append(said, [at |-> now, text |-> <<>>])
  /\ start' = i /\ atLineStart' = FALSE
  /\ UNCHANGED <<size, unstamped, timestamps, buf, i, now, printed, restarts>>

\* Mutant: only a newline within a chunk, not one at its end, ends a line.
VisitForgets ==
  /\ i \in DOMAIN buf /\ ~ atLineStart
  /\ IF buf[i] = NL
     THEN /\ WriteRaw(SubSeq(buf, start, i)) /\ Say(SubSeq(buf, start, i))
          /\ start' = i + 1 /\ atLineStart' = (i < Len(buf))
     ELSE UNCHANGED <<file, sealed, said, start, atLineStart>>
  /\ i' = i + 1
  /\ UNCHANGED <<size, unstamped, timestamps, buf, now, printed, restarts>>

\* ... or which goes on with one
Visit ==
  /\ i \in DOMAIN buf /\ ~ atLineStart
  /\ IF buf[i] = NL
     THEN /\ WriteRaw(SubSeq(buf, start, i)) /\ Say(SubSeq(buf, start, i))
          /\ start' = i + 1 /\ atLineStart' = TRUE
     ELSE UNCHANGED <<file, sealed, said, start, atLineStart>>
  /\ i' = i + 1
  /\ UNCHANGED <<size, unstamped, timestamps, buf, now, printed, restarts>>

\* what is left of the chunk after the loop
Flush ==
  /\ buf # <<>> /\ i > Len(buf)
  /\ WriteRaw(From(buf, start - 1)) /\ Say(From(buf, start - 1))
  /\ buf' = <<>> /\ start' = 1 /\ i' = 1
  /\ UNCHANGED <<size, unstamped, timestamps, atLineStart, now, printed, restarts>>

\* time passes, or the wall clock is set back
Tick ==
  /\ now' \in {t \in 1 .. MaxTime : t <= now + 1}
  /\ UNCHANGED <<size, file, sealed, writer, printed, restarts, history>>

\* Mutant: every daemon begins with a stamp.
RestartStamps ==
  /\ restarts < MaxRestarts /\ restarts' = restarts + 1
  /\ timestamps' \in Modes /\ atLineStart' = TRUE
  /\ unstamped' = IF timestamps' THEN unstamped ELSE unstamped + 1
  /\ buf' = <<>> /\ start' = 1 /\ i' = 1
  /\ UNCHANGED <<size, file, sealed, now, printed, said>>

\* The daemon is gone, with what it had not written; the next one opens the
\* file (open_with) and looks at its last byte.
Restart ==
  /\ restarts < MaxRestarts /\ restarts' = restarts + 1
  /\ timestamps' \in Modes
  /\ unstamped' = IF timestamps' THEN unstamped ELSE unstamped + 1
  /\ atLineStart' = (file = <<>> \/ Last(file) = NL)
  /\ buf' = <<>> /\ start' = 1 /\ i' = 1
  /\ UNCHANGED <<size, file, sealed, now, printed, said>>

Chunks == UNION {[1 .. n -> Text] : n \in 1 .. MaxChunk}

Next ==
  \/ \E chunk \in Chunks : Receive(chunk)
  \/ Stamp \/ Visit \/ Flush
  \/ Tick \/ Restart

Spec == Init /\ [][Next]_vars
=============================================================================
