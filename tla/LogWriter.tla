------------------------------ MODULE LogWriter ------------------------------
(***************************************************************************)
(* The rotating log writer of src/src/pty.rs (struct LogWriter), driven by *)
(* the one thread that drains the PTY into it.  A file is abstracted to    *)
(* the interval of the stream it holds: offset k is the k-th byte that     *)
(* ever reached a file of this id.  Slot 0 is `<id>.log`, slot i is        *)
(* `<id>.log.<i>`.  Every system call of a rotation is a step, because a   *)
(* reader of another process, or a crash, may come between any two.        *)
(***************************************************************************)
EXTENDS Integers

CONSTANTS MaxSize,      \* AGENT_TERM_LOG_SIZE, the size that triggers a rotation
          MaxSegments,  \* AGENT_TERM_LOG_SEGMENTS, the rotated files kept
          MaxPiece,     \* bound: the longest buffer one write_raw call is given
          StreamLen,    \* bound: the bytes that reach a file
          MaxFaults,    \* bound: failing system calls, and crashes in a shift
          MaxRestarts   \* bound: crashes of the daemon

ASSUME LogAssumption ==
    /\ MaxSize \in Nat /\ MaxSegments \in Nat
    /\ MaxPiece \in Nat /\ StreamLen \in Nat
    /\ MaxFaults \in Nat /\ MaxRestarts \in Nat

VARIABLES log,       \* slot -> the file in it, NoFile when there is none
          file,      \* self.file: "Some" or "None"
          written,   \* self.written
          pending,   \* bytes of the current write_raw buffer not yet consumed
          pc,        \* where the writer thread stands
          at,        \* the slot the shift of a rotation renames next
          total,     \* bytes that reached a file so far
          torn,      \* bytes of slot 0 that `written` does not count
          silent,    \* bytes write_raw skipped although it reported success
          gap,       \* renames of the shift that failed and were ignored
          evicted,   \* end offset of the newest file a rotation removed
          faults, restarts

fsVars == <<log, total, torn, evicted, gap>>
boundVars == <<faults, restarts>>
vars == <<log, file, written, pending, pc, at, total, torn, silent, gap,
          evicted, faults, restarts>>

------------------------------------------------------------------------------
NoFile == [lo |-> -1, hi |-> -1]
Slots == 0..MaxSegments
IsFile(f) == f.lo \in Nat /\ f.hi \in Nat /\ f.lo <= f.hi
Present(i) == log[i] # NoFile
Size(f) == f.hi - f.lo
Extend(f, n) == [lo |-> f.lo, hi |-> f.hi + n]

\* pty.rs:165: a zero in either setting leaves one growing file.
Rotates == MaxSize > 0 /\ MaxSegments > 0
Room == IF written < MaxSize THEN MaxSize - written ELSE 0
\* Mutant: the piece is as long as the room, not as long as the buffer.
FitIgnoresBuffer == IF Rotates THEN Room ELSE pending
\* The piece handed to the next File::write_all.
Fit == IF Rotates /\ Room < pending THEN Room ELSE pending

Fault == faults < MaxFaults /\ faults' = faults + 1
\* write_raw returns: the rest of the buffer is dropped with it.
Return == pc' = "idle" /\ pending' = 0

Init == /\ log = [i \in Slots |-> NoFile]
        /\ file = "None"
        /\ written = 0 /\ pending = 0 /\ at = 0
        /\ pc = "down"
        /\ total = 0 /\ torn = 0 /\ silent = 0
        /\ gap = 0
        /\ evicted = 0
        /\ faults = 0 /\ restarts = 0

\* Mutant: the length of the file that is already there is not taken.
OpenWithZero ==
    /\ pc = "down"
    /\ log' = IF Present(0) THEN log
              ELSE [log EXCEPT ![0] = [lo |-> total, hi |-> total]]
    /\ written' = 0 /\ torn' = 0 /\ file' = "Some" /\ pc' = "idle"
    /\ UNCHANGED <<pending, at, total, silent, gap, evicted, boundVars>>

\* Mutant: the file that is already there is truncated, not appended to.
OpenWithTruncate ==
    /\ pc = "down"
    /\ log' = [log EXCEPT ![0] = [lo |-> total, hi |-> total]]
    /\ written' = 0 /\ torn' = 0 /\ file' = "Some" /\ pc' = "idle"
    /\ UNCHANGED <<pending, at, total, silent, gap, evicted, boundVars>>

\* open_with: a daemon starts and appends to what an earlier one left.
OpenWith ==
    /\ pc = "down"
    /\ log' = IF Present(0) THEN log
              ELSE [log EXCEPT ![0] = [lo |-> total, hi |-> total]]
    /\ written' = Size(log'[0])
    /\ torn' = 0
    /\ file' = "Some"
    /\ pc' = "idle"
    /\ UNCHANGED <<pending, at, total, silent, gap, evicted, boundVars>>

\* The process dies: the files stay as they are.  Between two renames of a
\* shift it costs a fault, since the next rotation starts from a hole.
Crash ==
    /\ pc # "down" /\ restarts < MaxRestarts
    /\ restarts' = restarts + 1
    /\ IF pc = "shift" THEN Fault ELSE UNCHANGED faults
    /\ pc' = "down" /\ pending' = 0 /\ file' = "None"
    /\ UNCHANGED <<log, written, at, total, torn, silent, gap, evicted>>

\* write_raw is called with a buffer of n bytes.
BeginWrite(n) ==
    /\ pc = "idle" /\ total + n <= StreamLen
    /\ pending' = n
    /\ pc' = "write"
    /\ UNCHANGED <<fsVars, file, written, at, silent, boundVars>>

\* Mutant: the file is rotated one byte early.
AfterPieceEarly(w, rest) ==
    /\ pending' = rest
    /\ pc' = IF Rotates /\ w >= MaxSize - 1 THEN "drop"
             ELSE IF rest > 0 THEN "write" ELSE "idle"

\* What follows a piece: a full file is rotated at once, else the loop goes on.
AfterPiece(w, rest) ==
    /\ pending' = rest
    /\ pc' = IF Rotates /\ w >= MaxSize THEN "drop"
             ELSE IF rest > 0 THEN "write" ELSE "idle"

\* A piece is appended and counted; when `if let Some(f)` is false the piece
\* is skipped and nobody is told.
WritePiece ==
    /\ pc = "write" /\ Fit > 0
    /\ IF file = "Some"
       THEN /\ log' = [log EXCEPT ![0] = Extend(@, Fit)]
            /\ total' = total + Fit
            /\ written' = written + Fit
            /\ UNCHANGED silent
       ELSE /\ silent' = silent + Fit
            /\ UNCHANGED <<log, total, written>>
    /\ AfterPiece(written', pending - Fit)
    /\ UNCHANGED <<file, at, torn, gap, evicted, boundVars>>

\* File::write_all fails after p bytes: they are in the file, not in `written`.
WriteFails(p) ==
    /\ pc = "write" /\ file = "Some" /\ p < Fit
    /\ Fault
    /\ log' = [log EXCEPT ![0] = Extend(@, p)]
    /\ total' = total + p
    /\ torn' = torn + p
    /\ Return
    /\ UNCHANGED <<file, written, at, silent, gap, evicted, restarts>>

\* No room left before a piece: rotate first, then take the loop again.
NoRoom ==
    /\ pc = "write" /\ Fit = 0
    /\ pc' = "drop"
    /\ UNCHANGED <<fsVars, file, written, pending, at, silent, boundVars>>

------------------------------------------------------------------------------
(* rotate() *)

\* Mutant: `(1..max_segments - 1).rev()`, one rename short.
BeginShiftShort ==
    pc' = "shift" /\ at' = IF MaxSegments > 1 THEN MaxSegments - 2 ELSE 0
BeginShift == pc' = "shift" /\ at' = MaxSegments - 1

\* Mutant: the segment before the oldest one is removed.
DropSecondOldest ==
    /\ pc = "drop"
    /\ file' = "None"
    /\ log' = [log EXCEPT ![MaxSegments - 1] = NoFile]
    /\ evicted' = IF Present(MaxSegments - 1) THEN log[MaxSegments - 1].hi ELSE evicted
    /\ BeginShift
    /\ UNCHANGED <<written, pending, total, torn, silent, gap, boundVars>>

\* The handle is closed, then the oldest file is removed.
DropOldest ==
    /\ pc = "drop"
    /\ file' = "None"
    /\ log' = [log EXCEPT ![MaxSegments] = NoFile]
    /\ evicted' = IF Present(MaxSegments) THEN log[MaxSegments].hi ELSE evicted
    /\ BeginShift
    /\ UNCHANGED <<written, pending, total, torn, silent, gap, boundVars>>

\* remove_file fails; the result is ignored.
DropFails ==
    /\ pc = "drop" /\ Present(MaxSegments)
    /\ Fault
    /\ file' = "None"
    /\ BeginShift
    /\ UNCHANGED <<fsVars, written, pending, silent, restarts>>

\* Mutant: no shift; the current file goes to the first free number.
RenameToFree ==
    /\ pc = "shift"
    /\ log' = IF at = 0 /\ Present(0)
              THEN [log EXCEPT ![0] = NoFile,
                               ![CHOOSE k \in 1..MaxSegments :
                                   /\ ~Present(k) \/ k = MaxSegments
                                   /\ \A j \in 1..(k - 1) : Present(j)] = log[0]]
              ELSE log
    /\ IF at = 0 THEN pc' = "reopen" /\ UNCHANGED at
                 ELSE at' = at - 1 /\ UNCHANGED pc
    /\ UNCHANGED <<file, written, pending, total, torn, silent, gap, evicted,
                   boundVars>>

\* One rename, from the oldest kept file down to the current one (at = 0);
\* the name it renames onto is replaced.
Rename ==
    /\ pc = "shift"
    /\ log' = IF Present(at)
              THEN [log EXCEPT ![at + 1] = log[at], ![at] = NoFile]
              ELSE log
    /\ IF at = 0 THEN pc' = "reopen" /\ UNCHANGED at
                 ELSE at' = at - 1 /\ UNCHANGED pc
    /\ UNCHANGED <<file, written, pending, total, torn, silent, gap, evicted,
                   boundVars>>

\* A rename of a rotated file fails; the result is ignored and the next
\* rename overwrites the file that did not move.
ShiftFails ==
    /\ pc = "shift" /\ at > 0 /\ Present(at)
    /\ Fault
    /\ gap' = gap + 1
    /\ at' = at - 1
    /\ UNCHANGED <<log, file, written, pending, pc, total, torn, silent,
                   evicted, restarts>>

\* The rename of the current file fails: rotate returns, the handle closed.
MoveFails ==
    /\ pc = "shift" /\ at = 0 /\ Present(0)
    /\ Fault
    /\ Return
    /\ UNCHANGED <<fsVars, file, written, at, silent, restarts>>

\* Mutant: `written` keeps the size of the file that was rotated away.
ReopenKeepsWritten ==
    /\ pc = "reopen"
    /\ log' = IF Present(0) THEN log
              ELSE [log EXCEPT ![0] = [lo |-> total, hi |-> total]]
    /\ file' = "Some" /\ torn' = 0
    /\ pc' = IF pending > 0 THEN "write" ELSE "idle"
    /\ UNCHANGED <<written, pending, at, total, silent, gap, evicted, boundVars>>

Reopen ==
    /\ pc = "reopen"
    /\ log' = IF Present(0) THEN log
              ELSE [log EXCEPT ![0] = [lo |-> total, hi |-> total]]
    /\ file' = "Some"
    /\ written' = 0
    /\ torn' = 0
    /\ pc' = IF pending > 0 THEN "write" ELSE "idle"
    /\ UNCHANGED <<pending, at, total, silent, gap, evicted, boundVars>>

\* Mutant: `written` is cleared before the new file is open.
ReopenFailsCleared ==
    /\ pc = "reopen"
    /\ Fault
    /\ Return
    /\ written' = 0
    /\ UNCHANGED <<fsVars, file, at, silent, restarts>>

\* The new file cannot be created: rotate returns, the handle closed.
ReopenFails ==
    /\ pc = "reopen"
    /\ Fault
    /\ Return
    /\ UNCHANGED <<fsVars, file, written, at, silent, restarts>>

------------------------------------------------------------------------------
Rotate == \/ DropOldest \/ DropFails
          \/ Rename \/ ShiftFails \/ MoveFails
          \/ Reopen \/ ReopenFails
WriteRaw == \/ WritePiece
            \/ \E p \in 0..MaxPiece : WriteFails(p)
            \/ NoRoom
Next == \/ OpenWith \/ Crash
        \/ \E n \in 1..MaxPiece : BeginWrite(n)
        \/ WriteRaw \/ Rotate

\* The writer thread never stops in the middle of a call.
Fairness == WF_vars(WriteRaw \/ Rotate)
Spec == Init /\ [][Next]_vars
FairSpec == Spec /\ Fairness

------------------------------------------------------------------------------
TypeOK ==
    /\ log \in [Slots -> [lo : Int, hi : Int]]
    /\ \A i \in Slots : Present(i) => IsFile(log[i])
    /\ file \in {"Some", "None"}
    /\ written \in Nat /\ pending \in Nat /\ total \in Nat /\ torn \in Nat
    /\ silent \in Nat /\ evicted \in Nat
    /\ faults \in 0..MaxFaults /\ restarts \in 0..MaxRestarts
    /\ gap \in Nat
    /\ pc \in {"down", "idle", "write", "drop", "shift", "reopen"}
    /\ at \in Int
    /\ pc = "shift" => at \in 0..(MaxSegments - 1)

\* No byte handed to write_raw is skipped by a call that reports success: the
\* handle is only ever missing when the next write must rotate first
\* (pty.rs:178-185 against 193-226), whatever failed before.
NoSilentDrop == silent = 0

\* Older slots hold older bytes, also in the middle of a rotation and after
\* any failure: readers concatenate the slots downwards to read the stream.
OldestFirst ==
    \A i, j \in Slots :
        i < j /\ Present(i) /\ Present(j) => log[j].hi <= log[i].lo

\* Unless a rename of the shift failed, the files on disk hold one unbroken
\* run of the stream that ends at its last byte: a rotation, a crash or a
\* failed reopen loses nothing in the middle.
Unbroken ==
    gap = 0 =>
      \A i \in Slots : Present(i) =>
        \/ /\ \A k \in 0..(i - 1) : ~Present(k)
           /\ log[i].hi = total
        \/ \E k \in 0..(i - 1) : Present(k) /\ log[k].lo = log[i].hi

\* A file is sealed only when it is full, also by a daemon that found the file
\* of an earlier one (pty.rs:101 sets written to its length).
SealedFull == Rotates => \A i \in 1..MaxSegments : Present(i) => Size(log[i]) >= MaxSize

\* Without faults no file outgrows the configured size: write_raw cuts its buffer
\* at the limit (pty.rs:175-188).  troubleshooting.md:127-128 says otherwise, that
\* a segment "can briefly be `size + last_chunk`".
SizeBound == Rotates /\ faults = 0 => \A i \in Slots : Size(log[i]) <= MaxSize

\* Bytes are given up only when every slot is taken: without faults the last
\* MaxSegments rotated files are all there whenever something was removed.
KeepsAllSegments ==
    faults = 0 /\ evicted > 0 /\ pc \in {"idle", "write", "down"} /\ Present(0) =>
        \A i \in Slots : Present(i)

\* A write_raw call returns (or its daemon dies): the loop that rotates when
\* there is no room and tries again makes progress.
WriteReturns == pc \in {"write", "drop", "shift", "reopen"} ~> pc \in {"idle", "down"}

=============================================================================
