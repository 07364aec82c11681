--------------------------- MODULE LogWriterProofs ---------------------------
(***************************************************************************)
(* The invariants of LogWriter for every size, every number of segments,   *)
(* every stream and every number of faults and crashes, and that it        *)
(* implements RollingLog.                                                  *)
(***************************************************************************)
EXTENDS LogRefinement, WellFoundedInduction, TLAPS

LEMMA ConstantTypes ==
    /\ MaxSize \in Nat /\ MaxSegments \in Nat
    /\ MaxPiece \in Nat /\ StreamLen \in Nat
    /\ MaxFaults \in Nat /\ MaxRestarts \in Nat
  BY LogAssumption

\* The control invariant the others rest on: a rotation only runs when the
\* file is full, a missing handle means that the next write rotates first,
\* and `written` is what the handle's file holds but for torn bytes.
Control ==
    /\ pc = "write" => pending > 0
    /\ pc \in {"drop", "shift", "reopen"} => Rotates /\ written >= MaxSize
    /\ pc \in {"shift", "reopen"} => file = "None"
    /\ pc = "reopen" => ~Present(0)
    /\ file = "None" /\ pc # "down" => Rotates /\ written >= MaxSize
    /\ file = "Some" => Present(0)
    /\ pc # "down" /\ Present(0) => Size(log[0]) = written + torn

TypeControl == TypeOK /\ Control

LEMMA TypeControlInit == Init => TypeControl
  BY ConstantTypes DEF Init, TypeControl, TypeOK, Control, Slots, Present, NoFile, IsFile

\* What one piece is: never more than the buffer holds, never more than the
\* room, and nothing only when a rotation is due.
LEMMA FitBounds ==
  ASSUME TypeOK, pending > 0
  PROVE  /\ Fit \in Nat /\ Fit <= pending
         /\ Fit = 0 => Rotates /\ written >= MaxSize
  BY ConstantTypes DEF TypeOK, Fit, Room, Rotates

\* Appending n bytes to the open file changes slot 0 alone.
LEMMA ExtendCurrent ==
  ASSUME TypeOK, Present(0), NEW n \in Nat,
         log' = [log EXCEPT ![0] = Extend(log[0], n)]
  PROVE  /\ log' \in [Slots -> [lo : Int, hi : Int]]
         /\ log'[0].lo = log[0].lo /\ log'[0].hi = log[0].hi + n
         /\ log[0].lo \in Nat /\ log[0].hi \in Nat /\ log[0].lo <= log[0].hi
         /\ IsFile(log'[0]) /\ Present(0)'
         /\ \A i \in Slots \ {0} : log'[i] = log[i]
<1>1. 0 \in Slots /\ log[0] \in [lo : Int, hi : Int] /\ IsFile(log[0])
  BY ConstantTypes DEF TypeOK, Slots
<1>2. log'[0] = [lo |-> log[0].lo, hi |-> log[0].hi + n]
  BY <1>1 DEF Extend, TypeOK
<1>3. log'[0].lo = log[0].lo /\ log'[0].hi = log[0].hi + n
  BY <1>2
<1>4. IsFile(log'[0]) /\ Present(0)'
  BY <1>1, <1>2, <1>3 DEF IsFile, Present, NoFile
<1>5. log' \in [Slots -> [lo : Int, hi : Int]]
  BY <1>1, <1>2 DEF TypeOK, Extend
<1>6. \A i \in Slots \ {0} : log'[i] = log[i]
  BY DEF TypeOK
<1> QED BY <1>1, <1>3, <1>4, <1>5, <1>6 DEF IsFile

\* One rename of a rotation moves the file of slot `at` up by one, whatever
\* was there, or changes nothing when slot `at` is empty.
LEMMA RenameMoves ==
  ASSUME TypeOK, Rename
  PROVE  /\ at \in 0..(MaxSegments - 1)
         /\ log' \in [Slots -> [lo : Int, hi : Int]]
         /\ \A i \in Slots \ {at, at + 1} : log'[i] = log[i]
         /\ Present(at) => log'[at + 1] = log[at]
         /\ ~Present(at) => log' = log
         /\ log'[at] = NoFile
<1>1. /\ at \in 0..(MaxSegments - 1) /\ at \in Slots /\ at + 1 \in Slots
      /\ at # at + 1
  BY ConstantTypes DEF TypeOK, Rename, Slots
<1>2. CASE Present(at)
  <2>1. log' = [log EXCEPT ![at + 1] = log[at], ![at] = NoFile]
    BY <1>2 DEF Rename
  <2>2. log[at] \in [lo : Int, hi : Int] /\ NoFile \in [lo : Int, hi : Int]
    BY <1>1 DEF TypeOK, NoFile
  <2>3. log'[at + 1] = log[at] /\ log'[at] = NoFile
    BY <1>1, <2>1 DEF TypeOK
  <2>4. log' \in [Slots -> [lo : Int, hi : Int]]
    BY <1>1, <2>1, <2>2 DEF TypeOK
  <2>5. \A i \in Slots \ {at, at + 1} : log'[i] = log[i]
    BY <2>1 DEF TypeOK
  <2> QED BY <1>1, <1>2, <2>3, <2>4, <2>5 DEF Present
<1>3. CASE ~Present(at)
  BY <1>1, <1>3 DEF Rename, TypeOK, Present
<1> QED BY <1>2, <1>3

\* The two slots of a rename, and what it leaves alone besides the files.
LEMMA RenameSlots ==
  ASSUME TypeControl, Rename
  PROVE  /\ at \in Slots /\ at + 1 \in Slots /\ UNCHANGED <<total, torn>>
         /\ \A i \in Slots \ {at, at + 1} : log'[i] = log[i]
         /\ Present(at) => log'[at + 1] = log[at]
         /\ ~Present(at) => log' = log
         /\ log'[at] = NoFile
<1>1. TypeOK
  BY DEF TypeControl
<1>2. at \in 0..(MaxSegments - 1)
  BY <1>1, RenameMoves
<1>3. at \in Slots /\ at + 1 \in Slots
  BY <1>2, ConstantTypes DEF Slots
<1>4. UNCHANGED <<total, torn>>
  BY DEF Rename
<1> QED BY <1>1, <1>3, <1>4, RenameMoves

LEMMA TypeControlNext == TypeControl /\ [Next]_vars => TypeControl'
<1> SUFFICES ASSUME TypeControl, [Next]_vars PROVE TypeControl'
  OBVIOUS
<1> USE ConstantTypes DEF TypeControl
<1>1. CASE OpenWith
  BY <1>1 DEF OpenWith, TypeOK, Control, Slots, Present, NoFile, IsFile, Size, boundVars, Rotates
<1>2. CASE Crash
  BY <1>2 DEF Crash, Fault, TypeOK, Control, Slots, Present, NoFile, IsFile, Size, Rotates
<1>3. ASSUME NEW n \in 1..MaxPiece, BeginWrite(n) PROVE TypeControl'
  BY <1>3 DEF BeginWrite, TypeOK, Control, Slots, Present, NoFile, IsFile, Size, Rotates, fsVars, boundVars
<1>4. CASE WritePiece
  <2>1. pending > 0
    BY <1>4 DEF WritePiece, Control
  <2>2. Fit \in Nat /\ Fit > 0 /\ Fit <= pending
    BY <1>4, <2>1, FitBounds DEF WritePiece
  <2>3. CASE file = "Some"
    <3>1. /\ log' = [log EXCEPT ![0] = Extend(log[0], Fit)]
          /\ total' = total + Fit /\ written' = written + Fit /\ silent' = silent
      BY <1>4, <2>3 DEF WritePiece
    <3>2. /\ log' \in [Slots -> [lo : Int, hi : Int]]
          /\ log'[0].lo = log[0].lo /\ log'[0].hi = log[0].hi + Fit
          /\ log[0].lo \in Nat /\ log[0].hi \in Nat
          /\ IsFile(log'[0]) /\ Present(0)'
          /\ \A i \in Slots \ {0} : log'[i] = log[i]
      BY <2>2, <2>3, <3>1, ExtendCurrent DEF Control
    <3>3. \A i \in Slots : Present(i)' => IsFile(log'[i])
      BY <3>2 DEF TypeOK, Present
    <3>4. TypeOK'
      BY <1>4, <2>2, <3>1, <3>2, <3>3 DEF WritePiece, AfterPiece, TypeOK, boundVars
    <3>5. Control'
      BY <1>4, <2>2, <2>3, <3>1, <3>2 DEF WritePiece, AfterPiece, TypeOK, Control, Size, Rotates
    <3> QED BY <3>4, <3>5
  <2>4. CASE file # "Some"
    <3>1. UNCHANGED <<log, total, written>> /\ silent' = silent + Fit
      BY <1>4, <2>4 DEF WritePiece
    <3>2. TypeOK'
      BY <1>4, <2>2, <3>1 DEF WritePiece, AfterPiece, TypeOK, Present, boundVars
    <3>3. Control'
      BY <1>4, <2>2, <2>4, <3>1 DEF WritePiece, AfterPiece, TypeOK, Control, Size, Rotates, Present
    <3> QED BY <3>2, <3>3
  <2> QED BY <2>3, <2>4
<1>5. ASSUME NEW p \in 0..MaxPiece, WriteFails(p) PROVE TypeControl'
  <2>1. log' = [log EXCEPT ![0] = Extend(log[0], p)] /\ p \in Nat /\ Present(0)
    BY <1>5 DEF WriteFails, Control
  <2>2. /\ log' \in [Slots -> [lo : Int, hi : Int]]
        /\ log'[0].lo = log[0].lo /\ log'[0].hi = log[0].hi + p
        /\ log[0].lo \in Nat /\ log[0].hi \in Nat
        /\ IsFile(log'[0]) /\ Present(0)'
        /\ \A i \in Slots \ {0} : log'[i] = log[i]
    BY <2>1, ExtendCurrent
  <2>3. \A i \in Slots : Present(i)' => IsFile(log'[i])
    BY <2>2 DEF TypeOK, Present
  <2>4. TypeOK'
    BY <1>5, <2>2, <2>3 DEF WriteFails, Fault, Return, TypeOK
  <2>5. Control'
    BY <1>5, <2>2 DEF WriteFails, Fault, Return, TypeOK, Control, Size, Rotates
  <2> QED BY <2>4, <2>5
<1>6. CASE NoRoom
  BY <1>6, FitBounds DEF NoRoom, TypeOK, Control, Slots, Present, NoFile, IsFile, Size, Rotates, fsVars, boundVars
<1>7. CASE DropOldest
  BY <1>7 DEF DropOldest, BeginShift, TypeOK, Control, Slots, Present, NoFile, IsFile, Size, Rotates, boundVars
<1>8. CASE DropFails
  BY <1>8 DEF DropFails, Fault, BeginShift, TypeOK, Control, Slots, Present, NoFile, IsFile, Size, Rotates, fsVars
<1>9. CASE Rename
  <2>1. /\ at \in 0..(MaxSegments - 1)
        /\ log' \in [Slots -> [lo : Int, hi : Int]]
        /\ \A i \in Slots \ {at, at + 1} : log'[i] = log[i]
        /\ Present(at) => log'[at + 1] = log[at]
        /\ ~Present(at) => log' = log
        /\ log'[at] = NoFile
    BY <1>9, RenameMoves
  <2>2. \A i \in Slots : Present(i)' => IsFile(log'[i])
    <3> SUFFICES ASSUME NEW i \in Slots, log'[i] # NoFile PROVE IsFile(log'[i])
      BY DEF Present
    <3>1. at \in Slots
      BY <2>1 DEF Slots
    <3>2. log'[i] = log[i] \/ (i = at + 1 /\ log'[i] = log[at] /\ Present(at))
      BY <2>1
    <3> QED BY <3>1, <3>2 DEF TypeOK, Present
  <2>3. TypeOK'
    BY <1>9, <2>1, <2>2 DEF Rename, TypeOK, boundVars
  <2>4. at # 0 => log'[0] = log[0]
    <3>1. at # 0 => 0 \in Slots \ {at, at + 1}
      BY <2>1 DEF Slots
    <3> QED BY <2>1, <3>1
  <2>5. Control'
    BY <1>9, <2>1, <2>4 DEF Rename, TypeOK, Control, Size, Rotates, Present
  <2> QED BY <2>3, <2>5
<1>10. CASE ShiftFails
  BY <1>10 DEF ShiftFails, Fault, TypeOK, Control, Slots, Present, NoFile, IsFile, Size, Rotates
<1>11. CASE MoveFails
  BY <1>11 DEF MoveFails, Fault, Return, TypeOK, Control, Slots, Present, NoFile, IsFile, Size, Rotates, fsVars
<1>12. CASE Reopen
  BY <1>12 DEF Reopen, TypeOK, Control, Slots, Present, NoFile, IsFile, Size, Rotates, boundVars
<1>13. CASE ReopenFails
  BY <1>13 DEF ReopenFails, Fault, Return, TypeOK, Control, Slots, Present, NoFile, IsFile, Size, Rotates, fsVars
<1>14. CASE UNCHANGED vars
  BY <1>14 DEF vars, TypeOK, Control, Slots, Present, NoFile, IsFile, Size, Rotates
<1> QED
  BY <1>1, <1>2, <1>3, <1>4, <1>5, <1>6, <1>7, <1>8, <1>9, <1>10, <1>11, <1>12,
     <1>13, <1>14 DEF Next, WriteRaw, Rotate

\* Every variable of the writer keeps its type: in particular the files stay
\* intervals of the stream and a piece never takes more than the buffer holds.
THEOREM TypeInvariance == Spec => []TypeOK
<1>1. Spec => []TypeControl
  BY TypeControlInit, TypeControlNext, PTL DEF Spec
<1> QED BY <1>1, PTL DEF TypeControl

------------------------------------------------------------------------------
LEMMA ControlInvariance == Spec => []TypeControl
  BY TypeControlInit, TypeControlNext, PTL DEF Spec

LEMMA SilentNext == TypeControl /\ NoSilentDrop /\ [Next]_vars => NoSilentDrop'
<1> SUFFICES ASSUME TypeControl, NoSilentDrop, [Next]_vars PROVE silent' = 0
  BY DEF NoSilentDrop
<1>1. CASE WritePiece
  <2>1. pending > 0 /\ Fit > 0 /\ written \in Nat
    BY <1>1 DEF WritePiece, TypeControl, Control, TypeOK
  <2>2. CASE file = "Some"
    BY <1>1, <2>2 DEF WritePiece, NoSilentDrop
  <2>3. CASE file # "Some"
    <3>1. Rotates /\ written >= MaxSize
      BY <1>1, <2>3 DEF WritePiece, TypeControl, Control, TypeOK
    <3>2. Fit = 0
      BY <2>1, <3>1, ConstantTypes DEF Fit, Room, Rotates
    <3> QED BY <2>1, <3>2
  <2> QED BY <2>2, <2>3
<1>2. CASE ~WritePiece
  BY <1>2 DEF NoSilentDrop, Next, WriteRaw, Rotate, vars, fsVars, OpenWith, Crash,
     BeginWrite, WriteFails, NoRoom, DropOldest, DropFails, Rename, ShiftFails,
     MoveFails, Reopen, ReopenFails
<1> QED BY <1>1, <1>2

\* write_raw never skips a byte while it reports success, whatever failed
\* before: every state with no handle is one whose next write rotates first.
THEOREM NoSilentDropInvariance == Spec => []NoSilentDrop
<1>1. Init => NoSilentDrop
  BY DEF Init, NoSilentDrop
<1> QED BY <1>1, SilentNext, ControlInvariance, PTL DEF Spec

------------------------------------------------------------------------------
(* The four ways a step changes the files; a rename is the fifth. *)

Appended(n) ==
    /\ Present(0) /\ Present(0)'
    /\ total' = total + n
    /\ log'[0].lo = log[0].lo /\ log'[0].hi = log[0].hi + n
    /\ \A i \in Slots \ {0} : log'[i] = log[i]
Created ==
    /\ ~Present(0) /\ total' = total
    /\ log'[0] = [lo |-> total, hi |-> total]
    /\ \A i \in Slots \ {0} : log'[i] = log[i]
Removed ==
    /\ total' = total /\ Rotates /\ pc = "drop"
    /\ log'[MaxSegments] = NoFile
    /\ \A i \in Slots \ {MaxSegments} : log'[i] = log[i]

LEMMA LogChanges ==
  ASSUME TypeControl, [Next]_vars
  PROVE  \/ Rename
         \/ UNCHANGED <<log, total>>
         \/ \E n \in Nat : Appended(n)
         \/ Created
         \/ Removed
<1> USE ConstantTypes DEF TypeControl
<1>0. log \in [Slots -> [lo : Int, hi : Int]] /\ 0 \in Slots /\ MaxSegments \in Slots
  BY DEF TypeOK, Slots
<1>1. ASSUME ~Present(0), total' = total,
             log' = [log EXCEPT ![0] = [lo |-> total, hi |-> total]]
      PROVE  Created
  BY <1>0, <1>1 DEF Created
<1>2. CASE OpenWith \/ Reopen
  BY <1>1, <1>2 DEF OpenWith, Reopen
<1>3. ASSUME NEW n \in Nat, Present(0), total' = total + n,
             log' = [log EXCEPT ![0] = Extend(log[0], n)]
      PROVE  Appended(n)
  BY <1>3, ExtendCurrent DEF Appended
<1>4. CASE WritePiece
  <2>1. Fit \in Nat
    BY <1>4, FitBounds DEF WritePiece, Control
  <2>2. CASE file = "Some"
    BY <1>3, <1>4, <2>1, <2>2 DEF WritePiece, Control
  <2>3. CASE file # "Some"
    BY <1>4, <2>3 DEF WritePiece
  <2> QED BY <2>2, <2>3
<1>5. ASSUME NEW p \in 0..MaxPiece, WriteFails(p) PROVE Appended(p)
  <2>1. p \in Nat /\ Present(0)
    BY <1>5 DEF WriteFails, Control
  <2> QED BY <1>3, <1>5, <2>1 DEF WriteFails
<1>6. CASE DropOldest
  BY <1>0, <1>6 DEF DropOldest, Removed, Control
<1>7. CASE \/ Crash \/ (\E n \in 1..MaxPiece : BeginWrite(n)) \/ NoRoom \/ DropFails
           \/ ShiftFails \/ MoveFails \/ ReopenFails \/ UNCHANGED vars
  BY <1>7 DEF Crash, BeginWrite, NoRoom, DropFails, ShiftFails, MoveFails,
     ReopenFails, vars, fsVars
<1>8. \A p \in 0..MaxPiece : p \in Nat
  OBVIOUS
<1> QED BY <1>2, <1>4, <1>5, <1>6, <1>7, <1>8 DEF Next, WriteRaw, Rotate

\* Every file ends inside the stream.
Bounded == \A i \in Slots : Present(i) => log[i].hi <= total

LEMMA OrderNext ==
  TypeControl /\ OldestFirst /\ Bounded /\ [Next]_vars => (OldestFirst /\ Bounded)'
<1> SUFFICES ASSUME TypeControl, OldestFirst, Bounded, [Next]_vars
             PROVE  (OldestFirst /\ Bounded)'
  OBVIOUS
<1> USE ConstantTypes
<1>0. /\ \A i \in Slots : Present(i) =>
            log[i].lo \in Nat /\ log[i].hi \in Nat /\ log[i].lo <= log[i].hi
      /\ total \in Nat /\ total' \in Nat
  BY TypeControlNext DEF TypeControl, TypeOK, IsFile
<1>1. CASE UNCHANGED <<log, total>>
  BY <1>1 DEF OldestFirst, Bounded, Present
<1>2. ASSUME NEW n \in Nat, Appended(n) PROVE (OldestFirst /\ Bounded)'
  BY <1>0, <1>2 DEF Appended, OldestFirst, Bounded, Present, Slots
<1>3. CASE Created
  BY <1>0, <1>3 DEF Created, OldestFirst, Bounded, Present, Slots
<1>4. CASE Removed
  BY <1>0, <1>4 DEF Removed, OldestFirst, Bounded, Present, Slots
<1>5. CASE Rename
  <2>1. at \in Slots /\ at + 1 \in Slots /\ total' = total
    BY <1>5, RenameSlots
  <2>2. ASSUME NEW i \in Slots, Present(i)'
        PROVE  \/ i # at /\ Present(i) /\ log'[i] = log[i] /\ (i = at + 1 => ~Present(at))
               \/ i = at + 1 /\ Present(at) /\ log'[i] = log[at]
    BY <1>5, <2>1, <2>2, RenameSlots DEF Present
  <2>3. Bounded'
    BY <2>1, <2>2 DEF Bounded
  <2>4. ASSUME NEW i \in Slots, NEW j \in Slots, i < j, Present(i)', Present(j)'
        PROVE  log'[j].hi <= log'[i].lo
    <3>1. i \in Int /\ j \in Int /\ at \in Int
      BY <2>1 DEF Slots
    <3>2. CASE log'[i] = log[i] /\ Present(i) /\ i # at /\ log'[j] = log[j] /\ Present(j)
      BY <2>4, <3>2 DEF OldestFirst
    <3>3. CASE i = at + 1 /\ Present(at) /\ log'[i] = log[at]
      <4>1. j # at + 1 /\ j # at /\ at < j
        BY <2>4, <3>1, <3>3
      <4>2. log'[j] = log[j] /\ Present(j)
        BY <2>2, <2>4, <4>1
      <4> QED BY <2>1, <3>3, <4>1, <4>2 DEF OldestFirst
    <3>4. CASE j = at + 1 /\ Present(at) /\ log'[j] = log[at]
      <4>1. i # at + 1
        BY <2>4, <3>1, <3>4
      <4>2. log'[i] = log[i] /\ Present(i) /\ i # at
        BY <2>2, <2>4, <4>1
      <4>3. i < at
        BY <2>4, <3>1, <3>4, <4>2
      <4> QED BY <2>1, <3>4, <4>2, <4>3 DEF OldestFirst
    <3> QED BY <2>2, <2>4, <3>2, <3>3, <3>4
  <2> QED BY <2>3, <2>4 DEF OldestFirst
<1> QED BY <1>1, <1>2, <1>3, <1>4, <1>5, LogChanges

\* Slots hold the stream in order of age at every step, so that a reader that
\* concatenates them from the highest number down reads it in order.
THEOREM OldestFirstInvariance == Spec => []OldestFirst
<1>1. Init => OldestFirst /\ Bounded
  BY DEF Init, OldestFirst, Bounded, Present, Slots
<1> QED BY <1>1, OrderNext, ControlInvariance, PTL DEF Spec

------------------------------------------------------------------------------
\* In a shift where no rename failed, the name the next rename goes to is
\* free, or is the oldest one, whose removal may have failed.
FreeTarget == gap = 0 /\ pc = "shift" => at + 1 = MaxSegments \/ ~Present(at + 1)

LEMMA FreeTargetNext == TypeControl /\ FreeTarget /\ [Next]_vars => FreeTarget'
<1> SUFFICES ASSUME TypeControl, FreeTarget, [Next]_vars, gap' = 0, pc' = "shift"
             PROVE  at' + 1 = MaxSegments \/ log'[at' + 1] = NoFile
  BY DEF FreeTarget, Present
<1> USE ConstantTypes DEF TypeControl
<1>1. CASE DropOldest \/ DropFails
  BY <1>1 DEF DropOldest, DropFails, BeginShift
<1>2. CASE Rename
  <2>1. log'[at] = NoFile /\ at \in Int
    BY <1>2, RenameMoves
  <2>2. at' = at - 1
    BY <1>2 DEF Rename
  <2> QED BY <2>1, <2>2
<1>3. CASE UNCHANGED vars
  BY <1>3 DEF vars, FreeTarget, Present
<1>4. CASE ShiftFails
  BY <1>4 DEF ShiftFails, TypeOK
<1>5. CASE \/ OpenWith \/ Crash \/ (\E n \in 1..MaxPiece : BeginWrite(n)) \/ WriteRaw
           \/ MoveFails \/ Reopen \/ ReopenFails
  BY <1>5 DEF OpenWith, Crash, BeginWrite, WriteRaw, WritePiece, AfterPiece, WriteFails,
     NoRoom, MoveFails, Reopen, ReopenFails, Return
<1> QED BY <1>1, <1>2, <1>3, <1>4, <1>5 DEF Next, Rotate

LEMMA GapGrows == TypeControl /\ [Next]_vars => (gap' = 0 => gap = 0)
  BY DEF TypeControl, TypeOK, Next, WriteRaw, Rotate, vars, fsVars, OpenWith, Crash,
     BeginWrite, WritePiece, WriteFails, NoRoom, DropOldest, DropFails, Rename,
     ShiftFails, MoveFails, Reopen, ReopenFails

LEMMA UnbrokenNext ==
  TypeControl /\ FreeTarget /\ Unbroken /\ [Next]_vars => Unbroken'
<1> SUFFICES ASSUME TypeControl, FreeTarget, Unbroken, [Next]_vars, gap' = 0,
                    NEW i \in Slots, log'[i] # NoFile
             PROVE  \/ /\ \A k \in 0..(i - 1) : log'[k] = NoFile
                       /\ log'[i].hi = total'
                    \/ \E k \in 0..(i - 1) : log'[k] # NoFile /\ log'[k].lo = log'[i].hi
  BY DEF Unbroken, Present
<1> USE ConstantTypes
<1>0. gap = 0 /\ i \in Int /\ 0 <= i /\ i <= MaxSegments
  BY GapGrows DEF Slots
<1>1. \A j \in Slots : log[j] # NoFile =>
        \/ (\A k \in 0..(j - 1) : log[k] = NoFile) /\ log[j].hi = total
        \/ \E k \in 0..(j - 1) : log[k] # NoFile /\ log[k].lo = log[j].hi
  BY <1>0 DEF Unbroken, Present
<1>2. CASE UNCHANGED <<log, total>>
  BY <1>1, <1>2
<1>3. ASSUME NEW n \in Nat, Appended(n)
      PROVE  \/ (\A k \in 0..(i - 1) : log'[k] = NoFile) /\ log'[i].hi = total'
             \/ \E k \in 0..(i - 1) : log'[k] # NoFile /\ log'[k].lo = log'[i].hi
  <2>1. CASE i = 0
    <3>1. log[0] # NoFile /\ log'[0].hi = log[0].hi + n /\ total' = total + n
      BY <1>3 DEF Appended, Present
    <3> QED BY <1>1, <2>1, <3>1
  <2>2. CASE i # 0
    <3>1. log'[i] = log[i] /\ 0 \in 0..(i - 1) /\ log[0] # NoFile
      BY <1>0, <1>3, <2>2 DEF Appended, Present
    <3>2. PICK k \in 0..(i - 1) : log[k] # NoFile /\ log[k].lo = log[i].hi
      BY <1>1, <3>1
    <3>3. k \in Slots /\ log'[k] # NoFile /\ log'[k].lo = log[k].lo
      BY <1>0, <1>3, <3>2 DEF Appended, Present, Slots
    <3> QED BY <3>1, <3>2, <3>3
  <2> QED BY <2>1, <2>2
<1>4. CASE Created
  <2>1. CASE i = 0
    BY <1>4, <2>1 DEF Created
  <2>2. CASE i # 0
    <3>1. /\ log'[i] = log[i] /\ log[i] # NoFile /\ 0 \in 0..(i - 1)
          /\ log[0] = NoFile /\ total \in Nat
      BY <1>0, <1>4, <2>2 DEF Created, Present, TypeControl, TypeOK
    <3>2. log'[0] # NoFile /\ log'[0].lo = total
      BY <1>4, <3>1 DEF Created, NoFile
    <3>3. CASE log[i].hi = total
      BY <3>1, <3>2, <3>3
    <3>4. ASSUME NEW k \in 0..(i - 1), log[k] # NoFile, log[k].lo = log[i].hi
          PROVE  log'[k] # NoFile /\ log'[k].lo = log'[i].hi
      BY <1>0, <1>4, <3>1, <3>4 DEF Created, Slots
    <3> QED BY <1>1, <3>1, <3>3, <3>4
  <2> QED BY <2>1, <2>2
<1>5. CASE Removed
  <2>1. i < MaxSegments /\ log'[i] = log[i] /\ total' = total
    BY <1>0, <1>5 DEF Removed, Slots
  <2>2. \A k \in 0..(i - 1) : log'[k] = log[k]
    BY <1>0, <1>5, <2>1 DEF Removed, Slots
  <2> QED BY <1>1, <2>1, <2>2
<1>6. CASE Rename
  <2>1. /\ at \in Slots /\ at + 1 \in Slots /\ total' = total
        /\ log'[at] = NoFile
        /\ \A j \in Slots \ {at, at + 1} : log'[j] = log[j]
    <3>1. /\ at \in 0..(MaxSegments - 1) /\ log'[at] = NoFile
          /\ \A j \in Slots \ {at, at + 1} : log'[j] = log[j]
      BY <1>6, RenameMoves DEF TypeControl
    <3>2. total' = total
      BY <1>6 DEF Rename
    <3> QED BY <3>1, <3>2 DEF Slots
  <2>2. at \in Int /\ 0 <= at /\ i # at
    BY <2>1 DEF Slots
  <2>3. CASE log[at] = NoFile
    <3>1. log' = log
      BY <1>6, <2>3, RenameMoves DEF TypeControl, Present
    <3> QED BY <1>1, <2>1, <3>1
  <2>4. CASE log[at] # NoFile
    <3>1. log'[at + 1] = log[at]
      BY <1>6, <2>4, RenameMoves DEF TypeControl, Present
    <3>2. \A k \in 0..(at - 1) : log'[k] = log[k]
      BY <2>1, <2>2 DEF Slots
    <3>3. CASE i = at + 1
      <4>1. CASE \A k \in 0..(at - 1) : log[k] = NoFile
        <5>1. log[at].hi = total
          BY <1>1, <2>1, <2>4, <4>1
        <5>2. \A k \in 0..(i - 1) : log'[k] = NoFile
          BY <2>1, <2>2, <3>2, <3>3, <4>1
        <5> QED BY <2>1, <3>1, <3>3, <5>1, <5>2
      <4>2. CASE ~ \A k \in 0..(at - 1) : log[k] = NoFile
        <5>1. PICK k \in 0..(at - 1) : log[k] # NoFile /\ log[k].lo = log[at].hi
          BY <1>1, <2>1, <2>4, <4>2
        <5>2. k \in 0..(i - 1) /\ log'[k] = log[k] /\ log'[i].hi = log[at].hi
          BY <2>2, <3>1, <3>2, <3>3
        <5> QED BY <5>1, <5>2
      <4> QED BY <4>1, <4>2
    <3>4. CASE i < at
      <4>1. log'[i] = log[i] /\ \A k \in 0..(i - 1) : log'[k] = log[k]
        BY <1>0, <2>1, <2>2, <3>2, <3>4 DEF Slots
      <4> QED BY <1>1, <2>1, <4>1
    <3>5. CASE i > at + 1
      <4>1. log'[i] = log[i] /\ log[i] # NoFile /\ at \in 0..(i - 1)
        BY <1>0, <2>1, <2>2, <3>5
      <4>2. log[at + 1] = NoFile
        BY <1>0, <1>6, <2>2, <3>5 DEF FreeTarget, Rename, Present
      <4>3. PICK k \in 0..(i - 1) : log[k] # NoFile /\ log[k].lo = log[i].hi
        BY <1>1, <2>4, <4>1
      <4>4. CASE k = at
        <5>1. at + 1 \in 0..(i - 1)
          BY <1>0, <2>2, <3>5
        <5> QED BY <2>4, <3>1, <4>1, <4>3, <4>4, <5>1
      <4>5. CASE k # at
        <5>1. k \in Slots \ {at, at + 1}
          BY <1>0, <4>2, <4>3, <4>5 DEF Slots
        <5> QED BY <2>1, <4>1, <4>3, <5>1
      <4> QED BY <4>4, <4>5
    <3> QED BY <1>0, <2>2, <3>3, <3>4, <3>5
  <2> QED BY <2>3, <2>4
<1> QED BY <1>2, <1>3, <1>4, <1>5, <1>6, LogChanges

\* The files hold one unbroken run of the stream up to its last byte, in the
\* middle of every rotation and after every crash and failed call, except the
\* failed renames of a shift, which rotate() ignores.
THEOREM UnbrokenInvariance == Spec => []Unbroken
<1>1. Init => FreeTarget /\ Unbroken
  BY DEF Init, FreeTarget, Unbroken, Present
<1> QED BY <1>1, FreeTargetNext, UnbrokenNext, ControlInvariance, PTL DEF Spec

------------------------------------------------------------------------------
LEMMA SealedNext == TypeControl /\ SealedFull /\ [Next]_vars => SealedFull'
<1> SUFFICES ASSUME TypeControl, SealedFull, [Next]_vars, Rotates,
                    NEW i \in 1..MaxSegments, log'[i] # NoFile
             PROVE  Size(log'[i]) >= MaxSize
  BY DEF SealedFull, Present, Rotates, Size
<1> USE ConstantTypes
<1>0. i \in Slots \ {0}
  BY DEF Slots
<1>1. CASE log'[i] = log[i]
  BY <1>1 DEF SealedFull, Present
<1>2. CASE \/ UNCHANGED <<log, total>> \/ (\E n \in Nat : Appended(n)) \/ Created
  BY <1>0, <1>1, <1>2 DEF Appended, Created
<1>3. CASE Removed
  BY <1>0, <1>1, <1>3 DEF Removed
<1>4. CASE Rename
  <2>1. /\ at \in 0..(MaxSegments - 1) /\ log'[at] = NoFile
        /\ \A j \in Slots \ {at, at + 1} : log'[j] = log[j]
        /\ Present(at) => log'[at + 1] = log[at]
        /\ ~Present(at) => log' = log
    BY <1>4, RenameMoves DEF TypeControl
  <2>2. CASE i = at + 1 /\ Present(at)
    <3>1. CASE at = 0
      <4>1. Size(log[0]) = written + torn /\ written >= MaxSize
        BY <1>4, <2>2, <3>1 DEF TypeControl, Control, Rename
      <4> QED BY <2>1, <2>2, <3>1, <4>1 DEF TypeControl, TypeOK
    <3>2. CASE at # 0
      <4>1. at \in 1..MaxSegments
        BY <2>1, <3>2
      <4>2. Size(log[at]) >= MaxSize
        BY <2>2, <4>1 DEF SealedFull
      <4> QED BY <2>1, <2>2, <4>2
    <3> QED BY <3>1, <3>2
  <2>3. CASE ~(i = at + 1 /\ Present(at))
    BY <1>0, <1>1, <2>1, <2>3
  <2> QED BY <2>2, <2>3
<1> QED BY <1>2, <1>3, <1>4, LogChanges

\* A file leaves slot 0 only when it holds at least MaxSize bytes, also when
\* an earlier daemon wrote part of it or a rotation failed half-way.
THEOREM SealedFullInvariance == Spec => []SealedFull
<1>1. Init => SealedFull
  BY ConstantTypes DEF Init, SealedFull, Present, Slots
<1> QED BY <1>1, SealedNext, ControlInvariance, PTL DEF Spec

------------------------------------------------------------------------------
\* Without faults the taken slots are a prefix of the slots but for one hole:
\* the name the next rename goes to, or the current file while it is missing.
Hole == IF pc = "shift" THEN at + 1 ELSE IF ~Present(0) THEN 0 ELSE -1
NoHoles ==
    faults = 0 =>
      /\ pc \in {"idle", "write", "drop", "shift"} => Present(0)
      /\ pc = "shift" => ~Present(at + 1)
      /\ \A i, j \in Slots \ {Hole} : j < i /\ Present(i) => Present(j)
      /\ evicted > 0 => \A i \in Slots \ {Hole} : Present(i)

LEMMA NoHolesNext == TypeControl /\ NoHoles /\ [Next]_vars => NoHoles'
<1> SUFFICES ASSUME TypeControl, NoHoles, [Next]_vars, faults' = 0
             PROVE  /\ pc' \in {"idle", "write", "drop", "shift"} => Present(0)'
                    /\ pc' = "shift" => log'[at' + 1] = NoFile
                    /\ \A i, j \in Slots \ {Hole'} :
                         j < i /\ log'[i] # NoFile => log'[j] # NoFile
                    /\ evicted' > 0 => \A i \in Slots \ {Hole'} : log'[i] # NoFile
  BY DEF NoHoles, Present, Slots
<1> USE ConstantTypes DEF TypeControl
<1>0. /\ faults = 0
      /\ pc \in {"idle", "write", "drop", "shift"} => log[0] # NoFile
      /\ pc = "shift" => log[at + 1] = NoFile
      /\ \A i, j \in Slots \ {Hole} : j < i /\ log[i] # NoFile => log[j] # NoFile
      /\ evicted > 0 => \A i \in Slots \ {Hole} : log[i] # NoFile
  <2>1. faults \in Nat /\ (faults' = faults \/ faults' = faults + 1)
    BY DEF TypeOK, Next, WriteRaw, Rotate, vars, fsVars, boundVars, Fault, OpenWith, Crash,
       BeginWrite, WritePiece, WriteFails, NoRoom, DropOldest, DropFails, Rename,
       ShiftFails, MoveFails, Reopen, ReopenFails
  <2> QED BY <2>1 DEF NoHoles, Present
<1>1. CASE \/ \E p \in 0..MaxPiece : WriteFails(p)
           \/ DropFails \/ ShiftFails \/ MoveFails \/ ReopenFails
  BY <1>0, <1>1 DEF WriteFails, DropFails, ShiftFails, MoveFails, ReopenFails, Fault
<1>2. CASE UNCHANGED vars
  BY <1>0, <1>2 DEF vars, Hole, Present
<1>3. CASE Crash
  BY <1>0, <1>3 DEF Crash, Fault, Hole, Present
<1>4. CASE (\E n \in 1..MaxPiece : BeginWrite(n)) \/ NoRoom
  BY <1>0, <1>4 DEF BeginWrite, NoRoom, fsVars, Hole, Present
<1>5. CASE OpenWith \/ Reopen
  <2>1. evicted' = evicted /\ pc' \in {"idle", "write"}
    BY <1>5 DEF OpenWith, Reopen
  <2>2. 0 \in Slots /\ total \in Nat
    BY DEF TypeOK, Slots
  <2>3. CASE Present(0)
    BY <1>0, <1>5, <2>1, <2>3 DEF OpenWith, Reopen, Hole, Present
  <2>4. CASE ~Present(0)
    <3>1. log' = [log EXCEPT ![0] = [lo |-> total, hi |-> total]]
      BY <1>5, <2>4 DEF OpenWith, Reopen
    <3>2. log'[0] # NoFile /\ \A i \in Slots \ {0} : log'[i] = log[i]
      BY <2>2, <3>1 DEF TypeOK, NoFile
    <3>3. Hole = 0 /\ Hole' = -1
      BY <1>5, <2>1, <2>4, <3>2 DEF OpenWith, Reopen, Hole, Present
    <3> QED BY <1>0, <2>1, <3>2, <3>3 DEF Present, Slots
  <2> QED BY <2>3, <2>4
<1>6. CASE WritePiece
  <2>1. evicted' = evicted /\ pc = "write" /\ pc' \in {"idle", "write", "drop"}
    BY <1>6 DEF WritePiece, AfterPiece
  <2>2. \A i \in Slots : log'[i] = NoFile <=> log[i] = NoFile
    <3>1. CASE file = "Some"
      <4>1. Fit \in Nat /\ Present(0) /\ log' = [log EXCEPT ![0] = Extend(log[0], Fit)]
        BY <1>6, <3>1, FitBounds DEF WritePiece, Control
      <4> QED BY <4>1, ExtendCurrent DEF Present
    <3>2. CASE file # "Some"
      BY <1>6, <3>2 DEF WritePiece
    <3> QED BY <3>1, <3>2
  <2>3. 0 \in Slots /\ Hole = -1 /\ Hole' = -1
    BY <1>0, <2>1, <2>2 DEF Hole, Present, Slots
  <2> QED BY <1>0, <2>1, <2>2, <2>3 DEF Present
<1>7. CASE DropOldest
  <2>1. /\ pc = "drop" /\ pc' = "shift" /\ at' + 1 = MaxSegments
        /\ log' = [log EXCEPT ![MaxSegments] = NoFile]
        /\ Hole = -1 /\ Hole' = MaxSegments
    BY <1>0, <1>7 DEF DropOldest, BeginShift, Hole, Present
  <2>2. MaxSegments \in Slots /\ MaxSegments # 0 /\ 0 \in Slots
    BY <2>1 DEF Control, Rotates, Slots
  <2>3. log'[MaxSegments] = NoFile /\ \A i \in Slots \ {MaxSegments} : log'[i] = log[i]
    BY <2>1, <2>2 DEF TypeOK
  <2>4. ASSUME evicted' > 0, NEW i \in Slots \ {MaxSegments} PROVE log'[i] # NoFile
    <3>1. CASE log[MaxSegments] # NoFile
      <4>1. i < MaxSegments /\ i # -1 /\ MaxSegments # -1
        BY <2>2, <2>4 DEF Slots
      <4> QED BY <1>0, <2>1, <2>2, <2>3, <2>4, <3>1, <4>1
    <3>2. CASE log[MaxSegments] = NoFile
      <4>1. evicted' = evicted
        BY <1>7, <3>2 DEF DropOldest, Present
      <4> QED BY <1>0, <2>1, <2>2, <2>4, <3>2, <4>1 DEF Slots
    <3> QED BY <3>1, <3>2
  <2>5. \A i, j \in Slots \ {Hole'} : j < i /\ log'[i] # NoFile => log'[j] # NoFile
    BY <1>0, <2>1, <2>3 DEF Slots
  <2> QED BY <1>0, <2>1, <2>2, <2>3, <2>4, <2>5 DEF Present
<1>8. CASE Rename
  <2>1. /\ at \in 0..(MaxSegments - 1) /\ log'[at] = NoFile
        /\ \A j \in Slots \ {at, at + 1} : log'[j] = log[j]
        /\ log[at] # NoFile => log'[at + 1] = log[at]
        /\ log[at] = NoFile => log' = log
    BY <1>8, RenameMoves DEF Present
  <2>2. /\ at \in Slots /\ at + 1 \in Slots /\ at \in Int /\ evicted' = evicted
        /\ pc = "shift" /\ Hole = at + 1 /\ log[at + 1] = NoFile
    BY <1>0, <1>8, <2>1 DEF Rename, Hole, Slots
  <2>3. Hole' = at /\ (pc' = "shift" => at' + 1 = at) /\ pc' \in {"shift", "reopen"}
    <3>1. CASE at = 0
      <4>1. pc' = "reopen" /\ ~Present(0)'
        BY <1>8, <2>1, <3>1 DEF Rename, Present
      <4> QED BY <3>1, <4>1 DEF Hole
    <3>2. CASE at # 0
      <4>1. pc' = "shift" /\ at' = at - 1
        BY <1>8, <2>2, <3>2 DEF Rename
      <4> QED BY <2>2, <4>1 DEF Hole
    <3> QED BY <3>1, <3>2
  <2>4. pc' = "shift" => log'[0] # NoFile
    <3>1. pc' = "shift" => 0 \in Slots \ {at, at + 1}
      BY <1>8, <2>1 DEF Rename, Slots
    <3> QED BY <1>0, <2>1, <2>2, <3>1
  <2>5. ASSUME NEW i \in Slots \ {at}, NEW j \in Slots \ {at}, j < i, log'[i] # NoFile
        PROVE  log'[j] # NoFile
    <3>1. i \in Int /\ j \in Int
      BY DEF Slots
    <3>2. CASE log[at] # NoFile
      <4>1. CASE j = at + 1
        BY <2>1, <3>2, <4>1
      <4>2. CASE j # at + 1 /\ i = at + 1
        <5>1. j < at
          BY <2>2, <2>5, <3>1, <4>2
        <5> QED BY <1>0, <2>1, <2>2, <3>2, <4>2, <5>1
      <4>3. CASE j # at + 1 /\ i # at + 1
        BY <1>0, <2>1, <2>2, <2>5, <4>3
      <4> QED BY <4>1, <4>2, <4>3
    <3>3. CASE log[at] = NoFile
      <4>1. i # at + 1 /\ log[i] # NoFile /\ log'[j] = log[j]
        BY <2>1, <2>2, <2>5, <3>3
      <4>2. CASE j = at + 1
        <5>1. at < i
          BY <2>2, <2>5, <3>1, <4>2
        <5> QED BY <1>0, <2>2, <3>3, <4>1, <5>1
      <4>3. CASE j # at + 1
        BY <1>0, <2>2, <2>5, <4>1, <4>3
      <4> QED BY <4>2, <4>3
    <3> QED BY <3>2, <3>3
  <2>6. ASSUME evicted' > 0, NEW i \in Slots \ {at} PROVE log'[i] # NoFile
    <3>1. at # at + 1 /\ log[at] # NoFile
      BY <1>0, <2>2, <2>6
    <3> QED BY <1>0, <2>1, <2>2, <2>6, <3>1
  <2>7. /\ pc' \in {"idle", "write", "drop", "shift"} => Present(0)'
        /\ pc' = "shift" => log'[at' + 1] = NoFile
    BY <2>1, <2>3, <2>4 DEF Present
  <2>8. \A i, j \in Slots \ {Hole'} : j < i /\ log'[i] # NoFile => log'[j] # NoFile
    BY <2>3, <2>5
  <2>9. evicted' > 0 => \A i \in Slots \ {Hole'} : log'[i] # NoFile
    BY <2>3, <2>6
  <2> QED BY <2>7, <2>8, <2>9
<1> QED BY <1>1, <1>2, <1>3, <1>4, <1>5, <1>6, <1>7, <1>8 DEF Next, WriteRaw, Rotate

\* Without faults a byte is given up only while every slot is taken: the
\* newest MaxSegments full files are always kept.
THEOREM KeepsAllSegmentsInvariance == Spec => []KeepsAllSegments
<1>1. Init => NoHoles
  BY ConstantTypes DEF Init, NoHoles, Hole, Present, Slots
<1>2. TypeControl /\ NoHoles => KeepsAllSegments
  BY DEF NoHoles, KeepsAllSegments, Hole, Slots, TypeControl, TypeOK
<1> QED BY <1>1, <1>2, NoHolesNext, ControlInvariance, PTL DEF Spec

------------------------------------------------------------------------------
\* Without faults `written` counts every byte of the current file, and no file
\* is longer than the configured size.
Within == Rotates /\ faults = 0 =>
            torn = 0 /\ \A i \in Slots : Size(log[i]) <= MaxSize

LEMMA FaultsGrow == TypeControl /\ [Next]_vars => (faults' = 0 => faults = 0)
  BY ConstantTypes DEF TypeControl, TypeOK, Next, WriteRaw, Rotate, vars, fsVars, boundVars,
     Fault, OpenWith, Crash, BeginWrite, WritePiece, WriteFails, NoRoom, DropOldest,
     DropFails, Rename, ShiftFails, MoveFails, Reopen, ReopenFails

LEMMA WithinNext == TypeControl /\ Within /\ [Next]_vars => Within'
<1> SUFFICES ASSUME TypeControl, Within, [Next]_vars, Rotates, faults' = 0
             PROVE  torn' = 0 /\ \A i \in Slots : Size(log'[i]) <= MaxSize
  BY DEF Within, Rotates, Size
<1> USE ConstantTypes
<1>0. /\ faults = 0 /\ torn = 0
      /\ \A i \in Slots : Size(log[i]) <= MaxSize
      /\ Size(NoFile) <= MaxSize
      /\ log \in [Slots -> [lo : Int, hi : Int]]
      /\ 0 \in Slots /\ MaxSegments \in Slots
  BY FaultsGrow DEF Within, TypeControl, TypeOK, Size, NoFile, Slots
<1>1. ASSUME Created PROVE \A i \in Slots : Size(log'[i]) <= MaxSize
  <2>1. log'[0] = [lo |-> total, hi |-> total] /\ total \in Nat
    BY <1>1 DEF Created, TypeControl, TypeOK
  <2>2. Size(log'[0]) = 0
    BY <2>1 DEF Size
  <2> QED BY <1>0, <1>1, <2>2 DEF Created
<1>2. CASE OpenWith \/ Reopen
  <2>1. torn' = 0
    BY <1>2 DEF OpenWith, Reopen
  <2>2. CASE Present(0)
    BY <1>0, <1>2, <2>1, <2>2 DEF OpenWith, Reopen
  <2>3. CASE ~Present(0)
    <3>1. log' = [log EXCEPT ![0] = [lo |-> total, hi |-> total]] /\ total' = total
      BY <1>2, <2>3 DEF OpenWith, Reopen
    <3>2. Created
      BY <1>0, <2>3, <3>1 DEF Created
    <3> QED BY <1>1, <2>1, <3>2
  <2> QED BY <2>2, <2>3
<1>3. CASE WritePiece
  <2>1. torn' = 0
    BY <1>0, <1>3 DEF WritePiece
  <2>2. CASE file = "Some"
    <3>1. /\ pending > 0 /\ Fit > 0 /\ Present(0) /\ written \in Nat
          /\ Size(log[0]) = written + torn
      BY <1>3, <2>2 DEF WritePiece, TypeControl, TypeOK, Control
    <3>2. Fit \in Nat /\ Fit <= MaxSize - written
      BY <3>1, FitBounds DEF Fit, Room, TypeControl, TypeOK
    <3>3. /\ log'[0].lo = log[0].lo /\ log'[0].hi = log[0].hi + Fit
          /\ log[0].lo \in Nat /\ log[0].hi \in Nat
          /\ \A i \in Slots \ {0} : log'[i] = log[i]
      BY <1>3, <2>2, <3>1, <3>2, ExtendCurrent DEF WritePiece, TypeControl
    <3>4. Size(log'[0]) <= MaxSize
      BY <1>0, <3>1, <3>2, <3>3 DEF Size
    <3> QED BY <1>0, <2>1, <3>3, <3>4
  <2>3. CASE file # "Some"
    BY <1>0, <1>3, <2>1, <2>3 DEF WritePiece
  <2> QED BY <2>2, <2>3
<1>4. CASE Rename
  <2>1. /\ \A i \in Slots \ {at, at + 1} : log'[i] = log[i]
        /\ Present(at) => log'[at + 1] = log[at]
        /\ ~Present(at) => log' = log
        /\ log'[at] = NoFile
        /\ at \in Slots /\ torn' = torn
    BY <1>4, RenameSlots
  <2>2. ASSUME NEW i \in Slots PROVE Size(log'[i]) <= MaxSize
    BY <1>0, <2>1
  <2> QED BY <1>0, <2>1, <2>2
<1>5. CASE DropOldest
  <2>1. log' = [log EXCEPT ![MaxSegments] = NoFile] /\ torn' = torn
    BY <1>5 DEF DropOldest
  <2>2. ASSUME NEW i \in Slots PROVE Size(log'[i]) <= MaxSize
    BY <1>0, <2>1
  <2> QED BY <1>0, <2>1, <2>2
<1>6. ASSUME NEW p \in 0..MaxPiece, WriteFails(p) PROVE FALSE
  BY <1>0, <1>6 DEF WriteFails, Fault
<1>7. CASE \/ Crash \/ (\E n \in 1..MaxPiece : BeginWrite(n)) \/ NoRoom \/ DropFails
           \/ ShiftFails \/ MoveFails \/ ReopenFails \/ UNCHANGED vars
  BY <1>0, <1>7 DEF Crash, BeginWrite, NoRoom, DropFails, ShiftFails, MoveFails,
     ReopenFails, vars, fsVars
<1> QED BY <1>2, <1>3, <1>4, <1>5, <1>6, <1>7 DEF Next, WriteRaw, Rotate

\* Without faults no file of the id, current or rotated, outgrows the
\* configured size, whatever a daemon that restarts finds there.
THEOREM SizeBoundInvariance == Spec => []SizeBound
<1>1. Init => Within
  BY ConstantTypes DEF Init, Within, Size, NoFile, Slots
<1>2. Within => SizeBound
  BY DEF Within, SizeBound
<1> QED BY <1>1, <1>2, WithinNext, ControlInvariance, PTL DEF Spec

------------------------------------------------------------------------------
(* LogWriter implements RollingLog. *)

(* The files as a set of offsets. *)

LEMMA LeastOf ==
  ASSUME NEW S \in SUBSET Nat, S # {}
  PROVE  Min(S) \in S /\ \A x \in S : Min(S) <= x
<1>1. PICK x \in S : \A y \in S : ~ (<<y, x>> \in OpToRel(<, Nat))
  BY NatLessThanWellFounded, WFMin, Zenon
<1>2. \A y \in S : ~ (y < x)
  BY <1>1 DEF OpToRel
<1>3. \A y \in S : x <= y
  BY <1>2
<1> QED BY <1>3 DEF Min

\* What is kept never begins earlier than a bound on all that is there.
LEMMA LeastBounds ==
  ASSUME NEW S \in SUBSET Nat, NEW t \in Nat, \A x \in S : x <= t
  PROVE  LET f == IF S = {} THEN t ELSE Min(S)
         IN  /\ f \in Nat /\ f <= t
             /\ \A x \in S : f <= x
             /\ \A b \in Nat : b <= t /\ (\A x \in S : b <= x) => b <= f
<1>1. CASE S = {}
  BY <1>1
<1>2. CASE S # {}
  <2>1. Min(S) \in S /\ \A x \in S : Min(S) <= x
    BY <1>2, LeastOf
  <2>2. Min(S) \in Nat /\ Min(S) <= t
    BY <2>1
  <2> QED BY <1>2, <2>1, <2>2
<1> QED BY <1>1, <1>2

LEMMA LowsInStream ==
  ASSUME TypeOK, Bounded
  PROVE  total \in Nat /\ Lows \in SUBSET Nat /\ \A x \in Lows : x <= total
<1>1. ASSUME NEW i \in Slots, Present(i)
      PROVE  log[i].lo \in Nat /\ log[i].lo <= total
  BY <1>1 DEF TypeOK, Bounded, IsFile
<1> QED BY <1>1 DEF Lows, TypeOK

------------------------------------------------------------------------------
\* Without faults slot i is full of i * MaxSize newer bytes, or of one file
\* less while a shift has moved it already and the current file not yet.
Rank(i) == IF pc = "shift" /\ i > at THEN i - 1 ELSE i
Base == IF Present(0) THEN log[0].lo ELSE total
Depth ==
    faults = 0 =>
      \A i \in Slots : Present(i) => log[i].lo + Rank(i) * MaxSize <= Base

\* The files a step without faults makes, and what it removes.
LEMMA DepthNext == TypeControl /\ Bounded /\ NoHoles /\ Depth /\ [Next]_vars => Depth'
<1> SUFFICES ASSUME TypeControl, Bounded, NoHoles, Depth, [Next]_vars, faults' = 0,
                    NEW i \in Slots, log'[i] # NoFile
             PROVE  log'[i].lo + Rank(i)' * MaxSize <= Base'
  BY DEF Depth, Present, Slots
<1> USE ConstantTypes
<1>0. /\ faults = 0 /\ 0 \in Slots /\ i \in Nat /\ total \in Nat
      /\ log \in [Slots -> [lo : Int, hi : Int]]
      /\ \A j \in Slots : Present(j) =>
           /\ log[j].lo \in Nat /\ log[j].hi \in Nat
           /\ log[j].lo <= log[j].hi /\ log[j].hi <= total
           /\ log[j].lo + Rank(j) * MaxSize <= Base
  BY FaultsGrow DEF TypeControl, TypeOK, IsFile, Bounded, Depth, Slots
<1>1. CASE \/ \E p \in 0..MaxPiece : WriteFails(p)
           \/ DropFails \/ ShiftFails \/ MoveFails \/ ReopenFails
  <2>1. faults' = faults + 1
    BY <1>1 DEF WriteFails, DropFails, ShiftFails, MoveFails, ReopenFails, Fault
  <2> QED BY <1>0, <2>1
<1>2. CASE \/ Crash \/ (\E n \in 1..MaxPiece : BeginWrite(n)) \/ NoRoom \/ UNCHANGED vars
  <2>1. UNCHANGED <<log, total>> /\ Rank(i)' = Rank(i)
    BY <1>0, <1>2 DEF Crash, BeginWrite, NoRoom, vars, fsVars, Fault, Rank
  <2> QED BY <1>0, <2>1 DEF Base, Present
<1>3. CASE OpenWith \/ Reopen
  <2>1. Rank(i) = i /\ Rank(i)' = i /\ total' = total
    BY <1>3 DEF OpenWith, Reopen, Rank
  <2>2. CASE Present(0)
    <3>1. log' = log
      BY <1>3, <2>2 DEF OpenWith, Reopen
    <3> QED BY <1>0, <2>1, <3>1 DEF Base, Present
  <2>3. CASE ~Present(0)
    <3>1. log' = [log EXCEPT ![0] = [lo |-> total, hi |-> total]]
      BY <1>3, <2>3 DEF OpenWith, Reopen
    <3>2. Base = total /\ Base' = total
      <4>1. log'[0] = [lo |-> total, hi |-> total]
        BY <1>0, <3>1
      <4>2. log'[0].lo = total
        BY <4>1
      <4> QED BY <2>1, <2>3, <4>2 DEF Base
    <3>3. CASE i = 0
      BY <1>0, <2>1, <3>1, <3>2, <3>3
    <3>4. CASE i # 0
      BY <1>0, <2>1, <3>1, <3>2, <3>4 DEF Present
    <3> QED BY <3>3, <3>4
  <2> QED BY <2>2, <2>3
<1>4. CASE WritePiece
  <2>1. Rank(i) = i /\ Rank(i)' = i
    BY <1>4 DEF WritePiece, AfterPiece, Rank
  <2>2. CASE file = "Some"
    <3>1. Fit \in Nat /\ Present(0) /\ log' = [log EXCEPT ![0] = Extend(log[0], Fit)]
      BY <1>4, <2>2, FitBounds DEF WritePiece, TypeControl, Control
    <3>2. /\ log'[0].lo = log[0].lo /\ Present(0)'
          /\ \A j \in Slots \ {0} : log'[j] = log[j]
      BY <3>1, ExtendCurrent DEF TypeControl
    <3>3. Base = log[0].lo /\ Base' = log[0].lo /\ log'[i].lo = log[i].lo /\ Present(i)
      BY <3>1, <3>2 DEF Base, Present
    <3> QED BY <1>0, <2>1, <3>3
  <2>3. CASE file # "Some"
    <3>1. UNCHANGED <<log, total>>
      BY <1>4, <2>3 DEF WritePiece
    <3> QED BY <1>0, <2>1, <3>1 DEF Base, Present
  <2> QED BY <2>2, <2>3
<1>5. CASE DropOldest
  <2>1. /\ pc = "drop" /\ at' = MaxSegments - 1 /\ pc' = "shift" /\ total' = total
        /\ log' = [log EXCEPT ![MaxSegments] = NoFile] /\ MaxSegments > 0
    BY <1>5 DEF DropOldest, BeginShift, TypeControl, Control, Rotates
  <2>2. i # MaxSegments /\ i <= MaxSegments /\ log'[i] = log[i] /\ log'[0] = log[0]
    BY <1>0, <2>1 DEF Slots
  <2>3. Rank(i) = i /\ Rank(i)' = i
    BY <1>0, <2>1, <2>2 DEF Rank
  <2> QED BY <1>0, <2>1, <2>2, <2>3 DEF Base, Present
<1>6. CASE Rename
  <2>1. /\ at \in 0..(MaxSegments - 1) /\ log'[at] = NoFile
        /\ \A j \in Slots \ {at, at + 1} : log'[j] = log[j]
        /\ Present(at) => log'[at + 1] = log[at]
        /\ ~Present(at) => log' = log
    BY <1>6, RenameMoves DEF TypeControl
  <2>2. /\ at \in Nat /\ pc = "shift" /\ total' = total /\ Present(0) /\ ~Present(at + 1)
        /\ at \in Slots /\ at + 1 \in Slots
        /\ Base = log[0].lo
    BY <1>0, <1>6, <2>1 DEF Rename, NoHoles, Base, Slots
  <2>3. \/ i # at /\ i # at + 1 /\ Present(i) /\ log'[i] = log[i]
        \/ i = at + 1 /\ Present(at) /\ log'[i] = log[at]
    BY <1>0, <2>1, <2>2 DEF Present
  <2>4. CASE at > 0
    <3>1. pc' = "shift" /\ at' = at - 1 /\ log'[0] = log[0]
      BY <1>0, <1>6, <2>1, <2>4 DEF Rename
    <3>2. Base' = log[0].lo
      BY <2>2, <3>1 DEF Base, Present
    <3>3. CASE i = at + 1 /\ Present(at) /\ log'[i] = log[at]
      <4>1. Rank(at) = at /\ Rank(i)' = at
        BY <1>0, <2>2, <3>1, <3>3 DEF Rank
      <4> QED BY <1>0, <2>2, <3>2, <3>3, <4>1
    <3>4. CASE i # at /\ i # at + 1 /\ Present(i) /\ log'[i] = log[i]
      <4>1. Rank(i)' = Rank(i)
        BY <1>0, <2>2, <3>1, <3>4 DEF Rank
      <4> QED BY <1>0, <2>2, <3>2, <3>4, <4>1
    <3> QED BY <2>3, <3>3, <3>4
  <2>5. CASE at = 0
    <3>1. pc' = "reopen" /\ Base' = total
      BY <1>6, <2>1, <2>2, <2>5 DEF Rename, Base, Present
    <3>2. log[0].lo + MaxSize <= total
      <4>1. Size(log[0]) = written + torn /\ written >= MaxSize /\ torn \in Nat /\ written \in Nat
        BY <2>2 DEF TypeControl, TypeOK, Control
      <4> QED BY <1>0, <2>2, <4>1 DEF Size
    <3>3. Rank(i)' = i
      BY <3>1 DEF Rank
    <3>4. CASE i = 1 /\ log'[i] = log[0]
      BY <1>0, <3>1, <3>2, <3>3, <3>4
    <3>5. CASE i > 1 /\ Present(i) /\ log'[i] = log[i]
      <4>1. Rank(i) = i - 1
        BY <1>0, <2>2, <2>5, <3>5 DEF Rank
      <4>2. (i - 1) * MaxSize + MaxSize = i * MaxSize
        BY <1>0
      <4>3. log[i].lo \in Nat /\ log[0].lo \in Nat /\ (i - 1) * MaxSize \in Int
        BY <1>0, <2>2, <3>5
      <4>4. log[i].lo + (i - 1) * MaxSize <= log[0].lo
        BY <1>0, <2>2, <3>5, <4>1
      <4> DEFINE m == (i - 1) * MaxSize
                 n == i * MaxSize
      <4>5. m + MaxSize = n /\ log[i].lo + m <= log[0].lo /\ m \in Int /\ n \in Int
        BY <1>0, <4>2, <4>3, <4>4
      <4> HIDE DEF m, n
      <4>6. log[i].lo + n <= total
        BY <1>0, <3>2, <4>3, <4>5
      <4> QED BY <3>1, <3>3, <3>5, <4>6 DEF n
    <3> QED BY <1>0, <2>3, <2>5, <3>4, <3>5
  <2> QED BY <2>2, <2>4, <2>5
<1> QED BY <1>1, <1>2, <1>3, <1>4, <1>5, <1>6 DEF Next, WriteRaw, Rotate

------------------------------------------------------------------------------
(* The steps. *)

\* First is the least offset kept; when nothing is kept, the next one.
OldestByte ==
    /\ First \in Nat /\ First <= total /\ total \in Nat
    /\ \A i \in Slots : Present(i) => First <= log[i].lo
    /\ \A b \in Nat : b <= total /\ (\A i \in Slots : Present(i) => b <= log[i].lo)
                      => b <= First

LEMMA FirstIsOldest == TypeOK /\ Bounded => OldestByte
<1> SUFFICES ASSUME TypeOK, Bounded PROVE OldestByte
  OBVIOUS
<1>1. total \in Nat /\ Lows \in SUBSET Nat /\ \A x \in Lows : x <= total
  BY LowsInStream
<1>2. /\ First \in Nat /\ First <= total
      /\ \A x \in Lows : First <= x
      /\ \A b \in Nat : b <= total /\ (\A x \in Lows : b <= x) => b <= First
  BY <1>1, LeastBounds DEF First
<1>3. \A i \in Slots : Present(i) => log[i].lo \in Lows
  BY DEF Lows
<1>4. ASSUME NEW b \in Nat, \A i \in Slots : Present(i) => b <= log[i].lo
      PROVE  \A x \in Lows : b <= x
  BY <1>4 DEF Lows
<1> QED BY <1>1, <1>2, <1>3, <1>4 DEF OldestByte

\* Whatever fails, the stream only moves forward.
LEMMA Forward ==
  ASSUME TypeControl, Bounded, OldestByte, OldestByte', [Next]_vars
  PROVE  First' >= First /\ total' >= total
<1> USE ConstantTypes
<1>1. /\ First \in Nat /\ First' \in Nat /\ total \in Nat /\ total' \in Nat
      /\ First <= total
  BY DEF OldestByte
<1>2. total' >= total /\ \A i \in Slots : log'[i] # NoFile => First <= log'[i].lo
  <2>1. CASE UNCHANGED <<log, total>>
    BY <1>1, <2>1 DEF OldestByte, Present
  <2>2. ASSUME NEW n \in Nat, Appended(n)
        PROVE  total' >= total /\ \A i \in Slots : log'[i] # NoFile => First <= log'[i].lo
    BY <1>1, <2>2 DEF Appended, OldestByte, Present, Slots
  <2>3. CASE Created
    <3>1. log'[0].lo = total /\ total' = total
      BY <2>3 DEF Created
    <3> QED BY <1>1, <2>3, <3>1 DEF Created, OldestByte, Present
  <2>4. CASE Removed
    BY <1>1, <2>4 DEF Removed, OldestByte, Present
  <2>5. CASE Rename
    <3>1. /\ \A i \in Slots \ {at, at + 1} : log'[i] = log[i]
          /\ Present(at) => log'[at + 1] = log[at]
          /\ ~Present(at) => log' = log
          /\ log'[at] = NoFile /\ at \in Slots /\ total' = total
      BY <2>5, RenameSlots
    <3> QED BY <1>1, <3>1 DEF OldestByte, Present
  <2> QED BY <2>1, <2>2, <2>3, <2>4, <2>5, LogChanges
<1>3. \A i \in Slots : Present(i)' => First <= log'[i].lo
  BY <1>2 DEF Present
<1>4. First <= total'
  BY <1>1, <1>2
<1> QED BY <1>1, <1>2, <1>3, <1>4 DEF OldestByte

\* What holds all bytes that were there loses none.
LEMMA NothingLost ==
  ASSUME TypeControl, Bounded, OldestByte, OldestByte', [Next]_vars, First' <= total,
         \A i \in Slots : Present(i) => First' <= log[i].lo
  PROVE  First' = First
<1>1. First' <= First /\ First \in Nat /\ First' \in Nat
  BY DEF OldestByte
<1> QED BY <1>1, Forward

\* Without faults only the removal of the oldest file gives up bytes, and then
\* MaxSegments full files stay.
LEMMA RollingStep ==
  ASSUME TypeControl, Bounded, NoHoles, Depth, OldestByte, OldestByte', [Next]_vars
  PROVE  [Rolling!Append \/ Rolling!Evict \/ Rolling!Degraded]_<<First, total, faults>>
<1> USE ConstantTypes
<1>0. /\ First \in Nat /\ First' \in Nat /\ total \in Nat /\ total' \in Nat
      /\ First <= total /\ First' <= total' /\ faults \in Nat /\ faults' \in Nat
      /\ First' >= First /\ total' >= total
      /\ log \in [Slots -> [lo : Int, hi : Int]]
      /\ \A i \in Slots : Present(i) =>
           log[i].lo \in Nat /\ log[i].hi \in Nat /\ log[i].lo <= log[i].hi /\ log[i].hi <= total
  BY Forward, TypeControlNext DEF OldestByte, TypeControl, TypeOK, IsFile, Bounded
<1>1. CASE faults' # 0
  BY <1>0, <1>1 DEF Rolling!Degraded
<1>2. CASE faults' = 0
  <2>0. faults = 0 /\ \A i \in Slots : Present(i)' => First' <= log'[i].lo
    BY <1>2, FaultsGrow DEF OldestByte
  <2>1. CASE UNCHANGED <<log, total>>
    <3>1. First' = First
      BY <2>1 DEF First, Lows, Present
    <3> QED BY <1>2, <2>0, <2>1, <3>1
  <2>2. ASSUME NEW n \in Nat, Appended(n)
        PROVE  [Rolling!Append]_<<First, total, faults>>
    <3>1. First' <= log[0].lo /\ 0 \in Slots
      BY <2>0, <2>2 DEF Appended, Slots
    <3>2. First' <= total
      BY <1>0, <2>2, <3>1 DEF Appended
    <3>3. \A i \in Slots : Present(i) => First' <= log[i].lo
      BY <2>0, <2>2, <3>1 DEF Appended, Present
    <3>4. First' = First
      BY <3>2, <3>3, NothingLost
    <3> QED BY <1>0, <1>2, <2>0, <2>2, <3>4 DEF Appended, Rolling!Append
  <2>3. CASE Created
    <3>1. total' = total /\ \A i \in Slots : Present(i) => i # 0 /\ log'[i] = log[i]
      BY <2>3 DEF Created
    <3>2. First' <= total /\ \A i \in Slots : Present(i) => First' <= log[i].lo
      BY <1>0, <2>0, <3>1 DEF Present
    <3>3. First' = First
      BY <3>2, NothingLost
    <3> QED BY <1>2, <2>0, <3>1, <3>3
  <2>4. CASE Rename
    <3>1. /\ \A i \in Slots \ {at, at + 1} : log'[i] = log[i]
          /\ Present(at) => log'[at + 1] = log[at]
          /\ ~Present(at) => log' = log
          /\ at + 1 \in Slots /\ total' = total
      BY <2>4, RenameSlots
    <3>2. ~Present(at + 1)
      BY <2>0, <2>4 DEF NoHoles, Rename
    <3>3. First' <= total /\ \A i \in Slots : Present(i) => First' <= log[i].lo
      BY <1>0, <2>0, <3>1, <3>2 DEF Present
    <3>4. First' = First
      BY <3>3, NothingLost
    <3> QED BY <1>2, <2>0, <3>1, <3>4
  <2>5. CASE Removed
    <3>1. /\ pc = "drop" /\ MaxSegments > 0 /\ total' = total
          /\ MaxSegments \in Slots /\ MaxSegments - 1 \in Slots /\ 0 \in Slots
          /\ \A i \in Slots \ {MaxSegments} : log'[i] = log[i]
      BY <2>5 DEF Removed, Rotates, Slots
    <3>2. CASE ~Present(MaxSegments)
      <4>1. First' <= total /\ \A i \in Slots : Present(i) => First' <= log[i].lo
        BY <1>0, <2>0, <3>1, <3>2 DEF Present
      <4>2. First' = First
        BY <4>1, NothingLost
      <4> QED BY <1>2, <2>0, <3>1, <4>2
    <3>3. CASE Present(MaxSegments)
      <4> DEFINE k == MaxSegments - 1
      <4>1. Present(0) /\ Present(k)
        <5>1. Present(0) /\ Hole = -1
          BY <2>0, <3>1 DEF NoHoles, Hole
        <5>2. k < MaxSegments /\ k \in Slots \ {Hole} /\ MaxSegments \in Slots \ {Hole}
          BY <3>1, <5>1
        <5> QED BY <2>0, <3>3, <5>1, <5>2 DEF NoHoles
      <4>2. log[k].lo + k * MaxSize <= log[0].lo
        <5>1. Rank(k) = k /\ Base = log[0].lo
          BY <3>1, <4>1 DEF Rank, Base
        <5>2. log[k].lo + Rank(k) * MaxSize <= Base
          BY <2>0, <3>1, <4>1 DEF Depth
        <5> QED BY <5>1, <5>2
      <4>3. log[0].lo + MaxSize <= total
        <5>1. /\ Size(log[0]) = written + torn /\ written >= MaxSize
              /\ torn \in Nat /\ written \in Nat
          BY <3>1, <4>1 DEF TypeControl, TypeOK, Control
        <5> QED BY <1>0, <3>1, <4>1, <5>1 DEF Size
      <4>4. First' <= log[k].lo
        <5>1. k # MaxSegments /\ log'[k] = log[k]
          BY <3>1
        <5> QED BY <2>0, <3>1, <4>1, <5>1 DEF Present
      <4>5. MaxSize * MaxSegments = k * MaxSize + MaxSize
        BY <3>1
      <4>6. First' <= total - MaxSize * MaxSegments
        <5> DEFINE m == k * MaxSize
                   c == MaxSize * MaxSegments
        <5>1. m \in Int /\ c \in Int /\ c = m + MaxSize /\ log[k].lo + m <= log[0].lo
          BY <3>1, <4>2, <4>5
        <5>2. log[k].lo \in Nat /\ log[0].lo \in Nat
          BY <1>0, <3>1, <4>1
        <5> HIDE DEF m, c
        <5>3. First' <= total - c
          BY <1>0, <4>3, <4>4, <5>1, <5>2
        <5> QED BY <5>3 DEF c
      <4> QED BY <1>0, <1>2, <2>0, <3>1, <4>6 DEF Rolling!Evict
    <3> QED BY <3>2, <3>3
  <2> QED BY <2>1, <2>2, <2>3, <2>4, <2>5, LogChanges
<1> QED BY <1>1, <1>2

\* LogWriter implements RollingLog (pty.rs:164-226), for every size and number
\* of files: as long as no system call fails, rotations are invisible but for
\* the eviction of bytes older than the last MaxSize * MaxSegments; after a
\* failure the stream still only moves forward.
THEOREM Refinement == Spec => KeepsARollingLog
<1>1. Init => Rolling!RInit
  <2> SUFFICES ASSUME Init PROVE Rolling!RInit
    OBVIOUS
  <2>1. Lows = {}
    BY DEF Init, Lows, Present
  <2> QED BY <2>1 DEF Init, First, Rolling!RInit
<1>2. Init => Bounded /\ NoHoles /\ Depth /\ OldestFirst
  BY ConstantTypes DEF Init, Bounded, NoHoles, Depth, OldestFirst, Hole, Present, Slots
<1>3. Spec => [](TypeControl /\ Bounded /\ NoHoles /\ Depth)
  BY <1>2, OrderNext, NoHolesNext, DepthNext, ControlInvariance, PTL DEF Spec
<1>4. TypeControl /\ Bounded => OldestByte
  BY FirstIsOldest DEF TypeControl
<1>5. /\ TypeControl /\ Bounded /\ NoHoles /\ Depth /\ OldestByte /\ OldestByte' /\ [Next]_vars
      => [Rolling!Append \/ Rolling!Evict \/ Rolling!Degraded]_<<First, total, faults>>
  BY RollingStep
<1> QED BY <1>1, <1>3, <1>4, <1>5, PTL DEF Spec, KeepsARollingLog, Rolling!RSpec
==============================================================================
