--------------------------- MODULE LogReadersProofs ---------------------------
(***************************************************************************)
(* What the readers of a log that grows and is rotated give: `tail         *)
(* --follow`, the cursor loop, `wait` and `summary`, for any number of     *)
(* lines and rotations, any size of a segment, and whatever becomes of the *)
(* daemon.                                                                 *)
(***************************************************************************)
EXTENDS LogReaders, SequenceTheorems, TLAPS

\* Each file goes on where the one before it ended.
SegsInOrder ==
    /\ segs \in Seq([lo : Nat, hi : Nat])
    /\ \A i \in 1..Len(segs) : segs[i].lo <= segs[i].hi
    /\ \A i, j \in 1..Len(segs) : i < j => segs[i].hi <= segs[j].lo
    /\ named => Len(segs) > 0

\* The file that is followed and how far: before a reopen a newer one exists.
FollowShape ==
    /\ followpc \in {"off", "open"} => out = <<>> /\ followpos = 0
    /\ followpc \notin {"off", "open"} =>
         followseg \in 1..Len(segs) /\ followpos \in 0..Size(followseg)
    /\ followpc = "reopen" => followseg < Len(segs)

\* The lines written so far are in order and before the place in the file.
Rising(s) == \A i \in 1..Len(s) : i = 1 \/ s[i - 1] < s[i]
OutBehind ==
    /\ out \in Seq(Nat) /\ Rising(out)
    /\ \A i \in 1..Len(out) : out[i] <= Line(followseg, followpos)

Inv == SegsInOrder /\ FollowShape /\ OutBehind

------------------------------------------------------------------------------
\* Lines n + 1, ..., n + k after lines up to n.
LEMMA RunAppended ==
  ASSUME NEW s \in Seq(Nat), NEW n \in Nat, NEW k \in Nat, Rising(s),
         \A i \in 1..Len(s) : s[i] <= n
  PROVE  LET t == s \o [i \in 1..k |-> n + i]
         IN  t \in Seq(Nat) /\ Rising(t) /\ \A i \in 1..Len(t) : t[i] <= n + k
<1> DEFINE run == [i \in 1..k |-> n + i]
           t == s \o run
           m == Len(s)
<1>1. run \in Seq(Nat) /\ Len(run) = k /\ \A i \in 1..k : run[i] = n + i
  OBVIOUS
<1>2. m \in Nat /\ \A i \in 1..m : s[i] \in Nat /\ s[i] <= n
  OBVIOUS
<1> HIDE DEF run
<1>3. /\ t \in Seq(Nat) /\ Len(t) = m + k
      /\ \A i \in 1..(m + k) : t[i] = IF i <= m THEN s[i] ELSE run[i - m]
  BY <1>1, ConcatProperties, Zenon
<1> HIDE DEF t, m
<1>4. \A i \in 1..(m + k) : t[i] = IF i <= m THEN s[i] ELSE n + (i - m)
  <2> SUFFICES ASSUME NEW i \in 1..(m + k), ~(i <= m) PROVE run[i - m] = n + (i - m)
    BY <1>3
  <2>1. i - m \in 1..k
    BY <1>2
  <2> QED BY <1>1, <2>1
<1>5. Rising(t)
  <2> SUFFICES ASSUME NEW i \in 2..(m + k) PROVE t[i - 1] < t[i]
    BY <1>2, <1>3 DEF Rising
  <2>1. i - 1 \in 1..(m + k) /\ i \in 1..(m + k)
    BY <1>2
  <2>2. CASE i <= m
    <3>1. t[i - 1] = s[i - 1] /\ t[i] = s[i] /\ i \in 1..m /\ i # 1
      BY <1>2, <1>4, <2>1, <2>2
    <3> QED BY <3>1 DEF Rising, m
  <2>3. CASE i = m + 1
    <3>1. t[i] = n + 1 /\ i - 1 \in 1..m /\ t[i - 1] = s[i - 1]
      BY <1>2, <1>4, <2>1, <2>3
    <3> QED BY <1>2, <3>1
  <2>4. CASE i > m + 1
    BY <1>2, <1>4, <2>1, <2>4
  <2> QED BY <1>2, <2>2, <2>3, <2>4
<1>6. ASSUME NEW i \in 1..Len(t) PROVE t[i] <= n + k
  <2>1. i \in 1..(m + k)
    BY <1>3
  <2>2. CASE i <= m
    <3>1. t[i] = s[i] /\ i \in 1..m
      BY <1>2, <1>4, <2>1, <2>2
    <3> QED BY <1>2, <3>1
  <2>3. CASE ~(i <= m)
    BY <1>2, <1>4, <2>1, <2>3
  <2> QED BY <2>2, <2>3
<1> QED BY <1>3, <1>5, <1>6 DEF t, run

------------------------------------------------------------------------------
(* The log: a segment grows at its end, and a new one begins there. *)

LEMMA SegFacts ==
  ASSUME SegsInOrder
  PROVE  /\ Len(segs) \in Nat
         /\ \A i \in 1..Len(segs) : /\ segs[i] \in [lo : Nat, hi : Nat]
                                   /\ segs[i].lo \in Nat /\ segs[i].hi \in Nat
                                   /\ segs[i].lo <= segs[i].hi
                                   /\ Size(i) \in Nat
<1>1. Len(segs) \in Nat /\ \A i \in 1..Len(segs) : segs[i] \in [lo : Nat, hi : Nat]
  <2>1. segs \in Seq([lo : Nat, hi : Nat])
    BY DEF SegsInOrder
  <2>2. Len(segs) \in Nat
    BY <2>1, LenProperties, Zenon
  <2>3. \A i \in 1..Len(segs) : segs[i] \in [lo : Nat, hi : Nat]
    BY <2>1, ElementOfSeq, Zenon
  <2> QED BY <2>2, <2>3
<1>2. \A i \in 1..Len(segs) : segs[i].lo \in Nat /\ segs[i].hi \in Nat /\ segs[i].lo <= segs[i].hi
  BY <1>1 DEF SegsInOrder
<1>3. \A i \in 1..Len(segs) : Size(i) \in Nat
  BY <1>2 DEF Size
<1> QED BY <1>1, <1>2, <1>3

\* What the writer does leaves every reader its place.
LEMMA GrowKeeps ==
  ASSUME SegsInOrder, Len(segs) > 0,
         segs' = [segs EXCEPT ![Active] = [lo |-> @.lo, hi |-> @.hi + 1]]
  PROVE  /\ SegsInOrder' /\ Len(segs') = Len(segs)
         /\ \A i \in 1..Len(segs) : segs'[i].lo = segs[i].lo /\ segs'[i].hi >= segs[i].hi
<1>1. Active \in 1..Len(segs)
  BY SegFacts DEF Active
<1>2. [lo |-> segs[Active].lo, hi |-> segs[Active].hi + 1] \in [lo : Nat, hi : Nat]
  BY <1>1, SegFacts
<1>3. segs' \in Seq([lo : Nat, hi : Nat]) /\ Len(segs') = Len(segs)
  BY <1>1, <1>2 DEF SegsInOrder
<1>4. \A i \in 1..Len(segs) :
        /\ segs'[i].lo = segs[i].lo
        /\ segs'[i].hi = IF i = Active THEN segs[i].hi + 1 ELSE segs[i].hi
  BY <1>1 DEF SegsInOrder
<1>5. \A i \in 1..Len(segs) : segs'[i].lo <= segs'[i].hi
  BY <1>4, SegFacts
<1>6. ASSUME NEW i \in 1..Len(segs), NEW j \in 1..Len(segs), i < j
      PROVE  segs'[i].hi <= segs'[j].lo
  <2>1. i # Active
    BY <1>1, <1>6, SegFacts DEF Active
  <2> QED BY <1>4, <1>6, <2>1 DEF SegsInOrder
<1>7. SegsInOrder'
  BY <1>3, <1>5, <1>6 DEF SegsInOrder
<1>8. \A i \in 1..Len(segs) : segs'[i].lo = segs[i].lo /\ segs'[i].hi >= segs[i].hi
  BY <1>4, SegFacts
<1> QED BY <1>3, <1>7, <1>8

LEMMA NewSegmentKeeps ==
  ASSUME SegsInOrder, segs' = NewSegment
  PROVE  /\ SegsInOrder' /\ Len(segs') = Len(segs) + 1
         /\ \A i \in 1..Len(segs) : segs'[i] = segs[i]
<1>1. Written \in Nat
  BY SegFacts DEF Written, Active, SegsInOrder
<1> DEFINE new == [lo |-> Written, hi |-> Written]
<1>2. new \in [lo : Nat, hi : Nat] /\ new.lo = Written /\ new.hi = Written
  BY <1>1
<1>3. /\ segs' \in Seq([lo : Nat, hi : Nat]) /\ Len(segs') = Len(segs) + 1
      /\ \A i \in 1..Len(segs) : segs'[i] = segs[i]
      /\ segs'[Len(segs) + 1] = new
  BY <1>2 DEF NewSegment, SegsInOrder
<1> HIDE DEF new
<1>4. \A i \in 1..Len(segs') : segs'[i].lo <= segs'[i].hi
  BY <1>1, <1>2, <1>3, SegFacts, SMTT(20)
<1>5. ASSUME NEW i \in 1..Len(segs) PROVE segs[i].hi <= Written
  <2>1. segs # <<>> /\ Active \in 1..Len(segs) /\ Written = segs[Active].hi
    BY SegFacts DEF Active, Written, SegsInOrder
  <2>2. CASE i = Active
    BY <2>1, <2>2, SegFacts
  <2>3. CASE i < Active
    <3>1. segs[i].hi <= segs[Active].lo
      BY <2>1, <2>3 DEF SegsInOrder
    <3>2. segs[i].hi \in Nat /\ segs[Active].lo \in Nat /\ segs[Active].hi \in Nat
          /\ segs[Active].lo <= segs[Active].hi
      BY <2>1, SegFacts
    <3> QED BY <2>1, <3>1, <3>2
  <2>4. i = Active \/ i < Active
    BY SegFacts DEF Active
  <2> QED BY <2>2, <2>3, <2>4
<1>6. ASSUME NEW i \in 1..Len(segs'), NEW j \in 1..Len(segs'), i < j
      PROVE  segs'[i].hi <= segs'[j].lo
  <2>1. Len(segs) \in Nat
    BY SegFacts
  <2>2. i \in 1..Len(segs) /\ (j \in 1..Len(segs) \/ j = Len(segs) + 1)
    <3>1. i \in 1..(Len(segs) + 1) /\ j \in 1..(Len(segs) + 1)
      BY <1>3
    <3> QED BY <1>6, <2>1, <3>1
  <2>3. CASE j \in 1..Len(segs)
    BY <1>3, <1>6, <2>2, <2>3 DEF SegsInOrder
  <2>4. CASE j = Len(segs) + 1
    BY <1>2, <1>3, <1>5, <2>2, <2>4
  <2> QED BY <2>2, <2>3, <2>4
<1>7. Len(segs') > 0
  BY <1>3, SegFacts
<1> QED BY <1>3, <1>4, <1>6, <1>7 DEF SegsInOrder

------------------------------------------------------------------------------
LEMMA InvInit == Init => Inv
<1> SUFFICES ASSUME Init PROVE Inv
  OBVIOUS
<1>1. segs = <<>> /\ ~named /\ out = <<>> /\ followpos = 0 /\ followpc \in {"off", "open"}
  BY DEF Init
<1>2. SegsInOrder
  <2>1. segs \in Seq([lo : Nat, hi : Nat]) /\ Len(segs) = 0
    BY <1>1, EmptySeq, Zenon
  <2> QED BY <1>1, <2>1 DEF SegsInOrder
<1>3. FollowShape
  BY <1>1 DEF FollowShape
<1>4. OutBehind
  BY <1>1 DEF OutBehind, Rising
<1> QED BY <1>2, <1>3, <1>4 DEF Inv

\* A reader that does not move keeps its place in a log that grows.
LEMMA PlaceKept ==
  ASSUME Inv, SegsInOrder', UNCHANGED followVars, Len(segs') >= Len(segs),
         \A i \in 1..Len(segs) : segs'[i].lo = segs[i].lo /\ segs'[i].hi >= segs[i].hi
  PROVE  Inv'
<1>1. SegsInOrder /\ FollowShape /\ OutBehind /\ UNCHANGED <<followpc, followseg, followpos, out>>
  BY DEF Inv, followVars
<1>2. Len(segs) \in Nat /\ Len(segs') \in Nat
  BY <1>1, SegFacts DEF SegsInOrder
<1>3. CASE followpc \in {"off", "open"}
  BY <1>1, <1>3 DEF Inv, FollowShape, OutBehind, Rising
<1>4. CASE followpc \notin {"off", "open"}
  <2>1. followseg \in 1..Len(segs) /\ followpos \in 0..Size(followseg)
    BY <1>1, <1>4 DEF FollowShape
  <2>2. /\ segs[followseg].lo \in Nat /\ segs[followseg].hi \in Nat
        /\ segs'[followseg].hi \in Nat /\ segs'[followseg].lo = segs[followseg].lo
        /\ segs'[followseg].hi >= segs[followseg].hi
    <3>1. followseg \in 1..Len(segs')
      BY <1>2, <2>1
    <3>2. segs' \in Seq([lo : Nat, hi : Nat])
      BY DEF SegsInOrder
    <3>3. segs'[followseg] \in [lo : Nat, hi : Nat]
      BY <3>1, <3>2, ElementOfSeq, Zenon
    <3> QED BY <1>1, <2>1, <3>3, SegFacts
  <2>3. followpos \in 0..(segs'[followseg].hi - segs'[followseg].lo)
    <3> DEFINE lo == segs[followseg].lo
               hi == segs[followseg].hi
               top == segs'[followseg].hi
    <3>1. lo \in Nat /\ hi \in Nat /\ top \in Nat /\ top >= hi /\ followpos \in 0..(hi - lo)
      BY <2>1, <2>2 DEF Size
    <3> HIDE DEF lo, hi, top
    <3>2. followpos \in 0..(top - lo)
      BY <3>1
    <3> QED BY <2>2, <3>2 DEF lo, top
  <2>4. FollowShape'
    BY <1>1, <1>2, <1>4, <2>1, <2>3 DEF FollowShape, Size
  <2>5. OutBehind'
    BY <1>1, <2>2 DEF OutBehind, Line, Rising
  <2> QED BY <2>4, <2>5 DEF Inv
<1> QED BY <1>3, <1>4

LEMMA Still == Inv /\ UNCHANGED <<segs, named, followVars>> => Inv'
  BY DEF Inv, SegsInOrder, FollowShape, OutBehind, Rising, Line, Size, followVars

\* Draining adds the lines from the place in the file to its end.
LEMMA DrainKeeps ==
  ASSUME Inv, UNCHANGED daemonVars, DrainFollow,
         followpc \notin {"off", "open"}, followpc' \notin {"off", "open", "reopen"}
  PROVE  Inv'
<1>1. SegsInOrder /\ FollowShape /\ OutBehind /\ UNCHANGED <<segs, named, followseg>>
  BY DEF Inv, daemonVars, DrainFollow
<1>2. /\ followseg \in 1..Len(segs) /\ followpos \in 0..Size(followseg)
      /\ segs[followseg].lo \in Nat /\ Size(followseg) \in Nat
  BY <1>1, SegFacts DEF FollowShape
<1> DEFINE n == Line(followseg, followpos)
           k == Size(followseg) - followpos
<1>3. n \in Nat /\ k \in Nat /\ n + k = Line(followseg, Size(followseg))
  BY <1>2 DEF Line
<1>4. out' = out \o [i \in 1..k |-> n + i] /\ followpos' = Size(followseg)
  BY DEF DrainFollow
<1>5. out \in Seq(Nat) /\ Rising(out) /\ \A i \in 1..Len(out) : out[i] <= n
  BY <1>1 DEF OutBehind
<1> HIDE DEF n, k
<1>6. out' \in Seq(Nat) /\ Rising(out') /\ \A i \in 1..Len(out') : out'[i] <= n + k
  BY <1>3, <1>4, <1>5, RunAppended
<1>7. OutBehind'
  BY <1>1, <1>3, <1>4, <1>6 DEF OutBehind, Line, Rising
<1>8. FollowShape'
  BY <1>1, <1>2, <1>4 DEF FollowShape, Size
<1>9. SegsInOrder'
  BY <1>1 DEF SegsInOrder
<1> QED BY <1>7, <1>8, <1>9 DEF Inv

------------------------------------------------------------------------------
LEMMA FollowKeeps ==
  ASSUME Inv, Follow
  PROVE  Inv'
<1>0. /\ SegsInOrder /\ FollowShape /\ OutBehind /\ Len(segs) \in Nat
      /\ UNCHANGED daemonVars
  BY SegFacts DEF Inv, Follow, FollowOpen, FollowDump, FollowDrain, FollowAlive,
       FollowStat,
         FollowReopen, FollowLast, FollowStep
<1>1. UNCHANGED <<segs, named>> /\ SegsInOrder'
  BY <1>0 DEF daemonVars, SegsInOrder
<1>2. CASE FollowOpen
  <2>1. /\ followpc = "open" /\ followpc' = "dump" /\ Len(segs) > 0
        /\ followseg' = Len(segs) /\ out = <<>> /\ out' = out /\ followpos = 0 /\ followpos' = 0
    BY <1>0, <1>2 DEF FollowOpen, FollowStep, FollowShape, SegsInOrder, Active
  <2>2. Len(segs) \in 1..Len(segs) /\ Size(Len(segs)) \in Nat
    BY <1>0, <2>1, SegFacts
  <2>3. FollowShape'
    BY <1>1, <2>1, <2>2 DEF FollowShape, Size
  <2>4. OutBehind'
    BY <2>1 DEF OutBehind, Rising
  <2> QED BY <1>1, <2>3, <2>4 DEF Inv
<1>3. CASE FollowDump \/ FollowDrain \/ FollowLast
  <2>1. DrainFollow /\ followpc \notin {"off", "open"} /\ followpc' \notin {"off", "open", "reopen"}
    BY <1>3 DEF FollowDump, FollowDrain, FollowLast, FollowStep
  <2> QED BY <1>0, <2>1, DrainKeeps
<1>4. CASE FollowAlive
  <2>1. /\ followpc \notin {"off", "open"} /\ followpc' \notin {"off", "open", "reopen"}
        /\ UNCHANGED <<followseg, followpos, out>>
    BY <1>4 DEF FollowAlive, FollowStep
  <2> QED BY <1>0, <1>1, <2>1 DEF Inv, FollowShape, OutBehind, Rising, Line, Size
<1>5. CASE FollowStat
  <2>1. /\ followpc = "stat" /\ followpc' \in {"reopen", "drain"}
        /\ followpc' = "reopen" => followpos > Size(Active)
        /\ UNCHANGED <<followseg, followpos, out>>
    BY <1>5 DEF FollowStat, FollowStep
  <2>2. followseg \in 1..Len(segs) /\ followpos \in 0..Size(followseg)
    BY <1>0, <2>1 DEF FollowShape
  <2>3. followpc' = "reopen" => followseg < Len(segs)
    <3> SUFFICES ASSUME followpos > Size(Active) PROVE followseg # Len(segs)
      BY <1>0, <2>1, <2>2
    <3>1. Size(followseg) \in Nat
      BY <1>0, <2>2, SegFacts
    <3> QED BY <2>2, <3>1 DEF Active
  <2> QED BY <1>0, <1>1, <2>1, <2>2, <2>3 DEF Inv, FollowShape, OutBehind, Rising,
       Line, Size
<1>6. CASE FollowReopen
  <2>1. /\ followpc = "reopen" /\ followpc' \in {"drain", "stat"} /\ out' = out
        /\ \/ followseg' = followseg /\ followpos' = followpos
           \/ followseg' = Len(segs) /\ followpos' = 0
    BY <1>6 DEF FollowReopen, FollowStep, Active
  <2>2. followseg \in 1..Len(segs) /\ followpos \in 0..Size(followseg) /\ followseg < Len(segs)
    BY <1>0, <2>1 DEF FollowShape
  <2>3. CASE followseg' = followseg /\ followpos' = followpos
    BY <1>0, <1>1, <2>1, <2>2, <2>3 DEF Inv, FollowShape, OutBehind, Rising, Line, Size
  <2>4. CASE followseg' = Len(segs) /\ followpos' = 0
    <3>1. Len(segs) \in 1..Len(segs)
      BY <1>0, <2>2
    <3>2. /\ segs[followseg].lo \in Nat /\ segs[followseg].hi \in Nat
          /\ segs[Len(segs)].lo \in Nat /\ Size(Len(segs)) \in Nat
      BY <1>0, <2>2, <3>1, SegFacts
    <3>3. segs[followseg].hi <= segs[Len(segs)].lo
      BY <1>0, <2>2, <3>1 DEF SegsInOrder
    <3>4. Line(followseg, followpos) <= Line(Len(segs), 0)
          /\ Line(followseg, followpos) \in Nat /\ Line(Len(segs), 0) \in Nat
      BY <2>2, <3>2, <3>3 DEF Line, Size
    <3>5. ASSUME NEW i \in 1..Len(out) PROVE out[i] <= Line(Len(segs), 0)
      <4>1. out[i] \in Nat /\ out[i] <= Line(followseg, followpos)
        BY <1>0 DEF OutBehind
      <4> QED BY <3>4, <4>1
    <3>6. OutBehind'
      BY <1>0, <1>1, <2>1, <2>4, <3>5 DEF OutBehind, Rising, Line
    <3>7. FollowShape'
      BY <1>1, <2>1, <2>4, <3>1, <3>2 DEF FollowShape, Size
    <3> QED BY <1>1, <3>6, <3>7 DEF Inv
  <2> QED BY <2>1, <2>3, <2>4
<1> QED BY <1>2, <1>3, <1>4, <1>5, <1>6 DEF Follow

LEMMA LogKeeps ==
  ASSUME Inv, WriteLine \/ Reopen \/ OpenLog
  PROVE  Inv'
<1>0. SegsInOrder /\ UNCHANGED followVars /\ Len(segs) \in Nat
  BY SegFacts DEF Inv, WriteLine, Reopen, OpenLog, DaemonStep
<1>1. CASE WriteLine
  <2>1. Len(segs) > 0 /\ segs' = [segs EXCEPT ![Active] = [lo |-> @.lo, hi |-> @.hi + 1]]
    BY <1>0, <1>1 DEF WriteLine, SegsInOrder
  <2>2. /\ SegsInOrder' /\ Len(segs') = Len(segs)
        /\ \A i \in 1..Len(segs) : segs'[i].lo = segs[i].lo /\ segs'[i].hi >= segs[i].hi
    BY <1>0, <2>1, GrowKeeps
  <2> QED BY <1>0, <2>2, PlaceKept
<1>2. CASE Reopen \/ OpenLog
  <2>1. segs' = NewSegment
    BY <1>2 DEF Reopen, OpenLog
  <2>2. /\ SegsInOrder' /\ Len(segs') = Len(segs) + 1
        /\ \A i \in 1..Len(segs) : segs'[i] = segs[i]
    BY <1>0, <2>1, NewSegmentKeeps
  <2>3. \A i \in 1..Len(segs) : segs'[i].lo = segs[i].lo /\ segs'[i].hi >= segs[i].hi
    BY <1>0, <2>2, SegFacts
  <2> QED BY <1>0, <2>2, <2>3, PlaceKept
<1> QED BY <1>1, <1>2

\* Everybody else leaves the log and this reader alone.
LEMMA OthersKeep ==
  ASSUME Next
  PROVE  Follow \/ WriteLine \/ Reopen \/ OpenLog \/ UNCHANGED <<segs, named, followVars>>
<1>1. CASE WritePid \/ StartChild \/ Reap \/ CountLines
  BY <1>1 DEF WritePid, StartChild, Reap, CountLines, DaemonStep, daemonVars
<1>2. CASE ChildPrints \/ ChildDies \/ GuardRemovesPid \/ Exit \/ Crash
  BY <1>2 DEF ChildPrints, ChildDies, GuardRemovesPid, Exit, Crash, DaemonStep
<1>3. CASE Poll
  BY <1>3 DEF Poll, PollOpen, PollLen, PollRead, PollStep, daemonVars
<1>4. CASE Wait
  BY <1>4 DEF Wait, WaitStart, WaitOpen, WaitDrain, WaitMatch, WaitCheckPid,
       WaitStatus, WaitFinal,
         WaitStep, daemonVars
<1>5. CASE Summary
  BY <1>5 DEF Summary, SumStatus, SumCounter, SumExists, SumLen, SumScan, SumStep,
       daemonVars
<1> QED BY <1>1, <1>2, <1>3, <1>4, <1>5 DEF Next, Daemon

LEMMA Inductive == Spec => []Inv
<1>1. Inv /\ [Next]_vars => Inv'
  <2> SUFFICES ASSUME Inv, [Next]_vars PROVE Inv'
    OBVIOUS
  <2>1. CASE UNCHANGED vars
    BY <2>1, Still DEF vars, daemonVars
  <2>2. CASE Next
    BY <2>2, OthersKeep, FollowKeeps, LogKeeps, Still
  <2> QED BY <2>1, <2>2
<1> QED BY InvInit, <1>1, PTL DEF Spec

\* tail --follow (tail.rs:920-999) across any number of rotations of files of
\* any size: no line is written twice or out of order.
THEOREM FollowInvariance == Spec => []FollowInOrder
<1>1. Inv => FollowInOrder
  BY DEF Inv, OutBehind, Rising, FollowInOrder
<1> QED BY Inductive, <1>1, PTL

------------------------------------------------------------------------------
(* The other readers, as long as the log was not rotated. *)

\* The first file begins with the first line.
FromStart == Len(segs) > 0 => segs[1].lo = 0

\* Files are added and grow; a name that leads nowhere comes back with a new
\* file only.
LEMMA LogSteps ==
  ASSUME SegsInOrder, FromStart, [Next]_vars
  PROVE  /\ SegsInOrder' /\ FromStart' /\ Len(segs') \in Nat /\ Len(segs') >= Len(segs)
         /\ \A i \in 1..Len(segs) : segs'[i].lo = segs[i].lo /\ segs'[i].hi >= segs[i].hi
         /\ named' /\ Len(segs') = Len(segs) => named
<1>0. Len(segs) \in Nat
  BY SegFacts
<1>1. CASE WriteLine
  <2>1. /\ Len(segs) > 0 /\ named
        /\ segs' = [segs EXCEPT ![Active] = [lo |-> @.lo, hi |-> @.hi + 1]]
    BY <1>1 DEF WriteLine, SegsInOrder
  <2>2. /\ SegsInOrder' /\ Len(segs') = Len(segs)
        /\ \A i \in 1..Len(segs) : segs'[i].lo = segs[i].lo /\ segs'[i].hi >= segs[i].hi
    BY <2>1, GrowKeeps
  <2>3. segs'[1].lo = 0
    BY <1>0, <2>1, <2>2 DEF FromStart
  <2> QED BY <1>0, <2>1, <2>2, <2>3 DEF FromStart
<1>2. CASE Reopen \/ OpenLog
  <2>1. segs' = NewSegment
    BY <1>2 DEF Reopen, OpenLog
  <2>2. /\ SegsInOrder' /\ Len(segs') = Len(segs) + 1
        /\ \A i \in 1..Len(segs) : segs'[i] = segs[i]
    BY <2>1, NewSegmentKeeps
  <2>3. \A i \in 1..Len(segs) : segs'[i].lo = segs[i].lo /\ segs'[i].hi >= segs[i].hi
    BY <2>2, SegFacts
  <2>4. segs'[1].lo = 0
    <3>1. CASE Len(segs) > 0
      BY <1>0, <2>3, <3>1 DEF FromStart
    <3>2. CASE Len(segs) = 0
      <4>1. segs = <<>>
        BY <3>2, EmptySeq, Zenon DEF SegsInOrder
      <4>2. segs' = <<[lo |-> 0, hi |-> 0]>>
        BY <2>1, <4>1 DEF NewSegment, Written
      <4> QED BY <4>2
    <3> QED BY <1>0, <3>1, <3>2
  <2> QED BY <1>0, <2>2, <2>3, <2>4 DEF FromStart
<1>3. CASE UNCHANGED <<segs, named>>
  <2>1. segs' = segs /\ named' = named
    BY <1>3
  <2>2. SegsInOrder' /\ FromStart'
    BY <2>1 DEF SegsInOrder, FromStart
  <2>3. \A i \in 1..Len(segs) : segs'[i].lo = segs[i].lo /\ segs'[i].hi >= segs[i].hi
    BY <2>1, SegFacts
  <2> QED BY <1>0, <2>1, <2>2, <2>3
<1>4. CASE Follow
  BY <1>3, <1>4 DEF Follow, FollowOpen, FollowDump, FollowDrain, FollowAlive, FollowStat,
     FollowReopen, FollowLast, FollowStep, daemonVars
<1>5. UNCHANGED vars => UNCHANGED <<segs, named>>
  BY DEF vars, daemonVars
<1> QED BY <1>1, <1>2, <1>3, <1>4, <1>5, OthersKeep

\* The loop's place: it reads up to what it was told, and was given every line
\* before its cursor.
PollView ==
    /\ cursor \in Nat /\ polllen \in Nat
    /\ pollpc \in {"len", "read"} => pollseg \in 1..Len(segs)
    /\ Len(segs) = 1 /\ pollpc = "read" => cursor <= polllen /\ polllen <= segs[1].hi
    /\ Len(segs) <= 1 => 1..cursor \subseteq got

PollInv == SegsInOrder /\ FromStart /\ PollView

LEMMA NotPoll == [Next]_vars => Poll \/ UNCHANGED pollVars
<1> SUFFICES ASSUME Next PROVE Poll \/ UNCHANGED pollVars
  BY DEF vars
<1>1. CASE Daemon
  BY <1>1 DEF Daemon, WritePid, StartChild, OpenLog, WriteLine, Reopen, Reap, CountLines,
     DaemonStep
<1>2. CASE ChildPrints \/ ChildDies \/ GuardRemovesPid \/ Exit \/ Crash
  BY <1>2 DEF ChildPrints, ChildDies, GuardRemovesPid, Exit, Crash, DaemonStep
<1>3. CASE Follow
  BY <1>3 DEF Follow, FollowOpen, FollowDump, FollowDrain, FollowAlive, FollowStat,
     FollowReopen, FollowLast, FollowStep
<1>4. CASE Wait
  BY <1>4 DEF Wait, WaitStart, WaitOpen, WaitDrain, WaitMatch, WaitCheckPid,
     WaitStatus, WaitFinal, WaitStep
<1>5. CASE Summary
  BY <1>5 DEF Summary, SumStatus, SumCounter, SumExists, SumLen, SumScan, SumStep
<1> QED BY <1>1, <1>2, <1>3, <1>4, <1>5 DEF Next

LEMMA PollStays == PollInv /\ [Next]_vars => PollInv'
<1> SUFFICES ASSUME SegsInOrder, FromStart, PollView, [Next]_vars
             PROVE  SegsInOrder' /\ FromStart' /\ PollView'
  BY DEF PollInv
<1>0. /\ SegsInOrder' /\ FromStart' /\ Len(segs) \in Nat /\ Len(segs') \in Nat
      /\ Len(segs') >= Len(segs)
      /\ \A i \in 1..Len(segs) : /\ segs'[i].lo = segs[i].lo /\ segs'[i].hi >= segs[i].hi
                                 /\ segs[i].lo \in Nat /\ segs[i].hi \in Nat
                                 /\ Size(i) \in Nat
  BY LogSteps, SegFacts
<1>1. CASE UNCHANGED pollVars
  <2>1. UNCHANGED <<pollpc, cursor, pollseg, polllen, got>>
    BY <1>1 DEF pollVars
  <2>2. ASSUME Len(segs') = 1, pollpc = "read"
        PROVE  cursor <= polllen /\ polllen <= segs'[1].hi
    <3>1. pollseg \in 1..Len(segs) /\ cursor \in Nat /\ polllen \in Nat
      BY <2>2 DEF PollView
    <3>2. Len(segs) = 1 /\ 1 \in 1..Len(segs) /\ 1 \in 1..Len(segs')
      <4>1. Len(segs) \in Nat /\ Len(segs') >= Len(segs)
        BY <1>0
      <4>2. Len(segs) >= 1
        BY <3>1, <4>1
      <4>3. Len(segs) <= 1
        BY <2>2, <4>1
      <4>4. Len(segs) = 1
        BY <4>1, <4>2, <4>3
      <4> QED BY <2>2, <4>4
    <3>3. cursor <= polllen /\ polllen <= segs[1].hi
      BY <2>2, <3>2 DEF PollView
    <3>4. segs' \in Seq([lo : Nat, hi : Nat])
      BY <1>0 DEF SegsInOrder
    <3>5. segs'[1] \in [lo : Nat, hi : Nat]
      BY <3>2, <3>4, ElementOfSeq, Zenon
    <3>6. segs'[1].hi \in Nat /\ segs[1].hi \in Nat /\ segs'[1].hi >= segs[1].hi
      BY <1>0, <3>2, <3>5
    <3> QED BY <3>1, <3>3, <3>6
  <2> QED BY <1>0, <2>1, <2>2 DEF PollView
<1>2. CASE Poll
  <2>0. UNCHANGED <<segs, named>>
    BY <1>2 DEF Poll, PollOpen, PollLen, PollRead, PollStep, daemonVars
  <2>1. CASE PollOpen
    <3>1. pollpc' = "len" /\ named /\ pollseg' = Len(segs) /\ UNCHANGED <<cursor, polllen, got>>
      BY <2>1 DEF PollOpen, PollStep, Active
    <3>2. Len(segs) \in 1..Len(segs)
      BY <1>0, <3>1 DEF SegsInOrder
    <3> QED BY <1>0, <2>0, <3>1, <3>2 DEF PollView
  <2>2. CASE PollLen
    <3>1. /\ pollpc = "len" /\ pollseg' = pollseg /\ got' = got /\ polllen' = Size(pollseg)
          /\ pollpc' = IF cursor > Size(pollseg) THEN "idle" ELSE "read"
          /\ cursor' = IF cursor > Size(pollseg) THEN Size(pollseg) ELSE cursor
      BY <2>2 DEF PollLen, PollStep
    <3>2. pollseg \in 1..Len(segs) /\ Size(pollseg) \in Nat /\ cursor \in Nat
      BY <1>0, <3>1 DEF PollView
    <3>3. cursor' \in Nat /\ polllen' \in Nat /\ cursor' <= cursor
      BY <3>1, <3>2
    <3>4. Len(segs) = 1 => Size(pollseg) = segs[1].hi
      <4> SUFFICES ASSUME Len(segs) = 1 PROVE Size(pollseg) = segs[1].hi
        OBVIOUS
      <4>1. pollseg = 1 /\ segs[1].lo = 0 /\ segs[1].hi \in Nat
        BY <1>0, <3>2 DEF FromStart
      <4> QED BY <4>1 DEF Size
    <3>5. Len(segs) = 1 /\ pollpc' = "read" => cursor' <= polllen' /\ polllen' <= segs[1].hi
      BY <1>0, <3>1, <3>2, <3>4
    <3>6. Len(segs) <= 1 => 1..cursor' \subseteq got
      BY <3>2, <3>3 DEF PollView
    <3> QED BY <1>0, <2>0, <3>1, <3>2, <3>3, <3>5, <3>6 DEF PollView
  <2>3. CASE PollRead
    <3>1. /\ pollpc = "read" /\ pollpc' = "idle" /\ cursor' = polllen
          /\ UNCHANGED <<pollseg, polllen>>
          /\ got' = got \union LinesFrom(pollseg, cursor)
      BY <2>3 DEF PollRead, PollStep
    <3>2. pollseg \in 1..Len(segs) /\ polllen \in Nat /\ cursor \in Nat
      BY <3>1 DEF PollView
    <3>3. ASSUME Len(segs) = 1 PROVE 1..polllen \subseteq got'
      <4>1. /\ pollseg = 1 /\ segs[1].lo = 0 /\ segs[1].hi \in Nat
            /\ polllen <= segs[1].hi /\ 1..cursor \subseteq got
        BY <1>0, <3>1, <3>2, <3>3 DEF FromStart, PollView
      <4>2. LinesFrom(pollseg, cursor) = (cursor + 1)..segs[1].hi
        BY <3>2, <4>1 DEF LinesFrom, Line
      <4>3. ASSUME NEW n \in 1..polllen PROVE n \in got'
        <5>1. n \in 1..cursor \/ n \in (cursor + 1)..segs[1].hi
          BY <3>2, <4>1
        <5> QED BY <3>1, <4>1, <4>2, <5>1
      <4> QED BY <4>3
    <3>4. Len(segs) <= 1 => 1..cursor' \subseteq got'
      <4>0. Len(segs) \in Nat
        BY <1>0
      <4>1. Len(segs) <= 1 => Len(segs) = 1
        BY <3>2, <4>0
      <4> QED BY <3>1, <3>3, <4>1
    <3> QED BY <1>0, <2>0, <3>1, <3>2, <3>4 DEF PollView
  <2> QED BY <1>0, <1>2, <2>1, <2>2, <2>3 DEF Poll
<1> QED BY <1>0, <1>1, <1>2, NotPoll

\* A loop of `tail --json --cursor` calls (tail.rs:711-869) on a log of any
\* length that was not rotated skips no line before its cursor.
THEOREM PollInvariance == Spec => []PollLosesNothing
<1>1. Init => PollInv
  <2> SUFFICES ASSUME Init PROVE PollInv
    OBVIOUS
  <2>1. SegsInOrder
    BY InvInit DEF Inv
  <2>2. segs = <<>> /\ cursor = 0 /\ polllen = 0 /\ pollpc \in {"idle", "off"}
    BY DEF Init
  <2> QED BY <2>1, <2>2 DEF PollInv, FromStart, PollView
<1>2. PollInv => PollLosesNothing
  BY DEF PollInv, PollView, PollLosesNothing, Active
<1> QED BY <1>1, <1>2, PollStays, PTL DEF Spec

------------------------------------------------------------------------------
\* Until it is rotated, a log that held the line when wait started is opened,
\* drained from its beginning, and matched.
OnItsWay ==
    /\ Pattern \in 1..segs[1].hi
    /\ waitpc \in {"open", "drain", "match", "matched"}
    /\ waitpc = "open" => waitseg = 0 /\ waitpos = 0
    /\ waitpc = "drain" => waitseg = 1 /\ waitpos = 0
    /\ waitpc = "match" => seen

WaitView ==
    /\ early => Len(segs) > 0
    /\ waitpc = "start" => waitseg = 0 /\ waitpos = 0 /\ ~early
    /\ early /\ Len(segs) = 1 /\ named => OnItsWay

WaitInv == SegsInOrder /\ FromStart /\ WaitView

LEMMA NotWait == [Next]_vars => Wait \/ UNCHANGED waitVars
<1> SUFFICES ASSUME Next PROVE Wait \/ UNCHANGED waitVars
  BY DEF vars
<1>1. CASE Daemon
  BY <1>1 DEF Daemon, WritePid, StartChild, OpenLog, WriteLine, Reopen, Reap, CountLines,
     DaemonStep
<1>2. CASE ChildPrints \/ ChildDies \/ GuardRemovesPid \/ Exit \/ Crash
  BY <1>2 DEF ChildPrints, ChildDies, GuardRemovesPid, Exit, Crash, DaemonStep
<1>3. CASE Follow
  BY <1>3 DEF Follow, FollowOpen, FollowDump, FollowDrain, FollowAlive, FollowStat,
     FollowReopen, FollowLast, FollowStep
<1>4. CASE Poll
  BY <1>4 DEF Poll, PollOpen, PollLen, PollRead, PollStep
<1>5. CASE Summary
  BY <1>5 DEF Summary, SumStatus, SumCounter, SumExists, SumLen, SumScan, SumStep
<1> QED BY <1>1, <1>2, <1>3, <1>4, <1>5 DEF Next

LEMMA WaitStays == WaitInv /\ [Next]_vars => WaitInv'
<1> SUFFICES ASSUME SegsInOrder, FromStart, WaitView, [Next]_vars
             PROVE  SegsInOrder' /\ FromStart' /\ WaitView'
  BY DEF WaitInv
<1>0. /\ SegsInOrder' /\ FromStart' /\ Len(segs) \in Nat /\ Len(segs') \in Nat
      /\ Len(segs') >= Len(segs)
      /\ named' /\ Len(segs') = Len(segs) => named
      /\ \A i \in 1..Len(segs) : segs'[i].hi >= segs[i].hi
  BY LogSteps, SegFacts
<1>1. CASE UNCHANGED waitVars
  <2>1. UNCHANGED <<waitpc, waitseg, waitpos, seen, early>>
    BY <1>1 DEF waitVars
  <2>2. ASSUME early PROVE Len(segs') > 0
    <3>1. Len(segs) > 0
      BY <2>2 DEF WaitView
    <3> QED BY <1>0, <3>1
  <2>3. ASSUME early, Len(segs') = 1, named' PROVE OnItsWay'
    <3>1. Len(segs) > 0
      BY <2>3 DEF WaitView
    <3>2. Len(segs) = 1
      <4>1. Len(segs) \in Nat /\ Len(segs') >= Len(segs)
        BY <1>0
      <4>2. Len(segs) <= 1
        BY <2>3, <4>1
      <4> QED BY <3>1, <4>1, <4>2
    <3>3. OnItsWay
      BY <1>0, <2>3, <3>2 DEF WaitView
    <3>4. segs'[1].hi \in Nat /\ segs[1].hi \in Nat /\ segs'[1].hi >= segs[1].hi
      <4>1. segs' \in Seq([lo : Nat, hi : Nat]) /\ 1 \in 1..Len(segs')
        BY <1>0, <2>3 DEF SegsInOrder
      <4>2. segs'[1] \in [lo : Nat, hi : Nat]
        BY <4>1, ElementOfSeq, Zenon
      <4> QED BY <1>0, <3>2, <4>2, SegFacts
    <3>5. Pattern \in 1..segs'[1].hi
      BY <3>3, <3>4 DEF OnItsWay
    <3> QED BY <2>1, <3>3, <3>5 DEF OnItsWay
  <2> QED BY <1>0, <2>1, <2>2, <2>3 DEF WaitView
<1>2. CASE Wait
  <2>0. UNCHANGED <<segs, named>>
    BY <1>2 DEF Wait, WaitStart, WaitOpen, WaitDrain, WaitMatch, WaitCheckPid,
       WaitStatus, WaitFinal, WaitStep, daemonVars
  <2>1. CASE WaitStart
    <3>1. /\ waitpc = "start" /\ waitpc' = "open" /\ UNCHANGED <<waitseg, waitpos, seen>>
          /\ early' = (named /\ InLog(Pattern))
      BY <2>1 DEF WaitStart, WaitStep
    <3>2. waitseg = 0 /\ waitpos = 0
      BY <3>1 DEF WaitView
    <3>3. early' => named /\ Pattern \in (segs[Active].lo + 1)..segs[Active].hi
      BY <3>1 DEF InLog
    <3>4. early' => Len(segs) > 0
      BY <3>3 DEF SegsInOrder
    <3>5. ASSUME early', Len(segs) = 1 PROVE Pattern \in 1..segs[1].hi
      BY <3>3, <3>5 DEF Active, FromStart
    <3> QED BY <1>0, <2>0, <3>1, <3>2, <3>4, <3>5 DEF WaitView, OnItsWay
  <2>2. CASE WaitOpen
    <3>1. /\ waitpc = "open" /\ waitpc' = "drain" /\ UNCHANGED <<waitpos, seen, early>>
          /\ waitseg' = IF waitseg = 0 /\ named THEN Len(segs) ELSE waitseg
      BY <2>2 DEF WaitOpen, WaitStep, Active
    <3>2. ASSUME early, Len(segs) = 1, named PROVE OnItsWay'
      <4>1. OnItsWay
        BY <3>2 DEF WaitView
      <4>2. waitseg = 0 /\ waitpos = 0 /\ Pattern \in 1..segs[1].hi
        BY <3>1, <4>1 DEF OnItsWay
      <4>3. waitseg' = 1 /\ waitpos' = 0
        BY <3>1, <3>2, <4>2
      <4> QED BY <2>0, <3>1, <4>2, <4>3 DEF OnItsWay
    <3> QED BY <1>0, <2>0, <3>1, <3>2 DEF WaitView
  <2>3. CASE WaitDrain
    <3>1. /\ waitpc = "drain" /\ waitpc' = "match" /\ UNCHANGED <<waitseg, early>>
          /\ DrainWait
      BY <2>3 DEF WaitDrain, WaitStep
    <3>2. ASSUME early, Len(segs) = 1, named PROVE OnItsWay'
      <4>1. OnItsWay
        BY <3>2 DEF WaitView
      <4>2. waitseg = 1 /\ waitpos = 0 /\ Pattern \in 1..segs[1].hi
        BY <3>1, <4>1 DEF OnItsWay
      <4>3. Pattern \in LinesFrom(waitseg, waitpos)
        BY <3>2, <4>2 DEF LinesFrom, Line, FromStart
      <4>4. seen'
        <5>1. waitseg # 0
          BY <4>2
        <5>2. seen' = (seen \/ Pattern \in LinesFrom(waitseg, waitpos))
          BY <3>1, <5>1 DEF DrainWait
        <5> QED BY <4>3, <5>2, Zenon
      <4> QED BY <2>0, <3>1, <4>2, <4>4 DEF OnItsWay
    <3> QED BY <1>0, <2>0, <3>1, <3>2 DEF WaitView
  <2>4. CASE WaitMatch
    <3>1. /\ waitpc = "match" /\ waitpc' \in {"matched", "timeout", "check"}
          /\ seen => waitpc' = "matched"
          /\ UNCHANGED <<waitseg, waitpos, seen, early>>
      BY <2>4 DEF WaitMatch, WaitStep
    <3>2. ASSUME early, Len(segs) = 1, named PROVE OnItsWay'
      <4>1. OnItsWay
        BY <3>2 DEF WaitView
      <4>2. seen /\ Pattern \in 1..segs[1].hi
        BY <3>1, <4>1 DEF OnItsWay
      <4> QED BY <2>0, <3>1, <4>2 DEF OnItsWay
    <3> QED BY <1>0, <2>0, <3>1, <3>2 DEF WaitView
  <2>5. CASE WaitCheckPid \/ WaitStatus \/ WaitFinal
    <3>1. /\ waitpc \in {"check", "status", "final"} /\ early' = early
          /\ waitpc' # "start"
      BY <2>5 DEF WaitCheckPid, WaitStatus, WaitFinal, WaitStep
    <3>2. ~(early /\ Len(segs) = 1 /\ named)
      BY <3>1 DEF WaitView, OnItsWay
    <3> QED BY <1>0, <2>0, <3>1, <3>2 DEF WaitView
  <2> QED BY <1>0, <1>2, <2>1, <2>2, <2>3, <2>4, <2>5 DEF Wait
<1> QED BY <1>0, <1>1, <1>2, NotWait

\* wait (wait.rs:107-160) finds a line that is in the log when it starts, in a
\* log of any length that is not rotated, whatever the timeout, the child and
\* the daemon do meanwhile.
THEOREM WaitInvariance == Spec => []WaitFindsEarlyLine
<1>1. Init => WaitInv
  <2> SUFFICES ASSUME Init PROVE WaitInv
    OBVIOUS
  <2>1. SegsInOrder
    BY InvInit DEF Inv
  <2>2. segs = <<>> /\ waitseg = 0 /\ waitpos = 0 /\ early = FALSE
    BY DEF Init
  <2> QED BY <2>1, <2>2 DEF WaitInv, FromStart, WaitView
<1>2. WaitInv => WaitFindsEarlyLine
  BY DEF WaitInv, WaitView, OnItsWay, WaitFindsEarlyLine, Active
<1> QED BY <1>1, <1>2, WaitStays, PTL DEF Spec

------------------------------------------------------------------------------
(* The types, the end of a follow, and what summary prints. *)

LEMMA ConstantTypes ==
    /\ MaxLines \in Nat /\ SegSize \in Nat \ {0} /\ Pattern \in Nat
    /\ Readers \subseteq {"poll", "follow", "wait", "summary"} /\ MaxCrashes \in 0..1
  BY ReadersAssumption

(* The daemon and its log. *)

\* The log is there from the start of the loop on; its lines were printed, and
\* what was noted of its length is not more.
LogView ==
    /\ pid \in BOOLEAN /\ named \in BOOLEAN
    /\ dpc \in {"pid", "child", "log", "serve", "clean", "gone"}
    /\ child \in {"none", "running", "dead", "exited"}
    /\ printed \in 0..MaxLines /\ ended \in Nat /\ counted \in Nat
    /\ Written <= printed /\ ended <= Written /\ counted <= Written
    /\ Len(segs) > 0 => dpc \in {"serve", "clean", "gone"}
    /\ dpc \in {"child", "log", "serve"} => pid
    /\ named => Size(Active) < SegSize
    /\ \A i \in 1..Len(segs) : Size(i) <= SegSize

LogInv == SegsInOrder /\ FromStart /\ LogView

\* The last file ends with the last line written.
LEMMA WrittenLast ==
  ASSUME SegsInOrder
  PROVE  /\ Written \in Nat
         /\ Len(segs) > 0 => Written = segs[Len(segs)].hi
         /\ Len(segs) = 0 => Written = 0
         /\ \A i \in 1..Len(segs) : segs[i].hi <= Written
<1>0. Len(segs) \in Nat /\ (segs = <<>> <=> Len(segs) = 0)
  BY SegFacts, EmptySeq, Zenon DEF SegsInOrder
<1>1. CASE Len(segs) = 0
  BY <1>0, <1>1 DEF Written
<1>2. CASE Len(segs) > 0
  <2>1. Written = segs[Len(segs)].hi /\ Len(segs) \in 1..Len(segs)
    BY <1>0, <1>2 DEF Written, Active
  <2>2. ASSUME NEW i \in 1..Len(segs), i # Len(segs) PROVE segs[i].hi <= Written
    <3>1. segs[i].hi <= segs[Len(segs)].lo
      BY <1>0, <2>1, <2>2 DEF SegsInOrder
    <3> QED BY <2>1, <2>2, <3>1, SegFacts
  <2> QED BY <1>2, <2>1, <2>2, SegFacts
<1> QED BY <1>0, <1>1, <1>2

LEMMA WrittenGrows ==
  ASSUME SegsInOrder, SegsInOrder'
  PROVE  /\ segs' = segs => Written' = Written
         /\ segs' = NewSegment => Written' = Written /\ segs'[Len(segs) + 1] = [lo |-> Written, hi |-> Written]
         /\ Len(segs) > 0 /\ segs' = [segs EXCEPT ![Active] = [lo |-> @.lo, hi |-> @.hi + 1]]
              => /\ Written' = Written + 1
                 /\ \A i \in 1..Len(segs) :
                      Size(i)' = IF i = Active THEN Size(i) + 1 ELSE Size(i)
<1>0. Len(segs) \in Nat /\ Written \in Nat
  BY WrittenLast, SegFacts
<1>1. segs' = segs => Written' = Written
  BY DEF Written, Active
<1>2. ASSUME segs' = NewSegment PROVE Written' = Written /\ segs'[Len(segs) + 1] = [lo |-> Written, hi |-> Written]
  <2>1. Len(segs') = Len(segs) + 1 /\ segs'[Len(segs) + 1] = [lo |-> Written, hi |-> Written]
    <3>1. [lo |-> Written, hi |-> Written] \in [lo : Nat, hi : Nat]
      BY <1>0
    <3> QED BY <1>2, <3>1 DEF NewSegment, SegsInOrder
  <2>2. segs' # <<>>
    BY <1>0, <2>1
  <2>3. Written' = segs'[Len(segs) + 1].hi
    BY <2>1, <2>2 DEF Written, Active
  <2> QED BY <2>1, <2>3
<1>3. ASSUME Len(segs) > 0, segs' = [segs EXCEPT ![Active] = [lo |-> @.lo, hi |-> @.hi + 1]]
      PROVE  /\ Written' = Written + 1
             /\ \A i \in 1..Len(segs) :
                  Size(i)' = IF i = Active THEN Size(i) + 1 ELSE Size(i)
  <2>1. Active \in 1..Len(segs) /\ Active = Len(segs)
    BY <1>0, <1>3 DEF Active
  <2>2. /\ Len(segs') = Len(segs)
        /\ \A i \in 1..Len(segs) :
             /\ segs'[i].lo = segs[i].lo
             /\ segs'[i].hi = IF i = Active THEN segs[i].hi + 1 ELSE segs[i].hi
    BY <1>3, <2>1 DEF SegsInOrder
  <2>3. segs # <<>> /\ segs' # <<>>
    BY <1>3, <2>2
  <2>4. Written' = Written + 1
    <3>1. segs'[Active].hi = segs[Active].hi + 1
      BY <2>1, <2>2
    <3>2. Written' = segs'[Active].hi /\ Written = segs[Active].hi
      BY <2>1, <2>2, <2>3 DEF Written, Active
    <3> QED BY <3>1, <3>2
  <2>5. ASSUME NEW i \in 1..Len(segs)
        PROVE  Size(i)' = IF i = Active THEN Size(i) + 1 ELSE Size(i)
    <3>1. segs[i].lo \in Nat /\ segs[i].hi \in Nat
      BY SegFacts
    <3>2. CASE i = Active
      <4>1. segs'[i].lo = segs[i].lo /\ segs'[i].hi = segs[i].hi + 1
        BY <2>2, <3>2
      <4> QED BY <3>1, <3>2, <4>1 DEF Size
    <3>3. CASE i # Active
      BY <2>2, <3>3 DEF Size
    <3> QED BY <3>2, <3>3
  <2> QED BY <2>4, <2>5
<1> QED BY <1>1, <1>2, <1>3

LEMMA LogInvInit == Init => LogInv
<1> SUFFICES ASSUME Init PROVE LogInv
  OBVIOUS
<1>1. SegsInOrder /\ segs = <<>> /\ Len(segs) = 0 /\ Written = 0
  BY InvInit, WrittenLast DEF Inv, Init
<1>2. printed \in 0..MaxLines
  BY ConstantTypes DEF Init
<1>3. pid = FALSE /\ named = FALSE /\ dpc = "pid" /\ child = "none" /\ printed = 0
      /\ ended = 0 /\ counted = 0
  BY DEF Init
<1>4. LogView
  <2>1. pid \in BOOLEAN /\ named \in BOOLEAN
    BY <1>3
  <2>2. dpc \notin {"child", "log", "serve"} /\ ~named
    BY <1>3
  <2> QED BY <1>1, <1>2, <1>3, <2>1, <2>2 DEF LogView
<1> QED BY <1>1, <1>4 DEF LogInv, FromStart

LEMMA ReadersKeepLog ==
  Poll \/ Follow \/ Wait \/ Summary => UNCHANGED <<daemonVars, counted>>
<1>1. Poll => UNCHANGED <<daemonVars, counted>>
  BY DEF Poll, PollOpen, PollLen, PollRead, PollStep, sumVars
<1>2. Follow => UNCHANGED <<daemonVars, counted>>
  BY DEF Follow, FollowOpen, FollowDump, FollowDrain, FollowAlive, FollowStat, FollowReopen,
     FollowLast, FollowStep, sumVars
<1>3. Wait => UNCHANGED <<daemonVars, counted>>
  BY DEF Wait, WaitStart, WaitOpen, WaitDrain, WaitMatch, WaitCheckPid, WaitStatus, WaitFinal,
     WaitStep, sumVars
<1>4. Summary => UNCHANGED <<daemonVars, counted>>
  BY DEF Summary, SumStatus, SumCounter, SumExists, SumLen, SumScan, SumStep
<1> QED BY <1>1, <1>2, <1>3, <1>4

\* What a step does to the log, and to what is noted of it.
LEMMA LogInvNext == LogInv /\ [Next]_vars => LogInv'
<1> SUFFICES ASSUME LogInv, [Next]_vars PROVE LogInv'
  OBVIOUS
<1>c. MaxLines \in Nat /\ SegSize \in Nat \ {0}
  BY ConstantTypes
<1>0. /\ SegsInOrder /\ SegsInOrder' /\ FromStart' /\ LogView
      /\ Len(segs) \in Nat /\ Len(segs') \in Nat /\ Written \in Nat
      /\ \A i \in 1..Len(segs) : Size(i) \in Nat
  BY LogSteps, WrittenLast, SegFacts DEF LogInv
<1>1. CASE UNCHANGED <<segs, named>> /\ ~(WriteLine \/ Reopen \/ OpenLog)
  <2>1. /\ Written' = Written /\ Active' = Active
        /\ \A i \in 1..Len(segs) : Size(i)' = Size(i)
        /\ Size(Active)' = Size(Active)
    BY <1>0, <1>1, WrittenGrows DEF Active, Size
  <2>2. /\ pid' \in BOOLEAN
        /\ dpc' \in {"pid", "child", "log", "serve", "clean", "gone"}
        /\ child' \in {"none", "running", "dead", "exited"}
        /\ printed' \in 0..MaxLines /\ printed' >= printed
        /\ ended' \in {ended, Written} /\ counted' \in {counted, Written}
        /\ dpc \in {"serve", "clean", "gone"} => dpc' \in {"serve", "clean", "gone"}
        /\ dpc' \in {"child", "log", "serve"} => pid'
    <3>0. /\ pid \in BOOLEAN /\ (dpc \in {"child", "log", "serve"} => pid)
          /\ dpc \in {"pid", "child", "log", "serve", "clean", "gone"}
          /\ child \in {"none", "running", "dead", "exited"}
          /\ printed \in 0..MaxLines
      BY <1>0 DEF LogView
    <3>1. CASE WritePid
      BY <3>0, <3>1 DEF WritePid, DaemonStep, sumVars
    <3>2. CASE StartChild
      BY <3>0, <3>2 DEF StartChild, DaemonStep, sumVars
    <3>3. CASE Reap
      BY <3>0, <3>3 DEF Reap, sumVars
    <3>4. CASE CountLines
      BY <3>0, <3>4 DEF CountLines, daemonVars
    <3>5. CASE ChildPrints
      BY <1>c, <3>0, <3>5 DEF ChildPrints, sumVars
    <3>6. CASE ChildDies
      BY <3>0, <3>6 DEF ChildDies, sumVars
    <3>7. CASE GuardRemovesPid
      <4>1. /\ dpc' = "clean" /\ child' = child /\ printed' = printed /\ ended' = Written
            /\ counted' = counted
        BY <3>7 DEF GuardRemovesPid, DaemonStep, sumVars
      <4>2. pid' \in BOOLEAN
        BY <3>7 DEF GuardRemovesPid
      <4> QED BY <3>0, <4>1, <4>2
    <3>8. CASE Exit
      BY <3>0, <3>8 DEF Exit, DaemonStep, sumVars
    <3>9. CASE Crash
      BY <3>0, <3>9 DEF Crash, DaemonStep, sumVars
    <3>10. CASE UNCHANGED <<daemonVars, counted>>
      BY <3>0, <3>10 DEF daemonVars
    <3>11. UNCHANGED vars => UNCHANGED <<daemonVars, counted>>
      BY DEF vars, sumVars
    <3>12. Next => \/ WritePid \/ StartChild \/ Reap \/ CountLines
                   \/ ChildPrints \/ ChildDies \/ GuardRemovesPid \/ Exit \/ Crash
                   \/ UNCHANGED <<daemonVars, counted>>
      BY <1>1, ReadersKeepLog, Zenon DEF Next, Daemon
    <3> QED BY <3>1, <3>2, <3>3, <3>4, <3>5, <3>6, <3>7, <3>8, <3>9, <3>10, <3>11, <3>12
  <2>3. Written <= printed' /\ ended' \in Nat /\ ended' <= Written
        /\ counted' \in Nat /\ counted' <= Written
    BY <1>0, <1>c, <2>2 DEF LogView
  <2> QED BY <1>0, <1>1, <2>1, <2>2, <2>3 DEF LogInv, LogView, Active
<1>2. CASE WriteLine
  <2>1. /\ named /\ Len(segs) > 0 /\ Active \in 1..Len(segs) /\ Written < printed
        /\ segs' = [segs EXCEPT ![Active] = [lo |-> @.lo, hi |-> @.hi + 1]]
        /\ named' = (Size(Active) + 1 < SegSize)
        /\ UNCHANGED <<pid, dpc, child, printed, ended, counted>>
        /\ dpc \in {"serve", "clean"}
    BY <1>0, <1>2 DEF WriteLine, SegsInOrder, Active, sumVars
  <2>2. /\ Written' = Written + 1 /\ Len(segs') = Len(segs)
        /\ \A i \in 1..Len(segs) : Size(i)' = IF i = Active THEN Size(i) + 1 ELSE Size(i)
    BY <1>0, <2>1, WrittenGrows, GrowKeeps
  <2>3. Active' = Active /\ Size(Active)' = Size(Active) + 1
    BY <2>1, <2>2 DEF Active, Size
  <2>4. Size(Active) < SegSize /\ \A i \in 1..Len(segs) : Size(i) <= SegSize
    BY <1>0, <2>1 DEF LogView
  <2>5. \A i \in 1..Len(segs') : Size(i)' <= SegSize
    BY <1>0, <1>c, <2>1, <2>2, <2>4
  <2>6. Written' <= printed' /\ ended' <= Written' /\ counted' <= Written'
    BY <1>0, <1>c, <2>1, <2>2 DEF LogView
  <2>7. named' => Size(Active)' < SegSize
    BY <2>1, <2>3
  <2>8. named' \in BOOLEAN
    BY <2>1
  <2> QED BY <1>0, <2>1, <2>5, <2>6, <2>7, <2>8 DEF LogInv, LogView
<1>3. CASE Reopen \/ OpenLog
  <2>1. /\ segs' = NewSegment /\ named' = TRUE
        /\ UNCHANGED <<pid, child, printed, ended, counted>>
        /\ \/ dpc = "log" /\ dpc' = "serve"
           \/ dpc \in {"serve", "clean"} /\ dpc' = dpc
    BY <1>3 DEF Reopen, OpenLog, DaemonStep, sumVars
  <2>2. /\ Written' = Written /\ Len(segs') = Len(segs) + 1
        /\ segs'[Len(segs) + 1].hi - segs'[Len(segs) + 1].lo = 0
        /\ \A i \in 1..Len(segs) : segs'[i] = segs[i]
    BY <1>0, <2>1, WrittenGrows, NewSegmentKeeps
  <2>3. \A i \in 1..Len(segs) : Size(i)' = Size(i) /\ Size(i)' <= SegSize
    BY <1>0, <2>2 DEF Size, LogView
  <2>4. \A i \in 1..Len(segs') : Size(i)' <= SegSize
    <3> SUFFICES ASSUME NEW i \in 1..(Len(segs) + 1) PROVE Size(i)' <= SegSize
      BY <2>2
    <3>1. i \in 1..Len(segs) \/ i = Len(segs) + 1
      BY <1>0
    <3>2. CASE i = Len(segs) + 1
      BY <1>c, <2>2, <3>2 DEF Size
    <3> QED BY <2>3, <3>1, <3>2
  <2>5. Size(Active)' < SegSize
    BY <1>c, <2>2 DEF Active, Size
  <2> QED BY <1>0, <2>1, <2>2, <2>4, <2>5 DEF LogInv, LogView
<1> QED
  <2>1. Next => UNCHANGED <<segs, named>> \/ WriteLine \/ Reopen \/ OpenLog
    BY OthersKeep DEF Follow, FollowOpen, FollowDump, FollowDrain, FollowAlive, FollowStat,
       FollowReopen, FollowLast, FollowStep, daemonVars
  <2>2. UNCHANGED vars => UNCHANGED <<segs, named>>
    BY DEF vars, daemonVars
  <2> QED BY <1>1, <1>2, <1>3, <2>1, <2>2

LEMMA LogInductive == Spec => []LogInv
  BY LogInvInit, LogInvNext, PTL DEF Spec

------------------------------------------------------------------------------
(* tail --follow, while the log has not been rotated. *)

\* What was written are the lines before the place in the file; it is drained
\* once more after the daemon was found gone.
EndView ==
    /\ followpc \in {"last", "done"} => dpc \in {"clean", "gone"}
    /\ Len(segs) <= 1 => Len(out) = followpos /\ \A n \in 1..followpos : out[n] = n
    /\ followpc = "done" /\ Len(segs) <= 1 => ended <= followpos

LEMMA NotFollow == [Next]_vars => Follow \/ UNCHANGED followVars
<1> SUFFICES ASSUME Next PROVE Follow \/ UNCHANGED followVars
  BY DEF vars
<1>1. CASE Daemon
  BY <1>1 DEF Daemon, WritePid, StartChild, OpenLog, WriteLine, Reopen, Reap, CountLines,
     DaemonStep
<1>2. CASE ChildPrints \/ ChildDies \/ GuardRemovesPid \/ Exit \/ Crash
  BY <1>2 DEF ChildPrints, ChildDies, GuardRemovesPid, Exit, Crash, DaemonStep
<1>3. CASE Poll
  BY <1>3 DEF Poll, PollOpen, PollLen, PollRead, PollStep
<1>4. CASE Wait
  BY <1>4 DEF Wait, WaitStart, WaitOpen, WaitDrain, WaitMatch, WaitCheckPid,
     WaitStatus, WaitFinal, WaitStep
<1>5. CASE Summary
  BY <1>5 DEF Summary, SumStatus, SumCounter, SumExists, SumLen, SumScan, SumStep
<1> QED BY <1>1, <1>2, <1>3, <1>4, <1>5 DEF Next

\* A daemon that has ended stays so, and what was noted then is not changed.
LEMMA EndStays ==
  ASSUME [Next]_vars, dpc \in {"clean", "gone"}
  PROVE  dpc' \in {"clean", "gone"} /\ ended' = ended
<1>1. CASE WritePid \/ StartChild \/ OpenLog \/ Reap \/ GuardRemovesPid \/ Crash
  BY <1>1 DEF WritePid, StartChild, OpenLog, Reap, GuardRemovesPid, Crash, DaemonStep
<1>2. CASE WriteLine \/ Reopen \/ CountLines \/ ChildPrints \/ ChildDies \/ Exit
  BY <1>2 DEF WriteLine, Reopen, CountLines, ChildPrints, ChildDies, Exit, DaemonStep,
     daemonVars
<1>3. CASE UNCHANGED daemonVars
  BY <1>3 DEF daemonVars
<1>4. UNCHANGED vars => UNCHANGED daemonVars
  BY DEF vars
<1>5. Poll \/ Follow \/ Wait \/ Summary => UNCHANGED daemonVars
  BY ReadersKeepLog
<1> QED BY <1>1, <1>2, <1>3, <1>4, <1>5 DEF Next, Daemon

\* Draining an only file goes on with the next line.
LEMMA DrainGoesOn ==
  ASSUME NEW s \in Seq(Nat), NEW k \in Nat, \A n \in 1..Len(s) : s[n] = n
  PROVE  LET t == s \o [i \in 1..k |-> Len(s) + i]
         IN  Len(t) = Len(s) + k /\ \A n \in 1..(Len(s) + k) : t[n] = n
<1> DEFINE m == Len(s)
           run == [i \in 1..k |-> m + i]
           t == s \o run
<1>1. m \in Nat
  OBVIOUS
<1>2. run \in Seq(Nat) /\ Len(run) = k /\ \A i \in 1..k : run[i] = m + i
  BY <1>1
<1> HIDE DEF run
<1>3. Len(t) = m + k /\ \A i \in 1..(m + k) : t[i] = IF i <= m THEN s[i] ELSE run[i - m]
  BY <1>2, ConcatProperties, Zenon
<1> HIDE DEF t
<1>4. ASSUME NEW n \in 1..(m + k) PROVE t[n] = n
  <2>1. CASE n <= m
    BY <1>1, <1>3, <2>1
  <2>2. CASE ~(n <= m)
    <3>1. n - m \in 1..k
      BY <1>1, <2>2
    <3>2. run[n - m] = m + (n - m)
      BY <1>2, <3>1
    <3> QED BY <1>1, <1>3, <2>2, <3>2
  <2> QED BY <2>1, <2>2
<1> QED BY <1>3, <1>4 DEF t, run

\* An index into a list of at most one is of a list of one.
LEMMA OnlyOne == \A n, i \in Nat : i \in 1..n /\ n <= 1 => n = 1
  OBVIOUS

LEMMA EndStep == EndView /\ LogInv /\ LogInv' /\ Inv /\ [Next]_vars => EndView'
<1> SUFFICES ASSUME EndView, LogInv, LogInv', Inv, [Next]_vars PROVE EndView'
  OBVIOUS
<1>0. /\ SegsInOrder /\ FromStart /\ LogView /\ FollowShape /\ OutBehind
      /\ Len(segs) \in Nat /\ Len(segs') \in Nat /\ Len(segs') >= Len(segs)
      /\ Len(segs') <= 1 => Len(segs) <= 1
      /\ out \in Seq(Nat)
  BY LogSteps, SegFacts DEF LogInv, Inv, OutBehind
<1>1. CASE UNCHANGED followVars
  <2>1. UNCHANGED <<followpc, followseg, followpos, out>>
    BY <1>1 DEF followVars
  <2>2. followpc \in {"last", "done"} => dpc' \in {"clean", "gone"} /\ ended' = ended
    BY EndStays DEF EndView
  <2> QED BY <1>0, <2>1, <2>2 DEF EndView
<1>2. CASE Follow
  <2>0. UNCHANGED <<pid, dpc, segs, named, ended>>
    BY <1>2, ReadersKeepLog DEF daemonVars
  <2>1. CASE FollowDump \/ FollowDrain \/ FollowLast
    <3>1. /\ followpc \notin {"off", "open"} /\ DrainFollow
          /\ \/ followpc' \notin {"last", "done"}
             \/ followpc = "last" /\ followpc' = "done"
      BY <2>1 DEF FollowDump, FollowDrain, FollowLast, FollowStep
    <3>2. followseg \in 1..Len(segs) /\ followpos \in 0..Size(followseg)
      BY <1>0, <3>1 DEF FollowShape
    <3>3. ASSUME Len(segs) <= 1
          PROVE  /\ Len(out') = followpos' /\ \A n \in 1..followpos' : out'[n] = n
                 /\ ended <= followpos'
      <4>0. Len(segs) \in Nat
        BY <1>0
      <4>1. Len(segs) = 1 /\ followseg = 1 /\ Len(segs) > 0
        <5>1. Len(segs) = 1
          BY <3>2, <3>3, <4>0, OnlyOne
        <5> QED BY <3>2, <5>1
      <4>2. /\ segs[1].lo = 0 /\ segs[1].hi \in Nat /\ Size(1) = segs[1].hi
            /\ Written = segs[1].hi
        <5>1. segs[1].lo = 0 /\ segs[1].hi \in Nat /\ Written = segs[1].hi
          BY <1>0, <4>1, SegFacts, WrittenLast DEF FromStart
        <5> QED BY <5>1 DEF Size
      <4>3. /\ Len(out) = followpos /\ \A n \in 1..Len(out) : out[n] = n
            /\ Line(followseg, followpos) = followpos /\ followpos \in Nat
            /\ Size(followseg) - followpos \in Nat
        BY <1>0, <3>2, <3>3, <4>1, <4>2 DEF EndView, Line
      <4> DEFINE k == Size(followseg) - followpos
      <4>4. /\ out' = out \o [i \in 1..k |-> Len(out) + i]
            /\ followpos' = Size(followseg) /\ followpos' = Len(out) + k
        BY <3>1, <4>1, <4>2, <4>3 DEF DrainFollow
      <4>5. k \in Nat
        BY <4>3
      <4> HIDE DEF k
      <4>6. Len(out') = Len(out) + k /\ \A n \in 1..(Len(out) + k) : out'[n] = n
        BY <1>0, <4>3, <4>4, <4>5, DrainGoesOn
      <4>7. ended <= followpos'
        BY <1>0, <4>1, <4>2, <4>4 DEF LogView
      <4> QED BY <4>4, <4>6, <4>7
    <3>4. followpc' \in {"last", "done"} => dpc \in {"clean", "gone"}
      BY <3>1 DEF EndView
    <3> QED BY <2>0, <3>3, <3>4 DEF EndView
  <2>2. CASE FollowOpen \/ FollowStat
    <3>1. followpc' \notin {"last", "done"} /\ UNCHANGED <<followpos, out>>
      BY <2>2 DEF FollowOpen, FollowStat, FollowStep
    <3> QED BY <1>0, <2>0, <3>1 DEF EndView
  <2>3. CASE FollowAlive
    <3>1. /\ followpc = "alive" /\ followpc' # "done" /\ UNCHANGED <<followpos, out>>
          /\ followpc' = "last" => ~pid \/ dpc = "gone"
      BY <2>3 DEF FollowAlive, FollowStep
    <3>2. dpc \in {"serve", "clean", "gone"}
      BY <1>0, <3>1 DEF FollowShape, LogView
    <3>3. followpc' = "last" => dpc \in {"clean", "gone"}
      BY <1>0, <3>1, <3>2 DEF LogView
    <3> QED BY <1>0, <2>0, <3>1, <3>3 DEF EndView
  <2>4. CASE FollowReopen
    <3>1. followpc = "reopen" /\ followpc' \notin {"last", "done"}
      BY <2>4 DEF FollowReopen, FollowStep
    <3>2. ~(Len(segs) <= 1)
      BY <1>0, <3>1 DEF FollowShape
    <3> QED BY <2>0, <3>1, <3>2 DEF EndView
  <2> QED BY <1>2, <2>1, <2>2, <2>3, <2>4 DEF Follow
<1> QED BY <1>1, <1>2, NotFollow

\* tail --follow (tail.rs:920-999) of a log of any length that was not rotated
\* ends with every line that was in it when the daemon removed its .pid or was
\* killed: no line falls between the last drain and the check.
THEOREM FollowEnds == Spec => []FollowsToTheEnd
<1>1. Init => EndView
  <2> SUFFICES ASSUME Init PROVE EndView
    OBVIOUS
  <2>1. out = <<>> /\ followpos = 0 /\ followpc \in {"off", "open"}
    BY DEF Init
  <2> QED BY <2>1 DEF EndView
<1>2. LogInv /\ EndView => FollowsToTheEnd
  <2> SUFFICES ASSUME LogInv, EndView, followpc = "done", Len(segs) = 1,
                      NEW n \in 1..ended
               PROVE  n <= Len(out) /\ out[n] = n
    BY DEF FollowsToTheEnd, Active
  <2>1. ended \in Nat /\ ended <= followpos /\ Len(out) = followpos
        /\ \A i \in 1..followpos : out[i] = i
    BY DEF LogInv, LogView, EndView
  <2> QED BY <2>1
<1> QED BY <1>1, <1>2, EndStep, LogInductive, Inductive, PTL DEF Spec

------------------------------------------------------------------------------
(* summary *)

\* The log never gets shorter, and a new file begins where it ends.
LEMMA LogGrows ==
  ASSUME LogInv, [Next]_vars
  PROVE  /\ Written \in Nat /\ Written' \in Nat /\ Written' >= Written
         /\ \/ Len(segs') = Len(segs)
            \/ Len(segs') = Len(segs) + 1 /\ segs'[Len(segs) + 1].lo = Written
<1>0. SegsInOrder /\ FromStart /\ SegsInOrder' /\ Written \in Nat
  BY LogSteps, WrittenLast DEF LogInv
<1>1. CASE UNCHANGED <<segs, named>>
  BY <1>0, <1>1, WrittenGrows
<1>2. CASE WriteLine
  <2>1. Len(segs) > 0 /\ segs' = [segs EXCEPT ![Active] = [lo |-> @.lo, hi |-> @.hi + 1]]
    BY <1>0, <1>2 DEF WriteLine, SegsInOrder
  <2>2. Written' = Written + 1 /\ Len(segs') = Len(segs)
    BY <1>0, <2>1, WrittenGrows, GrowKeeps
  <2> QED BY <1>0, <2>2
<1>3. CASE Reopen \/ OpenLog
  <2>1. segs' = NewSegment
    BY <1>3 DEF Reopen, OpenLog
  <2>2. /\ Written' = Written /\ Len(segs') = Len(segs) + 1
        /\ segs'[Len(segs) + 1] = [lo |-> Written, hi |-> Written]
    BY <1>0, <2>1, WrittenGrows, NewSegmentKeeps
  <2> QED BY <1>0, <2>2
<1>4. Next => UNCHANGED <<segs, named>> \/ WriteLine \/ Reopen \/ OpenLog
  BY OthersKeep DEF Follow, FollowOpen, FollowDump, FollowDrain, FollowAlive, FollowStat,
     FollowReopen, FollowLast, FollowStep, daemonVars
<1>5. UNCHANGED vars => UNCHANGED <<segs, named>>
  BY DEF vars, daemonVars
<1> QED BY <1>1, <1>2, <1>3, <1>4, <1>5

\* The daemon's count is not ahead of the log, so not of a cursor taken later;
\* a scan comes after the cursor.
SumView ==
    /\ sumpc \in {"off", "status", "counter"} => sumby = "none"
    /\ sumby \in {"none", "counter", "scan"} /\ (sumby = "scan" => sumpc = "done")
    /\ sumpc \in {"len", "scan", "done"} => Len(segs) > 0
    /\ sumlines \in Nat /\ sumcursor \in Nat /\ sumseg \in Nat
    /\ sumpc = "scan" /\ Len(segs) = 1 => sumcursor <= Size(1)
    /\ sumby = "counter" => sumlines <= Written
    /\ sumpc = "done" /\ sumby = "counter" =>
         \/ sumseg \in 1..Len(segs) /\ sumlines <= Line(sumseg, sumcursor)
         \/ sumseg = Len(segs) + 1 /\ sumcursor = 0
    /\ sumpc = "done" /\ sumby = "scan" /\ Len(segs) = 1 /\ named => sumlines >= sumcursor

LEMMA NotSummary == [Next]_vars =>
  Summary \/ UNCHANGED <<sumpc, sumby, sumlines, sumseg, sumcursor>>
<1> SUFFICES ASSUME Next
             PROVE  Summary \/ UNCHANGED <<sumpc, sumby, sumlines, sumseg, sumcursor>>
  BY DEF vars, sumVars
<1>1. CASE Daemon
  BY <1>1 DEF Daemon, WritePid, StartChild, OpenLog, WriteLine, Reopen, Reap, CountLines,
     DaemonStep, sumVars
<1>2. CASE ChildPrints \/ ChildDies \/ GuardRemovesPid \/ Exit \/ Crash
  BY <1>2 DEF ChildPrints, ChildDies, GuardRemovesPid, Exit, Crash, DaemonStep, sumVars
<1>3. CASE Poll
  BY <1>3 DEF Poll, PollOpen, PollLen, PollRead, PollStep, sumVars
<1>4. CASE Follow
  BY <1>4 DEF Follow, FollowOpen, FollowDump, FollowDrain, FollowAlive, FollowStat,
     FollowReopen, FollowLast, FollowStep, sumVars
<1>5. CASE Wait
  BY <1>5 DEF Wait, WaitStart, WaitOpen, WaitDrain, WaitMatch, WaitCheckPid,
     WaitStatus, WaitFinal, WaitStep, sumVars
<1> QED BY <1>1, <1>2, <1>3, <1>4, <1>5 DEF Next

LEMMA StillOne == \A m, n \in Nat : 0 < m /\ m <= n /\ n = 1 => m = 1 /\ 1 \in 1..m
  OBVIOUS

LEMMA SumStays == SumView /\ LogInv /\ [Next]_vars => SumView'
<1> SUFFICES ASSUME SumView, LogInv, [Next]_vars PROVE SumView'
  OBVIOUS
<1>0. /\ SegsInOrder /\ FromStart /\ LogView
      /\ Len(segs) \in Nat /\ Len(segs') \in Nat /\ Len(segs') >= Len(segs)
      /\ Written \in Nat
      /\ \A i \in 1..Len(segs) : /\ Size(i) \in Nat /\ segs[i].lo \in Nat
                                 /\ segs[i].hi \in Nat
      /\ Len(segs) > 0 => Written = segs[Len(segs)].hi
  BY LogSteps, SegFacts, WrittenLast DEF LogInv
<1>1. CASE UNCHANGED <<sumpc, sumby, sumlines, sumseg, sumcursor>>
  <2>1. sumpc \in {"len", "scan", "done"} => Len(segs) > 0 /\ Len(segs') > 0
    BY <1>0 DEF SumView
  <2>2. ASSUME sumpc = "scan", Len(segs') = 1 PROVE sumcursor <= Size(1)'
    <3>1. 1 \in 1..Len(segs) /\ Len(segs) = 1
      BY <1>0, <2>1, <2>2, StillOne
    <3>2. sumcursor <= Size(1) /\ Size(1) \in Nat /\ sumcursor \in Nat
      BY <1>0, <2>2, <3>1 DEF SumView
    <3>3. segs'[1].lo = segs[1].lo /\ segs'[1].hi >= segs[1].hi
      BY <1>0, <3>1, LogSteps
    <3>4. segs'[1].hi \in Nat
      <4>1. segs' \in Seq([lo : Nat, hi : Nat])
        BY <1>0, LogSteps DEF SegsInOrder
      <4>2. 1 \in 1..Len(segs')
        BY <2>2
      <4>3. segs'[1] \in [lo : Nat, hi : Nat]
        BY <4>1, <4>2, ElementOfSeq, Zenon
      <4> QED BY <4>3
    <3> QED BY <1>0, <3>1, <3>2, <3>3, <3>4 DEF Size
  <2>3. sumby = "counter" => sumlines <= Written'
    BY LogGrows DEF SumView
  <2>4. ASSUME sumpc = "done", sumby = "counter"
        PROVE  \/ sumseg \in 1..Len(segs') /\ sumlines <= Line(sumseg, sumcursor)'
               \/ sumseg = Len(segs') + 1 /\ sumcursor = 0
    <3>0. sumlines <= Written /\ sumlines \in Nat /\ sumcursor \in Nat
      BY <2>4 DEF SumView
    <3>1. CASE sumseg \in 1..Len(segs) /\ sumlines <= Line(sumseg, sumcursor)
      <4>1. segs'[sumseg].lo = segs[sumseg].lo
        BY <1>0, <3>1, LogSteps
      <4>2. sumseg \in 1..Len(segs')
        BY <1>0, <3>1
      <4>3. Line(sumseg, sumcursor)' = Line(sumseg, sumcursor)
        BY <1>1, <4>1 DEF Line
      <4> QED BY <3>1, <4>2, <4>3
    <3>2. CASE sumseg = Len(segs) + 1 /\ sumcursor = 0
      <4>1. CASE Len(segs') = Len(segs)
        BY <3>2, <4>1
      <4>2. CASE Len(segs') = Len(segs) + 1 /\ segs'[Len(segs) + 1].lo = Written
        <5>1. Line(sumseg, sumcursor)' = Written
          BY <1>0, <1>1, <3>2, <4>2 DEF Line
        <5> QED BY <1>0, <3>0, <3>2, <4>2, <5>1
      <4> QED BY <4>1, <4>2, LogGrows
    <3> QED BY <2>4, <3>1, <3>2 DEF SumView
  <2>5. ASSUME sumpc = "done", sumby = "scan", Len(segs') = 1, named'
        PROVE  sumlines >= sumcursor
    <3>1. Len(segs) = 1
      BY <1>0, <2>1, <2>5, StillOne
    <3>2. named
      BY <1>0, <2>5, <3>1, LogSteps
    <3> QED BY <2>5, <3>1, <3>2 DEF SumView
  <2> QED BY <1>0, <1>1, <2>1, <2>2, <2>3, <2>4, <2>5 DEF SumView, Line
<1>2. CASE Summary
  <2>0. UNCHANGED <<segs, named>> /\ Written' = Written /\ Active' = Active
    BY <1>2, ReadersKeepLog DEF daemonVars, Written, Active
  <2>n. named => Len(segs) > 0
    BY <1>0 DEF SegsInOrder
  <2>1. CASE SumStatus
    <3>1. /\ sumpc = "status" /\ sumpc' \in {"counter", "exists"}
          /\ UNCHANGED <<sumby, sumlines, sumseg, sumcursor>>
      BY <2>1 DEF SumStatus, SumStep
    <3> QED BY <2>0, <3>1 DEF SumView
  <2>2. CASE SumCounter
    <3>1. /\ sumpc = "counter" /\ sumpc' = "exists"
          /\ UNCHANGED <<sumseg, sumcursor>>
          /\ \/ sumby' = "counter" /\ sumlines' = counted
             \/ UNCHANGED <<sumby, sumlines>>
      BY <2>2 DEF SumCounter, SumStep
    <3>2. counted \in Nat /\ counted <= Written
      BY <1>0 DEF LogView
    <3> QED BY <2>0, <3>1, <3>2 DEF SumView
  <2>3. CASE SumExists
    <3>1. /\ sumpc = "exists" /\ sumpc' \in {"len", "nolog"}
          /\ sumpc' = "len" => named
          /\ UNCHANGED <<sumby, sumlines, sumseg, sumcursor>>
      BY <2>3 DEF SumExists, SumStep
    <3> QED BY <2>0, <2>n, <3>1 DEF SumView
  <2>4. CASE SumLen
    <3>1. /\ sumpc = "len" /\ sumpc' = IF sumby = "counter" THEN "done" ELSE "scan"
          /\ sumseg' = IF named THEN Len(segs) ELSE Len(segs) + 1
          /\ sumcursor' = IF named THEN Size(Len(segs)) ELSE 0
          /\ UNCHANGED <<sumby, sumlines>>
      BY <2>4 DEF SumLen, SumStep, Active
    <3>2. Len(segs) \in 1..Len(segs) /\ sumby \in {"none", "counter"} /\ sumlines \in Nat
      BY <1>0, <3>1 DEF SumView
    <3>3. sumcursor' \in Nat /\ sumseg' \in Nat
      BY <1>0, <3>1, <3>2
    <3>4. Len(segs) = 1 => sumcursor' <= Size(1)
      BY <1>0, <3>1, <3>2
    <3>5. ASSUME sumby = "counter"
          PROVE  \/ sumseg' \in 1..Len(segs) /\ sumlines <= segs[sumseg'].lo + sumcursor'
                 \/ sumseg' = Len(segs) + 1 /\ sumcursor' = 0
      <4>1. CASE named
        <5>1. sumseg' = Len(segs) /\ sumcursor' = segs[Len(segs)].hi - segs[Len(segs)].lo
          BY <3>1, <4>1 DEF Size
        <5>2. segs[sumseg'].lo + sumcursor' = Written
          BY <1>0, <3>2, <5>1
        <5>3. sumlines <= Written
          BY <3>5 DEF SumView
        <5> QED BY <3>2, <5>1, <5>2, <5>3
      <4>2. CASE ~named
        BY <3>1, <4>2
      <4> QED BY <4>1, <4>2
    <3>6. sumby = "counter" => sumlines <= Written
      BY DEF SumView
    <3> QED BY <1>0, <2>0, <3>1, <3>2, <3>3, <3>4, <3>5, <3>6 DEF SumView, Line, Size
  <2>5. CASE SumScan
    <3>1. /\ sumpc = "scan" /\ sumpc' = "done" /\ sumby' = "scan"
          /\ sumlines' = IF named THEN Size(Len(segs)) ELSE 0
          /\ UNCHANGED <<sumseg, sumcursor>>
      BY <2>5 DEF SumScan, SumStep, Active
    <3>2. Len(segs) \in 1..Len(segs) /\ Len(segs) > 0
      BY <1>0, <3>1 DEF SumView
    <3>3. sumlines' \in Nat
      BY <1>0, <3>1, <3>2
    <3>4. named /\ Len(segs) = 1 => sumlines' >= sumcursor
      <4> SUFFICES ASSUME named, Len(segs) = 1 PROVE sumlines' >= sumcursor
        OBVIOUS
      <4>1. sumcursor <= Size(1) /\ sumlines' = Size(1) /\ sumcursor \in Nat
        BY <3>1 DEF SumView
      <4>2. Size(1) \in Nat
        BY <1>0, <3>2
      <4> QED BY <4>1, <4>2
    <3> QED BY <2>0, <3>1, <3>2, <3>3, <3>4 DEF SumView
  <2> QED BY <1>2, <2>1, <2>2, <2>3, <2>4, <2>5 DEF Summary
<1> QED BY <1>1, <1>2, NotSummary

LEMMA SumInit == Init => SumView
<1> SUFFICES ASSUME Init PROVE SumView
  OBVIOUS
<1>1. /\ sumby = "none" /\ sumlines = 0 /\ sumseg = 0 /\ sumcursor = 0
      /\ sumpc \in {"off", "status"}
  BY DEF Init
<1> QED BY <1>1 DEF SumView

\* summary (summary.rs:122-141) on a log of any length, rotated any number of
\* times while it is asked: its log_lines and its tail_cursor fit together,
\* wherever the lines were counted.
THEOREM SummaryInvariance == Spec => []SummaryFitsItsCursor
<1>1. LogInv /\ SumView => SummaryFitsItsCursor
  <2> SUFFICES ASSUME LogInv, SumView, sumpc = "done" PROVE SummaryFitsItsCursor
    BY DEF SummaryFitsItsCursor
  <2>1. Len(segs) \in Nat
    BY SegFacts DEF LogInv
  <2>2. sumby = "counter" /\ sumseg <= Len(segs) => sumlines <= Line(sumseg, sumcursor)
    BY <2>1 DEF SumView
  <2> QED BY <2>2 DEF SumView, SummaryFitsItsCursor, Active
<1> QED BY <1>1, SumInit, SumStays, LogInductive, PTL DEF Spec

------------------------------------------------------------------------------
(* Types: no line is beyond what the child printed, no offset beyond a     *)
(* file, no reader in a file that is not there.                            *)

LEMMA LogTypes ==
  ASSUME LogInv
  PROVE  /\ segs \in Seq([lo : 0..MaxLines, hi : 0..MaxLines])
         /\ Len(segs) \in Nat
         /\ \A i \in 1..Len(segs) : /\ Size(i) \in 0..SegSize
                                    /\ segs[i].lo \in Nat /\ segs[i].hi \in 0..MaxLines
         /\ ended \in 0..MaxLines /\ counted \in 0..MaxLines /\ Written \in 0..MaxLines
<1>0. /\ SegsInOrder /\ LogView /\ MaxLines \in Nat /\ SegSize \in Nat
      /\ Len(segs) \in Nat /\ Written \in Nat
      /\ \A i \in 1..Len(segs) : /\ Size(i) \in Nat /\ segs[i].lo \in Nat
                                 /\ segs[i].hi \in Nat /\ segs[i].lo <= segs[i].hi
                                 /\ segs[i].hi <= Written
  BY SegFacts, WrittenLast, ConstantTypes DEF LogInv
<1>1. ended \in 0..MaxLines /\ counted \in 0..MaxLines /\ Written \in 0..MaxLines
  BY <1>0 DEF LogView
<1>2. \A i \in 1..Len(segs) : Size(i) \in 0..SegSize
  BY <1>0 DEF LogView
<1>3. \A i \in 1..Len(segs) : segs[i].lo \in 0..MaxLines /\ segs[i].hi \in 0..MaxLines
  BY <1>0, <1>1
<1>4. \A i \in 1..Len(segs) : segs[i] \in [lo : 0..MaxLines, hi : 0..MaxLines]
  <2> SUFFICES ASSUME NEW i \in 1..Len(segs)
               PROVE  segs[i] \in [lo : 0..MaxLines, hi : 0..MaxLines]
    OBVIOUS
  <2>1. segs[i] \in [lo : Nat, hi : Nat]
    BY <1>0, SegFacts
  <2> QED BY <1>3, <2>1
<1>5. segs \in Seq([lo : 0..MaxLines, hi : 0..MaxLines])
  <2>1. segs \in [1..Len(segs) -> [lo : Nat, hi : Nat]]
    BY <1>0, LenProperties, Zenon DEF SegsInOrder
  <2>2. segs \in [1..Len(segs) -> [lo : 0..MaxLines, hi : 0..MaxLines]]
    BY <1>4, <2>1, Zenon
  <2> DEFINE R == [lo : 0..MaxLines, hi : 0..MaxLines]
  <2>3. Len(segs) \in Nat /\ segs \in [1..Len(segs) -> R]
    BY <1>0, <2>2
  <2> HIDE DEF R
  <2>4. segs \in UNION {[1..n -> R] : n \in Nat}
    BY <2>3
  <2>5. segs \in Seq(R)
    BY <2>4, SeqDef, Zenon
  <2> QED BY <2>5 DEF R
<1> QED BY <1>0, <1>1, <1>2, <1>3, <1>5

\* What is read of a file are lines that were printed.
LEMMA LinesPrinted ==
  ASSUME LogInv, NEW i \in 1..Len(segs), NEW k \in Nat
  PROVE  LinesFrom(i, k) \subseteq 1..MaxLines
<1>1. segs[i].lo \in Nat /\ segs[i].hi \in 0..MaxLines /\ MaxLines \in Nat
  BY LogTypes, ConstantTypes
<1> QED BY <1>1 DEF LinesFrom, Line

PollTypes ==
    /\ pollpc \in {"off", "idle", "len", "read"}
    /\ cursor \in 0..SegSize /\ polllen \in 0..SegSize /\ pollseg \in 0..Len(segs)
    /\ pollpc \in {"len", "read"} => pollseg > 0
    /\ got \subseteq 1..MaxLines

LEMMA PollTypesStay == PollTypes /\ LogInv /\ [Next]_vars => PollTypes'
<1> SUFFICES ASSUME PollTypes, LogInv, [Next]_vars PROVE PollTypes'
  OBVIOUS
<1>0. /\ Len(segs) \in Nat /\ Len(segs') \in Nat /\ Len(segs') >= Len(segs)
      /\ \A i \in 1..Len(segs) : Size(i) \in 0..SegSize
      /\ SegSize \in Nat /\ (named => Len(segs) > 0)
  BY LogSteps, LogTypes, ConstantTypes DEF LogInv, SegsInOrder
<1>1. CASE UNCHANGED pollVars
  <2>1. UNCHANGED <<pollpc, cursor, pollseg, polllen, got>>
    BY <1>1 DEF pollVars
  <2>2. pollseg \in 0..Len(segs')
    BY <1>0 DEF PollTypes
  <2> QED BY <2>1, <2>2 DEF PollTypes
<1>2. CASE Poll
  <2>0. segs' = segs
    BY <1>2, ReadersKeepLog DEF daemonVars
  <2>1. CASE PollOpen
    <3>1. pollpc' = "len" /\ named /\ pollseg' = Len(segs) /\ UNCHANGED <<cursor, polllen, got>>
      BY <2>1 DEF PollOpen, PollStep, Active
    <3>2. Len(segs) \in 0..Len(segs) /\ Len(segs) > 0
      BY <1>0, <3>1
    <3> QED BY <2>0, <3>1, <3>2 DEF PollTypes
  <2>2. CASE PollLen
    <3>1. /\ pollpc = "len" /\ pollpc' \in {"idle", "read"} /\ polllen' = Size(pollseg)
          /\ cursor' \in {cursor, Size(pollseg)} /\ UNCHANGED <<pollseg, got>>
      BY <2>2 DEF PollLen, PollStep
    <3>2. pollseg \in 1..Len(segs) /\ pollseg > 0
      BY <1>0, <3>1 DEF PollTypes
    <3>3. Size(pollseg) \in 0..SegSize
      BY <1>0, <3>2
    <3> QED BY <2>0, <3>1, <3>2, <3>3 DEF PollTypes
  <2>3. CASE PollRead
    <3>1. /\ pollpc = "read" /\ pollpc' = "idle" /\ cursor' = polllen
          /\ got' = got \union LinesFrom(pollseg, cursor) /\ UNCHANGED <<pollseg, polllen>>
      BY <2>3 DEF PollRead, PollStep
    <3>2. pollseg \in 1..Len(segs) /\ cursor \in Nat
      BY <1>0, <3>1 DEF PollTypes
    <3>3. got' \subseteq 1..MaxLines
      BY <3>1, <3>2, LinesPrinted DEF PollTypes
    <3> QED BY <2>0, <3>1, <3>3 DEF PollTypes
  <2> QED BY <1>2, <2>1, <2>2, <2>3 DEF Poll
<1> QED BY <1>1, <1>2, NotPoll

WaitTypes ==
    /\ waitpc \in {"off", "start", "open", "drain", "match", "check", "status", "final",
                   "matched", "timeout", "exited"}
    /\ waitseg \in 0..Len(segs) /\ waitpos \in 0..SegSize
    /\ seen \in BOOLEAN /\ early \in BOOLEAN

LEMMA WaitTypesStay == WaitTypes /\ LogInv /\ [Next]_vars => WaitTypes'
<1> SUFFICES ASSUME WaitTypes, LogInv, [Next]_vars PROVE WaitTypes'
  OBVIOUS
<1>0. /\ Len(segs) \in Nat /\ Len(segs') \in Nat /\ Len(segs') >= Len(segs)
      /\ \A i \in 1..Len(segs) : Size(i) \in 0..SegSize
  BY LogSteps, LogTypes DEF LogInv
<1>1. CASE UNCHANGED waitVars
  <2>1. UNCHANGED <<waitpc, waitseg, waitpos, seen, early>>
    BY <1>1 DEF waitVars
  <2>2. waitseg \in 0..Len(segs')
    BY <1>0 DEF WaitTypes
  <2> QED BY <2>1, <2>2 DEF WaitTypes
<1>2. CASE Wait
  <2>0. segs' = segs
    BY <1>2, ReadersKeepLog DEF daemonVars
  <2>1. DrainWait => waitpos' \in 0..SegSize /\ seen' \in BOOLEAN
    <3>1. CASE waitseg = 0
      BY <3>1 DEF DrainWait, WaitTypes
    <3>2. CASE waitseg # 0
      <4>1. waitseg \in 1..Len(segs)
        BY <1>0, <3>2 DEF WaitTypes
      <4>2. Size(waitseg) \in 0..SegSize
        BY <1>0, <4>1
      <4>3. DrainWait => waitpos' = Size(waitseg)
        BY <3>2 DEF DrainWait
      <4>4. DrainWait => seen' \in BOOLEAN
        BY <3>2 DEF DrainWait
      <4> QED BY <4>2, <4>3, <4>4
    <3> QED BY <3>1, <3>2
  <2>2. CASE WaitStart
    <3>1. waitpc' = "open" /\ early' \in BOOLEAN /\ UNCHANGED <<waitseg, waitpos, seen>>
      BY <2>2 DEF WaitStart, WaitStep
    <3> QED BY <2>0, <3>1 DEF WaitTypes
  <2>3. CASE WaitOpen
    <3>1. /\ waitpc' = "drain" /\ UNCHANGED <<waitpos, seen, early>>
          /\ waitseg' \in {waitseg, Len(segs)}
      BY <2>3 DEF WaitOpen, WaitStep, Active
    <3>2. waitseg' \in 0..Len(segs)
      BY <1>0, <3>1 DEF WaitTypes
    <3> QED BY <2>0, <3>1, <3>2 DEF WaitTypes
  <2>4. CASE WaitDrain
    <3>1. waitpc' = "match" /\ DrainWait /\ UNCHANGED <<waitseg, early>>
      BY <2>4 DEF WaitDrain, WaitStep
    <3> QED BY <2>0, <2>1, <3>1 DEF WaitTypes
  <2>5. CASE WaitMatch \/ WaitCheckPid \/ WaitStatus
    <3>1. /\ waitpc' \in {"matched", "timeout", "check", "status", "final", "open"}
          /\ UNCHANGED <<waitseg, waitpos, seen, early>>
      BY <2>5 DEF WaitMatch, WaitCheckPid, WaitStatus, WaitStep
    <3> QED BY <2>0, <3>1 DEF WaitTypes
  <2>6. CASE WaitFinal
    <3>1. waitpc' \in {"matched", "exited"} /\ DrainWait /\ UNCHANGED <<waitseg, early>>
      BY <2>6 DEF WaitFinal
    <3> QED BY <2>0, <2>1, <3>1 DEF WaitTypes
  <2> QED BY <1>2, <2>2, <2>3, <2>4, <2>5, <2>6 DEF Wait
<1> QED BY <1>1, <1>2, NotWait

FollowTypes ==
    /\ followpc \in {"off", "open", "dump", "stat", "reopen", "drain", "alive", "last", "done"}
    /\ followseg \in 0..Len(segs)
    /\ out \in Seq(1..MaxLines)

LEMMA FollowTypesStay == FollowTypes /\ LogInv /\ Inv /\ [Next]_vars => FollowTypes'
<1> SUFFICES ASSUME FollowTypes, LogInv, Inv, [Next]_vars PROVE FollowTypes'
  OBVIOUS
<1>0. /\ Len(segs) \in Nat /\ Len(segs') \in Nat /\ Len(segs') >= Len(segs)
      /\ FollowShape /\ out \in Seq(1..MaxLines)
  BY LogSteps, LogTypes DEF LogInv, Inv, FollowTypes
<1>1. CASE UNCHANGED followVars
  <2>1. UNCHANGED <<followpc, followseg, out>>
    BY <1>1 DEF followVars
  <2>2. followseg \in 0..Len(segs')
    BY <1>0 DEF FollowTypes
  <2> QED BY <2>1, <2>2 DEF FollowTypes
<1>2. CASE Follow
  <2>0. segs' = segs
    BY <1>2, ReadersKeepLog DEF daemonVars
  <2>1. CASE FollowDump \/ FollowDrain \/ FollowLast
    <3>1. /\ followpc \notin {"off", "open"} /\ followpc' \in {"stat", "alive", "done"}
          /\ DrainFollow
      BY <2>1 DEF FollowDump, FollowDrain, FollowLast, FollowStep
    <3>2. followseg \in 1..Len(segs) /\ followpos \in 0..Size(followseg)
      BY <1>0, <3>1 DEF FollowShape
    <3>3. /\ segs[followseg].lo \in Nat /\ segs[followseg].hi \in 0..MaxLines
          /\ Size(followseg) \in Nat /\ followpos \in Nat /\ MaxLines \in Nat
      BY <3>2, LogTypes, ConstantTypes, SegFacts DEF LogInv
    <3> DEFINE k == Size(followseg) - followpos
               run == [i \in 1..k |-> Line(followseg, followpos) + i]
    <3>4. k \in Nat /\ Line(followseg, followpos) \in Nat
          /\ Line(followseg, followpos) + k <= MaxLines
      <4>1. /\ Line(followseg, followpos) = segs[followseg].lo + followpos
            /\ Size(followseg) = segs[followseg].hi - segs[followseg].lo
        BY DEF Line, Size
      <4>2. segs[followseg].hi \in Nat /\ segs[followseg].hi <= MaxLines
        BY <3>3
      <4>3. k \in Nat
        BY <3>2, <3>3
      <4> QED BY <3>3, <4>1, <4>2, <4>3
    <3>5. out' = out \o run /\ followseg' = followseg
      BY <3>1 DEF DrainFollow
    <3> HIDE DEF k
    <3>6. \A i \in 1..k : Line(followseg, followpos) + i \in 1..MaxLines
      BY <3>3, <3>4
    <3>7. run \in Seq(1..MaxLines)
      BY <3>4, <3>6
    <3> HIDE DEF run
    <3>8. out' \in Seq(1..MaxLines)
      BY <1>0, <3>5, <3>7
    <3> QED BY <2>0, <3>1, <3>5, <3>8 DEF FollowTypes
  <2>2. CASE FollowOpen \/ FollowReopen
    <3>1. /\ followpc' \in {"dump", "drain", "stat"} /\ out' = out
          /\ followseg' \in {followseg, Len(segs)}
      BY <2>2 DEF FollowOpen, FollowReopen, FollowStep, Active
    <3>2. followseg' \in 0..Len(segs)
      BY <1>0, <3>1 DEF FollowTypes
    <3> QED BY <2>0, <3>1, <3>2 DEF FollowTypes
  <2>3. CASE FollowStat \/ FollowAlive
    <3>1. followpc' \in {"reopen", "drain", "stat", "last"} /\ UNCHANGED <<followseg, out>>
      BY <2>3 DEF FollowStat, FollowAlive, FollowStep
    <3> QED BY <2>0, <3>1 DEF FollowTypes
  <2> QED BY <1>2, <2>1, <2>2, <2>3 DEF Follow
<1> QED BY <1>1, <1>2, NotFollow

SumTypes ==
    /\ sumpc \in {"off", "status", "counter", "exists", "len", "scan", "nolog", "done"}
    /\ sumlines \in 0..MaxLines /\ sumseg \in 0..(Len(segs) + 1) /\ sumcursor \in 0..SegSize

LEMMA SumTypesStay == SumTypes /\ LogInv /\ [Next]_vars => SumTypes'
<1> SUFFICES ASSUME SumTypes, LogInv, [Next]_vars PROVE SumTypes'
  OBVIOUS
<1>0. /\ Len(segs) \in Nat /\ Len(segs') \in Nat /\ Len(segs') >= Len(segs)
      /\ (named => Len(segs) > 0) /\ SegSize \in Nat /\ MaxLines \in Nat
      /\ \A i \in 1..Len(segs) : Size(i) \in 0..SegSize
      /\ counted \in 0..MaxLines
  BY LogSteps, LogTypes, ConstantTypes DEF LogInv, SegsInOrder
<1>1. CASE UNCHANGED <<sumpc, sumby, sumlines, sumseg, sumcursor>>
  <2>1. sumseg \in 0..(Len(segs') + 1)
    BY <1>0 DEF SumTypes
  <2> QED BY <1>1, <2>1 DEF SumTypes
<1>2. CASE Summary
  <2>0. segs' = segs
    BY <1>2, ReadersKeepLog DEF daemonVars
  <2>1. named => Size(Len(segs)) \in 0..SegSize /\ Size(Len(segs)) <= MaxLines
    <3> SUFFICES ASSUME named
                 PROVE  Size(Len(segs)) \in 0..SegSize /\ Size(Len(segs)) <= MaxLines
      OBVIOUS
    <3>1. Len(segs) \in 1..Len(segs)
      BY <1>0
    <3>2. /\ segs[Len(segs)].lo \in Nat /\ segs[Len(segs)].hi \in 0..MaxLines
          /\ Size(Len(segs)) \in 0..SegSize
      BY <3>1, LogTypes
    <3> QED BY <1>0, <3>2 DEF Size
  <2>2. CASE SumStatus \/ SumExists
    <3>1. /\ sumpc' \in {"counter", "exists", "len", "nolog"}
          /\ UNCHANGED <<sumlines, sumseg, sumcursor>>
      BY <2>2 DEF SumStatus, SumExists, SumStep
    <3> QED BY <2>0, <3>1 DEF SumTypes
  <2>3. CASE SumCounter
    <3>1. /\ sumpc' = "exists" /\ sumlines' \in {sumlines, counted}
          /\ UNCHANGED <<sumseg, sumcursor>>
      BY <2>3 DEF SumCounter, SumStep
    <3> QED BY <1>0, <2>0, <3>1 DEF SumTypes
  <2>4. CASE SumLen
    <3>1. /\ sumpc' \in {"done", "scan"} /\ sumlines' = sumlines
          /\ sumseg' \in {Len(segs), Len(segs) + 1}
          /\ sumcursor' = IF named THEN Size(Len(segs)) ELSE 0
      BY <2>4 DEF SumLen, SumStep, Active
    <3>2. sumcursor' \in 0..SegSize
      BY <1>0, <2>1, <3>1
    <3>3. sumseg' \in 0..(Len(segs) + 1)
      BY <1>0, <3>1
    <3> QED BY <2>0, <3>1, <3>2, <3>3 DEF SumTypes
  <2>5. CASE SumScan
    <3>1. /\ sumpc' = "done" /\ UNCHANGED <<sumseg, sumcursor>>
          /\ sumlines' = IF named THEN Size(Len(segs)) ELSE 0
      BY <2>5 DEF SumScan, SumStep, Active
    <3>2. sumlines' \in 0..MaxLines
      BY <1>0, <2>1, <3>1
    <3> QED BY <2>0, <3>1, <3>2 DEF SumTypes
  <2> QED BY <1>2, <2>2, <2>3, <2>4, <2>5 DEF Summary
<1> QED BY <1>1, <1>2, NotSummary

\* The types of the log and of its four readers, for every size of a segment:
\* no offset is beyond the file it is for, no file is longer than a segment,
\* and no reader has or counts a line that was not printed.
THEOREM TypeInvariance == Spec => []TypeOK
<1> DEFINE Types == PollTypes /\ WaitTypes /\ FollowTypes /\ SumTypes
<1>1. Init => Types
  <2> SUFFICES ASSUME Init PROVE Types
    OBVIOUS
  <2>0. SegSize \in Nat /\ MaxLines \in Nat /\ Len(segs) = 0
    BY ConstantTypes DEF Init
  <2>1. PollTypes
    BY <2>0 DEF Init, PollTypes
  <2>2. WaitTypes
    <3>1. waitpc \in {"off", "start"} /\ seen \in BOOLEAN /\ early \in BOOLEAN
      BY DEF Init
    <3>2. waitseg = 0 /\ waitpos = 0
      BY DEF Init
    <3> QED BY <2>0, <3>1, <3>2 DEF WaitTypes
  <2>3. FollowTypes
    BY <2>0 DEF Init, FollowTypes
  <2>4. SumTypes
    BY <2>0 DEF Init, SumTypes
  <2> QED BY <2>1, <2>2, <2>3, <2>4
<1>2. Types /\ LogInv /\ Inv /\ [Next]_vars => Types'
  BY PollTypesStay, WaitTypesStay, FollowTypesStay, SumTypesStay
<1>3. Types /\ LogInv /\ Inv /\ SumView => TypeOK
  <2> SUFFICES ASSUME Types, LogInv, Inv, SumView PROVE TypeOK
    OBVIOUS
  <2>1. followpos \in 0..SegSize
    <3>1. CASE followpc \in {"off", "open"}
      BY <3>1, ConstantTypes DEF Inv, FollowShape
    <3>2. CASE followpc \notin {"off", "open"}
      <4>1. followseg \in 1..Len(segs) /\ followpos \in 0..Size(followseg)
        BY <3>2 DEF Inv, FollowShape
      <4>2. Size(followseg) \in 0..SegSize /\ SegSize \in Nat
        BY <4>1, LogTypes, ConstantTypes
      <4> QED BY <4>1, <4>2
    <3> QED BY <3>1, <3>2
  <2>2. {cursor, polllen, followpos, waitpos} \subseteq 0..SegSize
    BY <2>1 DEF PollTypes, WaitTypes
  <2>3. {pollseg, followseg, waitseg} \subseteq 0..Active
    BY DEF PollTypes, WaitTypes, FollowTypes, Active
  <2>4. {counted, sumlines} \subseteq 0..MaxLines
    BY LogTypes DEF SumTypes
  <2>5. sumseg \in 0..(Active + 1) /\ sumcursor \in 0..SegSize
    BY DEF SumTypes, Active
  <2>6. \A i \in 1..Active : Size(i) \in 0..SegSize
    BY LogTypes DEF Active
  <2>7. segs \in Seq([lo : 0..MaxLines, hi : 0..MaxLines]) /\ ended \in 0..MaxLines
    BY LogTypes
  <2> QED BY <2>2, <2>3, <2>4, <2>5, <2>6, <2>7, Zenon
          DEF TypeOK, LogInv, LogView, PollTypes, WaitTypes, FollowTypes, SumTypes, SumView
<1>4. Spec => []SumView
  BY SumInit, SumStays, LogInductive, PTL DEF Spec
<1> QED
  <2> HIDE DEF Types
  <2> QED BY <1>1, <1>2, <1>3, <1>4, LogInductive, Inductive, PTL DEF Spec
==============================================================================
