------------------------------ MODULE LogReaders ------------------------------
(***************************************************************************)
(* Processes that read the log of one daemon while it is written, rotated  *)
(* and ended: a loop of `tail --json --cursor` calls, a `tail --follow`,   *)
(* a `wait --pattern` and a `summary`.  They share nothing with the daemon *)
(* but files and, for wait and summary, the `status` and `summary`         *)
(* requests.  The child prints lines 1, 2, ...; a line is the unit of      *)
(* offsets.  A file keeps its bytes for whoever has it open, whatever      *)
(* becomes of its name.                                                    *)
(***************************************************************************)
EXTENDS Naturals, Sequences

CONSTANTS MaxLines,  \* bound: lines the child prints
          SegSize,   \* lines per .log before it is rotated
          Pattern,   \* the line `wait` waits for
          Readers,   \* which of "poll", "follow", "wait" and "summary" may be run
          MaxCrashes \* bound: the daemon dies of SIGKILL, 0 or 1 times

ASSUME ReadersAssumption ==
    /\ MaxLines \in Nat /\ SegSize \in Nat \ {0} /\ Pattern \in Nat
    /\ Readers \subseteq {"poll", "follow", "wait", "summary"} /\ MaxCrashes \in 0..1

VARIABLES
    pid,      \* the .pid file is there
    dpc,      \* the daemon: pid, child, log, serve, clean, gone
    child,    \* none, running, dead (nobody waited yet), exited (status says so)
    printed,  \* lines the child has printed
    segs,     \* the files made for .log, in order: line numbers lo+1..hi
    named,    \* the last of them is found under the name .log
    ended,    \* lines in the log when the .pid went, or the daemon died
    pollpc, cursor, pollseg, polllen,  \* the polling loop
    got,      \* lines it was given
    followpc, followseg, followpos,
    out,      \* lines `tail --follow` has written to its stdout
    waitpc, waitseg, waitpos,
    seen,     \* wait has the matching line in its buffer
    early,    \* the matching line was in .log when wait started
    counted,  \* DaemonCounters.line_count
    sumpc,
    sumby,    \* where the log_lines of the summary are from: counter, scan
    sumlines, sumseg, sumcursor  \* log_lines; the file tail_cursor is for; it

daemonVars == <<pid, dpc, child, printed, segs, named, ended>>
pollVars == <<pollpc, cursor, pollseg, polllen, got>>
followVars == <<followpc, followseg, followpos, out>>
waitVars == <<waitpc, waitseg, waitpos, seen, early>>
sumVars == <<counted, sumpc, sumby, sumlines, sumseg, sumcursor>>
vars == <<daemonVars, pollVars, followVars, waitVars, sumVars>>

------------------------------------------------------------------------------
Active == Len(segs)
Size(i) == segs[i].hi - segs[i].lo
Line(i, at) == segs[i].lo + at        \* the line before offset at of file i
Written == IF segs = <<>> THEN 0 ELSE segs[Active].hi
InLog(n) == n \in (segs[Active].lo + 1)..segs[Active].hi
LinesFrom(i, at) == (Line(i, at) + 1)..segs[i].hi
NewSegment == Append(segs, [lo |-> Written, hi |-> Written])

\* Readers do not act on each other: each behaviour has one of them.
Init ==
    /\ pid = FALSE /\ dpc = "pid" /\ child = "none" /\ printed = 0
    /\ segs = <<>> /\ named = FALSE /\ ended = 0
    /\ \E r \in Readers :
         /\ pollpc = IF r = "poll" THEN "idle" ELSE "off"
         /\ followpc = IF r = "follow" THEN "open" ELSE "off"
         /\ waitpc = IF r = "wait" THEN "start" ELSE "off"
         /\ sumpc = IF r = "summary" THEN "status" ELSE "off"
    /\ cursor = 0 /\ pollseg = 0 /\ polllen = 0
    /\ got = {}
    /\ followseg = 0 /\ followpos = 0 /\ out = <<>>
    /\ waitseg = 0 /\ waitpos = 0 /\ seen = FALSE /\ early = FALSE
    /\ counted = 0 /\ sumby = "none"
    /\ sumlines = 0 /\ sumseg = 0 /\ sumcursor = 0

------------------------------------------------------------------------------
(* The daemon, as its readers see it. *)

DaemonStep(from, to) == /\ dpc = from /\ dpc' = to
                        /\ UNCHANGED <<pollVars, followVars, waitVars, sumVars>>

\* The socket is bound already: `spawn` may have returned.
WritePid == DaemonStep("pid", "child") /\ pid' = TRUE
            /\ UNCHANGED <<child, printed, segs, named, ended>>
StartChild == DaemonStep("child", "log") /\ child' = "running"
              /\ UNCHANGED <<pid, printed, segs, named, ended>>
OpenLog == DaemonStep("log", "serve") /\ segs' = NewSegment /\ named' = TRUE
           /\ UNCHANGED <<pid, child, printed, ended>>

ChildPrints ==
    /\ child = "running" /\ printed < MaxLines
    /\ printed' = printed + 1
    /\ UNCHANGED <<pid, dpc, child, segs, named, ended, pollVars, followVars, waitVars,
                   sumVars>>

\* Mutant: the rotation starts one line late.
WriteLineLate ==
    /\ dpc \in {"serve", "clean"} /\ named /\ Written < printed
    /\ segs' = [segs EXCEPT ![Active] = [lo |-> @.lo, hi |-> @.hi + 1]]
    /\ named' = (Size(Active) < SegSize)
    /\ UNCHANGED <<pid, dpc, child, printed, ended, pollVars, followVars, waitVars, sumVars>>

\* stream_to_log appends what it read from the PTY; the last line a segment
\* takes starts its rotation.
WriteLine ==
    /\ dpc \in {"serve", "clean"} /\ named /\ Written < printed
    /\ segs' = [segs EXCEPT ![Active] = [lo |-> @.lo, hi |-> @.hi + 1]]
    /\ named' = (Size(Active) + 1 < SegSize)
    /\ UNCHANGED <<pid, dpc, child, printed, ended, pollVars, followVars, waitVars, sumVars>>
Reopen ==
    /\ dpc \in {"serve", "clean"} /\ ~named
    /\ segs' = NewSegment /\ named' = TRUE
    /\ UNCHANGED <<pid, dpc, child, printed, ended, pollVars, followVars, waitVars, sumVars>>

\* Mutant: a chunk is counted before it is written.
CountLinesEarly ==
    /\ dpc \in {"serve", "clean"} /\ sumpc # "off" /\ counted < printed
    /\ counted' = printed
    /\ UNCHANGED <<daemonVars, pollVars, followVars, waitVars, sumpc, sumby, sumlines,
                   sumseg, sumcursor>>
\* The lines of a chunk are counted after the last of them is written.  Only
\* summary asks for the number.
CountLines ==
    /\ dpc \in {"serve", "clean"} /\ sumpc # "off" /\ named /\ counted < Written
    /\ counted' = Written
    /\ UNCHANGED <<daemonVars, pollVars, followVars, waitVars, sumpc, sumby, sumlines,
                   sumseg, sumcursor>>

ChildDies == /\ child = "running" /\ child' = "dead"
             /\ UNCHANGED <<pid, dpc, printed, segs, named, ended, pollVars, followVars,
                            waitVars, sumVars>>
\* The waiter thread has the exit code and the loop has stored it.
Reap == /\ child = "dead" /\ dpc = "serve" /\ child' = "exited"
        /\ UNCHANGED <<pid, dpc, printed, segs, named, ended, pollVars, followVars, waitVars,
                        sumVars>>

\* After the linger or a close request the guard removes the sidecars; the
\* reader thread goes on until the process exits.
GuardRemovesPid == /\ DaemonStep("serve", "clean") /\ child \in {"dead", "exited"}
                   /\ pid' = FALSE /\ ended' = Written
                   /\ UNCHANGED <<child, printed, segs, named>>
Exit == DaemonStep("clean", "gone") /\ UNCHANGED <<pid, child, printed, segs, named, ended>>

\* SIGKILL: the sidecars stay, the child gets SIGHUP, which it may trap.
Crash == /\ MaxCrashes = 1 /\ DaemonStep("serve", "gone")
         /\ child' \in {child, IF child = "running" THEN "dead" ELSE child}
         /\ ended' = Written
         /\ UNCHANGED <<pid, printed, segs, named>>

------------------------------------------------------------------------------
(* while sleep 1; do tail --json --cursor $CURSOR; CURSOR=.cursor; done *)

PollStep(from, to) == /\ pollpc = from /\ pollpc' = to
                      /\ UNCHANGED <<daemonVars, followVars, waitVars, sumVars>>

\* With no .log under its name the call fails and the loop keeps its cursor.
PollOpen == /\ PollStep("idle", "len") /\ named
            /\ pollseg' = Active /\ UNCHANGED <<cursor, polllen, got>>

\* The stale answer carries the length as the cursor to go on with.
PollLen ==
    LET len == Size(pollseg) IN
    /\ PollStep("len", IF cursor > len THEN "idle" ELSE "read")
    /\ polllen' = len
    /\ cursor' = IF cursor > len THEN len ELSE cursor
    /\ UNCHANGED <<pollseg, got>>

\* Mutant: the answer names the length when the answer is written.
PollReadSkips ==
    LET new == LinesFrom(pollseg, cursor) IN
    /\ PollStep("read", "idle")
    /\ got' = got \union {n \in new : n <= Line(pollseg, polllen)}
    /\ cursor' = Size(pollseg)
    /\ UNCHANGED <<pollseg, polllen>>

\* read_to_end goes to the end there is now, the cursor to the length before.
PollRead ==
    LET new == LinesFrom(pollseg, cursor) IN
    /\ PollStep("read", "idle")
    /\ got' = got \union new
    /\ cursor' = polllen
    /\ UNCHANGED <<pollseg, polllen>>

------------------------------------------------------------------------------
(* tail --follow *)

FollowStep(from, to) == /\ followpc = from /\ followpc' = to
                        /\ UNCHANGED <<daemonVars, pollVars, waitVars, sumVars>>
DrainFollow == /\ out' = out \o [i \in 1..(Size(followseg) - followpos) |->
                                     Line(followseg, followpos) + i]
               /\ followpos' = Size(followseg)
               /\ UNCHANGED followseg

\* The dump of what is there, then the loop: stat, drain, is the daemon alive?
FollowOpen == /\ FollowStep("open", "dump") /\ named
              /\ followseg' = Active /\ UNCHANGED <<followpos, out>>
FollowDump == FollowStep("dump", "stat") /\ DrainFollow
FollowDrain == FollowStep("drain", "alive") /\ DrainFollow
\* Mutant: a .pid file is enough, whatever became of the process.
FollowAlivePidOnly == /\ FollowStep("alive", IF pid THEN "stat" ELSE "last")
                      /\ UNCHANGED <<followseg, followpos, out>>
FollowAlive == /\ FollowStep("alive", IF pid /\ dpc # "gone" THEN "stat" ELSE "last")
               /\ UNCHANGED <<followseg, followpos, out>>

\* Mutant: a log that has not grown counts as rotated.
FollowStatEager ==
    /\ FollowStep("stat", IF named /\ followpos >= Size(Active) THEN "reopen" ELSE "drain")
    /\ UNCHANGED <<followseg, followpos, out>>

\* Only a name that leads to a shorter file shows a rotation.
FollowStat == /\ FollowStep("stat", IF named /\ followpos > Size(Active)
                                    THEN "reopen" ELSE "drain")
              /\ UNCHANGED <<followseg, followpos, out>>
FollowReopen ==
    /\ FollowStep("reopen", IF named THEN "drain" ELSE "stat")
    /\ followseg' = IF named THEN Active ELSE followseg
    /\ followpos' = IF named THEN 0 ELSE followpos
    /\ UNCHANGED out

\* Mutant: no drain after the daemon is found dead.
FollowLastSkipped == FollowStep("last", "done") /\ UNCHANGED <<followseg, followpos, out>>
FollowLast == FollowStep("last", "done") /\ DrainFollow

------------------------------------------------------------------------------
(* wait --pattern --timeout *)

WaitStep(from, to) == /\ waitpc = from /\ waitpc' = to
                      /\ UNCHANGED <<daemonVars, pollVars, followVars, sumVars>>
DrainWait == IF waitseg = 0 THEN UNCHANGED <<waitpos, seen>>
             ELSE /\ seen' = (seen \/ Pattern \in LinesFrom(waitseg, waitpos))
                  /\ waitpos' = Size(waitseg)

WaitStart == WaitStep("start", "open") /\ early' = (named /\ InLog(Pattern))
             /\ UNCHANGED <<waitseg, waitpos, seen>>
WaitOpen == /\ WaitStep("open", "drain")
            /\ waitseg' = IF waitseg = 0 /\ named THEN Active ELSE waitseg
            /\ UNCHANGED <<waitpos, seen, early>>
WaitDrain == WaitStep("drain", "match") /\ DrainWait /\ UNCHANGED <<waitseg, early>>

\* Mutant: the time is up before what was read is matched.
WaitMatchLate ==
    /\ \/ WaitStep("match", "timeout")
       \/ WaitStep("match", IF seen THEN "matched" ELSE "check")
    /\ UNCHANGED <<waitseg, waitpos, seen, early>>
\* What was read is matched first; a --timeout may be over after that.
WaitMatch ==
    /\ \/ seen /\ WaitStep("match", "matched")
       \/ ~seen /\ WaitStep("match", "timeout")
       \/ ~seen /\ WaitStep("match", "check")
    /\ UNCHANGED <<waitseg, waitpos, seen, early>>

\* Mutant: no .pid file, so the daemon has not come up yet.
WaitCheckPidPatient == /\ WaitStep("check", IF pid THEN "status" ELSE "open")
                       /\ UNCHANGED <<waitseg, waitpos, seen, early>>
\* No .pid file: the process is taken to have exited.
WaitCheckPid == /\ WaitStep("check", IF pid THEN "status" ELSE "final")
                /\ UNCHANGED <<waitseg, waitpos, seen, early>>
\* A status that cannot be had tells nothing.
WaitStatus == /\ WaitStep("status", IF dpc = "serve" /\ child = "exited"
                                    THEN "final" ELSE "open")
              /\ UNCHANGED <<waitseg, waitpos, seen, early>>
WaitFinal == /\ waitpc = "final" /\ DrainWait
             /\ waitpc' = IF seen' THEN "matched" ELSE "exited"
             /\ UNCHANGED <<daemonVars, pollVars, followVars, sumVars, waitseg, early>>

------------------------------------------------------------------------------
(* summary *)

SumStep(from, to) == /\ sumpc = from /\ sumpc' = to
                     /\ UNCHANGED <<daemonVars, pollVars, followVars, waitVars, counted>>

\* Two requests, status and summary: one that is sent while the daemon starts
\* waits in the socket until it serves.
SumStatus == /\ dpc \notin {"pid", "child", "log"}
             /\ SumStep("status", IF dpc = "serve" THEN "counter" ELSE "exists")
             /\ UNCHANGED <<sumby, sumlines, sumseg, sumcursor>>
SumCounter == /\ SumStep("counter", "exists")
              /\ IF dpc = "serve" THEN sumby' = "counter" /\ sumlines' = counted
                                  ELSE UNCHANGED <<sumby, sumlines>>
              /\ UNCHANGED <<sumseg, sumcursor>>
\* No .log under its name, as in the middle of a rotation, is an error.
SumExists == /\ SumStep("exists", IF named THEN "len" ELSE "nolog")
             /\ UNCHANGED <<sumby, sumlines, sumseg, sumcursor>>
\* If the name is gone by now the length is 0, as that of the file to come.
SumLen == /\ SumStep("len", IF sumby = "counter" THEN "done" ELSE "scan")
          /\ sumseg' = IF named THEN Active ELSE Active + 1
          /\ sumcursor' = IF named THEN Size(Active) ELSE 0
          /\ UNCHANGED <<sumby, sumlines>>
\* Without the counter, the newlines of the file that has the name now.
SumScan == /\ SumStep("scan", "done") /\ sumby' = "scan"
           /\ sumlines' = IF named THEN Size(Active) ELSE 0
           /\ UNCHANGED <<sumseg, sumcursor>>

------------------------------------------------------------------------------
Daemon == WritePid \/ StartChild \/ OpenLog \/ WriteLine \/ Reopen \/ Reap
          \/ CountLines
Poll == PollOpen \/ PollLen \/ PollRead
Follow == \/ FollowOpen \/ FollowDump \/ FollowDrain \/ FollowAlive \/ FollowStat
          \/ FollowReopen \/ FollowLast
Wait == \/ WaitStart \/ WaitOpen \/ WaitDrain \/ WaitMatch \/ WaitCheckPid
        \/ WaitStatus \/ WaitFinal
Summary == SumStatus \/ SumCounter \/ SumExists \/ SumLen \/ SumScan
Next == \/ Daemon \/ ChildPrints \/ ChildDies \/ GuardRemovesPid \/ Exit \/ Crash
        \/ Poll \/ Follow \/ Wait \/ Summary

\* The daemon's threads and the readers run; the child need not do anything,
\* and the daemon of a dead child ends after its linger.
Fairness == /\ WF_vars(Daemon) /\ WF_vars(GuardRemovesPid) /\ WF_vars(Exit)
            /\ WF_vars(Follow) /\ WF_vars(Wait) /\ WF_vars(Summary)
Spec == Init /\ [][Next]_vars
FairSpec == Spec /\ Fairness

------------------------------------------------------------------------------
TypeOK ==
    /\ pid \in BOOLEAN /\ named \in BOOLEAN /\ ended \in 0..MaxLines
    /\ dpc \in {"pid", "child", "log", "serve", "clean", "gone"}
    /\ child \in {"none", "running", "dead", "exited"}
    /\ printed \in 0..MaxLines
    /\ segs \in Seq([lo : 0..MaxLines, hi : 0..MaxLines])
    /\ \A i \in 1..Active : Size(i) \in 0..SegSize
    /\ pollpc \in {"off", "idle", "len", "read"}
    /\ {cursor, polllen, followpos, waitpos} \subseteq 0..SegSize
    /\ {pollseg, followseg, waitseg} \subseteq 0..Active
    /\ got \subseteq 1..MaxLines
    /\ followpc \in {"off", "open", "dump", "stat", "reopen", "drain", "alive", "last",
                     "done"}
    /\ out \in Seq(1..MaxLines)
    /\ waitpc \in {"off", "start", "open", "drain", "match", "check", "status", "final",
                   "matched", "timeout", "exited"}
    /\ seen \in BOOLEAN /\ early \in BOOLEAN
    /\ sumpc \in {"off", "status", "counter", "exists", "len", "scan", "nolog", "done"}
    /\ sumby \in {"none", "counter", "scan"}
    /\ {counted, sumlines} \subseteq 0..MaxLines
    /\ sumseg \in 0..(Active + 1) /\ sumcursor \in 0..SegSize

(* tail --follow across any number of rotations: whatever it misses, it    *)
(* never writes a line twice or out of order (follow_loop's pos > len).    *)
FollowInOrder == \A i \in 1..Len(out) : i = 1 \/ out[i - 1] < out[i]

(* While the log has not been rotated, tail --follow ends with every line  *)
(* that was in it when the daemon removed its .pid or was killed: what is  *)
(* written between its last drain and its check is not lost.               *)
FollowsToTheEnd ==
    followpc = "done" /\ Active = 1 => \A n \in 1..ended : n <= Len(out) /\ out[n] = n

(* While the log has not been rotated, a loop of `tail --json --cursor`    *)
(* calls skips no line, though lines are added between the call that finds *)
(* the length and the one that reads.                                      *)
PollLosesNothing == Active = 1 => 1..cursor \subseteq got

(* commands.md:155: wait "reads the existing log first": while the log is  *)
(* not rotated a line that is there when it starts is found, whatever the  *)
(* timeout, the child and the daemon do meanwhile.                         *)
WaitFindsEarlyLine ==
    Active = 1 /\ named /\ early => waitpc \notin {"timeout", "exited"}

(* summary.rs:122-141: the log_lines of a summary and its tail_cursor fit   *)
(* together, though they are read one after the other while the log grows  *)
(* and rotates.  The daemon's count has no line that a tail from that      *)
(* cursor gives again; a scan of a log not rotated, or being so, lacks none*)
(* of the lines before it.                                                 *)
SummaryFitsItsCursor ==
    sumpc = "done" =>
      /\ sumby = "counter" /\ sumseg <= Active => sumlines <= Line(sumseg, sumcursor)
      /\ sumby = "scan" /\ Active = 1 /\ named => sumlines >= sumcursor

(* Every reader comes to an end.  A wait, with a timeout or without, does   *)
(* once the child is dead: through the status, or the missing .pid after    *)
(* the linger; only a .pid that a killed daemon left can keep it            *)
(* (check_child_exited).  A tail --follow that has begun ends when the      *)
(* daemon does, and a summary always.                                       *)
ReadersReturn ==
    /\ (child = "dead" /\ waitpc # "off")
           ~> (waitpc \in {"matched", "exited", "timeout"} \/ (dpc = "gone" /\ pid))
    /\ (dpc = "gone" /\ followpc \notin {"off", "open"}) ~> (followpc = "done")
    /\ (sumpc # "off") ~> (sumpc \in {"nolog", "done"})

=============================================================================
