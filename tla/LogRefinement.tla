---------------------------- MODULE LogRefinement ----------------------------
(***************************************************************************)
(* The files of LogWriter as the rolling stream of RollingLog.             *)
(***************************************************************************)
EXTENDS LogWriter, FiniteSetsExt

\* The oldest byte on disk.
Lows == {log[i].lo : i \in {j \in Slots : Present(j)}}
First == IF Lows = {} THEN total ELSE Min(Lows)

Rolling == INSTANCE RollingLog WITH
             Capacity <- MaxSize * MaxSegments, first <- First, failed <- faults

\* The files implement RollingLog: without failures rotations are invisible but
\* for the eviction of bytes older than the last MaxSize * MaxSegments, and
\* also after one the stream only moves forward (pty.rs:164-226).
KeepsARollingLog == Rolling!RSpec

=============================================================================
