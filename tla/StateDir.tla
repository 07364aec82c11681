------------------------------- MODULE StateDir -------------------------------
(***************************************************************************)
(* The sidecar files of one id and the processes that meet on them:        *)
(* `spawn --id` (client.rs), the daemons it starts (daemon.rs, here only   *)
(* what touches the files), `list` and `doctor --fix`, which sweep stale   *)
(* files (cli.rs, doctor.rs), and old logs.  Nothing locks the directory:  *)
(* every file operation is a step.  .cmd is left out, nothing reads it.    *)
(***************************************************************************)
EXTENDS Naturals

CONSTANTS Spawners,    \* `spawn --id` processes; each may start the daemon of its name
          Old,         \* the daemon that is there at the start
          Listers, Doctors,  \* `list` and `doctor --fix` processes
          Scenarios    \* what may meet: records of
                       \*   old, version: how Old is found, and what built it
                       \*   who: the CLI processes that run
                       \*   closes, crashes, faults: bounds on daemons that are
                       \*   asked to close or end, that die of SIGKILL, and on
                       \*   calls that fail while one starts

New == "new"       \* CARGO_PKG_VERSION of every process but Old
None == "none"
Empty == "empty"     \* of a .pid: there, but nothing is in it
Makeshift == "fallback"
Daemons == Spawners \union {Old}
Sweepers == Listers \union Doctors

ASSUME StateDirAssumption ==
    /\ Old \notin Spawners /\ Listers \intersect Doctors = {}
    /\ Spawners \intersect Sweepers = {}
    /\ {None, Empty, Makeshift} \intersect Daemons = {}
    /\ Scenarios \subseteq [old : {"none", "serve", "dead"}, version : {"old", New},
                            who : SUBSET (Spawners \union Sweepers),
                            closes : Nat, crashes : Nat, faults : Nat]

VARIABLES sc,      \* the scenario this behaviour is one of
          sock,    \* the daemon whose listener the .sock file leads to
          pidf,    \* .pid: who has it open, the pid in it, Empty or None
          ver,     \* the content of .version
          meta,    \* the daemon that wrote .meta
          logf,    \* the daemons that write or wrote to .log; {} if there is none
          dpc,     \* daemon -> where it stands
          dat,     \* daemon -> sidecars its guard has removed
          child,   \* daemon -> its child: none, running, gone
          spc,     \* spawner -> where it stands
          sat,     \* spawner -> sidecars its cleanup has removed
          target,  \* spawner -> the daemon whose pid it read
          res,     \* spawner -> what it returned
          lpc,     \* sweeper -> where it stands
          lat,     \* sweeper -> sidecars its cleanup has removed
          stale,   \* sweeper -> what its scan saw, then what it found stale
          seen,    \* sweeper -> whose pid, or child's pid, it has read last
          orphan,  \* doctor -> the daemons whose children it will kill
          past,    \* sweeper -> daemons that had ended when it began
          met,     \* sweeper -> daemons that had made their .pid by then
          row,     \* list -> whose .meta its row is from
          says,    \* list -> where the state in its row is from
          closes, crashes, faults

sidecars == <<sock, pidf, ver, meta>>
files == <<sidecars, logf>>
daemonVars == <<dpc, dat, child>>
spawnVars == <<spc, sat, target, res>>
listVars == <<row, says>>
sweepVars == <<lpc, lat, stale, seen, orphan, past, met, listVars>>
boundVars == <<sc, closes, crashes, faults>>
vars == <<files, daemonVars, spawnVars, sweepVars, boundVars>>

------------------------------------------------------------------------------
Version(d) == IF d = Old THEN sc.version ELSE New
NoPid == [open |-> {}, pid |-> None]
Starting == {"bind", "pid", "pid2", "version", "child", "log", "meta"}
Past(d) == dpc[d] \in {"exited", "dead"}
Named == {"pid2", "version", "child", "log", "meta", "serve"}   \* with a .pid
Alive(d) == dpc[d] \in Starting \union {"serve", "closing", "clean"}
\* The listener is open from bind until run_main_loop returns.
Listening(d) == dpc[d] \in (Starting \ {"bind"}) \union {"serve", "closing"}
CanConnect == sock # None /\ Listening(sock)
VersionMatches == ver = New

\* Removal number k of cleanup_stale_files: whoever the file belongs to.
Remove(k) ==
    /\ pidf' = IF k = 1 THEN NoPid ELSE pidf
    /\ ver'  = IF k = 2 THEN None ELSE ver
    /\ sock' = IF k = 3 THEN None ELSE sock
    /\ meta' = IF k = 4 THEN None ELSE meta
    /\ UNCHANGED logf

\* The daemon there at the start came up alone: its files are complete.
Init ==
    /\ sc \in Scenarios
    /\ dpc = [d \in Daemons |-> IF d = Old THEN sc.old ELSE "none"]
    /\ IF sc.old = "none"
       THEN sock = None /\ pidf = NoPid /\ ver = None /\ meta = None
       ELSE /\ sock = Old /\ ver = sc.version /\ meta = Old
            /\ pidf = [open |-> {}, pid |-> Old]
    /\ logf = IF sc.old = "none" THEN {} ELSE {Old}
    /\ dat = [d \in Daemons |-> 0]
    /\ child = [d \in Daemons |-> IF dpc[d] = "serve" THEN "running" ELSE "none"]
    /\ spc = [s \in Spawners |-> IF s \in sc.who THEN "check" ELSE "off"]
    /\ sat = [s \in Spawners |-> 0]
    /\ target = [s \in Spawners |-> None]
    /\ res = [s \in Spawners |-> "none"]
    /\ lpc = [w \in Sweepers |-> IF w \in sc.who THEN "scan" ELSE "off"]
    /\ lat = [w \in Sweepers |-> 0]
    /\ stale = [w \in Sweepers |-> {}]
    /\ seen = [w \in Sweepers |-> None]
    /\ orphan = [w \in Sweepers |-> {}]
    /\ past = [w \in Sweepers |-> {}] /\ met = [w \in Sweepers |-> {}]
    /\ row = [w \in Listers |-> None] /\ says = [w \in Listers |-> None]
    /\ closes = 0 /\ crashes = 0 /\ faults = 0

------------------------------------------------------------------------------
(* A daemon: bind first, then the other sidecars (daemon.rs:171-265). *)

Goto(d, step) == dpc' = [dpc EXCEPT ![d] = step]
DaemonOnly == UNCHANGED <<spawnVars, sweepVars, boundVars>>

\* Mutant: .pid is written before the socket is bound.
BindLate(d) ==
    /\ dpc[d] = "bind"
    /\ IF sock = None THEN sock' = d /\ Goto(d, "pid")
                      ELSE Goto(d, "lost") /\ UNCHANGED sock
    /\ pidf' = [open |-> {}, pid |-> d]
    /\ UNCHANGED <<ver, meta, logf, dat, child>> /\ DaemonOnly

\* bind fails when the file is there, listened to or not.
Bind(d) ==
    /\ dpc[d] = "bind"
    /\ IF sock = None THEN sock' = d /\ Goto(d, "pid")
                      ELSE Goto(d, "lost") /\ UNCHANGED sock
    /\ UNCHANGED <<pidf, ver, meta, logf, dat, child>> /\ DaemonOnly

\* fs::write creates or truncates the file, then writes it.
CreatePid(d) ==
    /\ dpc[d] = "pid" /\ Goto(d, "pid2")
    /\ pidf' = [open |-> pidf.open \union {d}, pid |-> Empty]
    /\ UNCHANGED <<sock, ver, meta, logf, dat, child>> /\ DaemonOnly

\* If somebody removed the name in between, the pid goes to a nameless file.
FillPid(d) ==
    /\ dpc[d] = "pid2" /\ Goto(d, "version")
    /\ pidf' = IF d \in pidf.open
               THEN [pidf EXCEPT !.open = @ \ {d}, !.pid = d] ELSE pidf
    /\ UNCHANGED <<sock, ver, meta, logf, dat, child>> /\ DaemonOnly

WriteVersion(d) ==
    /\ dpc[d] = "version" /\ Goto(d, "child")
    /\ ver' = Version(d)
    /\ UNCHANGED <<sock, pidf, meta, logf, dat, child>> /\ DaemonOnly

SpawnChild(d) ==
    /\ dpc[d] = "child" /\ Goto(d, "log")
    /\ child' = [child EXCEPT ![d] = "running"]
    /\ UNCHANGED <<files, dat>> /\ DaemonOnly

\* Opened to append: what an earlier daemon left in it stays.
OpenLog(d) ==
    /\ dpc[d] = "log" /\ Goto(d, "meta")
    /\ logf' = logf \union {d}
    /\ UNCHANGED <<sidecars, dat, child>> /\ DaemonOnly

\* Written to a temporary file and renamed: there at once.
WriteMeta(d) ==
    /\ dpc[d] = "meta" /\ Goto(d, "serve")
    /\ meta' = d
    /\ UNCHANGED <<sock, pidf, ver, logf, dat, child>> /\ DaemonOnly

\* bind fails for another reason, which its spawn takes for a lost race, or one of
\* the writes that follow, the last that of .cmd: without a guard the daemon just
\* exits.
FailsUnguarded(d) ==
    /\ dpc[d] \in {"bind", "pid", "pid2", "version", "child"} /\ faults < sc.faults
    /\ faults' = faults + 1 /\ UNCHANGED <<sc, closes, crashes>>
    /\ Goto(d, IF dpc[d] = "bind" THEN "lost" ELSE "exited")
    /\ UNCHANGED <<files, dat, child, spawnVars, sweepVars>>

\* The child of a daemon that dies gets SIGHUP, which it may trap.
HangUp(d) == \E c \in {child[d], IF child[d] = "running" THEN "gone" ELSE child[d]} :
                 child' = [child EXCEPT ![d] = c]

\* No PTY or no child, no reader or no log, no .meta: the guard cleans up and the
\* daemon exits.  Its PTY is closed first, or in the last case with the process,
\* whose reader thread has it open; nobody else ends the child.
FailsGuarded(d) ==
    /\ dpc[d] \in {"child", "log", "meta"} /\ faults < sc.faults
    /\ faults' = faults + 1 /\ UNCHANGED <<sc, closes, crashes>>
    /\ Goto(d, "clean")
    /\ IF dpc[d] = "log" THEN HangUp(d) ELSE UNCHANGED child
    /\ UNCHANGED <<files, dat, spawnVars, sweepVars>>

\* A close request, the idle timer or the end of the linger.
Close(d) ==
    /\ dpc[d] = "serve" /\ closes < sc.closes
    /\ closes' = closes + 1 /\ UNCHANGED <<sc, crashes, faults>>
    /\ Goto(d, "closing")
    /\ UNCHANGED <<files, dat, child, spawnVars, sweepVars>>

\* The grace period is over: SIGKILL, then the guard.
GraceOver(d) ==
    /\ dpc[d] = "closing" /\ Goto(d, "clean")
    /\ child' = [child EXCEPT ![d] = "gone"]
    /\ UNCHANGED <<files, dat>> /\ DaemonOnly

\* Mutant: the guard counts one sidecar too many.
GuardRemovesOn(d) ==
    /\ dpc[d] = "clean"
    /\ Remove(dat[d] + 1)
    /\ dat' = [dat EXCEPT ![d] = @ + 1]
    /\ Goto(d, IF dat[d] = 4 THEN "exited" ELSE "clean")
    /\ IF dat[d] = 4 THEN HangUp(d) ELSE UNCHANGED child
    /\ DaemonOnly

GuardRemoves(d) ==
    /\ dpc[d] = "clean"
    /\ Remove(dat[d] + 1)
    /\ dat' = [dat EXCEPT ![d] = @ + 1]
    /\ Goto(d, IF dat[d] = 3 THEN "exited" ELSE "clean")
    /\ IF dat[d] = 3 THEN HangUp(d) ELSE UNCHANGED child
    /\ DaemonOnly

Crash(d) ==
    /\ Alive(d) /\ crashes < sc.crashes
    /\ crashes' = crashes + 1 /\ UNCHANGED <<sc, closes, faults>>
    /\ Goto(d, "dead") /\ HangUp(d)
    /\ UNCHANGED <<files, dat, spawnVars, sweepVars>>

------------------------------------------------------------------------------
(* ensure_daemon and kill_stale_daemon. *)

Step(s, from, to) == spc[s] = from /\ spc' = [spc EXCEPT ![s] = to]
Return(s, from, r) == /\ Step(s, from, "done")
                      /\ res' = [res EXCEPT ![s] = r]
                      /\ UNCHANGED <<files, daemonVars, sat, target, sweepVars, boundVars>>
Fork(s, from) == /\ Step(s, from, "poll") /\ Goto(s, "bind")
                 /\ UNCHANGED <<files, dat, child, sat, target, res, sweepVars, boundVars>>

Check(s) == /\ CanConnect /\ Step(s, "check", "version")
            /\ UNCHANGED <<files, daemonVars, sat, target, res, sweepVars, boundVars>>
NothingThere(s) == ~CanConnect /\ Fork(s, "check")
Reuse(s) == VersionMatches /\ Return(s, "version", "attached")

\* kill_stale_daemon: the socket goes first.
DropSocket(s) ==
    /\ ~VersionMatches /\ Step(s, "version", "readpid")
    /\ sock' = None
    /\ UNCHANGED <<pidf, ver, meta, logf, daemonVars, sat, target, res, sweepVars, boundVars>>

\* SIGTERM: before the event loop runs it kills; in the loop it closes, unless
\* it is lost between two polls; afterwards nobody listens to it.
Terminate(d) ==
    IF dpc[d] \in Starting THEN Goto(d, "dead") /\ HangUp(d)
    ELSE /\ \/ dpc[d] = "serve" /\ Goto(d, "closing")
            \/ UNCHANGED dpc
         /\ UNCHANGED child

ReadPid(s) ==
    /\ IF pidf.pid \in Daemons
       THEN /\ Step(s, "readpid", "grace")
            /\ target' = [target EXCEPT ![s] = pidf.pid]
            /\ Terminate(pidf.pid)
       ELSE /\ Step(s, "readpid", "sweep")
            /\ UNCHANGED <<target, dpc, child>>
    /\ UNCHANGED <<files, dat, sat, res, sweepVars, boundVars>>

\* Mutant: the sweep follows the SIGTERM at once.
TargetGoneUnchecked(s) ==
    /\ Step(s, "grace", "sweep")
    /\ UNCHANGED <<files, daemonVars, sat, target, res, sweepVars, boundVars>>

TargetGone(s) ==
    /\ Step(s, "grace", "sweep") /\ ~Alive(target[s])
    /\ UNCHANGED <<files, daemonVars, sat, target, res, sweepVars, boundVars>>

\* The target is still there after a second: SIGKILL.
TargetStuck(s) ==
    /\ Step(s, "grace", "sweep") /\ Alive(target[s])
    /\ Goto(target[s], "dead") /\ HangUp(target[s])
    /\ UNCHANGED <<files, dat, sat, target, res, sweepVars, boundVars>>

Sweep(s) ==
    /\ sat[s] < 4
    /\ Step(s, "sweep", IF sat[s] = 3 THEN "fork" ELSE "sweep")
    /\ Remove(sat[s] + 1)
    /\ sat' = [sat EXCEPT ![s] = @ + 1]
    /\ UNCHANGED <<daemonVars, target, res, sweepVars, boundVars>>
ForkAfterSweep(s) == Fork(s, "fork")

\* One poll: the socket first, then the daemon's exit.
Started(s) == CanConnect /\ Return(s, "poll", "started")

\* Mutant: the loser goes on polling for the winner's socket.
LostRaceWaits(s) == CanConnect /\ dpc[s] = "lost" /\ Return(s, "poll", "attached")

LostRace(s) == /\ ~CanConnect /\ dpc[s] = "lost" /\ Step(s, "poll", "loser")
               /\ UNCHANGED <<files, daemonVars, sat, target, res, sweepVars, boundVars>>
DaemonDied(s) == /\ ~CanConnect /\ dpc[s] \in {"dead", "exited"}
                 /\ Return(s, "poll", "error")
\* The polls run out while the daemon lives with no name for its socket.
Unreachable(s) == /\ ~CanConnect /\ Alive(s) /\ sock # s /\ dpc[s] # "bind"
                  /\ Return(s, "poll", "error")
Piggyback(s) == Return(s, "loser", IF CanConnect THEN "attached" ELSE "error")

------------------------------------------------------------------------------
(* walk_and_clean_state_dir; doctor's scan and apply_fixes. *)

Look(w, from, to) == lpc[w] = from /\ lpc' = [lpc EXCEPT ![w] = to]

\* What the listing of the directory shows.
Scan(w) ==
    /\ Look(w, "scan", IF pidf.pid # None THEN "pid" ELSE "sock")
    /\ past' = [past EXCEPT ![w] = {d \in Daemons : Past(d)}]
    /\ met' = [met EXCEPT ![w] = {d \in Daemons : dpc[d] \in Named}]
    /\ stale' = [stale EXCEPT ![w] = (IF pidf.pid # None THEN {"pid"} ELSE {})
                        \union (IF sock # None THEN {"sock"} ELSE {})
                        \union (IF meta # None /\ w \in Doctors THEN {"meta"} ELSE {})
                        \union (IF logf # {} /\ w \in Doctors THEN {"log"} ELSE {})]
    /\ UNCHANGED <<files, daemonVars, spawnVars, lat, seen, orphan, listVars, boundVars>>

\* A .pid that is gone by now or empty is stale: `list` cleans up at once, doctor
\* only notes it.
ReadPidFile(w) ==
    LET read == pidf.pid \in Daemons
    IN /\ Look(w, "pid", IF read THEN "probe" ELSE IF w \in Listers THEN "remove" ELSE "sock")
       /\ seen' = [seen EXCEPT ![w] = IF read THEN pidf.pid ELSE None]
       /\ UNCHANGED <<files, daemonVars, spawnVars, lat, stale, orphan, past, met, listVars,
                      boundVars>>

\* So is one whose process is gone; one of a live process is left alone.
ProbeIf(w, alive) ==
    /\ Look(w, "probe", IF w \in Listers THEN IF alive THEN "load" ELSE "remove"
                                          ELSE IF alive THEN "sock" ELSE "dead")
    /\ stale' = [stale EXCEPT ![w] = IF alive THEN @ \ {"pid"} ELSE @]
    /\ seen' = [seen EXCEPT ![w] = None]
    /\ UNCHANGED <<files, daemonVars, spawnVars, lat, orphan, past, met, listVars, boundVars>>

\* Mutant: every pid is taken for one of a dead process.
ProbePidBlind(w) == ProbeIf(w, FALSE)

ProbePid(w) == ProbeIf(w, Alive(seen[w]))

\* The row of a live daemon; without its .meta a makeshift one.
LoadMeta(w) ==
    /\ w \in Listers /\ Look(w, "load", "sock")
    /\ row' = [row EXCEPT ![w] = IF meta = None THEN Makeshift ELSE meta]
    /\ UNCHANGED <<files, daemonVars, spawnVars, lat, stale, seen, orphan, past, met, says,
                   boundVars>>

\* doctor reads of which child a .meta tells whose .pid is of a dead process, or
\* has no .pid beside it ...
LoadOrphan(w) ==
    /\ \/ Look(w, "dead", IF meta = None THEN "sock" ELSE "deadchild")
       \/ Look(w, "lone", IF meta = None THEN "log" ELSE "lonechild")
    /\ seen' = [seen EXCEPT ![w] = meta]
    /\ UNCHANGED <<files, daemonVars, spawnVars, lat, stale, orphan, past, met, listVars,
                   boundVars>>

\* ... and reports the child if it lives.
ProbeChild(w) ==
    /\ Look(w, "deadchild", "sock") \/ Look(w, "lonechild", "log")
    /\ orphan' = [orphan EXCEPT ![w] = IF child[seen[w]] = "running" THEN @ \union {seen[w]}
                                                                     ELSE @]
    /\ seen' = [seen EXCEPT ![w] = None]
    /\ UNCHANGED <<files, daemonVars, spawnVars, lat, stale, past, met, listVars, boundVars>>

\* Mutant: the socket alone is no reason to clean up.
CheckSockKeeps(w) ==
    /\ Look(w, "sock", IF w \in Doctors THEN "meta" ELSE "remove")
    /\ stale' = [stale EXCEPT ![w] = @ \ {"sock"}]
    /\ UNCHANGED <<files, daemonVars, spawnVars, lat, seen, orphan, past, met, listVars,
                   boundVars>>

\* A .sock with no .pid next to it is stale.
CheckSock(w) ==
    /\ Look(w, "sock", IF w \in Doctors THEN "meta" ELSE "remove")
    /\ stale' = [stale EXCEPT ![w] = IF pidf.pid # None THEN @ \ {"sock"} ELSE @]
    /\ UNCHANGED <<files, daemonVars, spawnVars, lat, seen, orphan, past, met, listVars,
                   boundVars>>

\* Mutant: doctor takes every .meta for an orphan, whatever the .pid says.
CheckMetaBlind(w) ==
    /\ Look(w, "meta", IF "meta" \in stale[w] THEN "lone" ELSE "log")
    /\ UNCHANGED <<files, daemonVars, spawnVars, lat, stale, seen, orphan, past, met, listVars,
                   boundVars>>

\* So is a .meta, for doctor ...
CheckMeta(w) ==
    LET lone == "meta" \in stale[w] /\ pidf.pid = None
    IN /\ Look(w, "meta", IF lone THEN "lone" ELSE "log")
       /\ stale' = [stale EXCEPT ![w] = IF lone THEN @ ELSE @ \ {"meta"}]
       /\ UNCHANGED <<files, daemonVars, spawnVars, lat, seen, orphan, past, met, listVars,
                      boundVars>>

\* ... and a .log, which --fix removes if its age is over the limit.
CheckLog(w) ==
    /\ Look(w, "log", "remove")
    /\ \E young \in {{}, {"log"}} :
         stale' = [stale EXCEPT ![w] = @ \ (IF pidf.pid # None THEN {"log"} ELSE young)]
    /\ UNCHANGED <<files, daemonVars, spawnVars, lat, seen, orphan, past, met, listVars,
                   boundVars>>

Reasons(w) == stale[w] \ {"log"}

\* One cleanup_stale_files for each reason.
RemoveStale(w) ==
    LET reason == IF "pid" \in stale[w] THEN "pid" ELSE CHOOSE r \in Reasons(w) : TRUE
        last == lat[w] = 3
    IN /\ Reasons(w) # {}
       /\ Look(w, "remove", IF last /\ reason = "pid" /\ w \in Listers
                            THEN "sock" ELSE "remove")
       /\ Remove(lat[w] + 1)
       /\ lat' = [lat EXCEPT ![w] = IF last THEN 0 ELSE @ + 1]
       /\ stale' = [stale EXCEPT ![w] = IF last THEN @ \ {reason} ELSE @]
       /\ UNCHANGED <<daemonVars, spawnVars, seen, orphan, past, met, listVars, boundVars>>

\* doctor's SIGTERM, 200 ms, SIGKILL for the orphans of its report, and one
\* more cleanup.
KillOrphan(w) ==
    /\ Reasons(w) = {} /\ orphan[w] # {} /\ Look(w, "remove", "remove")
    /\ child' = [d \in Daemons |-> IF d \in orphan[w] THEN "gone" ELSE child[d]]
    /\ stale' = [stale EXCEPT ![w] = @ \union {"orphan"}]
    /\ orphan' = [orphan EXCEPT ![w] = {}]
    /\ UNCHANGED <<files, dpc, dat, spawnVars, lat, seen, past, met, listVars, boundVars>>

\* The old logs go last, by their names.
RemoveLog(w) ==
    /\ stale[w] = {"log"} /\ orphan[w] = {} /\ Look(w, "remove", "remove")
    /\ logf' = {}
    /\ stale' = [stale EXCEPT ![w] = {}]
    /\ UNCHANGED <<sidecars, daemonVars, spawnVars, lat, seen, orphan, past, met, listVars,
                   boundVars>>

\* list keeps the rows of the project; a makeshift one is of none.
EndSweep(w) ==
    LET shown == w \in Listers /\ row[w] \in Daemons
    IN /\ stale[w] = {} /\ orphan[w] = {}
       /\ Look(w, "remove", IF shown THEN "query" ELSE "done")
       /\ row' = [x \in Listers |-> IF x = w /\ ~shown THEN None ELSE row[x]]
       /\ UNCHANGED <<files, daemonVars, spawnVars, lat, stale, seen, orphan, past, met, says,
                      boundVars>>

\* The state is the answer to a status request, or "running" without one; a
\* request to a daemon that starts may wait for the answer or time out.
QueryState(w) ==
    /\ w \in Listers /\ Look(w, "query", "done")
    /\ says' = [says EXCEPT ![w] = IF CanConnect /\ dpc[sock] = "serve"
                                    THEN "status" ELSE "running"]
    /\ UNCHANGED <<files, daemonVars, spawnVars, lat, stale, seen, orphan, past, met, row,
                   boundVars>>

------------------------------------------------------------------------------
Daemon(d) == \/ Bind(d) \/ CreatePid(d) \/ FillPid(d) \/ WriteVersion(d)
             \/ SpawnChild(d) \/ OpenLog(d) \/ WriteMeta(d) \/ GraceOver(d) \/ GuardRemoves(d)
Spawn(s) == \/ Check(s) \/ NothingThere(s) \/ Reuse(s) \/ DropSocket(s) \/ ReadPid(s)
            \/ TargetGone(s) \/ TargetStuck(s) \/ Sweep(s) \/ ForkAfterSweep(s)
            \/ Started(s) \/ LostRace(s) \/ DaemonDied(s) \/ Unreachable(s)
            \/ Piggyback(s)
Fails(d) == FailsUnguarded(d) \/ FailsGuarded(d)
Sweeping(w) == \/ Scan(w) \/ ReadPidFile(w) \/ ProbePid(w) \/ LoadMeta(w)
               \/ LoadOrphan(w) \/ ProbeChild(w) \/ CheckSock(w) \/ CheckMeta(w)
               \/ CheckLog(w) \/ RemoveStale(w) \/ KillOrphan(w) \/ RemoveLog(w)
               \/ EndSweep(w) \/ QueryState(w)

Next == \/ \E d \in Daemons : Daemon(d) \/ Close(d) \/ Crash(d) \/ Fails(d)
        \/ \E s \in Spawners : Spawn(s)
        \/ \E w \in Sweepers : Sweeping(w)

\* Every process keeps running; crashes, failures and closes are not promised.
Fairness == /\ \A d \in Daemons : WF_vars(Daemon(d))
            /\ \A s \in Spawners : WF_vars(Spawn(s))
Spec == Init /\ [][Next]_vars
FairSpec == Spec /\ Fairness

------------------------------------------------------------------------------
\* Where a sweep is before it removes anything.
Looking == {"scan", "pid", "probe", "load", "dead", "deadchild", "sock", "meta", "lone",
            "lonechild", "log"}

TypeOK ==
    /\ sc \in Scenarios
    /\ sock \in Daemons \union {None} /\ meta \in Daemons \union {None}
    /\ pidf \in [open : SUBSET Daemons, pid : Daemons \union {None, Empty}]
    /\ ver \in {None, New, sc.version} /\ logf \subseteq Daemons
    /\ dpc \in [Daemons -> Starting \union {"none", "serve", "closing", "clean",
                                            "exited", "lost", "dead"}]
    /\ dat \in [Daemons -> 0..4]
    /\ child \in [Daemons -> {"none", "running", "gone"}]
    /\ spc \in [Spawners -> {"off", "check", "version", "readpid", "grace", "sweep", "fork",
                             "poll", "loser", "done"}]
    /\ sat \in [Spawners -> 0..4]
    /\ target \in [Spawners -> Daemons \union {None}]
    /\ res \in [Spawners -> {"none", "started", "attached", "error"}]
    /\ lpc \in [Sweepers -> {"off", "done"} \union Looking \union {"remove", "query"}]
    /\ lat \in [Sweepers -> 0..3]
    /\ stale \in [Sweepers -> SUBSET {"pid", "sock", "meta", "log", "orphan"}]
    /\ seen \in [Sweepers -> Daemons \union {None}]
    /\ orphan \in [Sweepers -> SUBSET Daemons]
    /\ past \in [Sweepers -> SUBSET Daemons] /\ met \in [Sweepers -> SUBSET Daemons]
    /\ row \in [Listers -> Daemons \union {None, Makeshift}]
    /\ says \in [Listers -> {None, "status", "running"}]
    /\ closes \in 0..sc.closes /\ crashes \in 0..sc.crashes /\ faults \in 0..sc.faults

(* daemon.rs:165-170: a loser exits on EADDRINUSE "without clobbering the  *)
(* winner's state": however starts, sweeps and crashes interleave, nothing *)
(* in the directory is the work of a daemon whose bind failed.             *)
LoserWritesNothing ==
    \A d \in Daemons : dpc[d] = "lost" =>
        /\ sock # d /\ meta # d /\ pidf.pid # d /\ d \notin pidf.open
        /\ d \notin logf /\ child[d] = "none"

(* A daemon of the CLI's version that serves its name is left in peace by  *)
(* any number of concurrent `spawn --id`, `list` and `doctor --fix`: it    *)
(* keeps its sidecars, its log and its child, every spawn ends attached to *)
(* it, and every list shows it with the state it tells.                    *)
LeftInPeace ==
    sc.old = "serve" /\ sc.version = New /\ closes = 0 /\ crashes = 0 =>
        /\ dpc[Old] = "serve" /\ child[Old] = "running"
        /\ sock = Old /\ meta = Old /\ pidf.pid = Old /\ ver = New
        /\ Old \in logf
        /\ \A s \in Spawners : res[s] \in {"none", "attached"} /\ dpc[s] = "none"
        /\ \A w \in Listers : lpc[w] = "done" => row[w] = Old /\ says[w] = "status"

(* A lone spawn that finds a daemon of another version (kill_stale_daemon) *)
(* never reports success with that daemon.  Once it has returned, the old  *)
(* one is dead and nothing of it is left in the directory; its own was     *)
(* reached, or a call of its start failed and it is not serving.  While it *)
(* serves every sidecar is its own, none taken away by the old one's guard *)
(* or by a cleanup.                                                        *)
UpgradeReplaces ==
    \A s \in Spawners :
      /\ sc.old = "serve" /\ sc.version # New /\ sc.who = {s}
      /\ closes = 0 /\ crashes = 0 /\ spc[s] = "done"
      =>
        /\ dpc[Old] \in {"exited", "dead"}
        /\ sock # Old /\ meta # Old /\ pidf.pid # Old
        /\ \/ res[s] = "started"
           \/ res[s] = "error" /\ faults > 0 /\ dpc[s] \in {"clean", "exited", "lost"}
        /\ dpc[s] = "serve" => /\ sock = s /\ meta = s /\ pidf.pid = s /\ ver = New
                               /\ child[s] = "running"

(* A `list` or a `doctor --fix` that begins after a daemon died leaves     *)
(* nothing of it that keeps the id from being spawned again, as long as no *)
(* other daemon has got hold of the socket: wherever in its start or its   *)
(* end it died, and whatever losers of the bind do meanwhile (cli.rs:743,  *)
(* doctor.rs:228-260).  Its .meta may stay behind a list, not a doctor.    *)
SweepHeals ==
    \A w \in Sweepers : \A d \in past[w] :
      /\ lpc[w] = "done"
      /\ \A e \in Daemons \ past[w] : dpc[e] \in {"none", "bind", "lost"}
      =>
        /\ sock # d /\ pidf.pid # d
        /\ w \in Doctors => meta # d

(* Every spawn returns, whoever it raced and whatever was swept away under *)
(* it: no wait in ensure_daemon is without an end.                         *)
SpawnReturns == \A s \in Spawners : <>(spc[s] \in {"off", "done"})

(* A lone doctor --fix beside a spawn never kills the child of a daemon    *)
(* that had made its .pid when the scan began and serves when the kill     *)
(* comes, although it probes, loads and tests one by one what others write *)
(* and remove (doctor.rs:148-226, 286-305).                                *)
DoctorSparesTheNamed ==
    [][\A w \in Doctors, s \in Spawners : sc.who = {s, w} /\ KillOrphan(w) =>
           \A d \in orphan[w] \intersect met[w] : child[d] = "running" => dpc[d] # "serve"]_vars

(* doctor.rs:170-171: an orphan is a living child "whose parent (daemon)   *)
(* died": doctor --fix kills no child of a daemon that serves.             *)
DoctorSparesTheLiving ==
    [][\A w \in Doctors : KillOrphan(w) =>
           \A d \in orphan[w] : child[d] = "running" => dpc[d] # "serve"]_vars

=============================================================================
