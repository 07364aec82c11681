---------------------------- MODULE StateDirProofs ----------------------------
(***************************************************************************)
(* Who writes into the state directory, and how an id comes back: what a   *)
(* `list` or a `doctor --fix` leaves behind of daemons that have died, and *)
(* what a `spawn` that replaces a daemon of another version ends with.     *)
(* For any number of spawns, lists and doctors, and for every scenario.    *)
(***************************************************************************)
EXTENDS StateDir, TLAPS

LEMMA ConstantTypes ==
    /\ Old \notin Spawners /\ Spawners \subseteq Daemons /\ Old \in Daemons
    /\ None \notin Daemons /\ Empty \notin Daemons /\ Makeshift \notin Daemons
    /\ Listers \subseteq Sweepers /\ Doctors \subseteq Sweepers
    /\ Scenarios \subseteq [old : {"none", "serve", "dead"}, version : {"old", New},
                            who : SUBSET (Spawners \union Sweepers),
                            closes : Nat, crashes : Nat, faults : Nat]
  BY StateDirAssumption DEF Daemons, Sweepers

\* Daemons that have no file open yet: not started, or refused by bind.
Early == {"none", "bind", "lost"}

\* No sidecar, no log and no child is the work of such a daemon.
EarlyUntouched ==
    \A d \in Daemons : dpc[d] \in Early =>
        /\ sock # d /\ meta # d /\ pidf.pid # d /\ d \notin pidf.open
        /\ d \notin logf /\ child[d] = "none"

\* A spawn forks once: before that its daemon does not exist.
ForksOnce ==
    \A s \in Spawners :
        spc[s] \notin {"poll", "loser", "done"} => dpc[s] = "none"

\* Whose child doctor reports has been past its bind.
OrphansStarted == \A w \in Sweepers : \A d \in orphan[w] : dpc[d] \notin Early

\* Nor was the work of one what a sweeper reads a pid from.
SeenStarted ==
    \A w \in Sweepers : lpc[w] \in {"probe", "deadchild", "lonechild"} =>
        seen[w] \in Daemons /\ dpc[seen[w]] \notin Early

\* A target is a daemon whose pid was found.
TargetKnown == \A s \in Spawners : spc[s] = "grace" => target[s] \in Daemons

\* The guard stops at its last removal.
GuardCounts == \A d \in Daemons : dpc[d] \notin {"exited", "dead"} => dat[d] < 4

Inv == /\ TypeOK /\ GuardCounts /\ EarlyUntouched /\ ForksOnce /\ OrphansStarted
       /\ SeenStarted /\ TargetKnown

LEMMA InvInit == Init => Inv
<1> SUFFICES ASSUME Init PROVE Inv
  OBVIOUS
<1> USE ConstantTypes DEF Init
<1>0. sc \in Scenarios /\ sc.old \in {"none", "serve", "dead"} /\ sc.version \in {"old", New}
      /\ sc.closes \in Nat /\ sc.crashes \in Nat /\ sc.faults \in Nat
  OBVIOUS
<1>1. TypeOK
  <2>1. pidf \in [open : SUBSET Daemons, pid : Daemons \union {None, Empty}]
    BY <1>0 DEF NoPid
  <2>2. /\ dpc \in [Daemons -> Starting \union {"none", "serve", "closing", "clean",
                                              "exited", "lost", "dead"}]
        /\ child \in [Daemons -> {"none", "running", "gone"}]
    BY <1>0 DEF Starting
  <2>3. /\ sock \in Daemons \union {None} /\ meta \in Daemons \union {None}
        /\ ver \in {None, New, sc.version} /\ logf \subseteq Daemons
    BY <1>0
  <2>4. closes \in 0..sc.closes /\ crashes \in 0..sc.crashes /\ faults \in 0..sc.faults
    BY <1>0
  <2> QED BY <1>0, <2>1, <2>2, <2>3, <2>4 DEF TypeOK, Looking
<1>2. EarlyUntouched
  BY <1>0 DEF EarlyUntouched, Early, NoPid
<1>3. ForksOnce /\ OrphansStarted /\ SeenStarted /\ TargetKnown /\ GuardCounts
  BY DEF GuardCounts, ForksOnce, OrphansStarted, SeenStarted, TargetKnown, Early
<1> QED BY <1>1, <1>2, <1>3 DEF Inv

LEMMA HangUpTypes ==
  ASSUME child \in [Daemons -> {"none", "running", "gone"}], NEW d \in Daemons, HangUp(d)
  PROVE  child' \in [Daemons -> {"none", "running", "gone"}]
  BY DEF HangUp

LEMMA TypeStep ==
  ASSUME TypeOK, SeenStarted, TargetKnown, GuardCounts, [Next]_vars
  PROVE  TypeOK'
<1> USE ConstantTypes DEF TypeOK, sidecars, files, daemonVars, spawnVars, listVars,
     sweepVars, boundVars, Looking, DaemonOnly, Goto, Step, Look
<1>1. CASE UNCHANGED vars
  BY <1>1 DEF vars
<1>2. ASSUME NEW d \in Daemons, Bind(d) PROVE TypeOK'
  BY <1>2 DEF Bind, Starting
<1>3. ASSUME NEW d \in Daemons, CreatePid(d) PROVE TypeOK'
  BY <1>3 DEF CreatePid, Starting
<1>4. ASSUME NEW d \in Daemons, FillPid(d) PROVE TypeOK'
  BY <1>4 DEF FillPid, Starting
<1>5. ASSUME NEW d \in Daemons, WriteVersion(d) PROVE TypeOK'
  BY <1>5 DEF WriteVersion, Starting, Version
<1>6. ASSUME NEW d \in Daemons, SpawnChild(d) PROVE TypeOK'
  BY <1>6 DEF SpawnChild, Starting
<1>7. ASSUME NEW d \in Daemons, OpenLog(d) PROVE TypeOK'
  BY <1>7 DEF OpenLog, Starting
<1>8. ASSUME NEW d \in Daemons, WriteMeta(d) PROVE TypeOK'
  BY <1>8 DEF WriteMeta
<1>9. ASSUME NEW d \in Daemons, GraceOver(d) PROVE TypeOK'
  BY <1>9 DEF GraceOver
<1>10. ASSUME NEW d \in Daemons, GuardRemoves(d) PROVE TypeOK'
  <2>1. dat[d] \in 0..3
    BY <1>10 DEF GuardRemoves, GuardCounts
  <2>2. dat' \in [Daemons -> 0..4]
    BY <1>10, <2>1 DEF GuardRemoves
  <2>3. dpc' \in [Daemons -> Starting \union {"none", "serve", "closing", "clean",
                                            "exited", "lost", "dead"}]
    BY <1>10 DEF GuardRemoves
  <2>4. child' \in [Daemons -> {"none", "running", "gone"}]
    <3>1. HangUp(d) \/ child' = child
      BY <1>10 DEF GuardRemoves
    <3> QED BY <3>1, HangUpTypes
  <2> QED BY <1>10, <2>2, <2>3, <2>4 DEF GuardRemoves, Remove, NoPid
<1>11. ASSUME NEW d \in Daemons, Close(d) PROVE TypeOK'
  BY <1>11 DEF Close
<1>12. ASSUME NEW d \in Daemons, Crash(d) PROVE TypeOK'
  BY <1>12, SMTT(30) DEF Crash, HangUp, Alive
<1>13. ASSUME NEW s \in Spawners, Check(s) PROVE TypeOK'
  BY <1>13 DEF Check
<1>14. ASSUME NEW s \in Spawners, NothingThere(s) PROVE TypeOK'
  BY <1>14 DEF NothingThere, Fork, Starting
<1>15. ASSUME NEW s \in Spawners, Reuse(s) PROVE TypeOK'
  BY <1>15 DEF Reuse, Return
<1>16. ASSUME NEW s \in Spawners, DropSocket(s) PROVE TypeOK'
  BY <1>16 DEF DropSocket
<1>17. ASSUME NEW s \in Spawners, ReadPid(s) PROVE TypeOK'
  <2>1. CASE pidf.pid \in Daemons
    <3>1. Terminate(pidf.pid)
      BY <1>17, <2>1 DEF ReadPid
    <3>2. child' \in [Daemons -> {"none", "running", "gone"}]
      <4>1. HangUp(pidf.pid) \/ child' = child
        BY <3>1 DEF Terminate
      <4> QED BY <2>1, <4>1, HangUpTypes
    <3>3. dpc' \in [Daemons -> Starting \union {"none", "serve", "closing", "clean",
                                              "exited", "lost", "dead"}]
      <4>1. dpc' = dpc \/ \E to \in {"dead", "closing"} : dpc' = [dpc EXCEPT ![pidf.pid] = to]
        BY <3>1 DEF Terminate
      <4> QED BY <4>1
    <3>4. spc' = [spc EXCEPT ![s] = "grace"] /\ target' = [target EXCEPT ![s] = pidf.pid]
      BY <1>17, <2>1 DEF ReadPid
    <3> QED BY <1>17, <2>1, <3>2, <3>3, <3>4 DEF ReadPid
  <2>2. CASE pidf.pid \notin Daemons
    BY <1>17, <2>2 DEF ReadPid
  <2> QED BY <2>1, <2>2
<1>18. ASSUME NEW s \in Spawners, TargetGone(s) PROVE TypeOK'
  BY <1>18 DEF TargetGone
<1>19. ASSUME NEW s \in Spawners, TargetStuck(s) PROVE TypeOK'
  <2>1. target[s] \in Daemons
    BY <1>19 DEF TargetStuck, TargetKnown
  <2>2. child' \in [Daemons -> {"none", "running", "gone"}]
    BY <1>19, <2>1, HangUpTypes DEF TargetStuck
  <2> QED BY <1>19, <2>1, <2>2 DEF TargetStuck
<1>20. ASSUME NEW s \in Spawners, Sweep(s) PROVE TypeOK'
  <2>1. /\ sock' \in {sock, None} /\ meta' \in {meta, None} /\ ver' \in {ver, None}
        /\ pidf' \in {pidf, NoPid} /\ logf' = logf
    BY <1>20 DEF Sweep, Remove
  <2>2. pidf' \in [open : SUBSET Daemons, pid : Daemons \union {None, Empty}]
    BY <2>1 DEF NoPid
  <2>3. /\ sat' \in [Spawners -> 0..4]
        /\ spc' \in [Spawners -> {"off", "check", "version", "readpid", "grace", "sweep", "fork",
                                  "poll", "loser", "done"}]
    BY <1>20 DEF Sweep
  <2> QED BY <1>20, <2>1, <2>2, <2>3 DEF Sweep
<1>21. ASSUME NEW s \in Spawners, ForkAfterSweep(s) PROVE TypeOK'
  BY <1>21 DEF ForkAfterSweep, Fork, Starting
<1>22. ASSUME NEW s \in Spawners, Started(s) PROVE TypeOK'
  BY <1>22 DEF Started, Return
<1>23. ASSUME NEW s \in Spawners, LostRace(s) PROVE TypeOK'
  BY <1>23 DEF LostRace
<1>24. ASSUME NEW s \in Spawners, DaemonDied(s) PROVE TypeOK'
  BY <1>24 DEF DaemonDied, Return
<1>25. ASSUME NEW s \in Spawners, Unreachable(s) PROVE TypeOK'
  BY <1>25 DEF Unreachable, Return
<1>26. ASSUME NEW s \in Spawners, Piggyback(s) PROVE TypeOK'
  BY <1>26 DEF Piggyback, Return
<1>27. ASSUME NEW w \in Sweepers, Scan(w) PROVE TypeOK'
  BY <1>27 DEF Scan
<1>28. ASSUME NEW w \in Sweepers, ReadPidFile(w) PROVE TypeOK'
  BY <1>28 DEF ReadPidFile
<1>29. ASSUME NEW w \in Sweepers, ProbePid(w) PROVE TypeOK'
  BY <1>29 DEF ProbePid, ProbeIf
<1>30. ASSUME NEW w \in Sweepers, LoadOrphan(w) PROVE TypeOK'
  BY <1>30 DEF LoadOrphan
<1>31. ASSUME NEW w \in Sweepers, ProbeChild(w) PROVE TypeOK'
  BY <1>31 DEF ProbeChild, SeenStarted
<1>32. ASSUME NEW w \in Sweepers, CheckSock(w) PROVE TypeOK'
  BY <1>32 DEF CheckSock
<1>33. ASSUME NEW w \in Sweepers, CheckMeta(w) PROVE TypeOK'
  BY <1>33 DEF CheckMeta
<1>34. ASSUME NEW w \in Sweepers, CheckLog(w) PROVE TypeOK'
  BY <1>34 DEF CheckLog
<1>35. ASSUME NEW d \in Daemons, FailsUnguarded(d) PROVE TypeOK'
  BY <1>35 DEF FailsUnguarded
<1>36. ASSUME NEW d \in Daemons, FailsGuarded(d) PROVE TypeOK'
  <2>1. child' \in [Daemons -> {"none", "running", "gone"}]
    <3>1. HangUp(d) \/ child' = child
      BY <1>36 DEF FailsGuarded
    <3> QED BY <3>1, HangUpTypes
  <2>2. dpc' = [dpc EXCEPT ![d] = "clean"]
    BY <1>36 DEF FailsGuarded
  <2>3. dpc' \in [Daemons -> Starting \union {"none", "serve", "closing", "clean",
                                            "exited", "lost", "dead"}]
    BY <2>2
  <2>4. faults' \in 0..sc.faults
    BY <1>36 DEF FailsGuarded
  <2> QED BY <1>36, <2>1, <2>3, <2>4 DEF FailsGuarded
<1>37. ASSUME NEW w \in Sweepers, RemoveStale(w) PROVE TypeOK'
  BY <1>37 DEF RemoveStale, Remove, NoPid
<1>38. ASSUME NEW w \in Sweepers, KillOrphan(w) PROVE TypeOK'
  BY <1>38 DEF KillOrphan
<1>39. ASSUME NEW w \in Sweepers, RemoveLog(w) PROVE TypeOK'
  BY <1>39 DEF RemoveLog
<1>40. ASSUME NEW w \in Sweepers, EndSweep(w) PROVE TypeOK'
  BY <1>40 DEF EndSweep
<1>41. ASSUME NEW w \in Sweepers, LoadMeta(w) PROVE TypeOK'
  BY <1>41 DEF LoadMeta
<1>42. ASSUME NEW w \in Sweepers, QueryState(w) PROVE TypeOK'
  BY <1>42 DEF QueryState
<1> HIDE DEF TypeOK
<1>43. ASSUME NEW d \in Daemons, Daemon(d) \/ Close(d) \/ Crash(d) \/ Fails(d) PROVE TypeOK'
  BY <1>43, <1>2, <1>3, <1>4, <1>5, <1>6, <1>7, <1>8, <1>9, <1>10, <1>11, <1>12,
       <1>35, <1>36 DEF Daemon, Fails
<1>44. ASSUME NEW s \in Spawners, Spawn(s) PROVE TypeOK'
  BY <1>44, <1>13, <1>14, <1>15, <1>16, <1>17, <1>18, <1>19, <1>20, <1>21, <1>22,
       <1>23, <1>24, <1>25, <1>26 DEF Spawn
<1>45. ASSUME NEW w \in Sweepers, Sweeping(w) PROVE TypeOK'
  BY <1>45, <1>27, <1>28, <1>29, <1>37, <1>38, <1>39, <1>40, <1>41, <1>42,
       <1>30, <1>31, <1>32, <1>33, <1>34 DEF Sweeping
<1> QED BY <1>1, <1>43, <1>44, <1>45 DEF Next

\* The bookkeeping of spawns and guards.
LEMMA ProgressStep ==
  ASSUME TypeOK, ForksOnce, TargetKnown, GuardCounts, [Next]_vars
  PROVE  (ForksOnce /\ TargetKnown /\ GuardCounts)'
<1> DEFINE Goal == ForksOnce /\ TargetKnown /\ GuardCounts
<1>0. /\ dpc \in [Daemons -> Starting \union {"none", "serve", "closing", "clean",
                                              "exited", "lost", "dead"}]
      /\ dat \in [Daemons -> 0..4] /\ target \in [Spawners -> Daemons \union {None}]
      /\ spc \in [Spawners -> {"off", "check", "version", "readpid", "grace", "sweep", "fork",
                               "poll", "loser", "done"}]
  BY DEF TypeOK
<1> USE ConstantTypes DEF ForksOnce, TargetKnown, GuardCounts, daemonVars, spawnVars,
     DaemonOnly, Goto,
        Step
<1>1. CASE UNCHANGED vars
  BY <1>1 DEF vars
<1>2. ASSUME NEW d \in Daemons, Bind(d) PROVE Goal'
  BY <1>0, <1>2 DEF Bind, Starting
<1>3. ASSUME NEW d \in Daemons, CreatePid(d) PROVE Goal'
  BY <1>0, <1>3 DEF CreatePid
<1>4. ASSUME NEW d \in Daemons, FillPid(d) PROVE Goal'
  BY <1>0, <1>4 DEF FillPid
<1>5. ASSUME NEW d \in Daemons, WriteVersion(d) PROVE Goal'
  BY <1>0, <1>5 DEF WriteVersion, Starting, Version
<1>6. ASSUME NEW d \in Daemons, SpawnChild(d) PROVE Goal'
  BY <1>0, <1>6 DEF SpawnChild
<1>7. ASSUME NEW d \in Daemons, OpenLog(d) PROVE Goal'
  BY <1>0, <1>7 DEF OpenLog
<1>8. ASSUME NEW d \in Daemons, WriteMeta(d) PROVE Goal'
  BY <1>0, <1>8 DEF WriteMeta
<1>9. ASSUME NEW d \in Daemons, GraceOver(d) PROVE Goal'
  BY <1>0, <1>9 DEF GraceOver
<1>10. ASSUME NEW d \in Daemons, GuardRemoves(d) PROVE Goal'
  BY <1>0, <1>10 DEF GuardRemoves, Remove, NoPid
<1>11. ASSUME NEW d \in Daemons, Close(d) PROVE Goal'
  BY <1>0, <1>11 DEF Close
<1>12. ASSUME NEW d \in Daemons, Crash(d) PROVE Goal'
  BY <1>0, <1>12 DEF Crash, HangUp, Alive, Starting, Alive
<1>13. ASSUME NEW s \in Spawners, Check(s) PROVE Goal'
  BY <1>0, <1>13 DEF Check
<1>14. ASSUME NEW s \in Spawners, NothingThere(s) PROVE Goal'
  BY <1>0, <1>14 DEF NothingThere, Fork
<1>15. ASSUME NEW s \in Spawners, Reuse(s) PROVE Goal'
  BY <1>0, <1>15 DEF Reuse, Return
<1>16. ASSUME NEW s \in Spawners, DropSocket(s) PROVE Goal'
  BY <1>0, <1>16 DEF DropSocket
<1>17. ASSUME NEW s \in Spawners, ReadPid(s) PROVE Goal'
  <2>1. spc' = [spc EXCEPT ![s] = IF pidf.pid \in Daemons THEN "grace" ELSE "sweep"] /\ dat' = dat
    BY <1>17 DEF ReadPid
  <2>2. target' = IF pidf.pid \in Daemons THEN [target EXCEPT ![s] = pidf.pid] ELSE target
    BY <1>17 DEF ReadPid
  <2>3. \A d \in Daemons : /\ dpc'[d] = "none" <=> dpc[d] = "none"
                           /\ dpc'[d] \notin {"exited", "dead"} => dpc[d] \notin {"exited", "dead"}
    BY <1>0, <1>17 DEF ReadPid, Terminate, Starting
  <2>4. ForksOnce'
    BY <1>17, <2>1, <2>3 DEF ReadPid, TypeOK
  <2>5. TargetKnown'
    BY <2>1, <2>2 DEF TypeOK
  <2>6. GuardCounts'
    BY <2>1, <2>3
  <2> QED BY <2>4, <2>5, <2>6
<1>18. ASSUME NEW s \in Spawners, TargetGone(s) PROVE Goal'
  BY <1>0, <1>18 DEF TargetGone
<1>19. ASSUME NEW s \in Spawners, TargetStuck(s) PROVE Goal'
  BY <1>0, <1>19 DEF TargetStuck, HangUp, Starting, Alive
<1>20. ASSUME NEW s \in Spawners, Sweep(s) PROVE Goal'
  BY <1>0, <1>20 DEF Sweep, Remove, NoPid
<1>21. ASSUME NEW s \in Spawners, ForkAfterSweep(s) PROVE Goal'
  BY <1>0, <1>21 DEF ForkAfterSweep, Fork
<1>22. ASSUME NEW s \in Spawners, Started(s) PROVE Goal'
  BY <1>0, <1>22 DEF Started, Return
<1>23. ASSUME NEW s \in Spawners, LostRace(s) PROVE Goal'
  BY <1>0, <1>23 DEF LostRace
<1>24. ASSUME NEW s \in Spawners, DaemonDied(s) PROVE Goal'
  BY <1>0, <1>24 DEF DaemonDied, Return
<1>25. ASSUME NEW s \in Spawners, Unreachable(s) PROVE Goal'
  BY <1>0, <1>25 DEF Unreachable, Return
<1>26. ASSUME NEW s \in Spawners, Piggyback(s) PROVE Goal'
  BY <1>0, <1>26 DEF Piggyback, Return
<1>27. ASSUME NEW w \in Sweepers, Scan(w) PROVE Goal'
  BY <1>27 DEF Scan
<1>28. ASSUME NEW w \in Sweepers, ReadPidFile(w) PROVE Goal'
  BY <1>28 DEF ReadPidFile
<1>29. ASSUME NEW w \in Sweepers, ProbePid(w) PROVE Goal'
  BY <1>29 DEF ProbePid, ProbeIf
<1>30. ASSUME NEW w \in Sweepers, LoadOrphan(w) PROVE Goal'
  BY <1>30 DEF LoadOrphan
<1>31. ASSUME NEW w \in Sweepers, ProbeChild(w) PROVE Goal'
  BY <1>31 DEF ProbeChild
<1>32. ASSUME NEW w \in Sweepers, CheckSock(w) PROVE Goal'
  BY <1>32 DEF CheckSock
<1>33. ASSUME NEW w \in Sweepers, CheckMeta(w) PROVE Goal'
  BY <1>33 DEF CheckMeta
<1>34. ASSUME NEW w \in Sweepers, CheckLog(w) PROVE Goal'
  BY <1>34 DEF CheckLog
<1>35. ASSUME NEW d \in Daemons, FailsUnguarded(d) PROVE Goal'
  BY <1>0, <1>35 DEF FailsUnguarded
<1>36. ASSUME NEW d \in Daemons, FailsGuarded(d) PROVE Goal'
  BY <1>0, <1>36 DEF FailsGuarded
<1>37. ASSUME NEW w \in Sweepers, RemoveStale(w) PROVE Goal'
  BY <1>37 DEF RemoveStale, Remove, NoPid
<1>38. ASSUME NEW w \in Sweepers, KillOrphan(w) PROVE Goal'
  BY <1>38 DEF KillOrphan
<1>39. ASSUME NEW w \in Sweepers, RemoveLog(w) PROVE Goal'
  BY <1>39 DEF RemoveLog
<1>40. ASSUME NEW w \in Sweepers, EndSweep(w) PROVE Goal'
  BY <1>40 DEF EndSweep
<1>41. ASSUME NEW w \in Sweepers, LoadMeta(w) PROVE Goal'
  BY <1>41 DEF LoadMeta
<1>42. ASSUME NEW w \in Sweepers, QueryState(w) PROVE Goal'
  BY <1>42 DEF QueryState
<1> HIDE DEF ForksOnce, TargetKnown, GuardCounts
<1>43. ASSUME NEW d \in Daemons, Daemon(d) \/ Close(d) \/ Crash(d) \/ Fails(d) PROVE Goal'
  BY <1>43, <1>2, <1>3, <1>4, <1>5, <1>6, <1>7, <1>8, <1>9, <1>10, <1>11, <1>12,
       <1>35, <1>36 DEF Daemon, Fails
<1>44. ASSUME NEW s \in Spawners, Spawn(s) PROVE Goal'
  BY <1>44, <1>13, <1>14, <1>15, <1>16, <1>17, <1>18, <1>19, <1>20, <1>21, <1>22,
       <1>23, <1>24, <1>25, <1>26 DEF Spawn
<1>45. ASSUME NEW w \in Sweepers, Sweeping(w) PROVE Goal'
  BY <1>45, <1>27, <1>28, <1>29, <1>37, <1>38, <1>39, <1>40, <1>41, <1>42,
       <1>30, <1>31, <1>32, <1>33, <1>34 DEF Sweeping
<1> QED BY <1>1, <1>43, <1>44, <1>45 DEF Next

------------------------------------------------------------------------------
(* What is not the work of an early daemon stays so: *)

\* Files that only go away, and children that only end.
LEMMA LessKeeps ==
  ASSUME TypeOK, EarlyUntouched, dpc' = dpc,
         sock' \in {sock, None}, meta' \in {meta, None}, pidf' \in {pidf, NoPid},
         logf' \subseteq logf,
         \A d \in Daemons : child[d] = "none" => child'[d] = "none"
  PROVE  EarlyUntouched'
  BY ConstantTypes DEF EarlyUntouched, Early, NoPid

\* One daemon that goes on and leaves the early ones, or was never among
\* them, with whatever it writes under its own name.
LEMMA OneMoves ==
  ASSUME TypeOK, EarlyUntouched, OrphansStarted, NEW d \in Daemons, NEW to,
         dpc' = [dpc EXCEPT ![d] = to], to \notin Early,
         orphan' = orphan, 
         sock' \in {sock, None, d}, meta' \in {meta, None, d},
         pidf'.pid \in {pidf.pid, None, Empty, d}, pidf'.open \subseteq pidf.open \union {d},
         logf' \subseteq logf \union {d},
         \A e \in Daemons \ {d} : child'[e] = child[e]
  PROVE  (EarlyUntouched /\ OrphansStarted)'
<1>1. \A e \in Daemons : dpc'[e] = IF e = d THEN to ELSE dpc[e]
  BY DEF TypeOK
<1>2. EarlyUntouched'
  BY <1>1, ConstantTypes DEF EarlyUntouched
<1>3. OrphansStarted'
  BY <1>1 DEF OrphansStarted, TypeOK
<1> QED BY <1>2, <1>3

LEMMA EarlyStep ==
  ASSUME TypeOK, EarlyUntouched, OrphansStarted, SeenStarted, ForksOnce, TargetKnown, [Next]_vars
  PROVE  (EarlyUntouched /\ OrphansStarted)'
<1> DEFINE Goal == EarlyUntouched /\ OrphansStarted
<1> USE ConstantTypes DEF sidecars, files, daemonVars, spawnVars, sweepVars,
     DaemonOnly, Goto, Step
<1>1. CASE UNCHANGED vars
  BY <1>1 DEF vars, EarlyUntouched, OrphansStarted
<1>2. ASSUME NEW d \in Daemons, Bind(d) PROVE Goal'
  <2>1. CASE sock = None
    BY <1>2, <2>1, OneMoves DEF Bind, Early
  <2>2. CASE sock # None
    <3>1. \A e \in Daemons : dpc'[e] = IF e = d THEN "lost" ELSE dpc[e]
      BY <1>2, <2>2 DEF Bind, TypeOK
    <3>2. dpc[d] = "bind" /\ UNCHANGED <<sock, pidf, meta, logf, child, orphan>>
      BY <1>2, <2>2 DEF Bind
    <3> QED BY <3>1, <3>2 DEF EarlyUntouched, OrphansStarted, Early, TypeOK
  <2> QED BY <2>1, <2>2
<1>3. ASSUME NEW d \in Daemons, CreatePid(d) PROVE Goal'
  BY <1>3, OneMoves DEF CreatePid, Early, TypeOK
<1>4. ASSUME NEW d \in Daemons, FillPid(d) PROVE Goal'
  BY <1>4, OneMoves DEF FillPid, Early, TypeOK
<1>5. ASSUME NEW d \in Daemons, WriteVersion(d) PROVE Goal'
  BY <1>5, OneMoves DEF WriteVersion, Early, TypeOK
<1>6. ASSUME NEW d \in Daemons, SpawnChild(d) PROVE Goal'
  <2>1. /\ \A e \in Daemons \ {d} : child'[e] = child[e]
        /\ UNCHANGED <<sock, pidf, meta, logf, orphan>>
    BY <1>6 DEF SpawnChild, HangUp, TypeOK
  <2>2. dpc' = [dpc EXCEPT ![d] = "log"]
    BY <1>6 DEF SpawnChild
  <2>3. pidf'.pid = pidf.pid /\ pidf'.open = pidf.open
    BY <2>1
  <2> QED BY <2>1, <2>2, <2>3, OneMoves DEF Early
<1>7. ASSUME NEW d \in Daemons, OpenLog(d) PROVE Goal'
  BY <1>7, OneMoves DEF OpenLog, Early, TypeOK
<1>8. ASSUME NEW d \in Daemons, WriteMeta(d) PROVE Goal'
  BY <1>8, OneMoves DEF WriteMeta, Early, TypeOK
<1>9. ASSUME NEW d \in Daemons, GraceOver(d) PROVE Goal'
  <2>1. /\ \A e \in Daemons \ {d} : child'[e] = child[e]
        /\ UNCHANGED <<sock, pidf, meta, logf, orphan>>
    BY <1>9 DEF GraceOver, HangUp, TypeOK
  <2>2. dpc' = [dpc EXCEPT ![d] = "clean"]
    BY <1>9 DEF GraceOver
  <2>3. pidf'.pid = pidf.pid /\ pidf'.open = pidf.open
    BY <2>1
  <2> QED BY <2>1, <2>2, <2>3, OneMoves DEF Early
<1>10. ASSUME NEW d \in Daemons, GuardRemoves(d) PROVE Goal'
  <2>1. PICK to \in {"exited", "clean"} : dpc' = [dpc EXCEPT ![d] = to]
    BY <1>10 DEF GuardRemoves
  <2>2. /\ sock' \in {sock, None} /\ meta' \in {meta, None} /\ pidf' \in {pidf, NoPid}
        /\ UNCHANGED <<logf, orphan>> /\ \A e \in Daemons \ {d} : child'[e] = child[e]
    BY <1>10 DEF GuardRemoves, Remove, HangUp, TypeOK
  <2>3. pidf'.pid \in {pidf.pid, None} /\ pidf'.open \subseteq pidf.open
    BY <2>2 DEF NoPid
  <2> QED BY <2>1, <2>2, <2>3, OneMoves DEF Early
<1>11. ASSUME NEW d \in Daemons, Close(d) PROVE Goal'
  BY <1>11, OneMoves DEF Close, Early, TypeOK
<1>12. ASSUME NEW d \in Daemons, Crash(d) PROVE Goal'
  <2>1. /\ \A e \in Daemons \ {d} : child'[e] = child[e]
        /\ UNCHANGED <<sock, pidf, meta, logf, orphan>>
    BY <1>12 DEF Crash, HangUp, TypeOK
  <2>2. dpc' = [dpc EXCEPT ![d] = "dead"]
    BY <1>12 DEF Crash
  <2>3. pidf'.pid = pidf.pid /\ pidf'.open = pidf.open
    BY <2>1
  <2> QED BY <2>1, <2>2, <2>3, OneMoves DEF Early
<1>13. ASSUME NEW s \in Spawners, Check(s) PROVE Goal'
  BY <1>13 DEF Check, EarlyUntouched, OrphansStarted
<1>14. ASSUME NEW s \in Spawners, NothingThere(s) PROVE Goal'
  <2>1. /\ dpc[s] = "none" /\ s \in Daemons
        /\ \A e \in Daemons : dpc'[e] = IF e = s THEN "bind" ELSE dpc[e]
        /\ UNCHANGED <<sock, pidf, meta, logf, child, orphan>>
    BY <1>14, SMTT(30) DEF NothingThere, Fork, ForksOnce, TypeOK
  <2> QED BY <2>1 DEF EarlyUntouched, OrphansStarted, Early, TypeOK
<1>15. ASSUME NEW s \in Spawners, Reuse(s) PROVE Goal'
  BY <1>15 DEF Reuse, Return, EarlyUntouched, OrphansStarted
<1>16. ASSUME NEW s \in Spawners, DropSocket(s) PROVE Goal'
  <2>1. EarlyUntouched'
    BY <1>16, LessKeeps DEF DropSocket
  <2> QED BY <1>16, <2>1 DEF DropSocket, OrphansStarted
<1>17. ASSUME NEW s \in Spawners, ReadPid(s) PROVE Goal'
  <2>1. CASE dpc' = dpc /\ child' = child
    BY <1>17, <2>1 DEF ReadPid, EarlyUntouched, OrphansStarted
  <2>2. CASE /\ pidf.pid \in Daemons
             /\ \E to \in {"dead", "closing"} : dpc' = [dpc EXCEPT ![pidf.pid] = to]
             /\ child' = child \/ HangUp(pidf.pid)
    <3>1. \A e \in Daemons \ {pidf.pid} : child'[e] = child[e]
      BY <2>2 DEF HangUp, TypeOK
    <3>2. UNCHANGED <<sock, pidf, meta, logf, orphan>>
      BY <1>17 DEF ReadPid
    <3>3. pidf'.pid = pidf.pid /\ pidf'.open = pidf.open
      BY <3>2
    <3> QED BY <2>2, <3>1, <3>2, <3>3, OneMoves DEF Early
  <2> QED BY <1>17, <2>1, <2>2 DEF ReadPid, Terminate
<1>18. ASSUME NEW s \in Spawners, TargetGone(s) PROVE Goal'
  BY <1>18 DEF TargetGone, EarlyUntouched, OrphansStarted
<1>19. ASSUME NEW s \in Spawners, TargetStuck(s) PROVE Goal'
  <2>1. target[s] \in Daemons /\ dpc' = [dpc EXCEPT ![target[s]] = "dead"]
    BY <1>19 DEF TargetStuck, TargetKnown
  <2>2. /\ \A e \in Daemons \ {target[s]} : child'[e] = child[e]
        /\ UNCHANGED <<sock, pidf, meta, logf, orphan>>
    BY <1>19 DEF TargetStuck, HangUp, TypeOK
  <2>3. pidf'.pid = pidf.pid /\ pidf'.open = pidf.open
    BY <2>2
  <2> QED BY <2>1, <2>2, <2>3, OneMoves DEF Early
<1>20. ASSUME NEW s \in Spawners, Sweep(s) PROVE Goal'
  <2>1. EarlyUntouched'
    BY <1>20, LessKeeps DEF Sweep, Remove
  <2> QED BY <1>20, <2>1 DEF Sweep, OrphansStarted
<1>21. ASSUME NEW s \in Spawners, ForkAfterSweep(s) PROVE Goal'
  <2>1. /\ dpc[s] = "none" /\ s \in Daemons
        /\ \A e \in Daemons : dpc'[e] = IF e = s THEN "bind" ELSE dpc[e]
        /\ UNCHANGED <<sock, pidf, meta, logf, child, orphan>>
    BY <1>21, SMTT(30) DEF ForkAfterSweep, Fork, ForksOnce, TypeOK
  <2> QED BY <2>1 DEF EarlyUntouched, OrphansStarted, Early, TypeOK
<1>22. ASSUME NEW s \in Spawners, Started(s) PROVE Goal'
  BY <1>22 DEF Started, Return, EarlyUntouched, OrphansStarted
<1>23. ASSUME NEW s \in Spawners, LostRace(s) PROVE Goal'
  BY <1>23 DEF LostRace, EarlyUntouched, OrphansStarted
<1>24. ASSUME NEW s \in Spawners, DaemonDied(s) PROVE Goal'
  BY <1>24 DEF DaemonDied, Return, EarlyUntouched, OrphansStarted
<1>25. ASSUME NEW s \in Spawners, Unreachable(s) PROVE Goal'
  BY <1>25 DEF Unreachable, Return, EarlyUntouched, OrphansStarted
<1>26. ASSUME NEW s \in Spawners, Piggyback(s) PROVE Goal'
  BY <1>26 DEF Piggyback, Return, EarlyUntouched, OrphansStarted
<1>27. ASSUME NEW w \in Sweepers, Scan(w) PROVE Goal'
  BY <1>27 DEF Scan, EarlyUntouched, OrphansStarted
<1>28. ASSUME NEW w \in Sweepers, ReadPidFile(w) PROVE Goal'
  BY <1>28 DEF ReadPidFile, EarlyUntouched, OrphansStarted
<1>29. ASSUME NEW w \in Sweepers, ProbePid(w) PROVE Goal'
  BY <1>29 DEF ProbePid, ProbeIf, EarlyUntouched, OrphansStarted
<1>30. ASSUME NEW w \in Sweepers, LoadOrphan(w) PROVE Goal'
  BY <1>30 DEF LoadOrphan, EarlyUntouched, OrphansStarted
<1>31. ASSUME NEW w \in Sweepers, ProbeChild(w) PROVE Goal'
  <2>1. EarlyUntouched' /\ dpc' = dpc
    BY <1>31 DEF ProbeChild, EarlyUntouched
  <2>2. lpc[w] \in {"deadchild", "lonechild"}
    BY <1>31 DEF ProbeChild, Look
  <2>3. seen[w] \in Daemons /\ dpc[seen[w]] \notin Early
    BY <2>2 DEF SeenStarted
  <2>4. \A x \in Sweepers : orphan'[x] \subseteq orphan[x] \union {seen[w]}
    BY <1>31 DEF ProbeChild, TypeOK
  <2> QED BY <2>1, <2>3, <2>4 DEF OrphansStarted
<1>32. ASSUME NEW w \in Sweepers, CheckSock(w) PROVE Goal'
  BY <1>32 DEF CheckSock, EarlyUntouched, OrphansStarted
<1>33. ASSUME NEW w \in Sweepers, CheckMeta(w) PROVE Goal'
  BY <1>33 DEF CheckMeta, EarlyUntouched, OrphansStarted
<1>34. ASSUME NEW w \in Sweepers, CheckLog(w) PROVE Goal'
  BY <1>34 DEF CheckLog, EarlyUntouched, OrphansStarted
<1>35. ASSUME NEW d \in Daemons, FailsUnguarded(d) PROVE Goal'
  <2>1. UNCHANGED <<sock, pidf, meta, logf, child, orphan>>
    BY <1>35 DEF FailsUnguarded
  <2>2. CASE dpc[d] = "bind"
    <3>1. \A e \in Daemons : dpc'[e] = IF e = d THEN "lost" ELSE dpc[e]
      BY <1>35, <2>2 DEF FailsUnguarded, TypeOK
    <3> QED BY <2>1, <2>2, <3>1 DEF EarlyUntouched, OrphansStarted, Early, TypeOK
  <2>3. CASE dpc[d] # "bind"
    <3>1. dpc' = [dpc EXCEPT ![d] = "exited"]
      BY <1>35, <2>3 DEF FailsUnguarded
    <3>2. pidf'.pid = pidf.pid /\ pidf'.open = pidf.open
      BY <2>1
    <3> QED BY <2>1, <3>1, <3>2, OneMoves DEF Early
  <2> QED BY <2>2, <2>3
<1>36. ASSUME NEW d \in Daemons, FailsGuarded(d) PROVE Goal'
  <2>1. /\ \A e \in Daemons \ {d} : child'[e] = child[e]
        /\ UNCHANGED <<sock, pidf, meta, logf, orphan>>
    BY <1>36 DEF FailsGuarded, HangUp, TypeOK
  <2>2. dpc' = [dpc EXCEPT ![d] = "clean"]
    BY <1>36 DEF FailsGuarded
  <2>3. pidf'.pid = pidf.pid /\ pidf'.open = pidf.open
    BY <2>1
  <2> QED BY <2>1, <2>2, <2>3, OneMoves DEF Early
<1>37. ASSUME NEW w \in Sweepers, RemoveStale(w) PROVE Goal'
  <2>1. EarlyUntouched'
    BY <1>37, LessKeeps DEF RemoveStale, Remove
  <2> QED BY <1>37, <2>1 DEF RemoveStale, OrphansStarted
<1>38. ASSUME NEW w \in Sweepers, KillOrphan(w) PROVE Goal'
  <2>1. \A d \in Daemons : child[d] = "none" => child'[d] = "none" \/ dpc[d] \notin Early
    BY <1>38 DEF KillOrphan, OrphansStarted
  <2> QED BY <1>38, <2>1 DEF KillOrphan, EarlyUntouched, OrphansStarted, TypeOK
<1>39. ASSUME NEW w \in Sweepers, RemoveLog(w) PROVE Goal'
  <2>1. EarlyUntouched'
    BY <1>39, LessKeeps DEF RemoveLog
  <2> QED BY <1>39, <2>1 DEF RemoveLog, OrphansStarted
<1>40. ASSUME NEW w \in Sweepers, EndSweep(w) PROVE Goal'
  BY <1>40 DEF EndSweep, EarlyUntouched, OrphansStarted
<1>41. ASSUME NEW w \in Sweepers, LoadMeta(w) PROVE Goal'
  BY <1>41 DEF LoadMeta, EarlyUntouched, OrphansStarted
<1>42. ASSUME NEW w \in Sweepers, QueryState(w) PROVE Goal'
  BY <1>42 DEF QueryState, EarlyUntouched, OrphansStarted
<1> HIDE DEF EarlyUntouched, OrphansStarted
<1>43. ASSUME NEW d \in Daemons, Daemon(d) \/ Close(d) \/ Crash(d) \/ Fails(d) PROVE Goal'
  BY <1>43, <1>2, <1>3, <1>4, <1>5, <1>6, <1>7, <1>8, <1>9, <1>10, <1>11, <1>12,
       <1>35, <1>36 DEF Daemon, Fails
<1>44. ASSUME NEW s \in Spawners, Spawn(s) PROVE Goal'
  BY <1>44, <1>13, <1>14, <1>15, <1>16, <1>17, <1>18, <1>19, <1>20, <1>21, <1>22,
       <1>23, <1>24, <1>25, <1>26 DEF Spawn
<1>45. ASSUME NEW w \in Sweepers, Sweeping(w) PROVE Goal'
  BY <1>45, <1>27, <1>28, <1>29, <1>37, <1>38, <1>39, <1>40, <1>41, <1>42,
       <1>30, <1>31, <1>32, <1>33, <1>34 DEF Sweeping
<1> QED BY <1>1, <1>43, <1>44, <1>45 DEF Next

------------------------------------------------------------------------------
(* What a step may do to the daemons and, without one that lives, to files. *)

\* Dead daemons stay dead, and one past its bind never was before it again.
GoOn == \A d \in Daemons : /\ Past(d) => dpc'[d] \in {"exited", "dead"}
                           /\ dpc'[d] \in Early => dpc[d] \in Early

Shrink == /\ sock' \in {sock, None} /\ meta' \in {meta, None} /\ pidf' \in {pidf, NoPid}

\* Who writes lives, and is past its bind.
Write == \E d \in Daemons : ~Past(d) /\ dpc'[d] \notin Early

\* One living daemon that takes a step.
LEMMA OneGoesOn ==
  ASSUME TypeOK, NEW d \in Daemons, ~Past(d), NEW to, to \notin Early,
         dpc' = [dpc EXCEPT ![d] = to]
  PROVE  GoOn /\ Write
<1>1. \A e \in Daemons : dpc'[e] = IF e = d THEN to ELSE dpc[e]
  BY DEF TypeOK
<1> QED BY <1>1 DEF GoOn, Write, Past, Early

LEMMA NobodyMoves ==
  ASSUME dpc' = dpc
  PROVE  GoOn
  BY DEF GoOn, Past

LEMMA ForkGoesOn ==
  ASSUME TypeOK, ForksOnce, NEW s \in Spawners, NEW from, from \in {"check", "fork"},
         Fork(s, from)
  PROVE  GoOn /\ Shrink
<1>1. /\ dpc[s] = "none" /\ s \in Daemons
      /\ \A e \in Daemons : dpc'[e] = IF e = s THEN "bind" ELSE dpc[e]
      /\ UNCHANGED <<sock, meta, pidf>>
  BY ConstantTypes, SMTT(30) DEF Fork, ForksOnce, TypeOK, Step, Goto, files, sidecars
<1> QED BY <1>1 DEF GoOn, Shrink, Past, Early

\* A signal ends a living daemon, or makes it close.
LEMMA SignalGoesOn ==
  ASSUME TypeOK, NEW d \in Daemons, ~Past(d), NEW to, to \in {"dead", "closing"}, Goto(d, to)
  PROVE  GoOn
  BY OneGoesOn DEF Goto, Early

LEMMA WhoWrites ==
  ASSUME TypeOK, ForksOnce, TargetKnown, [Next]_vars
  PROVE  GoOn /\ (Shrink \/ Write)
<1> DEFINE Goal == GoOn /\ (Shrink \/ Write)
<1> USE ConstantTypes DEF sidecars, files, daemonVars, spawnVars, sweepVars
<1>1. CASE UNCHANGED vars
  BY <1>1, NobodyMoves DEF vars, Shrink
<1>2. ASSUME NEW d \in Daemons, Daemon(d) \/ Close(d) \/ Crash(d) \/ Fails(d) PROVE Goal
  <2>1. CASE (Bind(d) /\ sock # None) \/ (FailsUnguarded(d) /\ dpc[d] = "bind")
    <3>1. \A e \in Daemons : dpc'[e] = IF e = d THEN "lost" ELSE dpc[e]
      BY <2>1 DEF Bind, FailsUnguarded, Goto, TypeOK
    <3>2. dpc[d] = "bind" /\ UNCHANGED <<sock, meta, pidf>>
      BY <2>1 DEF Bind, FailsUnguarded
    <3> QED BY <3>1, <3>2 DEF GoOn, Shrink, Past, Early
  <2>2. CASE ~(Bind(d) /\ sock # None) /\ ~(FailsUnguarded(d) /\ dpc[d] = "bind")
    <3>1. /\ dpc[d] \in Starting \union {"serve", "closing", "clean"}
          /\ \E to \in {"pid", "pid2", "version", "child", "log", "meta", "serve", "closing",
                        "clean", "exited", "dead"} : dpc' = [dpc EXCEPT ![d] = to]
      BY <1>2, <2>2 DEF Daemon, Bind, CreatePid, FillPid, WriteVersion, SpawnChild, OpenLog,
         WriteMeta, GraceOver, GuardRemoves, Close, Crash, Fails, FailsUnguarded, FailsGuarded,
         Alive, Goto, Starting
    <3>2. ~Past(d)
      BY <3>1 DEF Past, Starting
    <3> QED BY <3>1, <3>2, OneGoesOn DEF Early
  <2> QED BY <2>1, <2>2
<1>3. ASSUME NEW s \in Spawners, Spawn(s) PROVE Goal
  <2>1. CASE NothingThere(s) \/ ForkAfterSweep(s)
    BY <2>1, ForkGoesOn DEF NothingThere, ForkAfterSweep
  <2>2. CASE Check(s) \/ Reuse(s) \/ TargetGone(s) \/ Started(s) \/ LostRace(s) \/ DaemonDied(s)
             \/ Unreachable(s) \/ Piggyback(s)
    <3>1. UNCHANGED <<dpc, sock, meta, pidf>>
      BY <2>2 DEF Check, Reuse, TargetGone, Started, LostRace, DaemonDied, Unreachable,
         Piggyback, Return
    <3> QED BY <3>1, NobodyMoves DEF Shrink
  <2>3. CASE DropSocket(s) \/ Sweep(s)
    <3>1. dpc' = dpc
      BY <2>3 DEF DropSocket, Sweep
    <3>2. Shrink
      BY <2>3 DEF DropSocket, Sweep, Remove, Shrink
    <3> QED BY <3>1, <3>2, NobodyMoves
  <2>4. CASE ReadPid(s)
    <3>1. Shrink
      BY <2>4 DEF ReadPid, Shrink
    <3>2. \/ dpc' = dpc
          \/ /\ pidf.pid \in Daemons
             /\ \/ dpc[pidf.pid] \in Starting /\ Goto(pidf.pid, "dead")
                \/ dpc[pidf.pid] = "serve" /\ Goto(pidf.pid, "closing")
      BY <2>4 DEF ReadPid, Terminate
    <3>3. pidf.pid \in Daemons /\ dpc[pidf.pid] \in Starting \union {"serve"} => ~Past(pidf.pid)
      BY DEF Past, Starting
    <3> QED BY <3>1, <3>2, <3>3, NobodyMoves, SignalGoesOn
  <2>5. CASE TargetStuck(s)
    <3>1. Shrink
      BY <2>5 DEF TargetStuck, Shrink
    <3>2. target[s] \in Daemons /\ Alive(target[s]) /\ Goto(target[s], "dead")
      BY <2>5 DEF TargetStuck, TargetKnown, Step
    <3>3. ~Past(target[s])
      BY <3>2 DEF Past, Alive, Starting
    <3> QED BY <3>1, <3>2, <3>3, SignalGoesOn
  <2> QED BY <1>3, <2>1, <2>2, <2>3, <2>4, <2>5 DEF Spawn
<1>4. ASSUME NEW w \in Sweepers, Sweeping(w) PROVE Goal
  <2>1. dpc' = dpc
    BY <1>4 DEF Sweeping, Scan, ReadPidFile, ProbePid, ProbeIf, LoadMeta, LoadOrphan,
       ProbeChild, CheckSock, CheckMeta, CheckLog, RemoveStale, KillOrphan, RemoveLog, EndSweep,
       QueryState
  <2>2. Shrink
    <3>1. CASE RemoveStale(w)
      BY <3>1 DEF RemoveStale, Remove, Shrink
    <3>2. CASE ~RemoveStale(w)
      BY <1>4, <3>2 DEF Sweeping, Scan, ReadPidFile, ProbePid, ProbeIf, LoadMeta, LoadOrphan,
         ProbeChild, CheckSock, CheckMeta, CheckLog, KillOrphan, RemoveLog, EndSweep, QueryState,
         Shrink
    <3> QED BY <3>1, <3>2
  <2> QED BY <2>1, <2>2, NobodyMoves
<1> QED BY <1>1, <1>2, <1>3, <1>4 DEF Next

\* A step that is not the sweeper's leaves it where it is.
Elsewhere(w) == /\ lpc'[w] = lpc[w] /\ lat'[w] = lat[w] /\ stale'[w] = stale[w]
                /\ seen'[w] = seen[w] /\ past'[w] = past[w]

LEMMA WhoSweeps ==
  ASSUME TypeOK, NEW w \in Sweepers, [Next]_vars
  PROVE  Sweeping(w) \/ Elsewhere(w)
<1>1. CASE UNCHANGED sweepVars
  BY <1>1 DEF Elsewhere, sweepVars
<1>2. ASSUME NEW d \in Daemons, Daemon(d) \/ Close(d) \/ Crash(d) \/ Fails(d)
      PROVE  UNCHANGED sweepVars
  BY <1>2 DEF Daemon, Bind, CreatePid, FillPid, WriteVersion, SpawnChild, OpenLog, WriteMeta,
     GraceOver, GuardRemoves, Close, Crash, Fails, FailsUnguarded, FailsGuarded, DaemonOnly,
     sweepVars
<1>3. ASSUME NEW s \in Spawners, Spawn(s) PROVE UNCHANGED sweepVars
  BY <1>3 DEF Spawn, Check, NothingThere, Reuse, DropSocket, ReadPid, TargetGone, TargetStuck,
     Sweep, ForkAfterSweep, Started, LostRace, DaemonDied, Unreachable, Piggyback, Fork, Return
<1>4. ASSUME NEW x \in Sweepers, x # w, Sweeping(x) PROVE Elsewhere(w)
  BY <1>4 DEF Sweeping, Scan, ReadPidFile, ProbePid, ProbeIf, LoadMeta, LoadOrphan, ProbeChild,
     CheckSock, CheckMeta, CheckLog, RemoveStale, KillOrphan, RemoveLog, EndSweep, QueryState,
     Look, Elsewhere, TypeOK
<1>5. UNCHANGED vars => UNCHANGED sweepVars
  BY DEF vars
<1> QED BY <1>1, <1>2, <1>3, <1>4, <1>5 DEF Next

\* Whose pid a sweeper has read stays past its bind.
LEMMA SeenStep ==
  ASSUME TypeOK, EarlyUntouched, SeenStarted, ForksOnce, TargetKnown, [Next]_vars
  PROVE  SeenStarted'
<1> SUFFICES ASSUME NEW w \in Sweepers, lpc'[w] \in {"probe", "deadchild", "lonechild"}
             PROVE  seen'[w] \in Daemons /\ dpc'[seen'[w]] \notin Early
  BY DEF SeenStarted
<1>1. GoOn
  BY WhoWrites
<1>2. CASE Elsewhere(w)
  BY <1>1, <1>2 DEF Elsewhere, SeenStarted, GoOn
<1>3. CASE Sweeping(w)
  <2>1. dpc' = dpc
    BY <1>3 DEF Sweeping, Scan, ReadPidFile, ProbePid, ProbeIf, LoadMeta, LoadOrphan, ProbeChild,
       CheckSock, CheckMeta, CheckLog, RemoveStale, KillOrphan, RemoveLog, EndSweep, QueryState,
       daemonVars
  <2>2. CASE ReadPidFile(w)
    <3>1. pidf.pid \in Daemons /\ seen'[w] = pidf.pid
      BY <2>2 DEF ReadPidFile, Look, TypeOK
    <3> QED BY <2>1, <3>1 DEF EarlyUntouched
  <2>3. CASE LoadOrphan(w)
    <3>1. meta \in Daemons /\ seen'[w] = meta
      BY <2>3 DEF LoadOrphan, Look, TypeOK
    <3> QED BY <2>1, <3>1 DEF EarlyUntouched
  <2>4. CASE ~ReadPidFile(w) /\ ~LoadOrphan(w)
    BY <1>3, <2>4 DEF Sweeping, Scan, ProbePid, ProbeIf, LoadMeta, ProbeChild, CheckSock,
       CheckMeta, CheckLog, RemoveStale, KillOrphan, RemoveLog, EndSweep, QueryState, Look,
       TypeOK
  <2> QED BY <2>2, <2>3, <2>4
<1> QED BY <1>2, <1>3, WhoSweeps

------------------------------------------------------------------------------
LEMMA Inductive == Spec => []Inv
<1>1. Inv /\ [Next]_vars => Inv'
  BY TypeStep, ProgressStep, EarlyStep, SeenStep DEF Inv
<1> QED BY InvInit, <1>1, PTL DEF Spec

\* Every state of the directory and of its processes is well typed.
THEOREM TypeInvariance == Spec => []TypeOK
<1>1. Inv => TypeOK
  BY DEF Inv
<1> QED BY Inductive, <1>1, PTL

\* A daemon whose bind failed (daemon.rs:165-188) has no part in any file,
\* however many others start, sweep, crash and are swept around it.
THEOREM LoserInvariance == Spec => []LoserWritesNothing
<1>1. Inv => LoserWritesNothing
  BY DEF Inv, EarlyUntouched, Early, LoserWritesNothing
<1> QED BY Inductive, <1>1, PTL

------------------------------------------------------------------------------
(* A serving daemon of the CLI's version, and everybody who looks at it. *)

Peaceful == sc.old = "serve" /\ sc.version = New /\ closes = 0 /\ crashes = 0

Whole ==
    /\ dpc[Old] = "serve" /\ child[Old] = "running"
    /\ sock = Old /\ meta = Old /\ pidf.pid = Old /\ ver = New /\ Old \in logf

\* No spawn goes further than to find it.
Content ==
    \A s \in Spawners :
        /\ dpc[s] = "none" /\ spc[s] \in {"off", "check", "version", "done"}
        /\ res[s] \in {"none", "attached"}

\* What a sweep found at first it has found to be in use before it removes.
Harmless ==
    \A w \in Sweepers :
        /\ orphan[w] = {}
        /\ lpc[w] \notin {"dead", "deadchild", "lone", "lonechild"}
        /\ lpc[w] = "probe" => seen[w] = Old
        /\ lpc[w] \in {"pid", "probe"} => stale[w] \subseteq {"pid", "sock", "meta", "log"}
        /\ lpc[w] \in {"load", "sock"} => stale[w] \subseteq {"sock", "meta", "log"}
        /\ w \in Listers => stale[w] \subseteq {"pid", "sock"}
        /\ lpc[w] = "meta" => stale[w] \subseteq {"meta", "log"}
        /\ lpc[w] = "log" => stale[w] \subseteq {"log"}
        /\ lpc[w] \in {"remove", "query", "done"} => stale[w] = {}

\* A list has the row of the daemon once it has read the .meta.
Listed ==
    \A w \in Listers :
        /\ lpc[w] \notin {"meta", "log"}
        /\ lpc[w] \in {"sock", "remove", "query", "done"} => row[w] = Old
        /\ lpc[w] = "done" => says[w] = "status"

PeaceKept == Whole /\ Content /\ Harmless /\ Listed
PeaceView == Peaceful => PeaceKept

LEMMA PeaceInit == Init => PeaceView
<1> SUFFICES ASSUME Init, Peaceful PROVE PeaceKept
  BY DEF PeaceView
<1> USE ConstantTypes DEF Init, Peaceful
<1>1. Whole
  BY DEF Whole
<1>2. Content
  BY DEF Content
<1>3. Harmless
  BY DEF Harmless
<1>4. Listed
  BY DEF Listed
<1> QED BY <1>1, <1>2, <1>3, <1>4 DEF PeaceKept

\* The scenario stays, and the bounded events are counted.
LEMMA BoundsKept ==
  ASSUME Next
  PROVE  UNCHANGED <<sc, closes, crashes>> \/ \E d \in Daemons : Close(d) \/ Crash(d)
<1>1. ASSUME NEW d \in Daemons, Daemon(d) PROVE UNCHANGED boundVars
  BY <1>1 DEF Daemon, Bind, CreatePid, FillPid, WriteVersion, SpawnChild, OpenLog, WriteMeta,
     GraceOver, GuardRemoves, DaemonOnly
<1>2. ASSUME NEW s \in Spawners, Spawn(s) PROVE UNCHANGED boundVars
  BY <1>2 DEF Spawn, Check, NothingThere, Reuse, DropSocket, ReadPid, TargetGone, TargetStuck,
     Sweep, ForkAfterSweep, Started, LostRace, DaemonDied, Unreachable, Piggyback, Fork, Return
<1>3. ASSUME NEW w \in Sweepers, Sweeping(w) PROVE UNCHANGED boundVars
  BY <1>3 DEF Sweeping, Scan, ReadPidFile, ProbePid, ProbeIf, LoadMeta, LoadOrphan, ProbeChild,
     CheckSock, CheckMeta, CheckLog, RemoveStale, KillOrphan, RemoveLog, EndSweep, QueryState
<1>4. ASSUME NEW d \in Daemons, Fails(d) PROVE UNCHANGED <<sc, closes, crashes>>
  BY <1>4 DEF Fails, FailsUnguarded, FailsGuarded
<1> QED BY <1>1, <1>2, <1>3, <1>4 DEF Next, boundVars

LEMMA PeaceBefore ==
  ASSUME TypeOK, Next, Peaceful'
  PROVE  Peaceful /\ \A d \in Daemons : ~Close(d) /\ ~Crash(d)
<1>1. closes \in Nat /\ crashes \in Nat
  BY ConstantTypes DEF TypeOK
<1>2. ASSUME NEW d \in Daemons, Close(d) \/ Crash(d) PROVE FALSE
  BY <1>1, <1>2 DEF Close, Crash, Peaceful
<1>3. UNCHANGED <<sc, closes, crashes>>
  BY <1>2, BoundsKept
<1> QED BY <1>2, <1>3 DEF Peaceful

LEMMA PeaceStep == TypeOK /\ PeaceView /\ [Next]_vars => PeaceView'
<1> SUFFICES ASSUME TypeOK, PeaceView, Next, Peaceful' PROVE PeaceKept'
  BY DEF PeaceView, PeaceKept, Peaceful, Whole, Content, Harmless, Listed, vars, files,
     sidecars, daemonVars, spawnVars, sweepVars, listVars, boundVars
<1>0. /\ Whole /\ Content /\ Harmless /\ Listed
      /\ \A d \in Daemons : ~Close(d) /\ ~Crash(d)
  BY PeaceBefore DEF PeaceView, PeaceKept
<1>1. CanConnect /\ VersionMatches /\ Alive(Old) /\ sock # None /\ pidf.pid # None /\ meta = Old
      /\ pidf.pid = Old /\ Old \in Daemons
  BY <1>0, ConstantTypes DEF Whole, CanConnect, Listening, VersionMatches, Alive
<1>2. ASSUME NEW d \in Daemons, Daemon(d) PROVE FALSE
  <2>1. dpc[d] \in {"serve", "none"}
    BY <1>0, ConstantTypes DEF Whole, Content, Daemons
  <2> QED BY <1>2, <2>1 DEF Daemon, Bind, CreatePid, FillPid, WriteVersion, SpawnChild,
          OpenLog, WriteMeta, GraceOver, GuardRemoves
<1>3. ASSUME NEW d \in Daemons, Fails(d) PROVE FALSE
  <2>1. dpc[d] \in {"serve", "none"}
    BY <1>0, ConstantTypes DEF Whole, Content, Daemons
  <2> QED BY <1>3, <2>1 DEF Fails, FailsUnguarded, FailsGuarded
<1>4. ASSUME NEW s \in Spawners, Spawn(s) PROVE PeaceKept'
  <2>0. spc[s] \in {"off", "check", "version", "done"}
    BY <1>0 DEF Content
  <2>1. CASE Check(s)
    <3>1. spc' = [spc EXCEPT ![s] = "version"] /\ UNCHANGED <<files, daemonVars, res, sweepVars>>
      BY <2>1 DEF Check, Step, spawnVars
    <3>2. Content'
      BY <1>0, <3>1 DEF Content, daemonVars, TypeOK
    <3> QED BY <1>0, <3>1, <3>2 DEF PeaceKept, Whole, Harmless, Listed, files, sidecars,
            daemonVars, sweepVars, listVars
  <2>2. CASE Reuse(s)
    <3>1. /\ spc' = [spc EXCEPT ![s] = "done"] /\ res' = [res EXCEPT ![s] = "attached"]
          /\ UNCHANGED <<files, daemonVars, sweepVars>>
      BY <2>2 DEF Reuse, Return, Step
    <3>2. Content'
      BY <1>0, <3>1 DEF Content, daemonVars, TypeOK
    <3> QED BY <1>0, <3>1, <3>2 DEF PeaceKept, Whole, Harmless, Listed, files, sidecars,
            daemonVars, sweepVars, listVars
  <2>3. CASE NothingThere(s) \/ DropSocket(s)
    BY <1>1, <2>3 DEF NothingThere, DropSocket
  <2>4. CASE \/ ReadPid(s) \/ TargetGone(s) \/ TargetStuck(s) \/ Sweep(s) \/ ForkAfterSweep(s)
             \/ Started(s) \/ LostRace(s) \/ DaemonDied(s) \/ Unreachable(s) \/ Piggyback(s)
    BY <2>0, <2>4 DEF ReadPid, TargetGone, TargetStuck, Sweep, ForkAfterSweep, Fork, Started,
       LostRace, DaemonDied, Unreachable, Piggyback, Return, Step
  <2> QED BY <1>4, <2>1, <2>2, <2>3, <2>4 DEF Spawn
<1>5. ASSUME NEW w \in Sweepers, Sweeping(w) PROVE PeaceKept'
  <2>0. /\ lpc \in [Sweepers -> {"off", "done"} \union Looking \union {"remove", "query"}]
        /\ seen \in [Sweepers -> Daemons \union {None}]
        /\ stale \in [Sweepers -> SUBSET {"pid", "sock", "meta", "log", "orphan"}]
        /\ orphan \in [Sweepers -> SUBSET Daemons]
        /\ row \in [Listers -> Daemons \union {None, Makeshift}]
        /\ says \in [Listers -> {None, "status", "running"}]
    BY DEF TypeOK
  <2>1. ASSUME UNCHANGED <<files, daemonVars, spawnVars>>, Harmless', Listed' PROVE PeaceKept'
    BY <1>0, <2>1 DEF PeaceKept, Whole, Content, files, sidecars, daemonVars, spawnVars
  <2>2. CASE Scan(w)
    <3>1. /\ lpc' = [lpc EXCEPT ![w] = "pid"]
          /\ stale'[w] \subseteq {"pid", "sock", "meta", "log"}
          /\ w \in Listers => stale'[w] \subseteq {"pid", "sock"}
          /\ \A x \in Sweepers \ {w} : stale'[x] = stale[x] /\ seen'[x] = seen[x]
          /\ UNCHANGED <<files, daemonVars, spawnVars, orphan, row, says>>
      BY <1>1, <2>0, <2>2, StateDirAssumption DEF Scan, Look, listVars
    <3>2. Harmless'
      BY <1>0, <2>0, <3>1 DEF Harmless
    <3>3. Listed'
      BY <1>0, <2>0, <3>1, ConstantTypes DEF Listed
    <3> QED BY <2>1, <3>1, <3>2, <3>3
  <2>3. CASE ReadPidFile(w)
    <3>1. /\ lpc[w] = "pid" /\ lpc' = [lpc EXCEPT ![w] = "probe"]
          /\ seen' = [seen EXCEPT ![w] = Old]
          /\ UNCHANGED <<files, daemonVars, spawnVars, stale, orphan, row, says>>
      BY <1>1, <2>3 DEF ReadPidFile, Look, listVars
    <3>2. Harmless'
      BY <1>0, <2>0, <3>1 DEF Harmless
    <3>3. Listed'
      BY <1>0, <2>0, <3>1, ConstantTypes DEF Listed
    <3> QED BY <2>1, <3>1, <3>2, <3>3
  <2>4. CASE ProbePid(w)
    <3>1. lpc[w] = "probe" /\ seen[w] = Old
      BY <1>0, <2>4 DEF ProbePid, ProbeIf, Look, Harmless
    <3>2. /\ lpc' = [lpc EXCEPT ![w] = IF w \in Listers THEN "load" ELSE "sock"]
          /\ stale' = [stale EXCEPT ![w] = @ \ {"pid"}] /\ seen' = [seen EXCEPT ![w] = None]
          /\ UNCHANGED <<files, daemonVars, spawnVars, orphan, row, says>>
      BY <1>1, <2>4, <3>1 DEF ProbePid, ProbeIf, Look, listVars
    <3>3. Harmless'
      BY <1>0, <2>0, <3>1, <3>2 DEF Harmless
    <3>4. Listed'
      BY <1>0, <2>0, <3>1, <3>2, ConstantTypes DEF Listed
    <3> QED BY <2>1, <3>2, <3>3, <3>4
  <2>5. CASE LoadMeta(w)
    <3>1. /\ lpc[w] = "load" /\ lpc' = [lpc EXCEPT ![w] = "sock"] /\ w \in Listers
          /\ row' = [row EXCEPT ![w] = Old]
          /\ UNCHANGED <<files, daemonVars, spawnVars, stale, seen, orphan, says>>
      BY <1>1, <2>5, ConstantTypes DEF LoadMeta, Look
    <3>2. Harmless'
      BY <1>0, <2>0, <3>1 DEF Harmless
    <3>3. Listed'
      BY <1>0, <2>0, <3>1, ConstantTypes DEF Listed
    <3> QED BY <2>1, <3>1, <3>2, <3>3
  <2>6. CASE LoadOrphan(w) \/ ProbeChild(w)
    BY <1>0, <2>6 DEF LoadOrphan, ProbeChild, Look, Harmless
  <2>7. CASE CheckSock(w)
    <3>1. /\ lpc[w] = "sock"
          /\ lpc' = [lpc EXCEPT ![w] = IF w \in Doctors THEN "meta" ELSE "remove"]
          /\ stale' = [stale EXCEPT ![w] = @ \ {"sock"}]
          /\ UNCHANGED <<files, daemonVars, spawnVars, seen, orphan, row, says>>
      BY <1>1, <2>7 DEF CheckSock, Look, listVars
    <3>2. stale[w] \subseteq {"sock", "meta", "log"}
      BY <1>0, <3>1 DEF Harmless
    <3>3. w \notin Doctors => stale[w] \subseteq {"sock"}
      BY <1>0, <3>2 DEF Harmless, Sweepers
    <3>4. Harmless'
      BY <1>0, <2>0, <3>1, <3>2, <3>3 DEF Harmless
    <3>5. Listed'
      BY <1>0, <2>0, <3>1, ConstantTypes, StateDirAssumption DEF Listed
    <3> QED BY <2>1, <3>1, <3>4, <3>5
  <2>8. CASE CheckMeta(w)
    <3>1. /\ lpc[w] = "meta" /\ lpc' = [lpc EXCEPT ![w] = "log"]
          /\ stale' = [stale EXCEPT ![w] = @ \ {"meta"}]
          /\ UNCHANGED <<files, daemonVars, spawnVars, seen, orphan, row, says>>
      BY <1>1, <2>8 DEF CheckMeta, Look, listVars
    <3>2. Harmless'
      BY <1>0, <2>0, <3>1 DEF Harmless
    <3>3. Listed'
      BY <1>0, <2>0, <3>1, ConstantTypes DEF Listed
    <3> QED BY <2>1, <3>1, <3>2, <3>3
  <2>9. CASE CheckLog(w)
    <3>1. /\ lpc[w] = "log" /\ lpc' = [lpc EXCEPT ![w] = "remove"]
          /\ stale' = [stale EXCEPT ![w] = @ \ {"log"}]
          /\ UNCHANGED <<files, daemonVars, spawnVars, seen, orphan, row, says>>
      BY <1>1, <2>9 DEF CheckLog, Look, listVars
    <3>2. Harmless'
      BY <1>0, <2>0, <3>1 DEF Harmless
    <3>3. Listed'
      BY <1>0, <2>0, <3>1, ConstantTypes DEF Listed
    <3> QED BY <2>1, <3>1, <3>2, <3>3
  <2>10. CASE RemoveStale(w) \/ KillOrphan(w) \/ RemoveLog(w)
    <3>1. lpc[w] = "remove"
      BY <2>10 DEF RemoveStale, KillOrphan, RemoveLog, Look
    <3>2. stale[w] = {} /\ orphan[w] = {}
      BY <1>0, <3>1 DEF Harmless
    <3> QED BY <2>10, <3>2 DEF RemoveStale, KillOrphan, RemoveLog, Reasons
  <2>11. CASE EndSweep(w)
    <3>1. /\ lpc[w] = "remove"
          /\ UNCHANGED <<files, daemonVars, spawnVars, stale, seen, orphan, says>>
      BY <2>11 DEF EndSweep, Look
    <3>2. w \in Listers => row[w] \in Daemons
      BY <1>0, <1>1, <3>1 DEF Listed
    <3>3. /\ lpc' = [lpc EXCEPT ![w] = IF w \in Listers THEN "query" ELSE "done"]
          /\ row' = row
      BY <2>0, <2>11, <3>2 DEF EndSweep, Look
    <3>4. Harmless'
      BY <1>0, <2>0, <3>1, <3>3 DEF Harmless
    <3>5. Listed'
      BY <1>0, <2>0, <3>1, <3>3, ConstantTypes DEF Listed
    <3> QED BY <2>1, <3>1, <3>4, <3>5
  <2>12. CASE QueryState(w)
    <3>1. /\ lpc[w] = "query" /\ lpc' = [lpc EXCEPT ![w] = "done"]
          /\ says' = [says EXCEPT ![w] = "status"]
          /\ UNCHANGED <<files, daemonVars, spawnVars, stale, seen, orphan, row>>
      BY <1>0, <1>1, <2>12 DEF QueryState, Look, Whole
    <3>2. Harmless'
      BY <1>0, <2>0, <3>1 DEF Harmless
    <3>3. Listed'
      BY <1>0, <2>0, <3>1, ConstantTypes DEF Listed
    <3> QED BY <2>1, <3>1, <3>2, <3>3
  <2> QED BY <1>5, <2>2, <2>3, <2>4, <2>5, <2>6, <2>7, <2>8, <2>9, <2>10, <2>11, <2>12
          DEF Sweeping
<1> QED BY <1>0, <1>2, <1>4, <1>5, <1>3 DEF Next

\* A daemon of the CLI's version keeps its sidecars, its log and its child
\* (client.rs:57-75, cli.rs:712-765, doctor.rs:176-330), however many spawns,
\* lists and doctors look at it; spawns attach to it and lists show its state.
THEOREM PeaceInvariance == Spec => []LeftInPeace
<1>1. TypeOK /\ PeaceView => LeftInPeace
  BY DEF PeaceView, PeaceKept, Peaceful, Whole, Content, Listed, LeftInPeace
<1> QED BY TypeInvariance, <1>1, PeaceInit, PeaceStep, PTL DEF Spec

------------------------------------------------------------------------------
(* A sweep that begins after a daemon died. *)

\* Since it began nobody has got past a bind, so nothing was written.
OnlyLosers(w) == \A e \in Daemons \ past[w] : dpc[e] \in Early
Healed(w) == sock = None /\ pidf.pid = None /\ (w \in Doctors => meta = None)

\* What is still there of the dead was seen by the scan, or will be removed
\* by a cleanup that has begun.
Healing(w) ==
    /\ lpc[w] # "load"
    /\ lat[w] > 0 => pidf.pid = None
    /\ lat[w] = 3 => sock = None
    /\ lpc[w] \in Looking =>
         /\ lat[w] = 0
         /\ "pid" \notin stale[w] =>
              /\ lpc[w] \notin {"pid", "probe"} /\ pidf.pid = None
              /\ "sock" \notin stale[w] => sock = None
              /\ "meta" \notin stale[w] /\ w \in Doctors => meta = None
    /\ lpc[w] = "remove" => Healed(w) \/ Reasons(w) # {}
    /\ lpc[w] \in {"query", "done"} => Healed(w)

SweepView(w) ==
    /\ \A d \in past[w] : Past(d)
    /\ lpc[w] \in {"off", "scan"} => lat[w] = 0
    /\ lpc[w] \notin {"off", "scan"} /\ OnlyLosers(w) => Healing(w)

\* As long as there are only losers, files go and none comes.
LEMMA NothingComes ==
  ASSUME TypeOK, ForksOnce, TargetKnown, NEW w \in Sweepers, SweepView(w), [Next]_vars,
         past'[w] = past[w], OnlyLosers(w)'
  PROVE  OnlyLosers(w) /\ Shrink
<1>1. GoOn /\ (Shrink \/ Write)
  BY WhoWrites
<1>2. \A e \in Daemons \ past[w] : dpc'[e] \in Early
  BY DEF OnlyLosers
<1>3. OnlyLosers(w)
  BY <1>1, <1>2 DEF OnlyLosers, GoOn
<1>4. ~Write
  BY <1>2 DEF Write, SweepView
<1> QED BY <1>1, <1>3, <1>4

LEMMA PastKept ==
  ASSUME TypeOK, ForksOnce, TargetKnown, NEW w \in Sweepers, SweepView(w), [Next]_vars
  PROVE  \A d \in past'[w] : Past(d)'
<1>1. GoOn
  BY WhoWrites
<1>2. past'[w] = past[w] \/ (past'[w] = {d \in Daemons : Past(d)} /\ dpc' = dpc)
  <2>1. CASE Scan(w)
    BY <2>1 DEF Scan, TypeOK, daemonVars
  <2>2. CASE Sweeping(w) /\ ~Scan(w)
    BY <2>2 DEF Sweeping, ReadPidFile, ProbePid, ProbeIf, LoadMeta, LoadOrphan, ProbeChild,
       CheckSock, CheckMeta, CheckLog, RemoveStale, KillOrphan, RemoveLog, EndSweep, QueryState
  <2> QED BY <2>1, <2>2, WhoSweeps DEF Elsewhere
<1>3. past[w] \subseteq Daemons
  BY DEF TypeOK
<1> QED BY <1>1, <1>2, <1>3 DEF GoOn, Past, SweepView

\* Files that only go leave a sweep that stands still where it was.
LEMMA StillHealing ==
  ASSUME TypeOK, NEW w \in Sweepers, Healing(w), Shrink, Elsewhere(w)
  PROVE  Healing(w)'
<1>1. /\ pidf.pid = None => pidf'.pid = None
      /\ sock = None => sock' = None
      /\ meta = None => meta' = None
  BY DEF Shrink, NoPid
<1>2. Healed(w) => Healed(w)'
  BY <1>1 DEF Healed
<1>3. Reasons(w)' = Reasons(w)
  BY DEF Reasons, Elsewhere
<1> QED BY <1>1, <1>2, <1>3 DEF Healing, Elsewhere

\* No pid that was read can be that of a living daemon then.
LEMMA NobodyAlive ==
  ASSUME NEW w \in Sweepers, SeenStarted, SweepView(w), OnlyLosers(w), lpc[w] = "probe"
  PROVE  ~Alive(seen[w])
<1>1. seen[w] \in past[w]
  BY DEF SeenStarted, OnlyLosers
<1> QED BY <1>1 DEF SweepView, Past, Alive, Starting

\* One removal; the fourth ends a cleanup, and then nothing is left.
LEMMA RemovalHeals ==
  ASSUME TypeOK, NEW w \in Sweepers, Healing(w), RemoveStale(w)
  PROVE  Healing(w)'
<1>0. /\ lpc[w] = "remove" /\ lat[w] \in 0..3 /\ Remove(lat[w] + 1)
      /\ lpc'[w] \in {"remove", "sock"}
      /\ lat'[w] = IF lat[w] = 3 THEN 0 ELSE lat[w] + 1
      /\ lat[w] # 3 => lpc'[w] = "remove" /\ stale'[w] = stale[w]
      /\ Reasons(w) # {}
  BY DEF RemoveStale, Look, TypeOK
<1>1. /\ pidf.pid = None => pidf'.pid = None
      /\ sock = None => sock' = None
      /\ lat[w] = 0 => pidf'.pid = None
      /\ lat[w] = 2 => sock' = None
      /\ lat[w] = 3 => meta' = None
  BY <1>0 DEF Remove, NoPid
<1>2. CASE lat[w] = 3
  <2>1. pidf'.pid = None /\ sock' = None /\ meta' = None /\ lat'[w] = 0
    BY <1>0, <1>1, <1>2 DEF Healing
  <2> QED BY <1>0, <2>1 DEF Healing, Healed, Looking
<1>3. CASE lat[w] # 3
  <2>1. lpc'[w] = "remove" /\ lat'[w] = lat[w] + 1 /\ stale'[w] = stale[w]
    BY <1>0, <1>3
  <2>2. Reasons(w)' # {}
    BY <1>0, <2>1 DEF Reasons
  <2>3. pidf'.pid = None
    BY <1>0, <1>1 DEF Healing
  <2>4. lat'[w] = 3 => sock' = None
    BY <1>0, <1>1, <2>1
  <2> QED BY <2>1, <2>2, <2>3, <2>4 DEF Healing, Looking
<1> QED BY <1>2, <1>3

LEMMA SweepStays ==
  ASSUME TypeOK, SeenStarted, ForksOnce, TargetKnown, NEW w \in Sweepers, SweepView(w),
         [Next]_vars
  PROVE  SweepView(w)'
<1>1. \A d \in past'[w] : Past(d)'
  BY PastKept
<1>2. CASE Elsewhere(w)
  <2>1. lpc'[w] \in {"off", "scan"} => lat'[w] = 0
    BY <1>2 DEF Elsewhere, SweepView
  <2>2. ASSUME lpc'[w] \notin {"off", "scan"}, OnlyLosers(w)' PROVE Healing(w)'
    <3>1. OnlyLosers(w) /\ Shrink
      BY <1>2, <2>2, NothingComes DEF Elsewhere
    <3>2. Healing(w)
      BY <1>2, <2>2, <3>1 DEF Elsewhere, SweepView
    <3> QED BY <1>2, <3>1, <3>2, StillHealing
  <2> QED BY <1>1, <2>1, <2>2 DEF SweepView
<1>3. CASE Scan(w)
  <2>1. /\ lpc[w] = "scan" /\ lpc'[w] = (IF pidf.pid # None THEN "pid" ELSE "sock") /\ lat' = lat
        /\ UNCHANGED <<sock, pidf, meta>>
        /\ pidf.pid # None => "pid" \in stale'[w]
        /\ sock # None => "sock" \in stale'[w]
        /\ meta # None /\ w \in Doctors => "meta" \in stale'[w]
    BY <1>3 DEF Scan, Look, TypeOK, files, sidecars
  <2>2. lat[w] = 0
    BY <2>1 DEF SweepView
  <2>3. Healing(w)'
    BY <2>1, <2>2 DEF Healing, Looking
  <2> QED BY <1>1, <2>1, <2>3 DEF SweepView
<1>4. CASE Sweeping(w) /\ ~Scan(w)
  <2>0. /\ past'[w] = past[w] /\ lpc[w] \notin {"off", "scan"} /\ lpc'[w] \notin {"off", "scan"}
        /\ dpc' = dpc
    BY <1>4 DEF Sweeping, ReadPidFile, ProbePid, ProbeIf, LoadMeta, LoadOrphan, ProbeChild,
       CheckSock, CheckMeta, CheckLog, RemoveStale, KillOrphan, RemoveLog, EndSweep, QueryState,
       Look, daemonVars, TypeOK
  <2> SUFFICES ASSUME OnlyLosers(w)' PROVE Healing(w)'
    BY <1>1, <2>0 DEF SweepView
  <2>1. OnlyLosers(w) /\ Healing(w)
    BY <2>0, NothingComes DEF SweepView
  <2>2. CASE ReadPidFile(w)
    <3>1. /\ lpc[w] = "pid" /\ lat' = lat /\ stale' = stale /\ UNCHANGED <<sock, pidf, meta>>
          /\ lpc'[w] \in {"probe", "sock", "remove"}
      BY <2>2 DEF ReadPidFile, Look, TypeOK, files, sidecars
    <3> QED BY <2>1, <3>1 DEF Healing, Reasons, Looking
  <2>3. CASE ProbePid(w)
    <3>1. lpc[w] = "probe" /\ ~Alive(seen[w])
      BY <2>1, <2>3, NobodyAlive DEF ProbePid, ProbeIf, Look
    <3>2. /\ lpc'[w] \in {"dead", "remove"} /\ lat' = lat /\ stale'[w] = stale[w]
          /\ UNCHANGED <<sock, pidf, meta>>
      BY <2>3, <3>1 DEF ProbePid, ProbeIf, Look, TypeOK, files, sidecars
    <3> QED BY <2>1, <3>1, <3>2 DEF Healing, Reasons, Looking
  <2>4. CASE LoadMeta(w)
    BY <2>1, <2>4 DEF LoadMeta, Look, Healing
  <2>5. CASE LoadOrphan(w) \/ ProbeChild(w)
    <3>1. /\ lpc[w] \in Looking /\ lpc'[w] \in Looking \ {"pid", "probe", "load"}
          /\ UNCHANGED <<lat, stale, sock, pidf, meta>>
      BY <2>5 DEF LoadOrphan, ProbeChild, Look, Looking, TypeOK, files, sidecars
    <3> QED BY <2>1, <3>1 DEF Healing, Looking
  <2>6. CASE CheckSock(w)
    <3>1. /\ lpc[w] = "sock" /\ lpc'[w] = (IF w \in Doctors THEN "meta" ELSE "remove")
          /\ UNCHANGED <<lat, sock, pidf, meta>>
      BY <2>6 DEF CheckSock, Look, TypeOK, files, sidecars
    <3>2. /\ "pid" \in stale'[w] <=> "pid" \in stale[w]
          /\ "meta" \in stale'[w] <=> "meta" \in stale[w]
          /\ pidf.pid = None => stale'[w] = stale[w]
      BY <2>6 DEF CheckSock, TypeOK
    <3> QED BY <2>1, <3>1, <3>2 DEF Healing, Healed, Reasons, Looking
  <2>7. CASE CheckMeta(w)
    <3>1. /\ lpc[w] = "meta" /\ lpc'[w] \in {"lone", "log"} /\ UNCHANGED <<lat, sock, pidf, meta>>
      BY <2>7 DEF CheckMeta, Look, TypeOK, files, sidecars
    <3>2. /\ "pid" \in stale'[w] <=> "pid" \in stale[w]
          /\ "sock" \in stale'[w] <=> "sock" \in stale[w]
          /\ pidf.pid = None /\ "meta" \in stale[w] => "meta" \in stale'[w]
      BY <2>7 DEF CheckMeta, TypeOK
    <3> QED BY <2>1, <3>1, <3>2 DEF Healing, Looking
  <2>8. CASE CheckLog(w)
    <3>1. lpc[w] = "log" /\ lpc'[w] = "remove" /\ UNCHANGED <<lat, sock, pidf, meta>>
      BY <2>8 DEF CheckLog, Look, TypeOK, files, sidecars
    <3>2. stale[w] \ {"log"} = stale'[w] \ {"log"}
      BY <2>8 DEF CheckLog, TypeOK
    <3>3. /\ lat[w] = 0
          /\ "pid" \notin stale[w] =>
               /\ pidf.pid = None
               /\ "sock" \notin stale[w] => sock = None
               /\ "meta" \notin stale[w] /\ w \in Doctors => meta = None
      BY <2>1, <3>1 DEF Healing, Looking
    <3>4. Healed(w) \/ Reasons(w)' # {}
      BY <3>2, <3>3 DEF Healed, Reasons
    <3> QED BY <3>1, <3>3, <3>4 DEF Healing, Healed, Looking
  <2>9. CASE RemoveStale(w)
    BY <2>1, <2>9, RemovalHeals
  <2>10. CASE KillOrphan(w) \/ RemoveLog(w) \/ EndSweep(w) \/ QueryState(w)
    <3>1. /\ lpc'[w] \in {"remove", "query", "done"} /\ lat' = lat
          /\ lpc[w] \in {"remove", "query"} /\ (lpc[w] = "remove" => Reasons(w) = {})
          /\ UNCHANGED <<sock, pidf, meta>>
      BY <2>10 DEF KillOrphan, RemoveLog, EndSweep, QueryState, Look, Reasons, TypeOK, files,
         sidecars
    <3>2. Healed(w)'
      BY <2>1, <3>1 DEF Healing, Healed
    <3> QED BY <2>1, <3>1, <3>2 DEF Healing, Looking
  <2> QED BY <1>4, <2>2, <2>3, <2>4, <2>9, <2>10, <2>5, <2>6, <2>7, <2>8 DEF Sweeping
<1> QED BY <1>2, <1>3, <1>4, WhoSweeps

SweepsView == \A w \in Sweepers : SweepView(w)

LEMMA SweepsStay == SweepsView /\ Inv /\ [Next]_vars => SweepsView'
  BY SweepStays DEF SweepsView, Inv

\* A `list` or a `doctor --fix` (cli.rs:712-765, doctor.rs:176-330) that begins
\* after a daemon died heals its id, wherever the daemon died, whatever others
\* sweep, lose their bind and die at the same time.
THEOREM SweepInvariance == Spec => []SweepHeals
<1>1. Init => SweepsView
  BY ConstantTypes DEF Init, SweepsView, SweepView
<1>2. Inv /\ SweepsView => SweepHeals
  <2> SUFFICES ASSUME Inv, SweepsView, NEW w \in Sweepers, NEW d \in past[w], lpc[w] = "done",
                      \A e \in Daemons \ past[w] : dpc[e] \in {"none", "bind", "lost"}
               PROVE  sock # d /\ pidf.pid # d /\ (w \in Doctors => meta # d)
    BY DEF SweepHeals
  <2>1. d # None
    BY ConstantTypes DEF Inv, TypeOK
  <2>2. Healed(w)
    BY DEF SweepsView, SweepView, OnlyLosers, Early, Healing, Looking
  <2> QED BY <2>1, <2>2 DEF Healed
<1> QED BY Inductive, <1>1, <1>2, SweepsStay, PTL DEF Spec

------------------------------------------------------------------------------
(* A lone spawn that finds a daemon of another version. *)

Upgrading(s) ==
    /\ sc.old = "serve" /\ sc.version # New /\ sc.who = {s}
    /\ closes = 0 /\ crashes = 0

\* Nobody else runs.
Alone(s) ==
    /\ \A t \in Spawners \ {s} : spc[t] = "off" /\ dpc[t] = "none"
    /\ \A w \in Sweepers : lpc[w] = "off"

OldGone == dpc[Old] \in {"exited", "dead"}

\* The old daemon: its socket goes first, the sweep waits for its end, and takes
\* away what it left.
Outgoing(s) ==
    /\ spc[s] \in {"check", "version", "readpid", "grace", "sweep", "fork", "poll", "loser",
                   "done"}
    /\ spc[s] \in {"check", "version"} => dpc[Old] = "serve" /\ sock = Old /\ ver # New
    /\ spc[s] = "readpid" => dpc[Old] = "serve" /\ sock = None
    /\ spc[s] \in {"check", "version", "readpid"} => pidf.pid = Old
    /\ spc[s] \in {"check", "version", "readpid", "grace"} => sat[s] = 0
    /\ spc[s] = "grace" => /\ target[s] = Old /\ sock = None
                           /\ dpc[Old] \in {"serve", "closing", "clean", "exited"}
    /\ spc[s] \in {"sweep", "fork"} => OldGone /\ sock = None
    /\ spc[s] = "sweep" /\ sat[s] > 0 => pidf.pid # Old
    /\ spc[s] = "fork" => pidf.pid # Old /\ meta # Old

Failed == {"lost", "clean", "exited"}

\* The new one: alone in the directory it has written what it says it has, unless
\* a call has failed.
OwnFiles(s) ==
    /\ sock = IF dpc[s] = "bind" THEN None ELSE s
    /\ dpc[s] = "pid2" => s \in pidf.open
    /\ dpc[s] \in {"version", "child", "log", "meta", "serve"} => pidf.pid = s
    /\ dpc[s] \in {"child", "log", "meta", "serve"} => ver = New
    /\ dpc[s] \in {"log", "meta", "serve"} => child[s] = "running"
    /\ dpc[s] = "serve" => meta = s

Incoming(s) == spc[s] \in {"poll", "loser", "done"} =>
    /\ OldGone /\ sock # Old /\ meta # Old /\ pidf.pid # Old
    /\ \/ dpc[s] \in Starting \union {"serve"} /\ OwnFiles(s)
       \/ dpc[s] \in Failed /\ faults > 0 /\ sock \in {None, s}
    /\ spc[s] = "loser" => dpc[s] \in Failed
    /\ spc[s] = "done" => res[s] = "started" \/ (res[s] = "error" /\ dpc[s] \in Failed)

UpgradeView(s) == Upgrading(s) => Alone(s) /\ Outgoing(s) /\ Incoming(s)

LEMMA UpgradeInit == ASSUME NEW s \in Spawners, Init PROVE UpgradeView(s)
<1> SUFFICES ASSUME Upgrading(s) PROVE Alone(s) /\ Outgoing(s) /\ Incoming(s)
  BY DEF UpgradeView
<1> USE ConstantTypes DEF Init, Upgrading
<1>1. Alone(s)
  BY StateDirAssumption DEF Alone
<1>2. spc[s] = "check"
  OBVIOUS
<1>3. Outgoing(s)
  BY <1>2 DEF Outgoing
<1> QED BY <1>1, <1>2, <1>3 DEF Incoming

\* The scenario stays, and the bounded events are counted.
LEMMA UpgradeBefore ==
  ASSUME TypeOK, NEW s \in Spawners, Next, Upgrading(s)'
  PROVE  Upgrading(s) /\ \A d \in Daemons : ~Close(d) /\ ~Crash(d)
<1>1. UNCHANGED <<sc, closes, crashes>> \/ \E d \in Daemons : Close(d) \/ Crash(d)
  BY BoundsKept
<1>2. closes \in Nat /\ crashes \in Nat
  BY ConstantTypes DEF TypeOK
<1>3. ASSUME NEW d \in Daemons, Close(d) \/ Crash(d) PROVE FALSE
  BY <1>2, <1>3 DEF Close, Crash, Upgrading
<1> QED BY <1>1, <1>3 DEF Upgrading

LEMMA UpgradeStep ==
  ASSUME TypeOK, ForksOnce, NEW s \in Spawners, UpgradeView(s), [Next]_vars
  PROVE  UpgradeView(s)'
<1> SUFFICES ASSUME Next, Upgrading(s)' PROVE (Alone(s) /\ Outgoing(s) /\ Incoming(s))'
  BY DEF UpgradeView, Upgrading, Alone, Outgoing, Incoming, OwnFiles, OldGone, vars, files,
     sidecars, daemonVars, spawnVars, sweepVars, boundVars
<1>0. /\ Alone(s) /\ Outgoing(s) /\ Incoming(s)
      /\ \A d \in Daemons : ~Close(d) /\ ~Crash(d)
  BY UpgradeBefore DEF UpgradeView
<1>c. s \in Daemons /\ Old \in Daemons /\ s # Old /\ Old # None /\ s # None
      /\ Version(s) = New
  BY ConstantTypes DEF Version
<1>t. /\ dpc \in [Daemons -> Starting \union {"none", "serve", "closing", "clean",
                                              "exited", "lost", "dead"}]
      /\ child \in [Daemons -> {"none", "running", "gone"}]
      /\ spc \in [Spawners -> {"off", "check", "version", "readpid", "grace", "sweep", "fork",
                               "poll", "loser", "done"}]
      /\ res \in [Spawners -> {"none", "started", "attached", "error"}]
      /\ target \in [Spawners -> Daemons \union {None}]
      /\ pidf \in [open : SUBSET Daemons, pid : Daemons \union {None, Empty}]
      /\ sat \in [Spawners -> 0..4] /\ faults \in Nat
  BY ConstantTypes DEF TypeOK
<1>1. ASSUME NEW w \in Sweepers, Sweeping(w) PROVE FALSE
  BY <1>0, <1>1 DEF Alone, Sweeping, Scan, ReadPidFile, ProbePid, ProbeIf, LoadMeta, LoadOrphan,
     ProbeChild, CheckSock, CheckMeta, CheckLog, RemoveStale, KillOrphan, RemoveLog, EndSweep,
     QueryState, Look
<1>2. ASSUME NEW t \in Spawners, t # s, Spawn(t) PROVE FALSE
  BY <1>0, <1>2 DEF Alone, Spawn, Check, NothingThere, Reuse, DropSocket, ReadPid, TargetGone,
     TargetStuck, Sweep, ForkAfterSweep, Started, LostRace, DaemonDied, Unreachable, Piggyback,
     Fork, Return, Step
<1>3. ASSUME NEW d \in Daemons, d # s, d # Old, Daemon(d) PROVE FALSE
  <2>1. dpc[d] = "none"
    BY <1>0, <1>3 DEF Alone, Daemons
  <2> QED BY <1>3, <2>1 DEF Daemon, Bind, CreatePid, FillPid, WriteVersion, SpawnChild,
          OpenLog, WriteMeta, GraceOver, GuardRemoves
<1>4. CASE Daemon(Old)
  <2>1. /\ spc[s] = "grace" /\ dpc[Old] \in {"closing", "clean"} /\ sock = None
        /\ target[s] = Old
    <3>1. dpc[Old] \notin {"serve", "exited", "dead"}
      BY <1>4 DEF Daemon, Bind, CreatePid, FillPid, WriteVersion, SpawnChild, OpenLog,
         WriteMeta, GraceOver, GuardRemoves
    <3> QED BY <1>0, <3>1 DEF Outgoing, Incoming, OldGone
  <2>2. /\ dpc'[Old] \in {"clean", "exited"} /\ sock' = None
        /\ \A d \in Daemons \ {Old} : dpc'[d] = dpc[d]
        /\ UNCHANGED <<spc, sat, target, lpc>>
    BY <1>c, <1>t, <1>4, <2>1 DEF Daemon, Bind, CreatePid, FillPid, WriteVersion, SpawnChild,
       OpenLog, WriteMeta, GraceOver, GuardRemoves, Remove, Goto, DaemonOnly, files, sidecars,
       spawnVars, sweepVars
  <2>3. Alone(s)'
    BY <1>0, <1>c, <2>2, ConstantTypes DEF Alone
  <2> QED BY <1>0, <2>1, <2>2, <2>3 DEF Outgoing, Incoming
<1>5. CASE Daemon(s)
  <2>0. spc[s] \in {"poll", "loser", "done"}
    <3>1. dpc[s] # "none"
      BY <1>5 DEF Daemon, Bind, CreatePid, FillPid, WriteVersion, SpawnChild, OpenLog,
         WriteMeta, GraceOver, GuardRemoves
    <3> QED BY <1>0, <3>1 DEF ForksOnce, Outgoing
  <2>1. /\ OldGone /\ sock # Old /\ meta # Old /\ pidf.pid # Old
        /\ \/ dpc[s] \in Starting \union {"serve"} /\ OwnFiles(s)
           \/ dpc[s] \in Failed /\ faults > 0 /\ sock \in {None, s}
        /\ spc[s] = "loser" => dpc[s] \in Failed
        /\ spc[s] = "done" => res[s] = "started" \/ (res[s] = "error" /\ dpc[s] \in Failed)
    BY <1>0, <2>0 DEF Incoming
  <2>2. /\ UNCHANGED <<spc, sat, res, target, lpc, faults>>
        /\ \A d \in Daemons \ {s} : dpc'[d] = dpc[d]
    BY <1>t, <1>5 DEF Daemon, Bind, CreatePid, FillPid, WriteVersion, SpawnChild, OpenLog,
       WriteMeta, GraceOver, GuardRemoves, Goto, DaemonOnly, spawnVars, sweepVars, boundVars
  <2>3. Alone(s)' /\ OldGone' /\ Outgoing(s)'
    BY <1>0, <1>c, <2>0, <2>1, <2>2, ConstantTypes DEF Alone, OldGone, Outgoing
  <2> SUFFICES Incoming(s)'
    BY <2>3
  <2>a. ASSUME dpc[s] \in Starting, dpc'[s] \in Starting \union {"serve"}, OwnFiles(s)',
               sock' \in {sock, s}, meta' \in {meta, s}, pidf'.pid \in {pidf.pid, Empty, s}
        PROVE  Incoming(s)'
    <3>1. dpc[s] \notin Failed
      BY <2>a DEF Starting, Failed
    <3>2. sock' # Old /\ meta' # Old /\ pidf'.pid # Old
      BY <1>c, <2>1, <2>a, ConstantTypes
    <3> QED BY <2>1, <2>2, <2>3, <2>a, <3>1, <3>2 DEF Incoming
  <2>4. CASE Bind(s)
    <3>1. dpc[s] = "bind"
      BY <2>4 DEF Bind
    <3>2. sock = None
      BY <2>1, <3>1 DEF OwnFiles, Failed
    <3>3. dpc'[s] = "pid" /\ sock' = s /\ UNCHANGED <<pidf, meta>>
      BY <1>c, <1>t, <2>4, <3>1, <3>2 DEF Bind, Goto
    <3>4. OwnFiles(s)'
      BY <3>3 DEF OwnFiles
    <3> QED BY <2>a, <3>1, <3>3, <3>4 DEF Starting
  <2>5. CASE CreatePid(s)
    <3>1. /\ dpc[s] = "pid" /\ dpc'[s] = "pid2" /\ UNCHANGED <<sock, meta>>
          /\ s \in pidf'.open /\ pidf'.pid = Empty
      BY <1>c, <1>t, <2>5 DEF CreatePid, Goto
    <3>2. sock = s
      BY <2>1, <3>1 DEF OwnFiles, Failed
    <3>3. OwnFiles(s)'
      BY <3>1, <3>2 DEF OwnFiles
    <3> QED BY <2>a, <3>1, <3>3 DEF Starting
  <2>6. CASE FillPid(s)
    <3>1. dpc[s] = "pid2" /\ dpc'[s] = "version" /\ UNCHANGED <<sock, meta>>
      BY <1>c, <1>t, <2>6 DEF FillPid, Goto
    <3>2. sock = s /\ s \in pidf.open
      BY <2>1, <3>1 DEF OwnFiles, Failed
    <3>3. pidf'.pid = s
      BY <1>t, <2>6, <3>2 DEF FillPid
    <3>4. OwnFiles(s)'
      BY <3>1, <3>2, <3>3 DEF OwnFiles
    <3> QED BY <2>a, <3>1, <3>3, <3>4 DEF Starting
  <2>7. CASE WriteVersion(s)
    <3>1. /\ dpc[s] = "version" /\ dpc'[s] = "child" /\ UNCHANGED <<sock, pidf, meta>>
          /\ ver' = New
      BY <1>c, <1>t, <2>7 DEF WriteVersion, Goto
    <3>2. OwnFiles(s)
      BY <2>1, <3>1 DEF Failed
    <3>3. OwnFiles(s)'
      BY <3>1, <3>2 DEF OwnFiles
    <3> QED BY <2>a, <3>1, <3>3 DEF Starting
  <2>8. CASE SpawnChild(s)
    <3>1. /\ dpc[s] = "child" /\ dpc'[s] = "log" /\ UNCHANGED <<sock, pidf, ver, meta>>
          /\ child'[s] = "running"
      BY <1>c, <1>t, <2>8 DEF SpawnChild, Goto, files, sidecars
    <3>2. OwnFiles(s)
      BY <2>1, <3>1 DEF Failed
    <3>3. OwnFiles(s)'
      BY <3>1, <3>2 DEF OwnFiles
    <3> QED BY <2>a, <3>1, <3>3 DEF Starting
  <2>9. CASE OpenLog(s)
    <3>1. dpc[s] = "log" /\ dpc'[s] = "meta" /\ UNCHANGED <<sock, pidf, ver, meta, child>>
      BY <1>c, <1>t, <2>9 DEF OpenLog, Goto, sidecars
    <3>2. OwnFiles(s)
      BY <2>1, <3>1 DEF Failed
    <3>3. OwnFiles(s)'
      BY <3>1, <3>2 DEF OwnFiles
    <3> QED BY <2>a, <3>1, <3>3 DEF Starting
  <2>10. CASE WriteMeta(s)
    <3>1. /\ dpc[s] = "meta" /\ dpc'[s] = "serve" /\ UNCHANGED <<sock, pidf, ver, child>>
          /\ meta' = s
      BY <1>c, <1>t, <2>10 DEF WriteMeta, Goto
    <3>2. OwnFiles(s)
      BY <2>1, <3>1 DEF Failed
    <3>3. OwnFiles(s)'
      BY <3>1, <3>2 DEF OwnFiles
    <3> QED BY <2>a, <3>1, <3>3 DEF Starting
  <2>11. CASE GraceOver(s)
    BY <2>1, <2>11 DEF GraceOver, Failed, Starting
  <2>12. CASE GuardRemoves(s)
    <3>1. dpc[s] = "clean" /\ dpc'[s] \in {"clean", "exited"}
      BY <1>c, <1>t, <2>12 DEF GuardRemoves, Goto
    <3>2. sock' \in {sock, None} /\ meta' \in {meta, None} /\ pidf'.pid \in {pidf.pid, None}
      BY <2>12 DEF GuardRemoves, Remove, NoPid
    <3>3. faults > 0 /\ sock \in {None, s}
      BY <2>1, <3>1 DEF Starting
    <3>4. sock' \in {None, s} /\ sock' # Old /\ meta' # Old /\ pidf'.pid # Old
      BY <1>c, <2>1, <3>2, <3>3, ConstantTypes
    <3> QED BY <2>1, <2>2, <2>3, <3>1, <3>3, <3>4 DEF Incoming, Failed
  <2> QED BY <1>5, <2>4, <2>5, <2>6, <2>7, <2>8, <2>9, <2>10, <2>11, <2>12 DEF Daemon
<1>6. ASSUME NEW d \in Daemons, Fails(d) PROVE (Alone(s) /\ Outgoing(s) /\ Incoming(s))'
  <2>0. /\ dpc[d] \in Starting /\ faults' = faults + 1
        /\ UNCHANGED <<sock, meta, pidf, spc, sat, res, target, lpc>>
    BY <1>6 DEF Fails, FailsUnguarded, FailsGuarded, Starting, files, sidecars, spawnVars,
       sweepVars
  <2>1. d = s /\ spc[s] \in {"poll", "loser", "done"}
    <3>1. d # Old
      BY <1>0, <2>0 DEF Outgoing, Incoming, OldGone, Starting
    <3>2. dpc[d] # "none"
      BY <2>0 DEF Starting
    <3>3. d = s
      BY <1>0, <3>1, <3>2 DEF Alone, Daemons
    <3> QED BY <1>0, <3>2, <3>3 DEF ForksOnce, Outgoing
  <2>2. dpc'[s] \in Failed /\ \A e \in Daemons \ {s} : dpc'[e] = dpc[e]
    BY <1>c, <1>t, <1>6, <2>1 DEF Fails, FailsUnguarded, FailsGuarded, Goto, Failed
  <2>3. /\ OldGone /\ sock # Old /\ meta # Old /\ pidf.pid # Old
        /\ (dpc[s] \in Starting \union {"serve"} /\ OwnFiles(s)) \/ sock \in {None, s}
        /\ spc[s] = "done" => res[s] = "started" \/ res[s] = "error"
    BY <1>0, <2>1 DEF Incoming
  <2>4. sock \in {None, s} /\ faults' > 0
    BY <1>t, <2>0, <2>3 DEF OwnFiles
  <2>5. Alone(s)' /\ OldGone' /\ Outgoing(s)'
    BY <1>0, <1>c, <2>0, <2>1, <2>2, <2>3, ConstantTypes DEF Alone, OldGone, Outgoing
  <2> QED BY <2>0, <2>1, <2>2, <2>3, <2>4, <2>5 DEF Incoming
<1>7. CASE Spawn(s)
  <2>0. ASSUME NEW to, spc' = [spc EXCEPT ![s] = to], lpc' = lpc,
               \A d \in Daemons \ {s, Old} : dpc'[d] = dpc[d]
        PROVE  Alone(s)' /\ spc'[s] = to
    BY <1>0, <1>c, <1>t, <2>0, ConstantTypes DEF Alone, Daemons
  <2>1. CASE Check(s)
    <3>1. /\ spc[s] = "check" /\ spc' = [spc EXCEPT ![s] = "version"]
          /\ UNCHANGED <<sock, ver, pidf, dpc, sat, lpc>>
      BY <2>1 DEF Check, Step, files, sidecars, daemonVars, sweepVars
    <3>2. Alone(s)' /\ spc'[s] = "version"
      BY <2>0, <3>1
    <3> QED BY <1>0, <3>1, <3>2 DEF Outgoing, Incoming
  <2>2. CASE NothingThere(s) \/ Reuse(s)
    <3>1. spc[s] \in {"check", "version"} /\ (~CanConnect \/ ver = New)
      BY <2>2 DEF NothingThere, Fork, Reuse, Return, Step, VersionMatches
    <3>2. CanConnect
      BY <1>0, <1>c, <3>1 DEF Outgoing, CanConnect, Listening
    <3> QED BY <1>0, <3>1, <3>2 DEF Outgoing
  <2>3. CASE DropSocket(s)
    <3>1. /\ spc[s] = "version" /\ spc' = [spc EXCEPT ![s] = "readpid"] /\ sock' = None
          /\ UNCHANGED <<pidf, dpc, sat, lpc>>
      BY <2>3 DEF DropSocket, Step, daemonVars, sweepVars
    <3>2. Alone(s)' /\ spc'[s] = "readpid"
      BY <2>0, <3>1
    <3> QED BY <1>0, <3>1, <3>2 DEF Outgoing, Incoming
  <2>4. CASE ReadPid(s)
    <3>1. spc[s] = "readpid" /\ pidf.pid = Old /\ dpc[Old] = "serve" /\ sock = None
      BY <1>0, <2>4 DEF ReadPid, Step, Outgoing
    <3>2. /\ spc' = [spc EXCEPT ![s] = "grace"] /\ target'[s] = Old /\ lpc' = lpc
          /\ sock' = None /\ sat' = sat /\ Terminate(Old)
      BY <1>c, <1>t, <2>4, <3>1 DEF ReadPid, Step, files, sidecars, sweepVars
    <3>3. dpc' = dpc \/ dpc' = [dpc EXCEPT ![Old] = "closing"]
      BY <3>1, <3>2 DEF Terminate, Starting, Goto
    <3>4. /\ dpc'[Old] \in {"serve", "closing"}
          /\ \A d \in Daemons \ {s, Old} : dpc'[d] = dpc[d]
      BY <1>c, <1>t, <3>1, <3>3
    <3>5. Alone(s)' /\ spc'[s] = "grace"
      BY <2>0, <3>2, <3>4
    <3>6. dpc'[Old] \in {"serve", "closing", "clean", "exited"}
      BY <3>4
    <3> QED BY <1>0, <3>1, <3>2, <3>5, <3>6 DEF Outgoing, Incoming
  <2>5. CASE TargetGone(s)
    <3>1. /\ spc[s] = "grace" /\ spc' = [spc EXCEPT ![s] = "sweep"] /\ ~Alive(target[s])
          /\ UNCHANGED <<sock, dpc, sat, lpc>>
      BY <2>5 DEF TargetGone, Step, files, sidecars, daemonVars, sweepVars
    <3>2. OldGone
      BY <1>0, <3>1 DEF Outgoing, Alive, OldGone
    <3>3. Alone(s)' /\ spc'[s] = "sweep"
      BY <2>0, <3>1
    <3>4. OldGone' /\ sock' = None
      BY <1>0, <3>1, <3>2 DEF Outgoing, OldGone
    <3> QED BY <1>0, <3>1, <3>3, <3>4 DEF Outgoing, Incoming
  <2>6. CASE TargetStuck(s)
    <3>1. spc[s] = "grace" /\ target[s] = Old
      BY <1>0, <2>6 DEF TargetStuck, Step, Outgoing
    <3>2. /\ spc' = [spc EXCEPT ![s] = "sweep"] /\ dpc' = [dpc EXCEPT ![Old] = "dead"]
          /\ UNCHANGED <<sock, sat, lpc>>
      BY <2>6, <3>1 DEF TargetStuck, Step, Goto, files, sidecars, sweepVars
    <3>3. dpc'[Old] = "dead" /\ \A d \in Daemons \ {s, Old} : dpc'[d] = dpc[d]
      BY <1>c, <1>t, <3>2
    <3>4. Alone(s)' /\ spc'[s] = "sweep"
      BY <2>0, <3>2, <3>3
    <3>5. OldGone' /\ sock' = None
      BY <1>0, <3>1, <3>2, <3>3 DEF Outgoing, OldGone
    <3> QED BY <1>0, <3>1, <3>2, <3>4, <3>5 DEF Outgoing, Incoming
  <2>7. CASE Sweep(s)
    <3>1. /\ spc[s] = "sweep" /\ sat[s] \in 0..3
          /\ spc' = [spc EXCEPT ![s] = IF sat[s] = 3 THEN "fork" ELSE "sweep"]
          /\ sock' \in {sock, None} /\ Remove(sat[s] + 1) /\ UNCHANGED <<dpc, lpc>>
      BY <1>t, <2>7 DEF Sweep, Step, Remove, daemonVars, sweepVars
    <3>2. Alone(s)' /\ spc'[s] = (IF sat[s] = 3 THEN "fork" ELSE "sweep")
      BY <2>0, <3>1
    <3>3. OldGone' /\ sock' = None
      BY <1>0, <3>1 DEF Outgoing, OldGone
    <3>4. pidf'.pid # Old
      <4>1. CASE sat[s] = 0
        BY <1>c, <3>1, <4>1, ConstantTypes DEF Remove, NoPid
      <4>2. CASE sat[s] # 0
        <5>1. pidf' = pidf /\ sat[s] > 0
          BY <3>1, <4>2 DEF Remove
        <5> QED BY <1>0, <3>1, <5>1 DEF Outgoing
      <4> QED BY <4>1, <4>2
    <3>5. sat[s] = 3 => meta' # Old
      BY <1>c, <3>1 DEF Remove
    <3> QED BY <3>2, <3>3, <3>4, <3>5 DEF Outgoing, Incoming
  <2>8. CASE ForkAfterSweep(s)
    <3>1. /\ spc[s] = "fork" /\ spc' = [spc EXCEPT ![s] = "poll"]
          /\ dpc' = [dpc EXCEPT ![s] = "bind"] /\ UNCHANGED <<sock, meta, pidf, lpc>>
      BY <2>8 DEF ForkAfterSweep, Fork, Step, Goto, files, sidecars, sweepVars
    <3>2. dpc'[s] = "bind" /\ \A d \in Daemons \ {s} : dpc'[d] = dpc[d]
      BY <1>c, <1>t, <3>1
    <3>3. OldGone' /\ sock' = None /\ meta' # Old /\ pidf'.pid # Old
      BY <1>0, <1>c, <3>1, <3>2 DEF Outgoing, OldGone
    <3>4. Alone(s)' /\ spc'[s] = "poll"
      BY <2>0, <3>1, <3>2
    <3>5. OwnFiles(s)' /\ dpc'[s] \in Starting
      BY <3>2, <3>3 DEF OwnFiles, Starting
    <3> QED BY <1>c, <3>3, <3>4, <3>5 DEF Outgoing, Incoming
  <2>b. ASSUME spc[s] \in {"poll", "loser"}, NEW to \in {"loser", "done"},
               spc' = [spc EXCEPT ![s] = to],
               UNCHANGED <<sock, pidf, ver, meta, dpc, child, faults, lpc>>,
               \/ to = "done" /\ res'[s] = "started"
               \/ dpc[s] \in Failed /\ (to = "done" => res'[s] = "error")
        PROVE  (Alone(s) /\ Outgoing(s) /\ Incoming(s))'
    <3>1. Alone(s)' /\ spc'[s] = to
      BY <2>0, <2>b
    <3>2. /\ OldGone /\ sock # Old /\ meta # Old /\ pidf.pid # Old
          /\ \/ dpc[s] \in Starting \union {"serve"} /\ OwnFiles(s)
             \/ dpc[s] \in Failed /\ faults > 0 /\ sock \in {None, s}
      BY <1>0, <2>b DEF Incoming
    <3>3. /\ OldGone' /\ sock' # Old /\ meta' # Old /\ pidf'.pid # Old
          /\ OwnFiles(s)' <=> OwnFiles(s)
      BY <2>b, <3>2 DEF OldGone, OwnFiles
    <3> QED BY <2>b, <3>1, <3>2, <3>3 DEF Outgoing, Incoming
  <2>9. CASE Started(s)
    <3>1. /\ spc[s] = "poll" /\ spc' = [spc EXCEPT ![s] = "done"]
          /\ res' = [res EXCEPT ![s] = "started"]
          /\ UNCHANGED <<sock, pidf, ver, meta, dpc, child, faults, lpc>>
      BY <2>9 DEF Started, Return, Step, files, sidecars, daemonVars, sweepVars, boundVars
    <3>2. res'[s] = "started"
      BY <1>t, <3>1
    <3> QED BY <2>b, <3>1, <3>2
  <2>c. spc[s] \in {"poll", "loser"} =>
          /\ dpc[s] \in Starting \union {"serve"} \union Failed
          /\ dpc[s] \in (Starting \ {"bind"}) \union {"serve"} => sock = s
          /\ dpc[s] \in Failed => sock \in {None, s}
          /\ spc[s] = "loser" => dpc[s] \in Failed
    <3>1. Starting \intersect Failed = {} /\ "serve" \notin Failed
      BY DEF Starting, Failed
    <3> QED BY <1>0, <3>1 DEF Incoming, OwnFiles
  <2>d. dpc[s] \in Failed /\ sock \in {None, s} => ~CanConnect
    BY DEF CanConnect, Listening, Failed, Starting
  <2>10. CASE LostRace(s)
    <3>1. /\ spc[s] = "poll" /\ spc' = [spc EXCEPT ![s] = "loser"] /\ dpc[s] \in Failed
          /\ UNCHANGED <<sock, pidf, ver, meta, dpc, child, faults, lpc>>
      BY <2>10 DEF LostRace, Step, Failed, files, sidecars, daemonVars, sweepVars, boundVars
    <3> QED BY <2>b, <3>1
  <2>11. CASE DaemonDied(s) \/ Unreachable(s) \/ Piggyback(s)
    <3>1. /\ spc[s] \in {"poll", "loser"} /\ spc' = [spc EXCEPT ![s] = "done"]
          /\ UNCHANGED <<sock, pidf, ver, meta, dpc, child, faults, lpc>>
      BY <2>11 DEF DaemonDied, Unreachable, Piggyback, Return, Step, files, sidecars, daemonVars,
         sweepVars, boundVars
    <3>2. dpc[s] \in Failed
      BY <2>11, <2>c, <3>1 DEF DaemonDied, Unreachable, Piggyback, Return, Step, Starting, Failed
    <3>3. res' = [res EXCEPT ![s] = "error"]
      BY <2>11, <2>c, <2>d, <3>1, <3>2 DEF DaemonDied, Unreachable, Piggyback, Return
    <3>4. res'[s] = "error"
      BY <1>t, <3>3
    <3> QED BY <2>b, <3>1, <3>2, <3>4
  <2> QED BY <1>7, <2>1, <2>2, <2>3, <2>4, <2>5, <2>6, <2>7, <2>8, <2>9, <2>10, <2>11 DEF Spawn
<1> QED BY <1>0, <1>1, <1>2, <1>3, <1>4, <1>5, <1>7, <1>6 DEF Next

UpgradesView == \A s \in Spawners : UpgradeView(s)

LEMMA UpgradesStay == UpgradesView /\ Inv /\ [Next]_vars => UpgradesView'
  BY UpgradeStep DEF UpgradesView, Inv

\* kill_stale_daemon and what follows it (client.rs:57-160): a lone spawn that
\* finds a daemon of another version never returns while that one lives or
\* anything of it is left, and returns with its own or with the error of its own
\* failed start (daemon.rs:171-265); nothing of one that serves is taken away.
THEOREM UpgradeInvariance == Spec => []UpgradeReplaces
<1>1. Init => UpgradesView
  BY UpgradeInit DEF UpgradesView
<1>2. UpgradesView => UpgradeReplaces
  BY DEF UpgradesView, UpgradeView, Upgrading, Outgoing, Incoming, OwnFiles, Failed, Starting,
     OldGone, UpgradeReplaces
<1> QED BY Inductive, <1>1, <1>2, UpgradesStay, PTL DEF Spec
==============================================================================
