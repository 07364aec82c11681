----------------------------- MODULE MCStateDir -----------------------------
(* Small instances of StateDir, and what the documents say of it.           *)
EXTENDS StateDir, FiniteSets

CONSTANTS s1, s2, l1, d1
TwoSpawners == {s1, s2}
OneLister == {l1}
OneDoctor == {d1}

\* A daemon of this version serves while everybody looks at it.
Peace == [old |-> "serve", version |-> New, who |-> {s1, s2, l1, d1},
          closes |-> 0, crashes |-> 0, faults |-> 1]
\* A lone spawn finds a daemon of another version.
Upgrade == [old |-> "serve", version |-> "old", who |-> {s1}, closes |-> 0, crashes |-> 0,
            faults |-> 1]
\* Two spawns and a list meet on the leftovers of a dead daemon.
Race == [old |-> "dead", version |-> "old", who |-> {s1, s2, l1},
         closes |-> 0, crashes |-> 1, faults |-> 0]
\* A serving daemon ends or dies next to a spawn and a doctor.
Orphans == [old |-> "serve", version |-> New, who |-> {s1, d1}, closes |-> 1, crashes |-> 1,
            faults |-> 0]
\* A daemon dies or fails while it starts, or dies later, and a list or a doctor comes by.
Failures == [old : {"none"}, version : {New}, who : {{s1, l1}, {s1, d1}}, closes : {1},
             crashes : {1}, faults : {1}]
MainScenarios == {Peace, Upgrade, Race, Orphans} \union Failures

\* A list and a doctor come upon a daemon that is starting.
Sweeps == [old |-> "none", version |-> New, who |-> {s1, l1, d1}, closes |-> 0, crashes |-> 0,
           faults |-> 0]
\* Doctor beside a daemon that ends and one that starts; with SweepScenarios in
\* their place TLC shows another way to the same kill.
DoctorScenarios == {Orphans}
SweepScenarios == {Sweeps}

\* Two spawns of an id that nothing runs for.
Parallel == [old |-> "none", version |-> New, who |-> {s1, s2}, closes |-> 0, crashes |-> 0,
             faults |-> 0]
ParallelScenarios == {Parallel}

(* troubleshooting.md:71-72: of parallel `spawn --id foo` calls, "exactly   *)
(* one daemon runs".                                                        *)
OneDaemonRuns == Cardinality({d \in Daemons : child[d] = "running"}) <= 1

=============================================================================
