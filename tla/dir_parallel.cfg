SPECIFICATION Spec
CONSTANTS
    s1 = s1
    s2 = s2
    l1 = l1
    d1 = d1
    Old = old
    Spawners <- TwoSpawners
    Listers <- OneLister
    Doctors <- OneDoctor
    Scenarios <- ParallelScenarios
CHECK_DEADLOCK FALSE
INVARIANT OneDaemonRuns
