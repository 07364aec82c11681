SPECIFICATION Spec
CONSTANTS
    s1 = s1
    s2 = s2
    l1 = l1
    d1 = d1
    Old = old
    Spawners <- TwoSpawners
    Listers <- OneLister
    Doctors <- OneDoctor
    Scenarios <- DoctorScenarios
CHECK_DEADLOCK FALSE
PROPERTY DoctorSparesTheLiving
