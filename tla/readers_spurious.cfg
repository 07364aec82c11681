SPECIFICATION Spec
CONSTANTS
    Readers = {"wait"}
    MaxLines = 1
    SegSize = 2
    Pattern = 1
    MaxCrashes = 0
INVARIANT ExitTwoMeansExited
CHECK_DEADLOCK FALSE
