SPECIFICATION FairSpec
CONSTANTS
    Readers = {"poll", "follow", "wait", "summary"}
    MaxLines = 7
    SegSize = 3
    Pattern = 2
    MaxCrashes = 1
INVARIANTS TypeOK FollowInOrder FollowsToTheEnd PollLosesNothing WaitFindsEarlyLine
    SummaryFitsItsCursor
PROPERTY ReadersReturn
CHECK_DEADLOCK FALSE
