\* A check and an example run at the same time, whatever fails; the commands
\* need not exit but stop writing.
SPECIFICATION FairSpec
CONSTANTS
    r1 = r1
    r2 = r2
    None = None
    Request <- MCRequest
    Checks <- MCChecks
    MaxOutput = 1
    PipeSize = 1
    MaxWrites <- MCWrites
    Chatty = {}
INVARIANTS TypeOK ChildIsOwned TestsOwnBuild VerdictIsSound LossIsMarked
PROPERTIES Answered
CHECK_DEADLOCK FALSE
