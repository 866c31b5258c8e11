\* A command that never stops writing.
SPECIFICATION FairSpec
CONSTANTS
    r1 = r1
    r2 = r2
    None = None
    Request <- MCRequest
    Checks <- MCChecks
    MaxOutput = 1
    PipeSize = 1
    MaxWrites <- MCWrites
    Chatty <- MCChatty
CHECK_DEADLOCK FALSE
PROPERTIES Answered
