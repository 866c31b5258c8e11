\* Two peers, one of which does not read, and a signal at any time.
SPECIFICATION FairSpec
CONSTANTS
    c1 = c1
    c2 = c2
    None = None
    Conn <- MCTwo
    Readers <- MCReader
    MaxChunks = 2
INVARIANTS AlwaysAccepting ManagedIsOpen StoppedStaysStopped
PROPERTIES StopEnds ReplyEnds GoneIsReleased
CHECK_DEADLOCK FALSE
