\* Two connections, one of which never reads, and headers of every kind.
SPECIFICATION FairSpec
CONSTANTS
    s1 = s1
    s2 = s2
    Session <- MCSession
    HeaderValue <- MCHeaderValue
    SizeModulus = 16
    max_body_length = 1
    max_recent_msgs = 1
    MaxLog = 2
    Stalled <- MCStalled
INVARIANTS TypeOK WriteMatchesQueue StreamIsWindow
PROPERTIES LeftIsFinal ImplementsBroadcast Delivered ResetIsReleased
CHECK_DEADLOCK FALSE
