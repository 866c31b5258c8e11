\* Every trace of four messages over two branches and two CSeq numbers.
SPECIFICATION Spec
CONSTANTS
    b1 = b1
    b2 = b2
    s1 = s1
    n1 = n1
    n2 = n2
    Branch <- MCBranches
    SentBy <- MCSentBy
    Number <- MCNumbers
    Other = "BYE"
    Status = {"2xx", "fail"}
    MaxMessages = 4
SYMMETRY Symmetry
CHECK_DEADLOCK FALSE
INVARIANTS GroupsAreTransactions OrderIsFirstSeen
