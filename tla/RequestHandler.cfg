\* Every URI of up to six characters.
SPECIFICATION Spec
CONSTANTS
    UriChars = {"/", ".", "%", "+", "0", "2", "e", "z"}
    MaxUri = 6
INVARIANTS StaysInRoot
CHECK_DEADLOCK FALSE
