\* Inputs of up to MaxInput characters, with folded headers and a version that overflows.
SPECIFICATION Spec
CONSTANTS
    Chars = {"H", "T", "P", "/", ".", "1", " ", "tab", "cr", "lf", ":", "hi"}
    Zero = 0
    MaxInt = 1
    HeaderChars = {"H", ":", " ", "tab", "cr", "lf"}
    MaxField = 1
    MaxDigits = 3
    MaxName = 1
    MaxValue = 2
    MaxInput = 26
INVARIANTS BackIsDefined GoodIsRequest FieldsAreRight
CHECK_DEADLOCK FALSE
