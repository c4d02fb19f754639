SPECIFICATION Spec
CONSTANTS
    Radix = 3
    Bytes = 2
    Words = 3
    Diffs <- EasyDiffs
INVARIANT SharesAreNotHwErrors
