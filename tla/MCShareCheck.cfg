SPECIFICATION Spec
CONSTANTS
    Radix = 3
    Bytes = 2
    Words = 3
    Diffs <- UsualDiffs
INVARIANTS
    SubmittedMeetsDifficulty
    TargetIsTight
    SharesAreNotHwErrors
