SPECIFICATION FairSpec
CONSTANT MaxContinuar = 8
INVARIANT FilesOnlyWhenToldFalse
INVARIANT RegisteredIsFiled
INVARIANT RetryIsSafe
INVARIANT LeavesNothingBehind
PROPERTY SessionEnds
PROPERTY EndsOrAwaitsService
PROPERTY MeetsContract
CHECK_DEADLOCK FALSE
