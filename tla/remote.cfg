SPECIFICATION FairSpec
CONSTANTS
    Statuses <- SomeStatuses
    MaxRedirects = 3
INVARIANT AttachesOnlyPdf
PROPERTY CallsEnd
PROPERTY EndsOrIsLeft
CHECK_DEADLOCK FALSE
