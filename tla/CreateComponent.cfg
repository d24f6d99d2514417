CONSTANTS
    c1 = c1
    Callers = {c1}
    Other = Other
    NoCaller = NoCaller
    Requests <- MCRequests
    Templates <- MCTemplates
    MaxVersion = 2
    CreatorVersions = {0, 1, 2}
    MaxRuns = 2
    RetryCount = 2
    RetryInterval = 2
    Timeout = 2
    VendorTimeout = 3
SPECIFICATION FairSpec
INVARIANTS
    RetriesAreSpaced
    GivesUpLate
    PulledAsAsked
PROPERTIES
    FilesFollowRuns
    EveryCallEnds
CHECK_DEADLOCK FALSE
