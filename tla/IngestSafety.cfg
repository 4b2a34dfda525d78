SPECIFICATION FairSpec
CONSTANTS
    Scopes = {"public", "owner"}
    Scope <- MCScope
    Incremental = TRUE
    PageSize = 2
    ErroredAfter = 2
    Jobs = {1, 2}
    Hooked = {2}
    Notices = {1}
    MaxActivity = 3
    MaxFaults = 2
INVARIANT TypeOK
INVARIANT NothingBehindCursor
PROPERTY OnlyLifecycleResumes
PROPERTY EventuallyIngested
CHECK_DEADLOCK FALSE
