SPECIFICATION PurgeRepositorySpec
CONSTANTS
    v1 = v1
    v2 = v2
    v3 = v3
    v4 = v4
    list = list
    amd = amd
    arm = arm
    other = other
    Tag = {v1, v2, v3, v4}
    Digest = {list, amd, arm, other}
    NoCutoff = NoCutoff
    Repos <- RetainedCalls
    Stores <- RetainedStores
    PageSize = 2
\* The call returns.
CHECK_DEADLOCK FALSE
INVARIANTS
    RetainedListsStayComplete
