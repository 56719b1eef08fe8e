SPECIFICATION ScanSpec
CONSTANTS
    outer = outer
    inner = inner
    image = image
    docker = docker
    sig = sig
    Task = {outer, inner, image, docker, sig}
    Digest = {outer, inner, image, docker, sig}
    Worker = {w1, w2}
    QueueSize = 2
    NoTask = NoTask
    Repos <- ScanRepos
    NoCutoff = NoCutoff
    PageSize = 3
    Faults <- FaultRepos
\* The scan returns, or panics, and the pool comes to rest.
CHECK_DEADLOCK FALSE
INVARIANTS
    IgnoredListsAreFollowed
    VisitedShieldsAreFollowed
    OnlyShieldedIsIgnored
PROPERTIES
    SelectionRefined
    ScanTerminates
