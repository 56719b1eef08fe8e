SPECIFICATION PatchSpec
CONSTANTS
    a = a
    b = b
    dot = dot
    dots = dots
    hundred = hundred
    patched = patched
    patched2 = patched2
    star = star
    na = na
    Order <- Texts
    Patched = patched
    PatchedNumbered = {patched2}
    AlsoReads <- Dots
    Star = star
    NA = na
    PageSize = 2
    MaxChanges = 2
    Calls <- AllCalls
\* The command ends.
CHECK_DEADLOCK FALSE
INVARIANTS
    LatestIsHighest
    EveryTagIsAccounted
PROPERTIES
    PatchEnds
