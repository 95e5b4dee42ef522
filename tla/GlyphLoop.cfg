\* Two callers, two spellings, two generations of three observations each.
SPECIFICATION Spec
CONSTANTS
    Caller = {c1, c2}
    Spelling = {s1, s2}
    Level <- MCLevel
    Severity = "SOFT"
    BaseCeiling = 90
    FirstCount = 3
    CountStep = 0
    CountCap = 3
    MaxCasts = 6
SYMMETRY Symmetry
INVARIANTS CrystalIsEarned SeedFollowsCrystal
PROPERTIES LowCeilingIsFinal
\* No cast is left, and every call has returned.
CHECK_DEADLOCK FALSE
