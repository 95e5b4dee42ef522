\* One caller at a time; a restart spells the pattern another way.
SPECIFICATION Spec
CONSTANTS
    Caller = {c1}
    Spelling = {s1, s2}
    Level <- MCLevel
    Severity = "SOFT"
    BaseCeiling = 90
    FirstCount = 3
    CountStep = 0
    CountCap = 3
    MaxCasts = 3
INVARIANTS CrystalIsFound
CHECK_DEADLOCK FALSE
