\* Every program of three nodes and every forward one of four: gates, merges,
\* retries, preconditions, diamonds, chains behind a gate, merges of merges.
SPECIFICATION FairSpec
CONSTANTS
    Node <- MCNode
    MaxLevel = 3
    CoherentFrom = 2
    MaxAttempts = 2
    Programs <- MCPrograms
INVARIANTS FailureRollsBack SkipReachesOneStep ResultsComeFromCasts
PROPERTIES ExecutionEnds
\* The execution ends.
CHECK_DEADLOCK FALSE
