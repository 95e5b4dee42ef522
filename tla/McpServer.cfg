\* The stdio server and another process on one file.
SPECIFICATION Spec
CONSTANTS
    Process = {mcp, other}
    Caller = {c1, c2}
    mcp = mcp
    other = other
    c1 = c1
    c2 = c2
    Home <- MCHome
    Sigil = {plain, extended}
    plain = plain
    extended = extended
    Resolves <- MCResolves
    L2 <- MCL2
    Cosine <- MCCosine
    Payload <- MCPayload
    MaxCasts = 3
    MaxChain = 2
    MaxSets = 1
    MaxStarts = 3
    FillLimit = 1
    NoRow = no_row
    NoReport = no_report
    NoThresholds = no_thresholds
    Loop = c1
    MaxAnswers = 2
    NoRequest = no_request
INVARIANTS LineageIsGrounded ReportsAreJustified ThresholdsSurviveRestart AnswersMatchTheTable EachRequestIsAnsweredOnce
CHECK_DEADLOCK FALSE
