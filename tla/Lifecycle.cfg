\* A server with two request threads and a CLI command on one file.
SPECIFICATION MCSpec
CONSTANTS
    Process = {server, cli}
    Caller = {c1, c2, c3}
    server = server
    cli = cli
    c1 = c1
    c2 = c2
    c3 = c3
    Home <- MCHome
    LastScript = 21
    Unrepeatable <- MCUnrepeatable
    Name = {a1, a2}
    a1 = a1
    NoName = no_name
    MaxCalls = 2
    MaxEmbeds = 2
    MaxStarts = 2
    Pattern = {plain, extended}
    plain = plain
    extended = extended
    Canonical = {plain}
    Needs <- MCNeeds
    SigilName = {s1, s2}
    NoSigil = no_sigil
    DataFile = data_file
SYMMETRY Symmetry
CONSTRAINT EmbedsApart
INVARIANTS ServedSchemaIsWhole PositionsSurviveRestart ReferencesCoverTheBasis AcceptedIsRegistered SigilsSurviveRestart
PROPERTIES StartFailsForAReason DecidedStaysDecided
CHECK_DEADLOCK FALSE
