\* Two request threads, three handler runs, a decide key and a program key, one restart.
SPECIFICATION Spec
CONSTANTS
    Caller = {c1, c2}
    Id = {i1, i2, i3}
    Model = {rule_based, threshold_tuned}
    Base = rule_based
    NoModel = no_model
    Unknown = unknown
    Key = {k1, k2}
    NoKey = no_key
    k1 = k1
    threshold_tuned = threshold_tuned
    AskOf <- MCAskOf
    RequireToken = TRUE
    MaxRestarts = 1
SYMMETRY Symmetry
INVARIANTS DecidedAsAsked ModelIsRestored ReturnedIsStored StoredAnswersAreBacked SerialRetriesRunOnce
\* No id is left, and every request is answered.
CHECK_DEADLOCK FALSE
