\* Two request threads that retry with one key, one process.
SPECIFICATION Spec
CONSTANTS
    Caller = {c1, c2}
    Id = {i1, i2}
    Model = {rule_based, threshold_tuned}
    Base = rule_based
    NoModel = no_model
    Unknown = unknown
    Key = {k1, k2}
    NoKey = no_key
    k1 = k1
    threshold_tuned = threshold_tuned
    AskOf <- MCAskOf
    RequireToken = TRUE
    MaxRestarts = 0
INVARIANTS RetriesAreReplaySafe
\* No id is left, and every request is answered.
CHECK_DEADLOCK FALSE
