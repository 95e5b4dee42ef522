\* All graphs of four nodes, among them every diamond.
SPECIFICATION OrderSpec
CONSTANTS
    Id <- MCFour
    MaxEdges = 1
INVARIANTS OrderIsTopological CycleIsDetected OrderIsLeast
\* The call returns.
CHECK_DEADLOCK FALSE
