\* Every graph of three casts and three edges, one write during the search.
SPECIFICATION Spec
CONSTANTS
    Cast = {a, b, c}
    EdgeId = {e1, e2, e3}
    MaxDepth = 2
    Limit = 2
    MaxWrites = 1
SYMMETRY Symmetry
INVARIANTS FoundIsReachable SteadyIsFound EdgesAreClosed
\* The search is over.
CHECK_DEADLOCK FALSE
