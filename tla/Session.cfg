\* Two concurrent callers, two sessions, two sequence numbers, forks, crashes.
SPECIFICATION Spec
CONSTANTS
    Session = {s1, s2}
    Caller = {c1, c2}
    MaxSequence = 2
    ReplayLimit = 2
SYMMETRY Symmetry
CONSTRAINT ForksAlone
INVARIANTS AtMostOnceExecution ResponsesAreTruthful ReplayIsInert
PROPERTIES SignedNeedsItsKey OrphansStayLost LogSpec
