\* Two concurrent callers: the write of advance_session_sequence can go back.
SPECIFICATION Spec
CONSTANTS
    Session = {s1}
    Caller = {c1, c2}
    MaxSequence = 2
    ReplayLimit = 2
PROPERTIES AdvanceIsMonotone
