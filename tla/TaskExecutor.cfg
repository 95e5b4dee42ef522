\* Two executions at a time over one branch and one swarm of two sessions.
SPECIFICATION Spec
CONSTANTS
    Caller = {e1, e2}
    Task = {t1, t2}
    NoTask = no_task
    NoEvent = no_event
    Level = {30, 60, 90}
    MaxRequests = 3
    Session = {1, 2}
    NoChannel = no_channel
    NoSwarm = no_swarm
    NoMember = no_member
SYMMETRY Symmetry
INVARIANTS CountIsBacked LastCastExists SwarmFollowsItsCasts CancelIsHonoured
CHECK_DEADLOCK FALSE
