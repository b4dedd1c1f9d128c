\* No fault: a cancellation that races the join job.
CONSTANTS
    Session = {s1}
    NoSession = NoSession
    Actor = {a1, a2}
    MaxJoinAttempts = 2
    AttemptCap = 3
    MaxFaults = 0
    Requests = {"cancel_invite"}
SPECIFICATION Spec
INVARIANTS
    CanceledMeetingsHaveNoBot
CHECK_DEADLOCK FALSE
