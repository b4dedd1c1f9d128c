\* Three sessions and two workers, one fault, no request: failover and retries.
CONSTANTS
    Session = {s1, s2, s3}
    NoSession = NoSession
    Actor = {a1, a2}
    MaxJoinAttempts = 2
    AttemptCap = 3
    MaxFaults = 1
    Requests = {}
SPECIFICATION Spec
SYMMETRY Symmetry
INVARIANTS
    IInv
    ExtraBotsNeedFaults
CHECK_DEADLOCK FALSE
