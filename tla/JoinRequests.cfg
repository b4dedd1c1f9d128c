\* Two sessions and two workers, a cancellation and an admin retry, no fault.
CONSTANTS
    Session = {s1, s2}
    NoSession = NoSession
    Actor = {a1, a2}
    MaxJoinAttempts = 2
    AttemptCap = 3
    MaxFaults = 0
    Requests = {"cancel_invite", "retry_join"}
SPECIFICATION Spec
SYMMETRY Symmetry
INVARIANTS
    LiveBotsTracked
    CancellationSticks
    RecordingsTranscribed
CHECK_DEADLOCK FALSE
