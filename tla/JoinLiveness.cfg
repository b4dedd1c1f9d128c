\* One session, two workers, one fault, both admin requests: sessions end.
CONSTANTS
    Session = {s1}
    NoSession = NoSession
    Actor = {a1, a2}
    MaxJoinAttempts = 2
    AttemptCap = 3
    MaxFaults = 1
    Requests = {"retry_join", "cancel_bot"}
SPECIFICATION SessionSpec
PROPERTIES
    SessionsEnd
CHECK_DEADLOCK FALSE
