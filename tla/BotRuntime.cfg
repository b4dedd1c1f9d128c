\* One bot, three join attempts, a cancel at any point, two faults.
CONSTANTS
    Views <- Screens
    Bot = {b1}
    JoinAttempts = 3
    PrejoinPolls = 1
    StartPolls = 3
    GuestJoin = TRUE
    MaxFaults = 2
    SessionId = {s1}
    NoSession = NoSession
    Capacity = 1
    WebhookAttempts = 2
    UploadAttempts = 3
    Chunks = 2
    Storage = "any"
SPECIFICATION FairSpec
INVARIANTS
    CancelWins
    ReportedIsStored
    NothingLeftBehind
    EndIsHeard
    RecordingsUploaded
PROPERTIES
    ImplementsMeetingBot
    SessionsEnd
CHECK_DEADLOCK FALSE
