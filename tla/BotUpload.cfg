\* One bot whose recordings go to the container worker, and no fault.
CONSTANTS
    Views <- Screens
    Bot = {b1}
    JoinAttempts = 1
    PrejoinPolls = 1
    StartPolls = 1
    GuestJoin = TRUE
    MaxFaults = 0
    SessionId = {s1}
    NoSession = NoSession
    Capacity = 1
    WebhookAttempts = 2
    UploadAttempts = 3
    Chunks = 2
    Storage = "container_worker"
SPECIFICATION FairSpec
INVARIANT
    RecordingsUploaded
CHECK_DEADLOCK FALSE
