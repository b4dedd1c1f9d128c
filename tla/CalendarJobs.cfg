\* One invite and an update that changes only the end time: the join job is gone.
CONSTANTS
    Message <- TwoMails
    Mail <- TwoContents
    None = None
    Recorders <- Recorder0
    AllowedDomains <- Company0
    AllowSubdomains = TRUE
    OrganizerOnly = FALSE
    Worker = {w1, w2}
    NoMessage = NoMessage
    Policy = {"authenticated", "internal_organizer", "eligible_recipient"}
    MaxEvents = 2
    Day = {0, 2}
    Window = 2
    Lead = 0
    LastDay = 2
    Nightly = Nightly
    NoEvent = NoEvent
    NoRow = NoRow
SPECIFICATION Spec

INVARIANT
    ExactlyOneJoinJob
CHECK_DEADLOCK FALSE
