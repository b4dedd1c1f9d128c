\* Invites of one series in any order, two handlers that may overlap, joins, two days.
CONSTANTS
    Message <- Mails
    Mail <- MailsContents
    None = None
    Recorders <- Recorder0
    AllowedDomains <- Company0
    AllowSubdomains = TRUE
    OrganizerOnly = FALSE
    Worker = {w1, w2}
    NoMessage = NoMessage
    Policy = {"authenticated", "internal_organizer", "eligible_recipient"}
    MaxEvents = 3
    Day = {0, 2}
    Window = 2
    Lead = 1
    LastDay = 2
    Nightly = Nightly
    NoEvent = NoEvent
    NoRow = NoRow
SPECIFICATION Spec
SYMMETRY Symmetry
INVARIANTS
    IInv
    IngestedOnce
    CancellationsGetThrough
    GuestsOfTheSeries
    ScheduledIsJoined
    JoinsOnTime
    CanceledBotsToldToLeave
PROPERTIES
    SeriesNeverRollsBack
    
CHECK_DEADLOCK FALSE
