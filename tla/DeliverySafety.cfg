\* Two recipients, two runs that may overlap, one fault and any three requests.
CONSTANTS
    Recipient = {r1, r2}
    Invited = {r1, r2}
    Worker = {w1, w2}
    NoWorker = NoWorker
    NoRecipient = NoRecipient
    MaxAttempts = 2
    MaxFaults = 1
    Requests = {"cancel", "retry_delivery", "update_attendees", "change_policy"}
    MaxRequests = 3
SPECIFICATION Spec
SYMMETRY Symmetry
INVARIANTS
    IInv
    DuplicatesNeedDisturbances
PROPERTIES
    CompletedMeansSent
    
CHECK_DEADLOCK FALSE
