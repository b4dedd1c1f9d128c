\* Two runs that may overlap, two disturbances of any kind and the passing of time.
CONSTANTS
    Chunk = {c1, c2}
    Worker = {w1, w2}
    NoWorker = NoWorker
    MaxAttempts = 2
    FaultKinds = {"crash", "report", "overrun", "statement", "hand_on"}
    Requests = {"cancel", "age", "cleanup", "retry_transcription", "retry_recap"}
    MaxDisturbances = 2
SPECIFICATION Spec
SYMMETRY Symmetry
INVARIANTS
    IInv
    HandedOn
    
    RowsPointToObjects
    NothingEscapesRetention
CHECK_DEADLOCK FALSE
