\* Some two thousand inputs, eight occurrences at most.
CONSTANTS
    Case <- AllCases
    Transition <- Zones
    MaxIterations = 450
    MaxOccurrences = 8
SPECIFICATION Spec
INVARIANTS
    
    RulesAreExpanded
CHECK_DEADLOCK FALSE
