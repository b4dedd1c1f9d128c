\* One job that two consumers contend for, two faults (crashes, or runs that
\* outlive their lease), one admin reset, any cancellation, any hint lost.
CONSTANTS
    Job = {j1}
    Worker = {w1, w2}
    LeaseId = {l1, l2, l3, l4}
    NoLease = NoLease
    NoJob = NoJob
    MaxAttempts = 2
    AttemptCap = 3
    SweepLimit = 1
    MaxFaults = 2
    MaxRequeues = 1
SPECIFICATION FairSpec
INVARIANTS
    IInv
    VerdictsMatchAttempts
    
PROPERTIES
    LiveLeaseKept
    SettledByHolder
    ImplementsFencedLease
    EveryJobSettles
