SPECIFICATION Spec
CONSTANTS
    None = None
    w1 = w1
    w2 = w2
    Workers = {w1, w2}
    LeaderKey = LeaderKey
    Day = 6
    JobSpec <- MCOneJob
    Instants <- MCInstants
    Start = 0
    LeaderLease = 1
    MinJobLock = 1
    Poll = 1
    DryRuns = {FALSE}
    ForcedAt = {1}
    Outcomes = {executed}
    executed = executed
    Retentions = {3}
    MaxBackdate = 0
    MaxLag = 2
    FaultProne = {w1, w2}
SYMMETRY Symmetry
INVARIANTS
    TypeOK
    LeaseHolds
    SoleRunner
    StartsOnce
    IInv
PROPERTIES
    LiveLeaseKept
    ImplementsClaims
