SPECIFICATION Spec
CONSTANTS
    None = None
    w1 = w1
    w2 = w2
    Workers = {w1, w2}
    LeaderKey = LeaderKey
    Day = 6
    JobSpec <- MCTwoJobs
    Instants <- MCInstants
    Start = 0
    LeaderLease = 2
    MinJobLock = 1
    Poll = 1
    DryRuns = {FALSE}
    ForcedAt = {}
    Outcomes = {executed}
    executed = executed
    Retentions = {}
    MaxBackdate = 0
    MaxLag = 3
    FaultProne = {}
INVARIANTS
    SingleActive
