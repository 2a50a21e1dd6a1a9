SPECIFICATION LiveSpec
CONSTANTS
    None = None
    w1 = w1
    w2 = w2
    Workers = {w1, w2}
    LeaderKey = LeaderKey
    Day = 6
    JobSpec <- MCOneJob
    Instants <- MCShortInstants
    Start = 0
    LeaderLease = 1
    MinJobLock = 1
    Poll = 1
    DryRuns = {TRUE, FALSE}
    ForcedAt = {}
    Outcomes = {executed}
    executed = executed
    Retentions = {}
    MaxBackdate = 0
    MaxLag = 2
    FaultProne = {w2}
PROPERTIES
    RunsSettle
    LeaseRecovers
