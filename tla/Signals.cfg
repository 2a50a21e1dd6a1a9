SPECIFICATION Spec
CONSTANTS
    None = None
    api = api
    w1 = w1
    root = root
    day1 = day1
    watching = watching
    ready = ready
    Api = api
    Workers = {w1}
    Series <- MCSeries
    Window <- MCWindow
    Card <- MCCards
    Workflow = {watching, ready}
    Watching = watching
    Day = 2
    Instants <- MCInstants
    Start = 0
    AsOf = {2}
    Retentions = {1}
    Unreliable = TRUE
INVARIANTS
    TypeOK
    NotBeforeHorizon
    WorkflowKept
PROPERTIES
    ResolutionStays
