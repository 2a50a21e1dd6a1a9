SPECIFICATION LiveSpec
CONSTANTS
    None = None
    api = api
    w1 = w1
    root = root
    day1 = day1
    watching = watching
    ready = ready
    Api = api
    Workers = {w1}
    Series <- MCSeries
    Window <- MCWindow
    Card <- MCOneCard
    Workflow = {watching}
    Watching = watching
    Day = 2
    Instants <- MCInstants
    Start = 0
    AsOf = {1, 2}
    Retentions = {}
    Unreliable = FALSE
PROPERTIES
    AutoResolved
