SPECIFICATION Spec
CONSTANTS
    None = None
    api = api
    w1 = w1
    w2 = w2
    digest = digest
    brief = brief
    Api = api
    Workers = {w1}
    Ready = {api, w1}
    Kinds = {digest, brief}
    Saved <- MCSaved
    MaxCalls = 4
INVARIANTS
    TypeOK
    LogWithinChat
    MarkStays
    MarkSpentOnce
    SettingsStay
PROPERTIES
    SentWithConsent
