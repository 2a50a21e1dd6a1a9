SPECIFICATION PanelSpec
CONSTANTS
    None = None
    builtin = builtin
    edited = edited
    ordering = ordering
    dotted = dotted
    Roles = {"trend_vol", "skeptic"}
    RoleOrder <- TwoRoles
    Text <- MCDottedText
    Builtin = builtin
    TooShort = {}
    Executing = {ordering}
    Breaking = {dotted}
    Moderate <- MCModerate
    Major <- MCModerate
    HistoryWindow = 3
    OverviewWindow = 2
    MaxLog = 4
    DefaultModel = gpt5
    Model = {gpt5, other}
    DefaultPolicy = shipped
    Policy = {shipped, tighter}
INVARIANTS
    GateBlamesPrompts
CHECK_DEADLOCK FALSE
