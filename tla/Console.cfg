SPECIFICATION ConsoleSpec
CONSTANTS
  Roots = {r1}
  Signals = {s1}
  Timeframes = {d1, w1}
  DefaultTimeframe = d1
  CompareSlots = {a}
  Ranges = {full, focus}
  FullRange = full
  Empty = Empty
  Loading = Loading
  Unavailable = Unavailable
  Failed = Failed
  Openings <- Opening
  Priceless = {2}
  OtherCopies <- OtherTabs
  MaxVersion = 3
  MaxOutside = 1
  MaxClicks = 3
  MaxErrors = 1
  MaxEvents = 4
  MaxRequests = 2
  MaxRounds = 2
  Charts = {"1W"}
  ChartPointers = {mouse, pen}
  ChartLevels = {1, 2}
  BarCounts = {6}
  MaxSnapshots = 1
  NoPointer = NoPointer
  NoMeasure = NoMeasure
  NoSnapshot = NoSnapshot
  Pages = {"workspace", "signal", "runtime"}
  Forms = {"workflow", "journal", "role_prompt", "diff", "skip_next"}
  PostIds = {1, 2}
  SwapIds = {1, 2, 3}
  NoPost = NoPost
  NoSwap = NoSwap
  MaxWrites = 2
  MaxLoads = 4
  MaxSubmits = 3
  MaxLost = 1
  AskIds = {1, 2}
  NoAsk = NoAsk
  MaxAsks = 2
  BoardRoots = {"Si", "BR"}
  BoardFrames = {"1D"}
  BoardRanges = {"full", "focus"}
  Gain <- BoardGains
  Quotes <- BoardQuotes
  BoardLevels = {"entry"}
  BoardPlaces = {0, 1}
  BoardPointers = {"mouse"}
  MaxDraws = 3
  MaxAnswers = 2
  NoPin = NoPin
  NoQuote = NoQuote
  NoContext = NoContext
  NoNote = NoNote
  NoChart = NoChart
  NoMark = NoMark
  Nowhere = Nowhere
  NoDrag = NoDrag
  MarketRoots <- QuotedRoots
  Wanted <- QuotedFrom
  Contracts = {1, 2}
  Ttl = 1
  MaxClock = 2
  NoDatum = NoDatum
  NoRequest = NoRequest
  Processes = {api}
  Interval = 2
  Cooldown = 1
  AutoSync = TRUE
  MaxPublished = 2
  MaxRolls = 1
  MaxRestarts = 1
  MaxSyncErrors = 1
  MaxDirect = 1
  Never = Never
  NoRows = NoRows
  NoSync = NoSync
  Listing <- BundledListing
  RootFacts <- BundledRoots
  UnifiedFrom = 7
  LastDay = 100
  Minutes = {60, 600, 840, 1435}
  Calendars <- MoexCalendars
  MaxChanges = 1
  NoEvent = NoEvent
INVARIANTS ConsoleTypeOK ServedFresh StoredAsLeft PinButtonsTell MeasureFits OneRefresh PageTells LevelKept
PROPERTIES BoardTells RowsCatchUp TradingDayForward RollAnnounced SeriesAsRows AnswersKeepPins RefreshOpensNothing ViewsCatchUp BusyEnds
CHECK_DEADLOCK FALSE
