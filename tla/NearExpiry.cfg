SPECIFICATION DeskSpec
CONSTANTS
  Listing <- BundledListing
  RootFacts <- BundledRoots
  UnifiedFrom = 7
  LastDay = 76
  Minutes = {60, 600, 840, 1139, 1435}
  Calendars = {}
  MaxChanges = 0
  NoEvent = NoEvent
INVARIANTS NearExpiryMeansNear
CHECK_DEADLOCK FALSE
