SPECIFICATION Spec
CONSTANTS
  None = None
  Refused = Refused
  mia = mia
  leo = leo
  roblox = roblox
  discord = discord
  Child = {mia, leo}
  AlertId <- MCAlertId
  Stage <- MCStage
  Severity <- MCSeverity
  ChildOf <- MCChildOf
  PlatformOf <- MCPlatformOf
  DayOf <- MCDayOf
  AccountOn <- MCAccountOn
  Starts <- MCStarts
  itemsPerPage = 2
  MaxEffects = 3
  MaxCalls = 2
CHECK_DEADLOCK FALSE
INVARIANTS
  TypeOK AlertsDistinct OneSocket ShownAckIsReal StagesBelong PageNotEmpty
  BusyIsOwnCall EchoedInOrder HomeAddsUp
PROPERTIES
  SpinnerEnds GetsLive
