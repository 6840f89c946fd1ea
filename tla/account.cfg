SPECIFICATION Spec
CONSTANTS
  Callers = {c1, c2}
  None = None
  StartingCapital = 4
  AccountCapital = 4
  EmergencyFlatten = TRUE
  ClosedPnls <- OnlyLoss
  BreakersDisabled = FALSE
  DailyLossAmount = 1
  DailyLossPct = 0
  MaxTradesPerDay = 0
  MaxConsecutiveLosses = 0
  MaxLosingPerHour = 0
  MaxPositions = 2
  MaxFlipsPerDay = 1
  MaxFlipsPerHour = 0
  LastDay = 2
  MaxEntries = 2
  MaxCommands = 1
SYMMETRY Interchangeable
CHECK_DEADLOCK FALSE
INVARIANTS
  AccountTypeOK
  EquityCarried
  HaltOutlastsKillSwitch
  EmergencyStands
  FlipsWithinLimit
