SPECIFICATION Spec
CONSTANTS
  Callers = {c1, c2}
  None = None
  StartingCapital = 4
  AccountCapital = 4
  EmergencyFlatten = FALSE
  ClosedPnls <- OnlyLoss
  BreakersDisabled = TRUE
  DailyLossAmount = 1
  DailyLossPct = 0
  MaxTradesPerDay = 0
  MaxConsecutiveLosses = 0
  MaxLosingPerHour = 0
  MaxPositions = 2
  MaxFlipsPerDay = 1
  MaxFlipsPerHour = 0
  LastDay = 2
  MaxEntries = 1
  MaxCommands = 0
SYMMETRY Interchangeable
CHECK_DEADLOCK FALSE
INVARIANTS
  OvernightResultCarried
