SPECIFICATION Spec
CONSTANTS
  Positions = {p1, p2}
  Tokens = {t1, t2}
  Entrants = {e1, e2}
  Closers = {c1, c2}
  None = None
  LotSizes = {1, 2}
  Prices = {1, 3}
  Pnls <- OnlyLoss
  StartingCapital = 4
  AccountCapital = 4
  TradePct = 85
  DeployPct = 85
  CombinedPct = 50
  MinFillPct = 50
  BreakersDisabled = FALSE
  DailyLossAmount = 0
  DailyLossPct = 0
  MaxTradesPerDay = 0
  MaxConsecutiveLosses = 1
  MaxLosingPerHour = 0
  MaxPositions = 2
  MaxFlipsPerDay = 0
  MaxFlipsPerHour = 0
  MaxFailures = 0
  MaxKillPresses = 0
SYMMETRY Interchangeable
INVARIANTS
  OnePositionPerToken
  AvailableSettled
  ExposureCapHeld
