SPECIFICATION FairSpec
CONSTANTS
  Positions = {p1}
  Bands = {b1, b2}
  Ensurers = {poll}
  Refreshers = {feed}
  None = None
  MaxCrashes = 2
  MaxDrops = 1
  MaxRefreshes = 1
CHECK_DEADLOCK FALSE
INVARIANTS
  SessionTypeOK
  CreditedOnceAcrossCrashes
  BookRestored
  SubscriptionTracked
PROPERTIES
  HoldingsStreamed
  OpenRowsComeBack
