SPECIFICATION Spec
CONSTANTS
  NoData = NoData
  NoValue = NoValue
  MaxRequestTicks = 2
  BiasFlipExit = TRUE
  MeanReversionDistance = 30
  LastPrice = 20000
  EnabledStrategies <- MCEnabledStrategies
  M1Windows <- MCM1Windows
  M3Windows <- MCM3Windows
  M5Windows <- MCM5Windows
  Spots <- MCSpots
  Settings <- MCSettings
  Chains <- MCChains
  MinutesLeft <- MCMinutesLeft
  IvHistories <- MCIvHistories
  Markets <- MCMarkets
  Learned <- MCLearned
  Books <- MCBooks
  Accounts <- MCAccounts
  WinPcts <- MCWinPcts
  Quotes <- MCQuotes
INVARIANT
  CollapsedThesisCloses
