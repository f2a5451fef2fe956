\* Two stream ticks and one market order; other participants twice take a whole side
\* away or cross the middle.  Bounded, so it may stop.
SPECIFICATION FairSpec
CONSTANTS
  Tickers = {k1, k2}
  Traders = {c1}
  MinLevels = 2
  BpsScale = 10
  SpreadBps = 3
  RecenterBps = 2
  DriftBps = 0
  BasePrice = 4
  References = {4}
  MinSizeUnits = 1
  CalmSizes = {1}
  VolatileSizes = {2}
  MarketSizes = {4}
  Prices = {4}
  OtherSizes = {18}
  MaxOthers = 2
  MaxTicks = 1
CHECK_DEADLOCK FALSE
INVARIANTS
  TypeOK
  OnePerCooldown
  TwoSidedAfterTopUp
PROPERTIES
  RefusedOnlyIfDisturbed
  CallersAnswered
