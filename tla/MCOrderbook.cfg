\* Four placing calls, two prices: every pattern of resting, crossing, walking
\* two levels and sharing one.  The first order is cancelled by its caller's
\* pointer, the others by id.  The bounded behaviour ends, so there is no
\* deadlock check; CallReturns shows that no call gets stuck.
SPECIFICATION FairSpec
CONSTANTS
  MaxOrders = 4
  Prices = {1, 2}
  Sizes = {1, 3}
  ByPointer = {1}
  ById = {2, 3, 4}
CHECK_DEADLOCK FALSE
INVARIANTS
  BookStructure
  NotCrossed
  VolumeIsSum
  MarketAllOrNothing
  FullInv
PROPERTIES
  PriceTimePriority
  EngineSpec
  DepthSpec
  CallReturns
