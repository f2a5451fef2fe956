\* Three lots to the whole, so that truncation bites; words of seven bits.
SPECIFICATION Spec
CONSTANTS
  PriceScale = 1
  QuantityScale = 3
  Half = 64
  MaxPrice = 9
  Limits = {1, 2, 5, 7}
  Quantities = {1, 2, 3, 4, 5, 6, 8}
INVARIANTS
  PiecesWithinLock
  AverageIsFair
  PageEntryFair
  NoLossAboveLimit
CHECK_DEADLOCK FALSE
