SPECIFICATION Spec
CONSTANTS
  PriceScale = 10
  QuantityScale = 10
  Half = 128
  MaxPrice = 10
  Limits = {1, 10, 50, 100}
  Quantities = {1, 5, 10}
INVARIANTS
  NotionalIsExact
CHECK_DEADLOCK FALSE
