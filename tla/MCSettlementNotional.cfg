\* One request at a time: an order filled at a better price than its own.
SPECIFICATION Spec
CONSTANTS
  t1 = t1
  t2 = t2
  Threads = {t1}
  Kinds <- Investing
  MaxRows = 1
  MaxOthers = 2
  Prices = {3, 5}
  Sizes = {1, 2}
  Scale = 1
  Amount = 10
  MaxBalance = 10
  MaxCrashes = 0
  MaxFailures = 0
  PageLimit = 2
INVARIANTS
  FilledNotionalIsValue
