\* One request at a time, no failure: a withdrawal while an order is open.
SPECIFICATION Spec
CONSTANTS
  t1 = t1
  t2 = t2
  Threads = {t1}
  Kinds <- Withdrawing
  MaxRows = 1
  MaxOthers = 0
  Prices = {3}
  Sizes = {1}
  Scale = 1
  Amount = 3
  MaxBalance = 3
  MaxCrashes = 0
  MaxFailures = 0
  PageLimit = 2
INVARIANTS
  FundsReserved
