\* Two requests of one user at a time, statement by statement: one tab moves money
\* and places orders, the other places, cancels and reloads the order page.
SPECIFICATION Spec
CONSTANTS
  t1 = t1
  t2 = t2
  Threads = {t1, t2}
  Kinds <- TwoTabs
  MaxRows = 2
  MaxOthers = 1
  Prices = {3}
  Sizes = {1}
  Scale = 1
  Amount = 3
  MaxBalance = 3
  MaxCrashes = 0
  MaxFailures = 1
  PageLimit = 2
INVARIANTS
  WalletNonNegative
  NoDoubleReserve
CHECK_DEADLOCK FALSE
