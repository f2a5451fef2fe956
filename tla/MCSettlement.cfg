\* One request at a time, a restart between any two of its statements, and every
\* order kind; two rows, so that one order's settlement can spoil another's.
SPECIFICATION Spec
CONSTANTS
  t1 = t1
  t2 = t2
  Threads = {t1}
  Kinds <- Everything
  MaxRows = 2
  MaxOthers = 1
  Prices = {3, 4}
  Sizes = {1, 2}
  Scale = 2
  Amount = 4
  MaxBalance = 4
  MaxCrashes = 1
  MaxFailures = 0
  PageLimit = 2
INVARIANTS
  LocksCoverOpenOrders
  FundsReserved
  NeverOvercharged
  FilledIsReal
  RestingIsCancellable
