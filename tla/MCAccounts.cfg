\* Two requests overlap; the tokens run out, so a request may wait for ever.
SPECIFICATION Spec
SYMMETRY Symmetry
CONSTANTS
  Emails = {e1, e2}
  Browsers = {b1}
  Requests = {t1, t2}
  MaxTokens = 3
  MaxFaults = 1
CHECK_DEADLOCK FALSE
INVARIANTS
  SessionIsEarned
  RenewedStaysGone
  WalletUnlessCut
