\* Two callers with up to two trades each, and one trade stream that may fill up.
SPECIFICATION Spec
CONSTANTS
  Callers = {k1, k2}
  BookClients = {}
  TradeClients = {c1}
  Buffer = 2
  MaxRecent = 2
  MaxCalls = 3
  MaxTrades = 2
INVARIANTS
  StoreIsRecent
  TradesInOrder
  NoTradeMissed
