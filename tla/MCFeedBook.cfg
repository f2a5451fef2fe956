\* One caller, one browser on each stream, buffers of one message.
SPECIFICATION FairSpec
CONSTANTS
  Callers = {k1}
  BookClients = {c1}
  TradeClients = {c2}
  Buffer = 1
  MaxRecent = 1
  MaxCalls = 2
  MaxTrades = 1
INVARIANTS
  TypeOK
PROPERTIES
  CallsReturn
  EventuallyCurrent
