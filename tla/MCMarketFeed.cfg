\* Two browsers and three price lists through a channel of two.
SPECIFICATION FairMarketSpec
CONSTANTS
  Browsers = {c1, c2}
  PriceBuffer = 2
  MaxQuotes = 3
INVARIANTS
  SendsOnlyToOpen
PROPERTIES
  MarketsStayCurrent
