SPECIFICATION FairSpec
CONSTANTS
  c1 = c1
  c2 = c2
  p1 = p1
  p2 = p2
  None = None
  Cabs = {c1, c2}
  Packs = {p1, p2}
  Home <- MCHome
  OddMax = 2
  SwapMax = 2
  EventMax = 1
  WriteMax = 2
  Prompt = TRUE
INVARIANTS OwnTimers QuietExchange
PROPERTIES  GivenBackOnlyCut  ExchangeEnds
