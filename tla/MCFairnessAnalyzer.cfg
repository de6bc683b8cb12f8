CONSTANTS
  bot = bot
  user = user
  Traders <- MCTraders
  NoTrader = NoTrader
  MaxOrders = 3
  MaxQuantity = 2
  MaxClock = 2
  ttl_ns = 1
  TwoTo64 = 64
SPECIFICATION Spec
INVARIANTS TypeOK FillsWithinOrders ReportSound FreshOrdersTracked
SYMMETRY MCSymmetry
CHECK_DEADLOCK FALSE
