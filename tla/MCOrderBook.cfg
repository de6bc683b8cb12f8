CONSTANTS
  MaxPrice = 3
  UINT64_MAX = 9
  PoolSize = 3
  MaxOrders = 5
  Prices <- MCPrices
  Quantities <- MCQuantities
SPECIFICATION FairSpec
INVARIANTS TypeOK BestQuotesExact NeverCrossed PoolAccounting QuantityConserved
PROPERTIES PriceTimePriorityKept CallReturns
CHECK_DEADLOCK FALSE
