CONSTANTS
  alice = alice
  bob = bob
  Clients <- MCTwoClients
  Kinds <- MCGoodOnly
  MaxCommands = 2
  MaxTrades = 1
  MaxSockets = 2
  MaxLogouts = 0
  MaxSpoiled = 0
  MaxRows = 30
  WhiteSpace = 2
  QueueSize = 1
SPECIFICATION Spec
INVARIANT AcksToTheirClient
CHECK_DEADLOCK FALSE
