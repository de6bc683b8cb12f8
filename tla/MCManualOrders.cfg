CONSTANTS
  alice = alice
  bob = bob
  Clients <- MCTwoClients
  Kinds <- MCReadable
  MaxCommands = 2
  MaxTrades = 1
  MaxSockets = 2
  MaxLogouts = 1
  MaxSpoiled = 1
  MaxRows = 1
  WhiteSpace = 0
  QueueSize = 1
SPECIFICATION Spec
INVARIANTS
  TypeOK AnswersPaired WorkingSocketsListed FillsRoutable RowsTruthful FillsFindTheirRow
SYMMETRY MCSymmetry
CHECK_DEADLOCK FALSE
