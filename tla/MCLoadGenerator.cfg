CONSTANTS
  stdin_reader = stdin_reader
  reporter_loop = reporter_loop
  Printers <- MCPrinters
  Pieces = 2
  Profiles <- MCProfiles
  QueueSize = 1
  MaxBurst = 2
  MaxGenerated = 2
  MaxStarts = 2
SPECIFICATION FairSpec
INVARIANTS
  TypeOK EveryOrderAccounted NoThreadLeftBehind PrintersKeptApart
PROPERTY StopReturns
