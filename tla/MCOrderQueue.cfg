CONSTANTS
  bot = bot
  stdin = stdin
  Engine = engine
  a = a
  b = b
  Producers <- MCProducers
  Payloads <- MCPayloads
  capacity = 3
  MaxClock = 1
SPECIFICATION Spec
INVARIANTS TypeOK StampsInOrder
PROPERTY FifoKept
