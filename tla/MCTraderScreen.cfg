CONSTANTS
  reliance = reliance
  tcs = tcs
  SYMBOLS <- MCSymbols
  Quotes <- MCQuotes
  Names <- MCNames
  Passwords <- MCPasswords
  Short <- MCShort
  Typed <- MCTyped
  Quantities <- MCQuantities
  MaxUsers = 1
  MaxSockets = 3
  MaxOrderRows = 30
  MaxPlaced = 1
SPECIFICATION Spec
INVARIANTS TypeOK PaneIsCurrent WatchListIsCurrent
CHECK_DEADLOCK FALSE
