CONSTANTS
  Reports <- MCReports
  Names <- MCNames
  Passwords <- MCPasswords
  Short <- MCShort
  MaxUsers = 2
  MaxSockets = 3
  MAX_STREAM_ROWS = 2
  MaxBots = 2
  MaxStream = 4
SPECIFICATION FairSpec
INVARIANTS
  TypeOK OneAccountPerName LiveSocketIsTheScreens LiveIsHonest PanelIsOfOneReport
  StreamIsOfTheLatest
PROPERTIES BarsKeepTheirPlaces GoesDark
CHECK_DEADLOCK FALSE
