SPECIFICATION PromptSystem
CONSTANTS
  BOARD_ROWS = 1
  BOARD_COLS = 3
  WINNING_LENGTH = 2
  Players = {p1, p2, p3}
  NoPlayer = NoPlayer
  NoMatch = NoMatch
  MAX_JOIN_QUEUE = 1
  MAX_MATCHES = 1
  MaxUnserved = 1
  MaxUnhandled = 1
  MaxDialogs = 2
SYMMETRY Symmetry
VIEW WithoutMessages
CHECK_DEADLOCK FALSE
INVARIANTS
  ClientTypeOK
  NoRequestForgotten
  NobodyWaitsInVain
  ScreensTellTheTruth
