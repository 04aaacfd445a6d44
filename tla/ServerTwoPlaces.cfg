SPECIFICATION Spec
CONSTANTS
  BOARD_ROWS = 1
  BOARD_COLS = 3
  WINNING_LENGTH = 2
  Players = {p1, p2}
  NoPlayer = NoPlayer
  MAX_JOIN_QUEUE = 1
  MAX_MATCHES = 2
VIEW WithoutRegistration
INVARIANT OnePlaceAtATime
