SPECIFICATION Spec
CONSTANTS
  BOARD_ROWS = 3
  BOARD_COLS = 5
  WINNING_LENGTH = 3
  Players = {p1, p2}
  NoPlayer = NoPlayer
  MAX_JOIN_QUEUE = 1
  First = p1
  Second = p2
VIEW GameOnly
INVARIANTS
  TypeOK
  OutcomeMatchesBoard
  Gravity
  TurnsAlternate
PROPERTIES
  AnswerNamesOutcome
  OneDiscPerMove
CHECK_DEADLOCK FALSE
