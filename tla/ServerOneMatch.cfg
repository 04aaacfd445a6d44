SPECIFICATION Spec
CONSTANTS
  BOARD_ROWS = 1
  BOARD_COLS = 4
  WINNING_LENGTH = 2
  Players = {p1, p2, p3, p4, p5}
  NoPlayer = NoPlayer
  MAX_JOIN_QUEUE = 2
  MAX_MATCHES = 1
SYMMETRY Symmetry
VIEW WithoutRegistration
INVARIANTS
  TypeOK
  SeatingSound
  RequestsSound
  ResultMatchesBoard
PROPERTIES
  OpponentIsTold
  LobbyIsTold
  RematchByConsent
  NobodyDropped
  FirstComeFirstDecided
  EveryRequestIsPutToTheCreator
  NoGameComesBack
