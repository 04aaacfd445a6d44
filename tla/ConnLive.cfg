SPECIFICATION Spec
CONSTANTS
  MAX_PLAYERS = 2
  MsgLen = 1
  StallLimit = 1
  MaxConnections = 3
  MaxDescriptors = 2
  MaxCalls = 1
  Main = Main
  Nobody = Nobody
PROPERTIES
  RequestsEnd
  LeaversAreMarked
VIEW WithoutRegistration
