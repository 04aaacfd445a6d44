SPECIFICATION Spec
CONSTANTS
  MAX_PLAYERS = 3
  MsgLen = 1
  StallLimit = 0
  MaxConnections = 3
  MaxDescriptors = 2
  MaxCalls = 1
  Main = Main
  Nobody = Nobody
INVARIANT OneWriter
VIEW WithoutRegistration
