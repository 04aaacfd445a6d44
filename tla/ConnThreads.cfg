SPECIFICATION Spec
CONSTANTS
  MAX_PLAYERS = 2
  MsgLen = 2
  StallLimit = 1
  MaxConnections = 3
  MaxDescriptors = 2
  MaxCalls = 1
  Main = Main
  Nobody = Nobody
INVARIANTS
  TypeOK
  NoCircularWait
  LinesKeptApart
  DescriptorIsOwn
VIEW WithoutRegistration
