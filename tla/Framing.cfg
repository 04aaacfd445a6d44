SPECIFICATION Spec
CONSTANTS
  CHUNK = 3
  BUFSIZE = 7
  NL = NL
  x = x
  y = y
  Bytes = {x, y}
  Lines <- AllLines
  Complaints <- Complaining
  Untyped <- Blank
  MaxLines = 3
INVARIANTS
  TypeOK
  BufferFits
  ShortLinesNeverRefused
PROPERTIES
  LinesWholeInOrder
  ImplementsLineChannel
  DisconnectionNoticed
