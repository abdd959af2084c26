SPECIFICATION Spec
CONSTANTS
  SentenceMax = 4
  Body <- FixOrNot
  NodeCount = 2
  LineMax = 3
  Chunk <- Chunks
  Boards <- OnePort
PROPERTIES
  OverlongLineDropped
