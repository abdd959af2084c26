SPECIFICATION Spec
CONSTANTS
  SentenceMax = 5
  Body <- Bodies
  NodeCount = 2
  LineMax = 3
  Chunk <- Chunks
  Boards <- OnePort
VIEW View
INVARIANTS
  SampleIsHeard
  AltitudeKept
  OkMeansFix
  RestartKeepsConfig
  IdentitySound
PROPERTIES
  FittingLineWhole
