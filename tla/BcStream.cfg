\* After an error the reader stops.
CHECK_DEADLOCK FALSE
CONSTANTS
  N = 6
  Lens = {1, 2, 4, 9}
  ChunkMax = 3
  MinBuf = 1
  MaxBuf = 8
SPECIFICATION Spec
INVARIANTS
  TypeOK
  WindowLive
  WindowIsFile
PROPERTIES
  ReadsStream
  FillEnds
