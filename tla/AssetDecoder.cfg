CONSTANTS
  Word = 128
  Heap = 55
  FileSizes <- MCFileSizes
  Trailers <- MCTrailers
SPECIFICATION Spec
INVARIANTS
  TypeOK
  ReturnsLayout
  WellFormedNeverAborts
  MalformedNeverReturns
PROPERTIES
  Terminates
