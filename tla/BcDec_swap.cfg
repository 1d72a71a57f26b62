CONSTANTS
  n1 = n1
  n2 = n2
  o1 = o1
  o2 = o2
  DigitBits = 3
  WordBits = 8
  UlebMax = 3
  IntHi = 250
  Mask = 9
  Modulus = 15
  Esc = 11
  Magic <- MCMagic
  StockMagic <- MCStockMagic
  Sources <- MCSources
  BitXor <- MCXor
  OutName <- MCOutName
  Dumps <- SwappedDumps
  Directories <- MCDirectories
  Chunks = {4, 7, 200}
SPECIFICATION Spec
INVARIANTS
  LoadedIsDumped
