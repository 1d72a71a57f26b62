\* The block is decoded when the sum is zero, and then there is no next step.
CHECK_DEADLOCK FALSE
CONSTANTS
  WordBits = 6
  BitXor <- MCXor
  Plains <- MCPlains
  Offsets = {16, 48}
SPECIFICATION CipherSpec
INVARIANTS
  Recovers
