CONSTANTS
  Nil = nil
  NoKey = nokey
  s1 = s1
  s2 = s2
  s3 = s3
  s4 = s4
  n1 = n1
  n2 = n2
  n3 = n3
  a1 = a1
  a2 = a2
  a3 = a3
  Strings = {s1, s2, s3, s4}
  Addresses = {a1, a2, a3}
  Numbers = {n1, n2, n3}
  Worlds <- ResurrectedOnly
SPECIFICATION Spec
INVARIANT Chained
CHECK_DEADLOCK FALSE
