CONSTANTS
  Tables = {t1}
  Weaks = {w1}
  Udata = {u1}
  Funcs = {}
  Upvals = {}
  Threads = {main}
  Strs = {}
  Main = main
  Depth <- MCDepth
  MaxRefs = 1
  Nil = nil
SPECIFICATION Spec
INVARIANTS
  ReachableIsKept
  TriColor
PROPERTIES
  FinalizedFirst
  FinalizedOnce
