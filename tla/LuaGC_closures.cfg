CONSTANTS
  Tables = {}
  Weaks = {}
  Udata = {}
  Funcs = {f1, f2}
  Upvals = {v1}
  Threads = {main, co}
  Strs = {}
  Main = main
  Depth <- MCDepth
  MaxRefs = 0
  Nil = nil
SPECIFICATION Spec
INVARIANTS
  TypeOK
  ReachableIsKept
  TriColor
  SweptClean
