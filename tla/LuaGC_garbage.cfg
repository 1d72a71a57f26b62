CONSTANTS
  Tables = {t1}
  Weaks = {}
  Udata = {u1}
  Funcs = {}
  Upvals = {}
  Threads = {main}
  Strs = {s1}
  Main = main
  Depth <- MCDepth
  MaxRefs = 1
  Nil = nil
SPECIFICATION FairSpec
INVARIANTS
  ReachableIsKept
PROPERTIES
  GarbageIsFreed
