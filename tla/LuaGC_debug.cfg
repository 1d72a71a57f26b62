CONSTANTS
  Tables = {t1}
  Weaks = {}
  Udata = {}
  Funcs = {f1, f2}
  Upvals = {v1}
  Threads = {main}
  Strs = {}
  Main = main
  Depth <- MCDepth
  MaxRefs = 0
  Nil = nil
SPECIFICATION DebugSpec
INVARIANTS
  NothingDeadInReach
