CONSTANTS
  AreaSize = 1
  MaxAreas = 2
  Nil = Nil
  Cur = Cur
  loop = loop
  call = call
  fun = fun
  return = return
  pt1 = pt1
  pt2 = pt2
  Worlds <- MCWorlds
SPECIFICATION FairSpec
INVARIANTS
  TypeOK
  PatchedIsCompiled
  InUseIsKept
  IdleIsClean
PROPERTIES
  TransactsCode
  AsmEnds
