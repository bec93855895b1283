\* Violated: a metadata file without the first field that is looked for.
SPECIFICATION Spec
CONSTANTS
  vx = vx  vy = vy  None = None
  Octet <- OctetValues
  One = 7
  BlockSize = 4
  LengthAt = 2
  OctetBits = 2
  Word = 4
  Obj = {1, 2, 3, 4, 5, 6, 7, 8, 9, 10}
  Var = {"meta", "tmp", "raw"}
  Value = {vx, vy}
  MaxItems = 2
  Handle = {"rand", "in", "out"}
  Fd = {3, 4, 5}
  DiskFull = TRUE
  Pages <- SomePages
  FirstMeta <- SomeMeta
  Buf = 7
  FreeVars = {"meta", "tmp"}
  FreeHandles = {"in", "out"}
  FreeKeys = {"name"}
  FreeChunks <- SomeChunks
  MaxMessage = 8
  MaxFile = 3
  MaxLive = 3
  MaxRequests = 2
INVARIANT FieldsRead
CHECK_DEADLOCK FALSE
