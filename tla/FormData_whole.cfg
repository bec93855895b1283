\* The same forms, whatever is in them.
SPECIFICATION FormSpec
CONSTANTS
  CR = CR  LF = LF  Dash = Dash  B = B  fn = fn  h = h  x = x  None = None
  Byte <- Bytes
  Boundary <- OneByte
  FileNames = {fn}
  SinkCap = 6
  Forms <- SomeForms
  Cap = 7
  Inputs <- SomeInputs
  Counts = {2}
  Targets = {}
  Strings <- FormStrings
  ShortReads = FALSE
INVARIANT WholeFile
CHECK_DEADLOCK FALSE
