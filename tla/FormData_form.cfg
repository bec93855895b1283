\* Forms of up to two parts, forms cut short and other texts.
SPECIFICATION FairFormSpec
CONSTANTS
  CR = CR  LF = LF  Dash = Dash  B = B  fn = fn  h = h  x = x  None = None
  Byte <- Bytes
  Boundary <- OneByte
  FileNames = {fn}
  SinkCap = 6
  Forms <- SomeForms
  Cap = 7
  Inputs <- SomeInputs
  Counts = {2}
  Targets = {}
  Strings <- FormStrings
  ShortReads = FALSE
INVARIANTS FormTypeOK OnlyForms SavedInOrder CleanFound
PROPERTY SaveEnds
CHECK_DEADLOCK FALSE
