\* Pages of up to three pieces, pages cut short and short texts of any shape.
SPECIFICATION FairFilterSpec
CONSTANTS
  LT = LT  GT = GT  Space = Space  NewLine = NewLine  Slash = Slash
  Bang = Bang  Dash = Dash  p = p  s = s  x = x  z = z  None = None
  Byte <- Bytes
  WhiteList <- GoodNames
  SinkCap = 4
  Documents <- Pages
  Marker = z
  Cap = 12
  Inputs <- SomeInputs
  Counts = {1}
  Targets <- SomeTargets
  Strings <- SomeStrings
  ShortReads = FALSE
INVARIANTS FilterTypeOK PageFiltered OnlyGoodTags
PROPERTY ParseEnds
CHECK_DEADLOCK FALSE
