\* Every input of up to six bytes, read in pieces of any size; calls return.
SPECIFICATION FairSpec
CONSTANTS
  a = a  b = b  c = c  None = None
  Byte = {a, b, c}
  Cap = 3
  MaxInput = 6
  Inputs <- SmallInputs
  Counts = {1, 2, 4}
  Targets <- SomeTargets
  Strings <- SomeStrings
  ShortReads = TRUE
INVARIANTS TypeOK CacheMirrors NeverStarves CopiesExactly
PROPERTY CallsReturn
