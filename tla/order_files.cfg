\* Four files, some with prerequisites, all choices of bases, unusable and repeated
\* names.
SPECIFICATION FairSpec
CONSTANTS
  f1 = f1  f2 = f2  f3 = f3  f4 = f4
  a = a  b = b  c = c  d = d  e = e  g = g  none = none  colon = colon  ghost = ghost
  None = None
  Files = {f1, f2, f3, f4}
  Layers = {a, b, c, d, e, g, none, colon, ghost}
  Paths <- ThreePaths
  Prereqs <- Diamond
  FileOrders <- DiamondOrders
  Bases <- SomeBases
  StackerImports <- SomeImports
  Baseless = {none}
  Colons = {colon}
  NoCache = FALSE
  MaxDepth = 4
CHECK_DEADLOCK FALSE
INVARIANTS TypeOK DepsBuiltFirst EachBuiltOnce FailureIsJustified
PROPERTY Termination
