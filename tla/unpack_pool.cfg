\* Two calls of Unpack without faults.
SPECIFICATION Spec
CONSTANTS
  a = a  b = b  c = c
  None = None
  Digests = {a, b, c}
  Images <- MCImages
  Media <- TarAndFs
  Workers = {w1, w2, w3}
  Cap = 2
  Faults = {}
  MaxRuns = 2
CHECK_DEADLOCK FALSE
INVARIANTS TypeOK EmptyOrFull
PROPERTY Implements
