\* Two calls of Unpack, the second after any fault of the first.
SPECIFICATION FairSpec
CONSTANTS
  a = a  b = b  c = c
  None = None
  Digests = {a, b, c}
  Images <- MCImages
  Media <- AllMedia
  Workers = {w1, w2}
  Cap = 3
  Faults = {"kill", "rmfail", "fsdirty"}
  MaxRuns = 2
CHECK_DEADLOCK FALSE
INVARIANTS OneWorkerPerDir UnpackedMeansPopulated
PROPERTY Termination
