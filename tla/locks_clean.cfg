\* One clean, a build, a --no-cache build and a build with an unknown storage
\* type in one roots dir, with two stacker dirs between them.
SPECIFICATION Spec
CONSTANTS
  p1 = p1  p2 = p2  p3 = p3  p4 = p4
  s1 = s1  s2 = s2  r1 = r1  r2 = r2
  None = None
  Procs = {p1, p2, p3, p4}
  StackerDirs = {s1, s2}
  RootsDirs = {r1, r2}
  Inodes = {i1, i2, i3, i4, i5}
  SDir <- TwoSDirs
  RDir <- OneRDir
  StorageType <- P4Other
  Cmd <- CleanNoCacheCmd
  MaxRuns <- Once
SYMMETRY InodeSymmetry
CHECK_DEADLOCK FALSE
INVARIANTS TypeOK NoStaleLock
PROPERTY CleanAlone
