\* Builders that share one directory of two.
SPECIFICATION Spec
CONSTANTS
  p1 = p1  p2 = p2  p3 = p3  p4 = p4
  s1 = s1  s2 = s2  r1 = r1  r2 = r2
  None = None
  Procs = {p1, p2, p3}
  StackerDirs = {s1, s2}
  RootsDirs = {r1, r2}
  Inodes = {i1, i2, i3, i4}
  SDir <- CrossedSDir
  RDir <- CrossedRDir
  StorageType <- AllOverlay
  Cmd <- GrabCmd
  MaxRuns <- Twice
SYMMETRY InodeSymmetry
CHECK_DEADLOCK FALSE
INVARIANTS RootsExclusion StackerExclusion
PROPERTY LockedMeansBusy
