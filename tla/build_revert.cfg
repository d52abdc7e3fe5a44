\* A failed rebuild of a base, then the old definition again.
SPECIFICATION Spec
CONSTANTS
  base = base  tool = tool  side = side  app = app
  focal = focal  jammy = jammy  rootfs = rootfs
  None = None  Empty = Empty  Bogus = Bogus
  Layers = {base, app}
  Order <- PairOrder
  From <- PairFrom
  BuildOnly = {}
  Binds = {}
  ImportKind <- NoImports
  Image <- Scratch
  TagOf <- NoTags
  Tars = {}
  Pushed = {}
  BaseType = "tar"
  Types = {"tar"}
  TypeChoices <- Tar
  Versions = {1, 2}
  Idle = {}
  Faults = {"run"}
  MaxRuns = 3
CHECK_DEADLOCK FALSE
INVARIANT ImagesFresh
