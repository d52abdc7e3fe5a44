\* Kills and failing run sections, on a build-only base.
SPECIFICATION Spec
CONSTANTS
  base = base  tool = tool  side = side  app = app
  focal = focal  jammy = jammy  rootfs = rootfs
  None = None  Empty = Empty  Bogus = Bogus
  Layers = {base, app}
  Order <- PairOrder
  From <- PairFrom
  BuildOnly = {base}
  Binds = {}
  ImportKind <- PairInputs
  Image <- FocalToJammy
  TagOf <- UbuntuTags
  Tars = {}
  Pushed = {}
  BaseType = "tar"
  Types = {"tar"}
  TypeChoices <- Tar
  Versions = {1, 2}
  Idle = {}
  Faults = {"run", "kill"}
  MaxRuns = 3
CHECK_DEADLOCK FALSE
INVARIANTS ManifestsUnpacked ColdBuildIsFresh CacheDescribesImage
