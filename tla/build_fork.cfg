\* Edits between builds of two images on one build-only base.
SPECIFICATION Spec
CONSTANTS
  base = base  tool = tool  side = side  app = app
  focal = focal  jammy = jammy  rootfs = rootfs
  None = None  Empty = Empty  Bogus = Bogus
  Layers = {base, tool, side, app}
  Order <- ForkOrder
  From <- ForkFrom
  BuildOnly = {tool}
  Binds = {app}
  ImportKind <- ForkInputs
  Image <- FocalToTarball
  TagOf <- MixedTags
  Tars = {rootfs}
  Pushed = {focal}
  BaseType = "tar"
  Types = {"tar", "squashfs"}
  TypeChoices <- Both
  Versions = {1, 2}
  Idle = {2}
  Faults = {}
  MaxRuns = 2
CHECK_DEADLOCK FALSE
INVARIANTS TypeOK ImagesFresh NoSpuriousFailure
