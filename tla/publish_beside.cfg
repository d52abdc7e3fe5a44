\* Builds and publishes of an image on a build-only base, in any overlap.
SPECIFICATION Spec
CONSTANTS
  base = base  app = app
  None = None  Cut = Cut  Garbled = Garbled
  Layers = {base, app}
  Order <- PairOrder
  From <- PairFrom
  BuildOnly = {base}
  Versions = {1, 2}
  Types = {"tar", "squashfs"}
  TypeChoices <- AnyTypes
  Wants <- AllOrBase
  Modes = {"plain", "force", "show", "untagged", "badUrl"}
  Faults = {"build", "publish", "copy"}
  MaxBuilds = 2
  MaxPublishes = 1
CHECK_DEADLOCK FALSE
INVARIANTS TypeOK PublishedIsFresh RunningBuildUnharmed UnreadableIsExplained
