\* Host files, files of layers and URLs in one directory, some with a dest.
SPECIFICATION Spec
CONSTANTS
  bing = bing  google = google  mirror = mirror  host = host  layer = layer
  icon = icon  conf = conf  pem = pem  cert = cert
  None = None
  Sources = {bing, google, mirror, host, layer}
  Kind <- Kinds
  Bases = {icon, conf, pem, cert}
  Base <- Names
  Versions = {1, 2}
  Size <- DistinctSizes
  HashHeader = {bing, google}
  Wants <- MixedWants
  Faults = {"kill", "get", "cut", "build"}
  MaxRuns = 3
CHECK_DEADLOCK FALSE
INVARIANTS TypeOK ImportsFresh HashHonoured
