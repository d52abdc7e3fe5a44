\* Dockerfiles of up to four commands and files written by hand, read by build
\* and by publish.
SPECIFICATION Spec
CONSTANTS
  None = None
  NamePrefixes <- MCPrefixes
  OddNames = {"A+"}
  Commands <- MCCommands
  MaxCommands = 4
  Handwritten <- MCHandwritten
  Options <- MCOptions
  Faults = {"output", "subs"}
CHECK_DEADLOCK FALSE
INVARIANTS TypeOK  NoReferenceLeft PublishReadsWhatWasBuilt
PROPERTY PublishReadEnds
