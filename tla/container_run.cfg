\* Every kind of command, with signals at any moment and failures anywhere.
SPECIFICATION Spec
CONSTANTS
  None = None
  Scripts <- AllScripts
  Signals = {"INT", "TERM", "CHLD"}
  Cap = 2
  MaxSignals = 3
  MaxChunks = 2
  Faults = {"snapshot", "setup", "spawn", "exit"}
CHECK_DEADLOCK FALSE
INVARIANTS TypeOK NoStrayKill NothingLeftBehind NoFailureForgotten
PROPERTY ExecuteReturns
