SPECIFICATION Spec
CONSTANTS
  MaxIds = 3
  Limit = 2
  Chunks = {"chunk"}
  MaxCalls = 2
  MaxSignals = 3
  Entries <- MCEntries
INVARIANTS
  TerminalsAgree
  OutputBeforeClosed
CHECK_DEADLOCK FALSE
