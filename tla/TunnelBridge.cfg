SPECIFICATION BridgeSpec
CONSTANTS
  MaxBridges = 2
  Kinds = {"local", "dynamic", "remote", "agent"}
  MaxUp = 1
  MaxDown = 1
INVARIANTS
  ResponseIsComplete
  OneDeferredClose
  UpstreamInOrder
PROPERTIES
  EndedIsReleased
CHECK_DEADLOCK FALSE
