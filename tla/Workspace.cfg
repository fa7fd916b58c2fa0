SPECIFICATION WorkspaceSpec
CONSTANTS
  a = a
  b = b
  Conns = {a, b}
  Auth <- MCAuth
  Gateway <- MCGateway
  MaxPending = 2
  MaxLaunches = 2
INVARIANTS
  RestoreMovesOn
  OwnSecrets
  LayoutsComeBack
  SavedIsCurrent
CHECK_DEADLOCK FALSE
