SPECIFICATION ProgramSpec
CONSTANTS
  Ids = {"a", "b"}
  Forms <- SomeForms
  Created <- OneAtFirst
  MaxChanges = 4
  Files = {"config", "other"}
  Main = "config"
  Contents <- SmallFiles
  MaxDepth = 16
INVARIANTS
  KeychainFollows
  SessionsFollow
  ListIsTheConfig
CHECK_DEADLOCK FALSE
