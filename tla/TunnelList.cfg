SPECIFICATION Spec
CONSTANTS
  s1 = s1
  s2 = s2
  plain = plain
  secret = secret
  Sessions = {s1, s2}
  Tunnels = {plain, secret}
  Home <- MCHome
  Auth = {secret}
  NoSession = NoSession
  NoTunnel = NoTunnel
  MaxReads = 1
  MaxCopies = 2
  Edited = {secret}
  MaxBacklog = 1
INVARIANTS
  ListeningIsTrueOrCorrected
  StrayOnlyByStaleAnswer
PROPERTIES
  EnabledIsStarted
CHECK_DEADLOCK FALSE
