SPECIFICATION FairSpec
CONSTANTS
    MaxWorkers = 2
    AutoReconnect = TRUE
INVARIANTS
    NobodyIsForgotten
PROPERTIES
    ConnectingEnds
    AbandonedEndOrAsk
    TrustedIsShown
CHECK_DEADLOCK FALSE
