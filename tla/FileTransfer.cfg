SPECIFICATION FairSpec
CONSTANTS
    a = a
    b = b
    Blocks <- TwoBlocks
    Size = 2
    MaxEdits = 1
    MaxQueue = 1
    Directions <- Both
    Editable <- LocalEdits
    AutoResume = TRUE
    Missing = Missing
    NoJob = NoJob
    Old = Old
INVARIANTS
  FinalIsAVersion
PROPERTIES
  ReportsAreTrue
  BusyEnds
