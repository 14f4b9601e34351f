SPECIFICATION StoreSpec
CONSTANTS
  Contents = {v1, v2}
  Missing = Missing
  Torn = Torn
  NoId = NoId
  TicksPerSecond = 2
  MaxClock = 3
  MaxSuffix = 2
  MaxStepBacks = 1
INVARIANTS
  ListedComplete
  CurrentListed
  PreviousPrecedes
PROPERTIES
  RevisionsImmutable
  ImplementsLog
SYMMETRY ContentSymmetry
