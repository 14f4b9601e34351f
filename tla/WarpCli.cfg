SPECIFICATION CliSpec
CONSTANTS
  Procs = {p1, p2}
  NoProc = NoProc
  Inodes = {i1, i2, i3}
  NoInode = NoInode
  Versions = {good, better, bad}
  Valid = {good, better}
  Factory = Factory
  Stopped = Stopped
  Nothing = Nothing
  Services = 2
  MaxEdits = 2
  MaxRevs = 3
INVARIANTS
  LockInv
  ExclusiveUnlessStrayed
  LastRevisionIsLive
  OnlyValidatedRuns
  RollbackTargetsPrevious
PROPERTY
  CommandsAreSerial
SYMMETRY CliSymmetry
