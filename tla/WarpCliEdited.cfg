SPECIFICATION CliSpec
CONSTANTS
  Procs = {p1, p2}
  NoProc = NoProc
  Inodes = {i1, i2, i3}
  NoInode = NoInode
  Versions = {good, bad}
  Valid = {good}
  Factory = Factory
  Stopped = Stopped
  Nothing = Nothing
  Services = 2
  MaxEdits = 1
  MaxRevs = 2
INVARIANT
  StoredIsApplied
