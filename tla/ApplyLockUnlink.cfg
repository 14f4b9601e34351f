SPECIFICATION LockSpec
CONSTANTS
  Procs = {p1, p2, p3}
  NoProc = NoProc
  Inodes = {i1, i2, i3, i4}
  NoInode = NoInode
INVARIANT
  OneApplyAtATime
