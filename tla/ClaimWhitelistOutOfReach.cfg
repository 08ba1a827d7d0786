CONSTANTS
  Worker = {w1, w2}
  a = a
  b = b
  x = x
  WhitelistName = wl
  Name <- MCName
  Path <- MCPath
  Root <- MCRoot
  NoPath = NoPath
  Ino <- Numbers
  Obj <- MCObj
  Dir <- MCDir
  RootObj = RootObj
  WhitelistObj = WhitelistObj
  NoObj = NoObj
  f1 = f1
  f2 = f2
  d1 = d1
  d2 = d2
  s1 = s1
  Symlink <- MCLink
  MaxFh = 1
SPECIFICATION MCSpec
SYMMETRY Symmetry
INVARIANT WhitelistOutOfReach
CHECK_DEADLOCK FALSE
