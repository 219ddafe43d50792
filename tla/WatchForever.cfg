SPECIFICATION FairWatch
CONSTANTS
  a = a
  d = d
  g = g
  x = x
  y = y
  hx = hx
  hy = hy
  ht = ht
  Torn = Torn
  CutHash = CutHash
  NoFile = NoFile
  NoRow = NoRow
  NoPath = NoPath
  Dir = Dir
  Link = Link
  Path <- MCPath
  Above <- MCAbove
  Content = {x, y}
  HashId <- MCHashId
  Hash <- MCHash
  Outsides <- MCOutsides
  UserNodes <- AnyNode
  Skipped = {}
  VaultIntact = TRUE
  DeleteMode = FALSE
  CrossDevice = FALSE
  FreshSecond = FALSE
  Crashes = FALSE
  MaxStamp = 4
  MaxEdits = 2
  MaxFaults = 1
  AutoRestore = TRUE
  AutoPrune = TRUE
  Cycles = 0
INVARIANTS
  WatchTypeOK
  QuarantineKeeps
PROPERTIES
  WatchHeals
CHECK_DEADLOCK FALSE
