SPECIFICATION Spec
CONSTANTS
  a = a
  d = d
  g = g
  x = x
  y = y
  hx = hx
  hy = hy
  ht = ht
  Torn = Torn
  CutHash = CutHash
  NoFile = NoFile
  NoRow = NoRow
  NoPath = NoPath
  Dir = Dir
  Link = Link
  Path <- MCPath
  Above <- MCAbove
  Content = {x, y}
  HashId <- MCHashId
  Hash <- MCHash
  Outsides <- MCOutsides
  UserNodes <- Files
  Skipped = {a}
  VaultIntact = TRUE
  CrossDevice = FALSE
  FreshSecond = TRUE
  Crashes = FALSE
  MaxStamp = 1
  MaxEdits = 0
  MaxFaults = 0
INVARIANTS
  SealVerifiesClean
CHECK_DEADLOCK FALSE
