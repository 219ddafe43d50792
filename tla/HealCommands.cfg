SPECIFICATION Spec
CONSTANTS
  a = a
  d = d
  g = g
  x = x
  y = y
  hx = hx
  hy = hy
  ht = ht
  Torn = Torn
  CutHash = CutHash
  NoFile = NoFile
  NoRow = NoRow
  NoPath = NoPath
  Dir = Dir
  Link = Link
  Path <- MCPath
  Above <- MCAbove
  Content = {x, y}
  HashId <- MCHashId
  Hash <- MCHash
  Outsides <- MCOutsides
  UserNodes <- AnyNode
  Skipped = {}
  VaultIntact = FALSE
  CrossDevice = FALSE
  FreshSecond = TRUE
  Crashes = TRUE
  MaxStamp = 2
  MaxEdits = 2
  MaxFaults = 1
INVARIANTS
  TypeOK
  VerifyTruth
  RestoreTruth
  PruneTruth
  QuarantineKeeps
CHECK_DEADLOCK FALSE
