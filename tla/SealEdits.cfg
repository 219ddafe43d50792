SPECIFICATION Spec
CONSTANTS
  a = a
  b = b
  t = t
  x = x
  y = y
  hx = hx
  hy = hy
  ht = ht
  Torn = Torn
  CutHash = CutHash
  NoFile = NoFile
  NoRow = NoRow
  Special = Special
  NoPath = NoPath
  NoManifest = NoManifest
  NoImage = NoImage
  Content = {x, y}
  Path = {a, b}
  Skipped = {}
  HashId <- MCHashId
  Hash <- MCHash
  OneSealPerSecond = FALSE
  EditsDuringSeal = TRUE
  IOFaults = TRUE
  UnseenFaults = TRUE
  Crashes = TRUE
  MaxStamp = 1
SYMMETRY Symmetry
INVARIANTS
  TypeOK
  SealedCovers
  SealedRestores
  NoRowInvented
CHECK_DEADLOCK FALSE
