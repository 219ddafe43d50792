SPECIFICATION Spec
CONSTANTS
  a = a
  b = b
  t = t
  x = x
  y = y
  hx = hx
  hy = hy
  ht = ht
  Torn = Torn
  CutHash = CutHash
  NoFile = NoFile
  NoRow = NoRow
  Special = Special
  NoPath = NoPath
  NoManifest = NoManifest
  NoImage = NoImage
  Content = {x, y}
  Path = {a, b}
  Skipped = {}
  HashId <- MCHashId
  Hash <- MCHash
  OneSealPerSecond = TRUE
  EditsDuringSeal = FALSE
  IOFaults = TRUE
  UnseenFaults = FALSE
  Crashes = TRUE
  MaxStamp = 2
SYMMETRY Symmetry
PROPERTIES
  SealIsSnapshot
  VaultsStay
CHECK_DEADLOCK FALSE
