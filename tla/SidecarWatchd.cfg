SPECIFICATION FairSpec
CONSTANTS
  a = a
  b = b
  x = x
  y = y
  hx = hx
  hy = hy
  hp = hp
  g = g
  NoAsset = NoAsset
  Partial = Partial
  NoFile = NoFile
  NoHash = NoHash
  Missing = Missing
  Broken = Broken
  Asset = {a, b}
  Unlisted = {b}
  Content = {x, y}
  Digest = {hx, hy, hp}
  Hash <- MCHash
  Tag = {g}
  Daemon = TRUE
  Script <- Typed
  Button = {}
  Gui = FALSE
  Crashes = TRUE
  Faults = TRUE
  QueueMax = 2
  BufferMax = 1
  MaxRows = 2
  MaxEdits = 2
  MaxSaves = 0
  MaxRuns = 2
INVARIANTS
  TypeOK
  SidecarsCurrent
  ReportsTold
PROPERTIES
  ToldIsBound
CHECK_DEADLOCK FALSE
