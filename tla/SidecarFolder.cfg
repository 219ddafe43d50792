SPECIFICATION Spec
CONSTANTS
  a = a
  b = b
  x = x
  y = y
  hx = hx
  hy = hy
  hp = hp
  g = g
  NoAsset = NoAsset
  Partial = Partial
  NoFile = NoFile
  NoHash = NoHash
  Missing = Missing
  Broken = Broken
  Asset = {a}
  Unlisted = {}
  Content = {x, y}
  Digest = {hx, hy, hp}
  Hash <- MCHash
  Tag = {g}
  Daemon = TRUE
  Script <- ByHand
  Button <- Buttons
  Gui = TRUE
  Crashes = TRUE
  Faults = TRUE
  QueueMax = 2
  BufferMax = 1
  MaxRows = 1
  MaxEdits = 2
  MaxSaves = 1
  MaxRuns = 2
INVARIANTS
  SidecarsCurrent
  TagsKept
CHECK_DEADLOCK FALSE
