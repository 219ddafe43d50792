SPECIFICATION Spec
CONSTANTS
  a = a
  b = b
  x = x
  y = y
  hx = hx
  hy = hy
  hp = hp
  g = g
  NoAsset = NoAsset
  Partial = Partial
  NoFile = NoFile
  NoHash = NoHash
  Missing = Missing
  Broken = Broken
  Asset = {a}
  Unlisted = {}
  Content = {x, y}
  Digest = {hx, hy, hp}
  Hash <- MCHash
  Tag = {g}
  Daemon = FALSE
  Script <- Shell
  Button = {}
  Gui = FALSE
  Crashes = FALSE
  Faults = FALSE
  QueueMax = 2
  BufferMax = 2
  MaxRows = 4
  MaxEdits = 1
  MaxSaves = 0
  MaxRuns = 3
PROPERTIES
  CreatesOnly
CHECK_DEADLOCK FALSE
