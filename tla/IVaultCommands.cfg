SPECIFICATION Spec
CONSTANTS
  f = f
  g = g
  x = x
  y = y
  hx = hx
  hy = hy
  ht = ht
  sx = sx
  sy = sy
  st = st
  r1 = r1
  r2 = r2
  Torn = Torn
  CutHash = CutHash
  NoFile = NoFile
  NoRow = NoRow
  NoPath = NoPath
  NoVault = NoVault
  NotTold = NotTold
  Path = {f, g}
  Skipped = {}
  Content = {x, y}
  HashId <- MCHashId
  Hash <- MCHash
  SizeId = {sx, sy, st}
  SizeOf <- MCSizeOf
  Proc = {r1, r2}
  AutoFlags = {"restore", "prune"}
  MaxVault = 2
  MaxCommands = 2
  MaxTroubles = 1
SYMMETRY Symmetry
INVARIANTS
  TypeOK
  SealTold
  VerifyTold
  RestoreTold
  PruneTold
  RecoverTold
  DiffTold
  ListTold
  AuditTold
CHECK_DEADLOCK FALSE
