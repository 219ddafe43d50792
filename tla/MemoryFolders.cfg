SPECIFICATION Spec
CONSTANTS
  w1 = w1
  w2 = w2
  f1 = f1
  f2 = f2
  k1 = k1
  k2 = k2
  tags = tags
  note = note
  x = x
  y = y
  Broken = Broken
  Default = Default
  NoFile = NoFile
  Nothing = Nothing
  Lost = Lost
  NoInode = NoInode
  Copies = {1, 2, 3}
  File = {f1, f2}
  Key = {k1, k2}
  Field = {tags, note}
  Value = {x, y}
  Before <- MCBefore
  Offer <- Offers
  Writer = {w1, w2}
  KeyOf <- OwnKeys
  Folder <- Folders
  Shadows <- XIsNote
  MaxUpdates = 2
  MaxPushes = 1
  MaxTroubles = 1
SYMMETRY Symmetry
INVARIANTS
  TypeOK
  DocsWhole
  AcksKept
  FolderTold
  
PROPERTY
  AnnotatesAtOnce
CHECK_DEADLOCK FALSE
