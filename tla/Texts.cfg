SPECIFICATION Spec
CONSTANTS
  Size = 10
  Case <- Cases
INVARIANTS
  JsonTold
  WrittenTold
  RowTold
  ManifestTold
CHECK_DEADLOCK FALSE
