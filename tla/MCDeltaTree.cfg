SPECIFICATION TreesSpec
CONSTANTS
  Pkg <- Diamond
  Path = {f}
  Data <- Contents
  Deps <- DiamondDeps
  Below <- DiamondBelow
  ByName <- Names
  Ops <- AllOps
  MaxOps = 1
  Absent = Absent
  Rootfs = Rootfs
  Nothing = Nothing
INVARIANTS TreesTypeOK Rebuilt LostOnlyIfDisputed OnlyOwnWork
CHECK_DEADLOCK FALSE
