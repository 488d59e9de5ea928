SPECIFICATION TreesSpec
CONSTANTS
  Pkg <- Diamond
  Path = {f}
  Data <- Contents
  Deps <- DiamondDeps
  Below <- DiamondBelow
  ByName <- Names
  Ops <- OnlyCreate
  MaxOps = 1
  Absent = Absent
  Rootfs = Rootfs
  Nothing = Nothing
INVARIANT RebuiltComplete
CHECK_DEADLOCK FALSE
