SPECIFICATION Spec
CONSTANTS
  Package <- MCPackage
  Dir <- MCDir
  Link <- MCLink
  DirOf <- MCDirOf
  LinksOf <- MCLinksOf
  Replaceable <- MCReplaceable
  Graphs <- MCGraphs
  None = None
INVARIANT ClosureNeverMixed
CHECK_DEADLOCK FALSE
