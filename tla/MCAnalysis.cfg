SPECIFICATION Spec
CONSTANTS
  Package <- MCPackage
  Dir <- MCDir
  Link <- MCLink
  DirOf <- MCDirOf
  LinksOf <- MCLinksOf
  Replaceable <- MCReplaceable
  Graphs <- AllGraphs
  None = None
INVARIANTS TypeOK TopoOrdered NoDoublePackage ClosureMinimal ViewMatchesClosure WrappedLinksShown
CHECK_DEADLOCK FALSE
