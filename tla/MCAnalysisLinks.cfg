SPECIFICATION Spec
CONSTANTS
  Package <- MCPackage
  Dir <- MCDir
  Link <- MCLink
  DirOf <- MCDirOf
  LinksOf <- MCLinksOf
  Replaceable <- MCReplaceable
  Graphs <- MCGraphs
  None = None
INVARIANT OthersUnchanged
CHECK_DEADLOCK FALSE
