SPECIFICATION Spec
CONSTANTS
  c1 = c1
  c2 = c2
  Package <- Packages
  Closure <- Closures
  Refs <- References
  KeepAll <- Second
  Version <- Values
  Initial = 0
  Nonce <- Values
  Same = 0
  Client <- Clients
  MaxBuilds = 2
  Settings <- Both
  None = None
INVARIANTS TypeOK NarrowRebuild
PROPERTY RefinesCleanBuild
SYMMETRY Interchangeable
CHECK_DEADLOCK FALSE
