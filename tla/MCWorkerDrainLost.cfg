SPECIFICATION Spec
CONSTANTS
  Pod = {p1, p2}
  Container <- Containers
  Action = {a1, a2}
  DrainTimeout = 2
  Grace = 1
  Fallback = 1
  Scenarios <- Lost
  None = None
INVARIANT NoneStopsBeforeTheAction
CHECK_DEADLOCK FALSE
