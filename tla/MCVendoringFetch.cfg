SPECIFICATION VendoringSpec
CONSTANTS
  b1 = b1
  b2 = b2
  e1 = e1
  e2 = e2
  tar = tar
  git = git
  old = old
  new = new
  None = None
  Cut = Cut
  File = {b1, b2, e1, e2}
  Projects <- FetchFails
  MaxStops = 1
  Source = {tar, git}
  Content = {old, new}
  Hash <- Hashes
  Models <- Wants
  Locks <- LocksOf
  MaxEdits = 0
INVARIANT SuccessMeansPinned
CHECK_DEADLOCK FALSE
