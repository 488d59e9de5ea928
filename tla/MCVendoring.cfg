SPECIFICATION VendoringFair
CONSTANTS
  b1 = b1
  b2 = b2
  e1 = e1
  e2 = e2
  tar = tar
  git = git
  old = old
  new = new
  None = None
  Cut = Cut
  File = {b1, b2, e1, e2}
  Projects <- Sound
  MaxStops = 2
  Source = {tar, git}
  Content = {old, new}
  Hash <- Hashes
  Models <- Wants
  Locks <- LocksOf
  MaxEdits = 2
INVARIANTS VendoringTypeOK SuccessMeansComplete FetchedMeansPinned
PROPERTIES PinsHold CheckedOut
CHECK_DEADLOCK FALSE
