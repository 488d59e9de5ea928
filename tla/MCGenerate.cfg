SPECIFICATION FairSpec
CONSTANTS
  main = main
  variant = variant
  None = None
  Cut = Cut
  Experiment = {main}
  Origin = None
  Dir <- Dirs
  Within <- Nested
  Loose <- DanglingIn
  Conf <- Confs
  PackagesOf <- Packages
  GraphOf <- Graphs
  Project <- Projects
  MaxEdits = 2
  MaxStops = 2
INVARIANTS TypeOK Settles
PROPERTY Mended
