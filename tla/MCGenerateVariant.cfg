SPECIFICATION Spec
CONSTANTS
  main = main
  variant = variant
  None = None
  Cut = Cut
  Experiment = {main, variant}
  Origin = main
  Dir <- Dirs
  Within <- Nested
  Loose <- DanglingIn
  Conf <- TwoConfs
  PackagesOf <- TwoPackages
  GraphOf <- TwoGraphs
  Project <- OneProject
  MaxEdits = 0
  MaxStops = 0
PROPERTY OwnGraph
