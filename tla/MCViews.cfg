SPECIFICATION Spec
CONSTANTS
  abs = abs
  Abs = abs
  None = None
  Path <- Paths
  Target <- Targets
  FirstTrees <- Trees
  MayBe <- Edits
  Models <- AllModels
  ExtraViews <- Extras
  RootSkip = {".config"}
  InfraSkip = {".config"}
  MaxEdits = 2
INVARIANTS TypeOK UndeclaredIsHidden EntriesAreDeclared LinksLeadSomewhere
