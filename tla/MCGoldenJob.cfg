SPECIFICATION OrderedSpec
CONSTANTS
  Client = {1, 2, 3}
  Project <- MCProject
  Commit = {"r1", "r2"}
  Char <- MCChar
  Letters <- MCLetters
  Digits <- MCDigits
  Plain <- MCPlain
  Wants <- MCWants
  MaxFailures = 1
  MaxStops = 1
  Nothing = Nothing
INVARIANTS JobTypeOK OwnResults ResultsOfTheName
PROPERTY Collected
