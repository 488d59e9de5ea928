SPECIFICATION PushedSpec
CONSTANTS
  Client = {1, 2, 3}
  Project <- MCProject
  Commit = {"r1", "r2"}
  Char <- MCChar
  Letters <- MCLetters
  Digits <- MCDigits
  Plain <- MCPlain
  Wants <- VarietyWants
  MaxFailures = 0
  MaxStops = 0
  Nothing = Nothing
INVARIANT WrittenIsWanted
