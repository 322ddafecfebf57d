SPECIFICATION ServiceSpec
CONSTANTS
  Calls = {c1, c2, c3, c4}
  Runs = {r1, r2}
  Nothing = Nothing
SYMMETRY Alike
INVARIANTS
  DecisionsFindTheirRun
  SaversWork
CHECK_DEADLOCK FALSE
