\* A decision that lands before the stop it answers.
SPECIFICATION Spec
CONSTANTS
  TaskToken = TaskToken
  Runs = {r1}
  Gates = {g1}
  Calls = {c1}
  Kinds = {"job"}
  Asks = {"autonomy"}
  Edits = {}
  MaxRounds = 1
  MaxSlow = 0
  MaxFaults = 0
  MaxCrashes = 0
  None = None
INVARIANT NoGateStrands
CHECK_DEADLOCK FALSE
