\* A run that may die or throw, and a later one: the row is not left running.
SPECIFICATION FairSpec
CONSTANTS
  TaskToken = TaskToken
  Runs = {r1, r2}
  Gates = {g1, g2}
  Calls = {}
  Kinds = {"job", "execute"}
  Asks = {"budget"}
  Edits = {"cancelled"}
  MaxRounds = 0
  MaxSlow = 0
  MaxFaults = 1
  MaxCrashes = 1
  None = None
PROPERTY RunningEnds
