\* Two runs of one task, through every entry point and gate.
SPECIFICATION Spec
CONSTANTS
  TaskToken = TaskToken
  Runs = {r1, r2}
  Gates = {g1, g2}
  Calls = {c1}
  Kinds = {"job", "execute", "retry", "batch", "command"}
  Asks = {"autonomy"}
  Edits = {"cancelled"}
  MaxRounds = 1
  MaxSlow = 1
  MaxFaults = 0
  MaxCrashes = 0
  None = None
SYMMETRY RunsAndGates
INVARIANTS TypeOK CallsAuthorised WorkAuthorised OneOpenQuestion WritesByLatestClaim
INVARIANT DiscardedRunsAreFree
PROPERTY ImplementsLeaseQueue
