\* A run, a charge and a redelivered payment across the end of a month.
SPECIFICATION Spec
CONSTANTS
  r1 = r1  r2 = r2  c1 = c1  c2 = c2  g1 = g1  g2 = g2  k1 = k1  k2 = k2
  Runs = {r1}
  Charges = {c1}
  Grants = {g1}
  Sweepers = {s1}
  Viewers = {}
  HoldOf <- Holds
  CostOf <- Costs
  CreditsOf <- Packs
  KeyOf <- KeysOfCalls
  Keys = {k1, k2}
  Included = 2
  LastMonth = 1
  MaxActual = 1
  MaxCrashes = 0
  None = None
INVARIANTS TypeOK AppliedOnce
PROPERTY HoldEndsOnce
