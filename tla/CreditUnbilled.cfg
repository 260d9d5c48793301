\* A sweep that ends the hold between the read and the claim of a settle.
SPECIFICATION Spec
CONSTANTS
  r1 = r1  r2 = r2  c1 = c1  c2 = c2  g1 = g1  g2 = g2  k1 = k1  k2 = k2
  Runs = {r1}
  Charges = {}
  Grants = {}
  Sweepers = {s1}
  Viewers = {}
  HoldOf <- Holds
  CostOf <- Costs
  CreditsOf <- Packs
  KeyOf <- KeysOfCalls
  Keys = {k1, k2}
  Included = 2
  LastMonth = 0
  MaxActual = 1
  MaxCrashes = 0
  None = None
INVARIANT WorkIsBilled
CHECK_DEADLOCK FALSE
