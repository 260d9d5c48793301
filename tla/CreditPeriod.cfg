\* Two runs that may hang or die, a keyed charge and its refund, a reader and
\* the sweep inside one month.
SPECIFICATION FairSpec
CONSTANTS
  r1 = r1  r2 = r2  c1 = c1  c2 = c2  g1 = g1  g2 = g2  k1 = k1  k2 = k2
  Runs = {r1, r2}
  Charges = {c2}
  Grants = {}
  Sweepers = {s1}
  Viewers = {v1}
  HoldOf <- Holds
  CostOf <- Costs
  CreditsOf <- Packs
  KeyOf <- KeysOfCalls
  Keys = {k1, k2}
  Included = 2
  LastMonth = 0
  MaxActual = 1
  MaxCrashes = 1
  None = None
INVARIANTS HoldsAreBacked NoOverspend UsedMatchesLedger
PROPERTIES HoldsEnd ImplementsAccount
