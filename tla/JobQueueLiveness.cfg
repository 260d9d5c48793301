\* Fair runs of two tenants: a slow run, a crash, a fault.
SPECIFICATION FairSpec
CONSTANTS
  o1 = o1  o2 = o2  t1 = t1  t2 = t2  t3 = t3
  Jobs = {j1, j2}
  Tasks = {t1, t2}
  Orgs = {o1, o2}
  OrgOf <- TwoOrgs
  Workers = {w1}
  Drains = {d1}
  Clients = {}
  Admins = {}
  MaxAttempts = 1
  MaxPerOrg = 1
  MaxSlow = 1
  MaxCrashes = 1
  MaxFaults = 1
  MaxRetries = 0
  None = None
PROPERTY EveryJobSettles
