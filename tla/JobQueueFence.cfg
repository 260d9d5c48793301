\* One task, its job reaped, faulted and retried under every consumer.
SPECIFICATION Spec
CONSTANTS
  o1 = o1  o2 = o2  t1 = t1  t2 = t2  t3 = t3
  Jobs = {j1, j2}
  Tasks = {t1}
  Orgs = {o1}
  OrgOf <- OneOrg
  Workers = {w1, w2}
  Drains = {d1}
  Clients = {c1}
  Admins = {a1}
  MaxAttempts = 2
  MaxPerOrg = 0
  MaxSlow = 1
  MaxCrashes = 0
  MaxFaults = 1
  MaxRetries = 1
  None = None
SYMMETRY RowsAndWorkers
INVARIANTS TypeOK OneOpenJobPerTask SettleByLatestClaim OneOwnerPerTask
PROPERTIES SettledStaysSettled ImplementsLeaseQueue
