\* A purchase whose grant fails once, and the cron pass before the retry.
SPECIFICATION Spec
CONSTANTS
  e1 = e1  e2 = e2  s1 = s1  s2 = s2
  Events = {e1}
  Scenarios <- OnePurchase
  Subs = {s1, s2}
  Deliveries = {d1}
  Passes = {p1}
  MaxRetries = 2
  None = None
INVARIANT AcknowledgedIsApplied
CHECK_DEADLOCK FALSE
