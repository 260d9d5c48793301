\* A checkout and a second event, with the cron pass beside them: faults,
\* deaths and answers that come too late.
SPECIFICATION FairSpec
CONSTANTS
  e1 = e1  e2 = e2  s1 = s1  s2 = s2
  Events = {e1, e2}
  Scenarios <- Mixed
  Subs = {s1, s2}
  Deliveries = {d1, d2}
  Passes = {p1, p2}
  MaxRetries = 2
  None = None
INVARIANTS TypeOK AcknowledgedWasApplied EffectsOncePerEvent OneActiveSubscription
INVARIANTS ReplayAddsNoRow PaidPlanIsCovered
PROPERTY EveryEventAcknowledged
CHECK_DEADLOCK FALSE
