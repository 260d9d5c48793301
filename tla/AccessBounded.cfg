\* Two owners and their requests, with stale roles in the cache.
SPECIFICATION Spec
CONSTANTS
  u1 = u1  u2 = u2  s1 = s1  s2 = s2
  Users = {u1, u2}
  Roles = {"owner", "admin"}
  FirstRole <- AllOwners
  Sessions = {s1, s2}
  UserOf <- OwnSessions
  Requests = {q1, q2}
  Window = 1
  Lag = 1
  MaxFaults = 1
  MaxChanges = 2
  None = None
SYMMETRY AnyRequest
INVARIANT TypeOK
PROPERTIES StaleAccessIsBounded LastOwnerLostOnlyByOvertaking
