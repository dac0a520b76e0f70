\* A token, two access kinds, two concurrent requests, a cache of one entry and
\* one permit of each kind.
SPECIFICATION RequestsSpec
CONSTANTS
  Tokens = {t1}
  Repos = {r1}
  Requests = {q1, q2}
  Ttl = 1
  Capacity = 1
  Timeout = 1
  MaxTime = 3
  MaxData = 1
  MaxBasic = 1
SYMMETRY Interchangeable
INVARIANTS
  RequestsTypeOK
  CacheBounded
  GrantsAreRecent
  StagingBounded
PROPERTIES
  WorkAuthorized
CHECK_DEADLOCK FALSE
