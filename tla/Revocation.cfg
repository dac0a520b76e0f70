\* One request at a time, with an answer of Forgejo that is slow to arrive.
SPECIFICATION RequestsSpec
CONSTANTS
  Tokens = {t1}
  Repos = {r1}
  Requests = {q1}
  Ttl = 3
  Capacity = 1
  Timeout = 2
  MaxTime = 6
  MaxData = 1
  MaxBasic = 1
INVARIANTS
  RevokedWithinTtl
CHECK_DEADLOCK FALSE
