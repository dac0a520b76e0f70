\* Clients read pages and unlock, two at a time, while locks come and go.
SPECIFICATION Spec
CONSTANTS
  r1 = r1
  u1 = u1
  u2 = u2
  Absent = Absent
  Ids = {1, 2, 3}
  Repos = {r1}
  Users = {u1, u2}
  Managers <- MCManagers
  Paths <- MCPaths
  Unlocks = {d1, d2}
  Readers = {v1}
  Limits = {0, 3}
  MaxPage = 1
INVARIANTS
  TypeOK
  ListingExact
  VerifySeesTheirs
PROPERTIES
  OnlyEntitledUnlock
CHECK_DEADLOCK FALSE
