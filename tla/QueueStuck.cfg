\* The queue entry of a chunk that a finalized session registered.
SPECIFICATION ScheduledSpec
CONSTANTS
  o1 = o1
  c1 = c1
  c2 = c2
  m1 = m1
  m2 = m2
  mBad = mBad
  Clients = {k1}
  CdcClients = {}
  Admins = {a1}
  SessionIds = {s1, s2}
  Oids = {o1}
  Chunks = {c2}
  Manifests = {m2}
  Genuine = {m2}
  Canonical = {m2}
  OidOf <- MCOidOf
  ChunksOf <- MCChunksOf
  NoManifest = NoManifest
  NoSession = NoSession
  NoChunk = NoChunk
PROPERTIES
  QueueDrains
