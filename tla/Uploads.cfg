\* A git-cdc-v1 and two basic uploads of one object, one administrative run.
SPECIFICATION Spec
CONSTANTS
  o1 = o1
  c1 = c1
  c2 = c2
  m1 = m1
  m2 = m2
  mBad = mBad
  Clients = {k1, k2, k3}
  CdcClients = {k1}
  Admins = {a1}
  SessionIds = {s1, s2}
  Oids = {o1}
  Chunks = {c1, c2}
  Manifests = {m1, m2, mBad}
  Genuine = {m1, m2}
  Canonical = {m1}
  OidOf <- MCOidOf
  ChunksOf <- MCChunksOf
  NoManifest = NoManifest
  NoSession = NoSession
  NoChunk = NoChunk
SYMMETRY Interchangeable
INVARIANTS
  TypeOK
  PublishedVerified
  CatalogConsistent
  OneUploadPerObject
  RefCountsExact
PROPERTIES
  ImplementsCatalog
  ObjectsImmutable
  SessionLifecycle
  ProtectedBytes
