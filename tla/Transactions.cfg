\* Three connections, two objects that share their chunks in opposite order.
SPECIFICATION Spec
CONSTANTS
  o1 = o1
  o2 = o2
  c1 = c1
  c2 = c2
  m1 = m1
  m2 = m2
  m3 = m3
  Tx = {t1, t2, t3}
  Oids = {o1, o2}
  Chunks = {c1, c2}
  Manifests = {m1, m2, m3}
  OidOf <- MCOidOf
  ChunksOf <- MCChunksOf
  NoManifest = NoManifest
  NoChunk = NoChunk
SYMMETRY Interchangeable
INVARIANTS
  TypeOK
  DrainsNeverDeadlock
PROPERTIES
  ImplementsCatalog
