\* Two objects, two administrative runs.
SPECIFICATION Spec
CONSTANTS
  Oids = {o1, o2}
  Admins = {a1, a2}
SYMMETRY Interchangeable
INVARIANTS
  TypeOK
  RetainedWithoutProof
PROPERTIES
  ProtectedStays
