\* An object that is pushed again while its tombstone waits.
SPECIFICATION Spec
CONSTANTS
  Oids = {o1}
  Admins = {a1}
PROPERTIES
  DeletedStillAbsent
