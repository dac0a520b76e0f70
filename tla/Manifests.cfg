\* Objects of up to five minimal chunks; every descriptor of small numbers.
SPECIFICATION Spec
CONSTANTS
  MaxSize = 15
  MaxChunks = 5
  MinLength = 3
  MaxLength = 5
  Limit = 32
  FileSizes <- MCFileSizes
  Descriptors <- MCDescriptors
  Counts <- MCCounts
INVARIANTS
  TypeOK
  CoversExactly
  OwnManifestsAccepted
CHECK_DEADLOCK FALSE
