\* Two fair workers, files of up to six chunks, two of them equal, any cache
\* contents, and any number of requests one after the other.
SPECIFICATION FairSpec
CONSTANTS
  d1 = d1
  d2 = d2
  Workers = {w1, w2}
  Total = 6
  Digests = {d1, d2}
  DigestOf <- MCDigestOf
  Attempts = 2
INVARIANTS
  TypeOK
  FinalizeAfterAcks
  FileInOrder
  BoundedMemory
  ThreadsJoined
PROPERTIES
  AnswersTruthful
  UploadEnds
  DownloadEnds
CHECK_DEADLOCK FALSE
