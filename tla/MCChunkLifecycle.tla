-------------------------- MODULE MCChunkLifecycle --------------------------
(* Instances of ChunkLifecycle for TLC: one object, which is its chunk c1   *)
(* twice or, cut elsewhere, the one chunk c2, and a manifest that does not  *)
(* hash to the object.  A cfg chooses the manifests that are uploaded.      *)
EXTENDS ChunkLifecycle, TLC

CONSTANTS o1, c1, c2, m1, m2, mBad

MCOidOf == [m \in Manifests |-> o1]

MCChunksOf ==
  [m \in Manifests |-> CASE m = m1 -> <<c1, c1>>
                         [] m = m2 -> <<c2>>
                         [] OTHER  -> <<c1>>]

\* Sessions, requests of one kind and administrative runs are interchangeable.
Interchangeable ==
  Permutations(SessionIds) \cup Permutations(CdcClients)
    \cup Permutations(Clients \ CdcClients) \cup Permutations(Admins)
=============================================================================
