------------------------------ MODULE Catalog ------------------------------
(***************************************************************************)
(* What the metadata of one repository promises, whatever the transactions *)
(* that change it do meanwhile: objects are published and removed whole,   *)
(* reference counts move with them, and a chunk's row disappears only      *)
(* while its count is zero.  CatalogTransactions (statement by statement)  *)
(* and ChunkLifecycle (request by request) both implement it.              *)
(***************************************************************************)
EXTENDS Integers, Sequences, FiniteSets

CONSTANTS Oids, Chunks, Manifests, OidOf, ChunksOf, NoManifest

VARIABLES
  objects,  \* table objects: the manifest of each OID, or NoManifest
  rows,     \* table chunks: the rows that exist
  refs,     \* their reference_count, 0 where there is no row
  queue     \* table chunk_gc_queue

vars == <<objects, rows, refs, queue>>

\* The number of ordinals of manifest m that name chunk c.
Ordinals(m) == DOMAIN ChunksOf[m]
Uses(m, c) == Cardinality({i \in Ordinals(m) : ChunksOf[m][i] = c})
ChunkSet(m) == {ChunksOf[m][i] : i \in Ordinals(m)}

Init ==
  /\ objects = [o \in Oids |-> NoManifest]
  /\ rows = {}
  /\ refs = [c \in Chunks |-> 0]
  /\ queue = {}

\* register_and_store_chunk, or a publication of what is already published.
AddRows(cs) ==
  /\ rows' = rows \cup cs
  /\ UNCHANGED <<objects, refs, queue>>

\* publish_manifest.
Publish(m) ==
  /\ objects[OidOf[m]] = NoManifest
  /\ objects' = [objects EXCEPT ![OidOf[m]] = m]
  /\ rows' = rows \cup ChunkSet(m)
  /\ refs' = [c \in Chunks |-> refs[c] + Uses(m, c)]
  /\ UNCHANGED queue

\* One round of collect_due.  It does not promise an entry for every chunk that
\* reaches zero: an entry that is there already is not inserted again, and a
\* drain that found no row before may delete it before the round commits.
Remove(o) ==
  /\ objects[o] # NoManifest
  /\ objects' = [objects EXCEPT ![o] = NoManifest]
  /\ refs' = [c \in Chunks |-> refs[c] - Uses(objects[o], c)]
  /\ \E cs \in SUBSET {c \in ChunkSet(objects[o]) : refs'[c] = 0} : queue' = queue \cup cs
  /\ UNCHANGED rows

\* reclaim_expired_uploads queues chunks of abandoned uploads.
Enqueue(cs) ==
  /\ queue' = queue \cup cs
  /\ UNCHANGED <<objects, rows, refs>>

\* One round of drain_chunk_queue: an entry is withdrawn, or its chunk's row
\* goes with it.
Dequeue(c) ==
  /\ queue' = queue \ {c}
  /\ UNCHANGED <<objects, rows, refs>>

Forget(c) ==
  /\ refs[c] = 0
  /\ rows' = rows \ {c}
  /\ queue' = queue \ {c}
  /\ UNCHANGED <<objects, refs>>

Next ==
  \/ \E cs \in SUBSET Chunks : AddRows(cs) \/ Enqueue(cs)
  \/ \E m \in Manifests : Publish(m)
  \/ \E o \in Oids : Remove(o)
  \/ \E c \in Chunks : Dequeue(c) \/ Forget(c)

Spec == Init /\ [][Next]_vars
=============================================================================
