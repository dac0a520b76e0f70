------------------------ MODULE CatalogTransactions ------------------------
(***************************************************************************)
(* The transactions on the chunk catalog of one repository, one action per *)
(* SQL statement: register_and_store_chunk, publish_manifest, collect_due  *)
(* and drain_chunk_queue run at PostgreSQL's READ COMMITTED isolation.     *)
(*                                                                         *)
(* A statement sees what was committed when it runs and what its own       *)
(* transaction wrote; it waits while another transaction holds a           *)
(* conflicting row lock.  A row has at most one uncommitted version.       *)
(* Upload sessions and the registrations in upload_session_chunks are      *)
(* those of module ChunkLifecycle; here a registered chunk only makes      *)
(* drain_chunk_queue pass over it or fail.                                 *)
(***************************************************************************)
EXTENDS Integers, Sequences, FiniteSets

CONSTANTS
  Tx,         \* database connections
  Oids, Chunks, Manifests,
  OidOf,      \* OidOf[m]: the object a manifest describes
  ChunksOf,   \* ChunksOf[m]: the sequence of its chunk identities
  NoManifest, NoChunk

ASSUME ManifestsAssumption ==
  /\ OidOf \in [Manifests -> Oids]
  /\ ChunksOf \in [Manifests -> Seq(Chunks)]
  /\ NoManifest \notin Manifests
  /\ NoChunk \notin Chunks

VARIABLES
  objects, rows, refs, queue,   \* the committed tables, as in Catalog
  tx                            \* the transactions

db == <<objects, rows, refs, queue>>
vars == <<db, tx>>

Ordinals(m) == DOMAIN ChunksOf[m]

\* The orders in which collect_due may read the rows of an object: it does not
\* ask for one.
Orders(m) ==
  {f \in [Ordinals(m) -> Ordinals(m)] : \A i, j \in Ordinals(m) : f[i] = f[j] => i = j}
InOrder(m) == [i \in Ordinals(m) |-> i]

\* man and order: the rows being worked on, at: the next of them; chunk: the
\* single row of the other kinds; new, val, wrote: chunk rows inserted, and the
\* uncommitted counts; keys, excl: rows locked FOR KEY SHARE and FOR UPDATE;
\* enq: uncommitted queue entries; list: queue entries read and not yet handled.
Idle ==
  [pc |-> "idle", man |-> NoManifest, order |-> <<>>, at |-> 1, chunk |-> NoChunk,
   new |-> {}, wrote |-> {}, val |-> [c \in Chunks |-> 0],
   keys |-> {}, excl |-> {}, enq |-> {}, list |-> {}]

TypeOK ==
  /\ objects \in [Oids -> Manifests \cup {NoManifest}]
  /\ rows \subseteq Chunks
  /\ refs \in [Chunks -> Nat]
  /\ queue \subseteq Chunks
  /\ DOMAIN tx = Tx
  /\ \A t \in Tx :
       /\ tx[t].pc \in {"idle", "chunks", "refs", "count", "exists", "upserted",
                        "delete", "uncount", "drain", "dequeue", "provider"}
       /\ tx[t].man \in Manifests \cup {NoManifest}
       /\ tx[t].at \in Nat
       /\ tx[t].chunk \in Chunks \cup {NoChunk}
       /\ tx[t].new \subseteq tx[t].wrote
       /\ tx[t].val \in [Chunks -> Nat]
       /\ UNION {tx[t].wrote, tx[t].keys, tx[t].excl, tx[t].enq, tx[t].list} \subseteq Chunks

Init ==
  /\ objects = [o \in Oids |-> NoManifest]
  /\ rows = {}
  /\ refs = [c \in Chunks |-> 0]
  /\ queue = {}
  /\ tx = [t \in Tx |-> Idle]

-----------------------------------------------------------------------------
(* Rows, versions and locks.                                                *)

Others(t) == Tx \ {t}
More(t) == tx[t].at \in Ordinals(tx[t].man)

\* The chunk of the row that transaction t works on.
Row(t) == ChunksOf[tx[t].man][tx[t].order[tx[t].at]]

\* The chunk rows a statement of t finds, and the count it finds there.
Visible(t) == rows \cup tx[t].new
Count(t, c) == IF c \in tx[t].wrote THEN tx[t].val[c] ELSE refs[c]

\* The transactions whose uncommitted insertion or update of row c an INSERT of
\* the same key waits for: a lock alone does not make it wait.
Writing(t, c) == {u \in Others(t) : c \in tx[u].wrote}

\* Those that the foreign key check (FOR KEY SHARE), an UPDATE of a column that
\* is not a key, and SELECT ... FOR UPDATE wait for.
Excluding(t, c) == {u \in Others(t) : c \in tx[u].excl}
Updating(t, c) == Writing(t, c) \cup Excluding(t, c)
Locking(t, c) ==
  IF c \in rows THEN Updating(t, c) \cup {u \in Others(t) : c \in tx[u].keys} ELSE {}

\* The transactions that have deleted the object of t's manifest.
Deleting(t) ==
  {u \in Others(t) : tx[u].pc = "uncount" /\ OidOf[tx[u].man] = OidOf[tx[t].man]}

\* UPDATE chunks SET reference_count = reference_count + n: the expression is
\* evaluated on the row as it is once the lock is held.
\* (Mutant: the count is read by an earlier statement of the program.)
AddToStale(t, c, n) ==
  IF c \in Visible(t)
  THEN [tx[t] EXCEPT !.wrote = @ \cup {c}, !.val[c] = n + (IF c \in tx[t].wrote THEN @ ELSE 0)]
  ELSE tx[t]
AddTo(t, c, n) ==
  IF c \in Visible(t)
  THEN [tx[t] EXCEPT !.wrote = @ \cup {c}, !.val[c] = Count(t, c) + n]
  ELSE tx[t]

\* INSERT INTO chunks, when there is no such row.
Inserted(t, c) ==
  IF c \in Visible(t)
  THEN tx[t]
  ELSE [tx[t] EXCEPT !.new = @ \cup {c}, !.wrote = @ \cup {c}, !.val[c] = 0]

Set(t, r) == tx' = [tx EXCEPT ![t] = r]

\* COMMIT makes the transaction's versions the rows of table chunks.
CommitRows(t) ==
  /\ rows' = rows \cup tx[t].new
  /\ refs' = [c \in Chunks |-> Count(t, c)]

\* The transaction fails, is chosen as the victim of a deadlock, or its
\* connection is lost: PostgreSQL rolls it back.
Abort(t) ==
  /\ tx[t].pc # "idle"
  /\ Set(t, Idle)
  /\ UNCHANGED db

-----------------------------------------------------------------------------
(* register_and_store_chunk: INSERT ... ON CONFLICT DO UPDATE SET size, which *)
(* writes a version of an existing row too; then the registration and COMMIT. *)

Upsert(t, c) ==
  /\ tx[t].pc = "idle"
  /\ Updating(t, c) = {}
  /\ Set(t, [AddTo(t, c, 0) EXCEPT !.pc = "upserted", !.wrote = {c},
                                   !.new = {c} \ rows, !.keys = {c}])
  /\ UNCHANGED db

CommitUpsert(t) ==
  /\ tx[t].pc = "upserted"
  /\ CommitRows(t)
  /\ Set(t, Idle)
  /\ UNCHANGED <<objects, queue>>

-----------------------------------------------------------------------------
(* publish_manifest, past the checks of the session.                        *)

\* Its session is locked FOR UPDATE and an object has one open session, so
\* there is one publication of an OID at a time.
StartPublish(t, m) ==
  /\ tx[t].pc = "idle"
  /\ \A u \in Others(t) :
       tx[u].pc \in {"chunks", "refs", "count", "exists"} => OidOf[tx[u].man] # OidOf[m]
  /\ Set(t, [Idle EXCEPT !.pc = "chunks", !.man = m, !.order = InOrder(m)])
  /\ UNCHANGED db

InsertChunk(t) ==
  /\ tx[t].pc = "chunks"
  /\ More(t)
  /\ Writing(t, Row(t)) = {}
  /\ Set(t, [Inserted(t, Row(t)) EXCEPT !.at = @ + 1])
  /\ UNCHANGED db

\* INSERT INTO objects ... ON CONFLICT DO NOTHING.
InsertObject(t) ==
  /\ tx[t].pc = "chunks"
  /\ ~ More(t)
  /\ Deleting(t) = {}
  /\ Set(t, [tx[t] EXCEPT !.at = 1,
               !.pc = IF objects[OidOf[tx[t].man]] = NoManifest THEN "refs" ELSE "exists"])
  /\ UNCHANGED db

\* INSERT INTO object_chunks, whose foreign key locks the chunk's row.
\* (Mutant: without the foreign key.)
InsertRefUnchecked(t) ==
  /\ tx[t].pc = "refs"
  /\ More(t)
  /\ Set(t, [tx[t] EXCEPT !.pc = "count"])
  /\ UNCHANGED db
InsertRef(t) ==
  /\ tx[t].pc = "refs"
  /\ More(t)
  /\ Excluding(t, Row(t)) = {}
  /\ IF Row(t) \in Visible(t)
     THEN Set(t, [tx[t] EXCEPT !.pc = "count", !.keys = @ \cup {Row(t)}])
     ELSE Set(t, Idle)
  /\ UNCHANGED db

AddOne(t) ==
  /\ tx[t].pc = "count"
  /\ Updating(t, Row(t)) = {}
  /\ Set(t, [AddTo(t, Row(t), 1) EXCEPT !.pc = "refs", !.at = @ + 1])
  /\ UNCHANGED db

CommitPublish(t) ==
  /\ tx[t].pc = "refs"
  /\ ~ More(t)
  /\ objects' = [objects EXCEPT ![OidOf[tx[t].man]] = tx[t].man]
  /\ CommitRows(t)
  /\ Set(t, Idle)
  /\ UNCHANGED queue

CommitExisting(t) ==
  /\ tx[t].pc = "exists"
  /\ CommitRows(t)
  /\ Set(t, Idle)
  /\ UNCHANGED <<objects, queue>>

-----------------------------------------------------------------------------
(* One round of collect_due, on an object whose tombstone is due.           *)

\* The advisory lock, the tombstone FOR UPDATE, and the chunks of the object.
StartCollect(t, o) ==
  /\ tx[t].pc = "idle"
  /\ \A u \in Others(t) : tx[u].pc \notin {"delete", "uncount"}
  /\ objects[o] # NoManifest
  /\ \E f \in Orders(objects[o]) :
       Set(t, [Idle EXCEPT !.pc = "delete", !.man = objects[o], !.order = f])
  /\ UNCHANGED db

\* DELETE FROM objects, which takes the object_chunks with it.
DeleteObject(t) ==
  /\ tx[t].pc = "delete"
  /\ Set(t, [tx[t] EXCEPT !.pc = "uncount"])
  /\ UNCHANGED db

\* The count of the next row; then INSERT ... ON CONFLICT DO NOTHING of its entry
\* in the queue, if that was the last: an entry committed by another transaction
\* is left as it is, and not locked.  The two statements are one step: the second
\* waits only for a drain that has deleted the entry and has its COMMIT left.
SubOne(t) ==
  /\ tx[t].pc = "uncount"
  /\ More(t)
  /\ Updating(t, Row(t)) = {}
  /\ Set(t, [AddTo(t, Row(t), -1) EXCEPT !.at = @ + 1,
               !.enq = @ \cup IF Count(t, Row(t)) = 1 THEN {Row(t)} \ queue ELSE {}])
  /\ UNCHANGED db

CommitCollect(t) ==
  /\ tx[t].pc = "uncount"
  /\ ~ More(t)
  /\ objects' = [objects EXCEPT ![OidOf[tx[t].man]] = NoManifest]
  /\ queue' = queue \cup tx[t].enq
  /\ CommitRows(t)
  /\ Set(t, Idle)

-----------------------------------------------------------------------------
(* drain_chunk_queue: one transaction for each entry it has read.           *)

ReadQueue(t) ==
  /\ tx[t].pc = "idle"
  /\ Set(t, [Idle EXCEPT !.pc = "drain", !.list = queue])
  /\ UNCHANGED db

\* SELECT reference_count ... FOR UPDATE.
SelectForUpdate(t, c) ==
  /\ tx[t].pc = "drain"
  /\ c \in tx[t].list
  /\ Locking(t, c) = {}
  /\ Set(t, [tx[t] EXCEPT !.chunk = c, !.excl = {c} \cap rows,
               !.pc = IF c \in rows /\ refs[c] = 0 THEN "provider" ELSE "dequeue"])
  /\ UNCHANGED db

\* What is left of a drain when it has committed the transaction of an entry.
\* (Mutant: all entries are handled in one transaction.)
KeepLocks(t) == [tx[t] EXCEPT !.pc = "drain", !.list = @ \ {tx[t].chunk}]
NextEntry(t) == [Idle EXCEPT !.pc = "drain", !.list = tx[t].list \ {tx[t].chunk}]

Dequeue(t) ==
  /\ tx[t].pc = "dequeue"
  /\ queue' = queue \ {tx[t].chunk}
  /\ Set(t, NextEntry(t))
  /\ UNCHANGED <<objects, rows, refs>>

\* An open upload has registered the chunk.
PassOver(t) ==
  /\ tx[t].pc = "provider"
  /\ Set(t, NextEntry(t))
  /\ UNCHANGED db

\* The provider has deleted the bytes: DELETE FROM chunks and from the queue.  The
\* foreign key check may wait for reclaim_expired_uploads to commit the cascade
\* of its sessions; that one locks no chunk and waits for no drain, so it closes
\* no circle.
Forget(t) ==
  /\ tx[t].pc = "provider"
  /\ rows' = IF refs[tx[t].chunk] = 0 THEN rows \ {tx[t].chunk} ELSE rows
  /\ queue' = queue \ {tx[t].chunk}
  /\ Set(t, NextEntry(t))
  /\ UNCHANGED <<objects, refs>>

EndDrain(t) ==
  /\ tx[t].pc = "drain"
  /\ tx[t].list = {}
  /\ Set(t, Idle)
  /\ UNCHANGED db

-----------------------------------------------------------------------------
Start(t) ==
  \/ \E c \in Chunks : Upsert(t, c)
  \/ \E m \in Manifests : StartPublish(t, m)
  \/ \E o \in Oids : StartCollect(t, o)
  \/ ReadQueue(t)

Step(t) ==
  \/ CommitUpsert(t)
  \/ InsertChunk(t) \/ InsertObject(t) \/ InsertRef(t) \/ AddOne(t)
  \/ CommitPublish(t) \/ CommitExisting(t)
  \/ DeleteObject(t) \/ SubOne(t) \/ CommitCollect(t)
  \/ (\E c \in Chunks : SelectForUpdate(t, c)) \/ Dequeue(t) \/ PassOver(t) \/ Forget(t)
  \/ EndDrain(t)

Next == \E t \in Tx : Start(t) \/ Step(t) \/ Abort(t)

Spec == Init /\ [][Next]_vars

-----------------------------------------------------------------------------
(* Waiting.  PostgreSQL looks for a circle once a transaction has waited    *)
(* for a second and rolls one of its members back: Abort.                   *)

\* The transactions that the next statement of t waits for.
Blockers(t) ==
  CASE tx[t].pc = "chunks" -> IF More(t) THEN Writing(t, Row(t)) ELSE Deleting(t)
    [] tx[t].pc = "refs"   -> IF More(t) THEN Excluding(t, Row(t)) ELSE {}
    [] tx[t].pc = "count"  -> Updating(t, Row(t))
    [] tx[t].pc = "uncount" -> IF More(t) THEN Updating(t, Row(t)) ELSE {}
    [] tx[t].pc = "drain"  -> UNION {Locking(t, c) : c \in tx[t].list}
    [] OTHER -> {}

\* A circle of transactions waiting for each other.
Stuck(S) == S # {} /\ \A t \in S : Blockers(t) \cap S # {}
Circle(S) == Stuck(S) /\ \A R \in SUBSET S : Stuck(R) => R = S

-----------------------------------------------------------------------------
\* Whatever the interleaving of their statements, the transactions take effect
\* as a whole when they commit: counts are not lost between two publications, a
\* publication and a collection, or a registration in between, and a chunk's row
\* is not deleted under a publication that has found it.  Whether a chunk that
\* reaches zero has a queue entry then is left open, as in Catalog.
Cat == INSTANCE Catalog
         WITH objects <- objects, rows <- rows, refs <- refs, queue <- queue
ImplementsCatalog == Cat!Spec

\* Publications and collections can block each other in a circle, for they lock
\* rows in the order of their manifests.  A drain, which has already deleted the
\* chunk's bytes when it deletes the row, is never part of one.
DrainsNeverDeadlock ==
  \A S \in SUBSET Tx : Circle(S) =>
    \A t \in S : tx[t].pc \in {"chunks", "count", "uncount"}
=============================================================================
