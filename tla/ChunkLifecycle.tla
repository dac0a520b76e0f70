--------------------------- MODULE ChunkLifecycle ---------------------------
(***************************************************************************)
(* The life of a chunk in the server of one repository: the upload         *)
(* handlers (basic and git-cdc-v1) and the administrative reclamation      *)
(* (gc-collect, uploads-reclaim) as they interleave on the PostgreSQL      *)
(* metadata and on the object store that holds the chunk bytes.            *)
(*                                                                         *)
(* One action is one PostgreSQL transaction, one autocommitted statement   *)
(* or one call of the object store; everything between two of them is      *)
(* local to a request.  A transaction that would wait for a row lock is    *)
(* not enabled while another transaction holds that lock.                  *)
(*                                                                         *)
(* Time is the age of a session and of a tombstone.  A session is "fresh"  *)
(* while expires_at > now(), then "due", and "old" once the grace period   *)
(* of uploads-reclaim has passed too.                                      *)
(***************************************************************************)
EXTENDS Naturals, Sequences, FiniteSets

CONSTANTS
  Clients,      \* upload requests that may run at the same time
  CdcClients,   \* those of them that speak git-cdc-v1; the others are basic
  Admins,       \* concurrent runs of git-lfs-delta-admin
  SessionIds,   \* supply of upload-session UUIDs (bounds the sessions created)
  Oids,         \* LFS object identities
  Chunks,       \* chunk identities
  Manifests,    \* manifests that pass ObjectManifest::validate
  Genuine,      \* manifests whose concatenated chunks hash to their OID
  Canonical,    \* those that upload_basic computes, with its one chunking profile
  OidOf,        \* OidOf[m]: the object a manifest describes
  ChunksOf,     \* ChunksOf[m]: the sequence of its chunk identities
  NoManifest, NoSession, NoChunk

ASSUME ConstantsAssumption ==
  /\ CdcClients \subseteq Clients
  /\ Genuine \subseteq Manifests
  /\ Canonical \subseteq Genuine
  /\ OidOf \in [Manifests -> Oids]
  /\ ChunksOf \in [Manifests -> Seq(Chunks)]
  /\ NoManifest \notin Manifests
  /\ NoSession \notin SessionIds
  /\ NoChunk \notin Chunks

VARIABLES
  \* table upload_sessions: state, manifest, and the age of expires_at
  state, sman, age,
  \* table upload_session_chunks: rows <<session, chunk>>
  usc,
  \* table chunks: the rows that exist, and reference_count
  rows, refs,
  \* tables objects and object_chunks (rows <<oid, ordinal, chunk>>)
  objects, objChunks,
  \* table object_tombstones, and table chunk_gc_queue
  tomb, queue,
  \* the object store: chunks whose bytes it holds
  store,
  \* upload requests: position, manifest, session, progress on each chunk
  pc, man, sid, prog,
  \* administrative runs: position, chunks left to drain, chunk whose entry is
  \* being handled, and the uncommitted work of a reclaim transaction
  apc, list, cur, batch

sessionVars == <<state, sman, age>>
chunkVars   == <<rows, refs>>
objectVars  == <<objects, objChunks, tomb>>
clientVars  == <<pc, man, sid, prog>>
adminVars   == <<apc, list, cur, batch>>
vars == <<sessionVars, usc, chunkVars, objectVars, queue, store, clientVars, adminVars>>

-----------------------------------------------------------------------------
ChunkSet(m) == {ChunksOf[m][i] : i \in DOMAIN ChunksOf[m]}

\* The object_chunks rows publish_manifest inserts for manifest m.
RowsOf(m) == {<<OidOf[m], i, ChunksOf[m][i]>> : i \in DOMAIN ChunksOf[m]}

\* The number of the given object_chunks rows that name chunk c.
Uses(rs, c) == Cardinality({r \in rs : r[3] = c})

EmptyBatch == [due |-> {}, gone |-> {}, chunks |-> {}]

NothingToDo == [c \in Chunks |-> "none"]

\* What publish_manifest's update loop adds to a count: one per ordinal.
\* (Mutant: one per distinct chunk.)
OncePerChunk(m, c) == IF c \in ChunkSet(m) THEN 1 ELSE 0
Increment(m, c) == Uses(RowsOf(m), c)

\* A session that load_open_upload and publish_manifest still accept.
\* (Mutant: an expired session is accepted as well.)
LiveOrExpired(s) == s \in SessionIds /\ state[s] \in {"open", "expired"}
Live(s) == s \in SessionIds /\ state[s] = "open" /\ age[s] = "fresh"

\* The open sessions of an object, found through one_open_upload_per_object.
\* (Mutant: the conflict is not noticed.)
NoConflict(o) == {}
OpenFor(o) == {s \in SessionIds : state[s] = "open" /\ OidOf[sman[s]] = o}

\* Chunk rows held FOR UPDATE by a running drain_chunk_queue.
\* (Mutant: the row is read without FOR UPDATE.)
NotLocked == {}
Locked == {cur[a] : a \in {b \in Admins : apc[b] \in {"delete", "forget"}}}

\* Session rows updated by a reclaim transaction that has not committed.
Expiring == UNION {batch[a].due : a \in Admins}

\* Queue entries inserted by such a transaction: an INSERT of the same entry waits.
Queueing == UNION {batch[a].chunks : a \in Admins}

\* drain_chunk_queue's test for an active upload of chunk c.
Active(c) == \E s \in SessionIds : <<s, c>> \in usc /\ state[s] = "open"

\* A row whose foreign key refuses the deletion of the row of chunk c.
\* (Mutant: upload_session_chunks has no foreign key to chunks.)
ObjectKeyHolds(c) == \E r \in objChunks : r[3] = c
ForeignKeyHolds(c) ==
  \/ \E s \in SessionIds : <<s, c>> \in usc
  \/ \E r \in objChunks : r[3] = c

\* ON DELETE CASCADE from upload_sessions to upload_session_chunks.
\* (Mutant: the rows are left behind.)
NoCascade(gone) == usc
Cascade(gone) == {u \in usc : u[1] \notin gone}

\* Every table and every local variable keeps its type; in particular the
\* CHECK (reference_count >= 0) never fails in collect_due.
TypeOK ==
  /\ state \in [SessionIds -> {"none", "open", "finalized", "expired", "gone"}]
  /\ sman \in [SessionIds -> Manifests \cup {NoManifest}]
  /\ age \in [SessionIds -> {"fresh", "due", "old"}]
  /\ usc \subseteq SessionIds \X Chunks
  /\ rows \subseteq Chunks
  /\ refs \in [Chunks -> Nat]
  /\ objects \in [Oids -> Manifests \cup {NoManifest}]
  /\ objChunks \subseteq Oids \X Nat \X Chunks
  /\ tomb \in [Oids -> {"none", "waiting", "due"}]
  /\ queue \subseteq Chunks
  /\ store \subseteq Chunks
  /\ pc \in [Clients -> {"idle", "plan", "send", "verify", "publish"}]
  /\ man \in [Clients -> Manifests \cup {NoManifest}]
  /\ sid \in [Clients -> SessionIds \cup {NoSession}]
  /\ prog \in [Clients -> [Chunks -> {"none", "ask", "missing", "ready",
                                      "registered", "done"}]]
  /\ apc \in [Admins -> {"idle", "collect", "purge", "read", "drain",
                         "dequeue", "delete", "forget"}]
  /\ list \in [Admins -> SUBSET Chunks]
  /\ cur \in [Admins -> Chunks \cup {NoChunk}]
  /\ batch \in [Admins -> [due : SUBSET SessionIds, gone : SUBSET SessionIds,
                           chunks : SUBSET Chunks]]

Init ==
  /\ state = [s \in SessionIds |-> "none"]
  /\ sman = [s \in SessionIds |-> NoManifest]
  /\ age = [s \in SessionIds |-> "fresh"]
  /\ usc = {}
  /\ rows = {}
  /\ refs = [c \in Chunks |-> 0]
  /\ objects = [o \in Oids |-> NoManifest]
  /\ objChunks = {}
  /\ tomb = [o \in Oids |-> "none"]
  /\ queue = {}
  /\ store = {}
  /\ pc = [cl \in Clients |-> "idle"]
  /\ man = [cl \in Clients |-> NoManifest]
  /\ sid = [cl \in Clients |-> NoSession]
  /\ prog = [cl \in Clients |-> NothingToDo]
  /\ apc = [a \in Admins |-> "idle"]
  /\ list = [a \in Admins |-> {}]
  /\ cur = [a \in Admins |-> NoChunk]
  /\ batch = [a \in Admins |-> EmptyBatch]

-----------------------------------------------------------------------------
(* Uploads.  A git-cdc-v1 request first asks the store which chunks are     *)
(* missing; a basic request has every chunk of its body to store.           *)

FirstStep(cl) == IF cl \in CdcClients THEN "plan" ELSE "send"

FirstProgress(cl, m) ==
  [c \in Chunks |-> IF c \notin ChunkSet(m) THEN "none"
                    ELSE IF cl \in CdcClients THEN "ask" ELSE "ready"]

EnterUpload(cl, m, s) ==
  /\ pc' = [pc EXCEPT ![cl] = FirstStep(cl)]
  /\ man' = [man EXCEPT ![cl] = m]
  /\ sid' = [sid EXCEPT ![cl] = s]
  /\ prog' = [prog EXCEPT ![cl] = FirstProgress(cl, m)]

LeaveUpload(cl) ==
  /\ pc' = [pc EXCEPT ![cl] = "idle"]
  /\ man' = [man EXCEPT ![cl] = NoManifest]
  /\ sid' = [sid EXCEPT ![cl] = NoSession]
  /\ prog' = [prog EXCEPT ![cl] = NothingToDo]

\* A basic request cuts its body with profile beta_v1 and checks the OID.
\* (Mutant: the OID of the body is not compared.)
MayUploadAnything(cl, m) == TRUE
MayUpload(cl, m) == cl \in CdcClients \/ m \in Canonical

\* begin_cdc and ensure_upload_session, when the object has no live session:
\* expired ones are marked and a new one is inserted.
OpenSession(cl, m, s) ==
  LET stale == OpenFor(OidOf[m]) IN
  /\ pc[cl] = "idle"
  /\ MayUpload(cl, m)
  /\ state[s] = "none"
  /\ \A t \in stale : age[t] # "fresh"
  /\ stale \cap Expiring = {}
  /\ state' = [t \in SessionIds |-> IF t = s THEN "open"
                                    ELSE IF t \in stale THEN "expired" ELSE state[t]]
  /\ sman' = [sman EXCEPT ![s] = m]
  /\ age' = [age EXCEPT ![s] = "fresh"]
  /\ EnterUpload(cl, m, s)
  /\ UNCHANGED <<usc, chunkVars, objectVars, queue, store, adminVars>>

\* The same handlers when the object has a live session with this manifest:
\* ON CONFLICT sets expires_at to 24 hours from now, which keeps it fresh; a
\* session past its expires_at is never renewed, for the statement before has
\* marked it expired.  (With another manifest the transaction is rolled back, the
\* answer is 409 and nothing changes.)
JoinSession(cl, m, s) ==
  /\ pc[cl] = "idle"
  /\ MayUpload(cl, m)
  /\ Live(s)
  /\ sman[s] = m
  /\ EnterUpload(cl, m, s)
  /\ UNCHANGED <<sessionVars, usc, chunkVars, objectVars, queue, store, adminVars>>

\* begin_cdc's loop over the manifest: one existence request per chunk.
PlanChunk(cl, c) ==
  /\ pc[cl] = "plan"
  /\ prog[cl][c] = "ask"
  /\ prog' = [prog EXCEPT ![cl][c] = IF c \in store THEN "done" ELSE "missing"]
  /\ UNCHANGED <<pc, man, sid, sessionVars, usc, chunkVars, objectVars, queue,
                 store, adminVars>>

\* The plan reaches the client.
PlanReady(cl) ==
  /\ pc[cl] = "plan"
  /\ \A c \in Chunks : prog[cl][c] # "ask"
  /\ pc' = [pc EXCEPT ![cl] = "send"]
  /\ UNCHANGED <<man, sid, prog, sessionVars, usc, chunkVars, objectVars, queue,
                 store, adminVars>>

\* upload_cdc_chunk accepts the chunk while the session is open and unexpired.
AcceptChunk(cl, c) ==
  /\ pc[cl] = "send"
  /\ prog[cl][c] = "missing"
  /\ Live(sid[cl])
  /\ prog' = [prog EXCEPT ![cl][c] = "ready"]
  /\ UNCHANGED <<pc, man, sid, sessionVars, usc, chunkVars, objectVars, queue,
                 store, adminVars>>

\* The same request answered 404; the client gives up.
RefuseChunk(cl, c) ==
  /\ pc[cl] = "send"
  /\ prog[cl][c] = "missing"
  /\ ~Live(sid[cl])
  /\ LeaveUpload(cl)
  /\ UNCHANGED <<sessionVars, usc, chunkVars, objectVars, queue, store, adminVars>>

\* A basic upload stores its chunks one after the other; the git-cdc-v1 client
\* has several requests in flight.
OneAtATime(cl) ==
  cl \in CdcClients \/ \A c \in Chunks : prog[cl][c] # "registered"

\* The transaction of register_and_store_chunk.  ON CONFLICT DO UPDATE waits
\* for a locked chunk row; the session's state is not looked at again, only
\* the foreign key asks that the session row still exists.
RegisterChunk(cl, c) ==
  /\ pc[cl] = "send"
  /\ prog[cl][c] = "ready"
  /\ OneAtATime(cl)
  /\ c \notin Locked
  /\ state[sid[cl]] # "gone"
  /\ rows' = rows \cup {c}
  /\ usc' = usc \cup {<<sid[cl], c>>}
  /\ prog' = [prog EXCEPT ![cl][c] = "registered"]
  /\ UNCHANGED <<pc, man, sid, sessionVars, refs, objectVars, queue, store, adminVars>>

\* The same transaction rolled back by the foreign key to upload_sessions.
RegisterFails(cl, c) ==
  /\ pc[cl] = "send"
  /\ prog[cl][c] = "ready"
  /\ state[sid[cl]] = "gone"
  /\ LeaveUpload(cl)
  /\ UNCHANGED <<sessionVars, usc, chunkVars, objectVars, queue, store, adminVars>>

\* put_verified creates the bytes; AlreadyExists counts as success.
PutChunk(cl, c) ==
  /\ pc[cl] = "send"
  /\ prog[cl][c] = "registered"
  /\ store' = store \cup {c}
  /\ prog' = [prog EXCEPT ![cl][c] = "done"]
  /\ UNCHANGED <<pc, man, sid, sessionVars, usc, chunkVars, objectVars, queue, adminVars>>

AllSent(cl) == pc[cl] = "send" /\ \A c \in Chunks : prog[cl][c] \in {"none", "done"}

\* A basic upload goes straight to publication.
BasicComplete(cl) ==
  /\ cl \notin CdcClients
  /\ AllSent(cl)
  /\ pc' = [pc EXCEPT ![cl] = "publish"]
  /\ UNCHANGED <<man, sid, prog, sessionVars, usc, chunkVars, objectVars, queue,
                 store, adminVars>>

\* finalize_cdc loads the session and starts to verify its chunks.
FinalizeLoads(cl) ==
  /\ cl \in CdcClients
  /\ AllSent(cl)
  /\ Live(sid[cl])
  /\ pc' = [pc EXCEPT ![cl] = "verify"]
  /\ prog' = [prog EXCEPT ![cl] = FirstProgress(cl, man[cl])]
  /\ UNCHANGED <<man, sid, sessionVars, usc, chunkVars, objectVars, queue, store, adminVars>>

\* finalize_cdc answers at once: 204 on a finalized session, otherwise 404.
FinalizeAnswers(cl) ==
  /\ cl \in CdcClients
  /\ AllSent(cl)
  /\ ~Live(sid[cl])
  /\ LeaveUpload(cl)
  /\ UNCHANGED <<sessionVars, usc, chunkVars, objectVars, queue, store, adminVars>>

\* One get_verified of finalize_cdc's loop.
VerifyChunk(cl, c) ==
  /\ pc[cl] = "verify"
  /\ prog[cl][c] = "ask"
  /\ c \in store
  /\ prog' = [prog EXCEPT ![cl][c] = "done"]
  /\ UNCHANGED <<pc, man, sid, sessionVars, usc, chunkVars, objectVars, queue,
                 store, adminVars>>

\* The chunk is not in the store: 409 "upload is missing chunks".
VerifyFails(cl, c) ==
  /\ pc[cl] = "verify"
  /\ prog[cl][c] = "ask"
  /\ c \notin store
  /\ LeaveUpload(cl)
  /\ UNCHANGED <<sessionVars, usc, chunkVars, objectVars, queue, store, adminVars>>

\* The digest of the whole object is compared with the OID, 422 on mismatch.
Verified(cl) ==
  /\ pc[cl] = "verify"
  /\ \A c \in Chunks : prog[cl][c] # "ask"
  /\ IF man[cl] \in Genuine
     THEN pc' = [pc EXCEPT ![cl] = "publish"] /\ UNCHANGED <<man, sid, prog>>
     ELSE LeaveUpload(cl)
  /\ UNCHANGED <<sessionVars, usc, chunkVars, objectVars, queue, store, adminVars>>

\* The transaction of publish_manifest that inserts the object.  The foreign
\* key of object_chunks and the count updates wait for locked chunk rows.
PublishManifest(cl) ==
  LET m == man[cl] IN
  /\ pc[cl] = "publish"
  /\ Live(sid[cl])
  /\ objects[OidOf[m]] = NoManifest
  /\ ChunkSet(m) \cap Locked = {}
  /\ rows' = rows \cup ChunkSet(m)
  /\ objects' = [objects EXCEPT ![OidOf[m]] = m]
  /\ objChunks' = objChunks \cup RowsOf(m)
  /\ refs' = [c \in Chunks |-> refs[c] + Increment(m, c)]
  /\ state' = [state EXCEPT ![sid[cl]] = "finalized"]
  /\ LeaveUpload(cl)
  /\ UNCHANGED <<sman, age, usc, tomb, queue, store, adminVars>>

\* (Mutant: ON CONFLICT DO UPDATE SET manifest.)
PublishOverwrites(cl) ==
  /\ pc[cl] = "publish"
  /\ Live(sid[cl])
  /\ objects[OidOf[man[cl]]] # NoManifest
  /\ rows' = rows \cup ChunkSet(man[cl])
  /\ objects' = [objects EXCEPT ![OidOf[man[cl]]] = man[cl]]
  /\ state' = [state EXCEPT ![sid[cl]] = "finalized"]
  /\ LeaveUpload(cl)
  /\ UNCHANGED <<sman, age, usc, refs, objChunks, tomb, queue, store, adminVars>>

\* The same transaction when the object is already there: chunk rows are
\* inserted and the session finalized, the object keeps its manifest.
PublishExisting(cl) ==
  LET m == man[cl] IN
  /\ pc[cl] = "publish"
  /\ Live(sid[cl])
  /\ objects[OidOf[m]] # NoManifest
  /\ rows' = rows \cup ChunkSet(m)
  /\ state' = [state EXCEPT ![sid[cl]] = "finalized"]
  /\ LeaveUpload(cl)
  /\ UNCHANGED <<sman, age, usc, refs, objectVars, queue, store, adminVars>>

\* The session is finalized by someone else (204) or expired (404).
PublishRefused(cl) ==
  /\ pc[cl] = "publish"
  /\ ~Live(sid[cl])
  /\ LeaveUpload(cl)
  /\ UNCHANGED <<sessionVars, usc, chunkVars, objectVars, queue, store, adminVars>>

\* A request dies between two steps: disconnect, crash, 5xx, deadlock victim.
AbortUpload(cl) ==
  /\ pc[cl] # "idle"
  /\ LeaveUpload(cl)
  /\ UNCHANGED <<sessionVars, usc, chunkVars, objectVars, queue, store, adminVars>>

-----------------------------------------------------------------------------
(* Administration.                                                          *)

\* A run ends; PostgreSQL releases the locks of its transaction.
EndAdmin(a) ==
  /\ apc' = [apc EXCEPT ![a] = "idle"]
  /\ list' = [list EXCEPT ![a] = {}]
  /\ cur' = [cur EXCEPT ![a] = NoChunk]
  /\ batch' = [batch EXCEPT ![a] = EmptyBatch]

\* gc-collect enters collect_due.
StartCollect(a) ==
  /\ apc[a] = "idle"
  /\ apc' = [apc EXCEPT ![a] = "collect"]
  /\ UNCHANGED <<list, cur, batch, sessionVars, usc, chunkVars, objectVars, queue,
                 store, clientVars>>

\* One transaction of collect_due's loop: a due object goes, with its
\* object_chunks and its tombstone; chunks that reach zero are queued.
CollectObject(a, o) ==
  LET mine == {r \in objChunks : r[1] = o}
      hit  == {r[3] : r \in mine}
      zero == {c \in hit \cap rows : refs'[c] = 0}
  IN
  /\ apc[a] = "collect"
  /\ tomb[o] = "due"
  /\ hit \cap Locked = {}
  /\ objects' = [objects EXCEPT ![o] = NoManifest]
  /\ objChunks' = objChunks \ mine
  /\ tomb' = [tomb EXCEPT ![o] = "none"]
  /\ refs' = [c \in Chunks |-> refs[c] - Uses(mine, c)]
  /\ zero \cap Queueing = {}
  /\ queue' = queue \cup zero
  /\ UNCHANGED <<rows, sessionVars, usc, store, clientVars, adminVars>>

CollectEnd(a) ==
  /\ apc[a] = "collect"
  /\ \A o \in Oids : tomb[o] # "due"
  /\ apc' = [apc EXCEPT ![a] = "read"]
  /\ UNCHANGED <<list, cur, batch, sessionVars, usc, chunkVars, objectVars, queue,
                 store, clientVars>>

\* reclaim_expired_uploads up to its second statement: expired sessions are
\* marked and chunks are queued.  ON CONFLICT DO NOTHING inserts no entry for a
\* chunk that has one, and does not keep a drain from deleting that one.  Nothing
\* is committed yet.
StartReclaim(a) ==
  LET due  == {s \in SessionIds : state[s] = "open" /\ age[s] # "fresh"}
      gone == {s \in due \cup {t \in SessionIds : state[t] = "expired"} : age[s] = "old"}
      open == {s \in SessionIds : state[s] = "open"} \ due
      free == {c \in rows \ queue : /\ refs[c] = 0
                                    /\ \E s \in gone : <<s, c>> \in usc
                                    /\ \A s \in open : <<s, c>> \notin usc}
  IN
  /\ apc[a] = "idle"
  /\ due \cap Expiring = {}
  /\ free \cap Queueing = {}
  /\ apc' = [apc EXCEPT ![a] = "purge"]
  /\ batch' = [batch EXCEPT ![a] = [due |-> due, gone |-> gone, chunks |-> free]]
  /\ UNCHANGED <<list, cur, sessionVars, usc, chunkVars, objectVars, queue, store, clientVars>>

\* Its third statement and COMMIT: old sessions are deleted and the cascade
\* takes their upload_session_chunks with them.
PurgeSessions(a) ==
  LET b == batch[a] IN
  /\ apc[a] = "purge"
  /\ state' = [s \in SessionIds |-> IF s \in b.gone THEN "gone"
                                    ELSE IF s \in b.due THEN "expired" ELSE state[s]]
  /\ usc' = Cascade(b.gone)
  /\ queue' = queue \cup b.chunks
  /\ apc' = [apc EXCEPT ![a] = "read"]
  /\ batch' = [batch EXCEPT ![a] = EmptyBatch]
  /\ UNCHANGED <<sman, age, chunkVars, objectVars, store, clientVars, list, cur>>

\* drain_chunk_queue lists the queue.
ReadQueue(a) ==
  /\ apc[a] = "read"
  /\ apc' = [apc EXCEPT ![a] = "drain"]
  /\ list' = [list EXCEPT ![a] = queue]
  /\ UNCHANGED <<cur, batch, sessionVars, usc, chunkVars, objectVars, queue, store, clientVars>>

\* The chunk is referenced again: its entry is removed while its row is locked.
DrainDrop(a, c) ==
  /\ apc[a] = "drain"
  /\ c \in list[a] \ Locked
  /\ c \in rows /\ refs[c] > 0
  /\ queue' = queue \ {c}
  /\ list' = [list EXCEPT ![a] = @ \ {c}]
  /\ UNCHANGED <<apc, cur, batch, sessionVars, usc, chunkVars, objectVars, store, clientVars>>

\* The row is gone: SELECT ... FOR UPDATE finds none and locks nothing.
DrainMissing(a, c) ==
  /\ apc[a] = "drain"
  /\ c \in list[a]
  /\ c \notin rows
  /\ cur' = [cur EXCEPT ![a] = c]
  /\ list' = [list EXCEPT ![a] = @ \ {c}]
  /\ apc' = [apc EXCEPT ![a] = "dequeue"]
  /\ UNCHANGED <<batch, sessionVars, usc, chunkVars, objectVars, queue, store, clientVars>>

\* DELETE FROM chunk_gc_queue, whatever has become of the chunk since.
DequeueEntry(a) ==
  /\ apc[a] = "dequeue"
  /\ queue' = queue \ {cur[a]}
  /\ cur' = [cur EXCEPT ![a] = NoChunk]
  /\ apc' = [apc EXCEPT ![a] = "drain"]
  /\ UNCHANGED <<list, batch, sessionVars, usc, chunkVars, objectVars, store, clientVars>>

\* (Mutant: the entry of a chunk in use is removed.)
DrainSkipDequeues(a, c) ==
  /\ apc[a] = "drain"
  /\ c \in list[a] \ Locked
  /\ c \in rows /\ refs[c] = 0 /\ Active(c)
  /\ queue' = queue \ {c}
  /\ list' = [list EXCEPT ![a] = @ \ {c}]
  /\ UNCHANGED <<apc, cur, batch, sessionVars, usc, chunkVars, objectVars, store, clientVars>>

\* An open upload registered the chunk: the entry stays for a later run.
DrainSkip(a, c) ==
  /\ apc[a] = "drain"
  /\ c \in list[a] \ Locked
  /\ c \in rows /\ refs[c] = 0 /\ Active(c)
  /\ list' = [list EXCEPT ![a] = @ \ {c}]
  /\ UNCHANGED <<apc, cur, batch, sessionVars, usc, chunkVars, objectVars, queue,
                 store, clientVars>>

\* The chunk is unused: its row stays locked until the transaction ends.
DrainLock(a, c) ==
  /\ apc[a] = "drain"
  /\ c \in list[a] \ Locked
  /\ c \in rows /\ refs[c] = 0 /\ ~Active(c)
  /\ cur' = [cur EXCEPT ![a] = c]
  /\ list' = [list EXCEPT ![a] = @ \ {c}]
  /\ apc' = [apc EXCEPT ![a] = "delete"]
  /\ UNCHANGED <<batch, sessionVars, usc, chunkVars, objectVars, queue, store, clientVars>>

\* ChunkStore::delete; a missing object counts as deleted.
DeleteBytes(a) ==
  /\ apc[a] = "delete"
  /\ store' = store \ {cur[a]}
  /\ apc' = [apc EXCEPT ![a] = "forget"]
  /\ UNCHANGED <<list, cur, batch, sessionVars, usc, chunkVars, objectVars, queue, clientVars>>

\* DELETE FROM chunks, DELETE FROM chunk_gc_queue, COMMIT.
ForgetChunk(a) ==
  /\ apc[a] = "forget"
  /\ ~ForeignKeyHolds(cur[a])
  /\ rows' = rows \ {cur[a]}
  /\ queue' = queue \ {cur[a]}
  /\ cur' = [cur EXCEPT ![a] = NoChunk]
  /\ apc' = [apc EXCEPT ![a] = "drain"]
  /\ UNCHANGED <<list, batch, refs, sessionVars, usc, objectVars, store, clientVars>>

\* DELETE FROM chunks is refused by a foreign key: the transaction is rolled
\* back and the whole run ends with a database error.
\* (Mutant: the deletion is tried again and again in the open transaction.)
ForgetRetries(a) ==
  /\ apc[a] = "forget"
  /\ ForeignKeyHolds(cur[a])
  /\ UNCHANGED vars
ForgetFails(a) ==
  /\ apc[a] = "forget"
  /\ ForeignKeyHolds(cur[a])
  /\ EndAdmin(a)
  /\ UNCHANGED <<sessionVars, usc, chunkVars, objectVars, queue, store, clientVars>>

DrainEnd(a) ==
  /\ apc[a] = "drain"
  /\ list[a] = {}
  /\ EndAdmin(a)
  /\ UNCHANGED <<sessionVars, usc, chunkVars, objectVars, queue, store, clientVars>>

\* The run is killed or a call fails; its open transaction is rolled back.
AbortAdmin(a) ==
  /\ apc[a] # "idle"
  /\ EndAdmin(a)
  /\ UNCHANGED <<sessionVars, usc, chunkVars, objectVars, queue, store, clientVars>>

-----------------------------------------------------------------------------
(* gc-stage and the clock.  Which objects gc-stage proposes is the subject  *)
(* of module Reachability; here it may be any published object.             *)

StageObject(o) ==
  /\ objects[o] # NoManifest
  /\ tomb[o] = "none"
  /\ tomb' = [tomb EXCEPT ![o] = "waiting"]
  /\ UNCHANGED <<objects, objChunks, sessionVars, usc, chunkVars, queue, store,
                 clientVars, adminVars>>

GraceEnds(o) ==
  /\ tomb[o] = "waiting"
  /\ tomb' = [tomb EXCEPT ![o] = "due"]
  /\ UNCHANGED <<objects, objChunks, sessionVars, usc, chunkVars, queue, store,
                 clientVars, adminVars>>

SessionAges(s) ==
  /\ state[s] \in {"open", "expired"}
  /\ age[s] # "old"
  /\ age' = [age EXCEPT ![s] = IF @ = "fresh" THEN "due" ELSE "old"]
  /\ UNCHANGED <<state, sman, usc, chunkVars, objectVars, queue, store, clientVars, adminVars>>

-----------------------------------------------------------------------------
UploadStep(cl) ==
  \/ PlanReady(cl) \/ BasicComplete(cl) \/ FinalizeLoads(cl) \/ FinalizeAnswers(cl)
  \/ Verified(cl) \/ PublishManifest(cl) \/ PublishExisting(cl) \/ PublishRefused(cl)
  \/ \E c \in Chunks :
       \/ PlanChunk(cl, c) \/ AcceptChunk(cl, c) \/ RefuseChunk(cl, c)
       \/ RegisterChunk(cl, c) \/ RegisterFails(cl, c) \/ PutChunk(cl, c)
       \/ VerifyChunk(cl, c) \/ VerifyFails(cl, c)

StartUpload(cl) ==
  \E m \in Manifests, s \in SessionIds : OpenSession(cl, m, s) \/ JoinSession(cl, m, s)

AdminStep(a) ==
  \/ CollectEnd(a) \/ PurgeSessions(a) \/ ReadQueue(a)
  \/ DequeueEntry(a) \/ DeleteBytes(a) \/ ForgetChunk(a) \/ ForgetFails(a) \/ DrainEnd(a)
  \/ \E o \in Oids : CollectObject(a, o)
  \/ \E c \in Chunks :
       DrainDrop(a, c) \/ DrainMissing(a, c) \/ DrainSkip(a, c) \/ DrainLock(a, c)

Clock ==
  \/ \E o \in Oids : StageObject(o) \/ GraceEnds(o)
  \/ \E s \in SessionIds : SessionAges(s)

Next ==
  \/ \E cl \in Clients : StartUpload(cl) \/ UploadStep(cl) \/ AbortUpload(cl)
  \/ \E a \in Admins : StartCollect(a) \/ StartReclaim(a) \/ AdminStep(a) \/ AbortAdmin(a)
  \/ Clock

Spec == Init /\ [][Next]_vars
-----------------------------------------------------------------------------
(* What reclamation and publication promise each other.                     *)

\* reference_count is at every moment the number of object_chunks rows that
\* name the chunk, whatever order publications and collections commit in
\* (publish_manifest adds one per ordinal, collect_due takes one per row).
RefCountsExact == \A c \in Chunks : refs[c] = Uses(objChunks, c)

\* The tables agree: an object has exactly the object_chunks rows of its
\* manifest, every row that names a chunk finds the chunk's row, a session's
\* chunk list is never left behind by the session, a tombstone has an object.
CatalogConsistent ==
  /\ \A o \in Oids :
       {r \in objChunks : r[1] = o} = IF objects[o] = NoManifest THEN {} ELSE RowsOf(objects[o])
  /\ \A r \in objChunks : r[3] \in rows
  /\ \A u \in usc : u[2] \in rows /\ state[u[1]] \in {"open", "finalized", "expired"}
  /\ \A o \in Oids : tomb[o] # "none" => objects[o] # NoManifest

\* one_open_upload_per_object together with the handlers that rely on it: an
\* object has one open session, and every request working in a session that is
\* open works on that session's manifest.
OneUploadPerObject ==
  /\ \A s, t \in SessionIds :
       state[s] = "open" /\ state[t] = "open" /\ OidOf[sman[s]] = OidOf[sman[t]] => s = t
  /\ \A cl \in Clients : pc[cl] # "idle" => man[cl] = sman[sid[cl]]

\* Only an object whose chunks were hashed against its OID is published, also
\* when the request that publishes is not the one that opened the session.
PublishedVerified == \A o \in Oids : objects[o] # NoManifest => objects[o] \in Genuine

\* Every chunk of a published object is in the object store: no order of
\* registering, storing, draining and publishing by basic uploads loses one.  (A
\* git-cdc-v1 upload that relies on a chunk it did not register can.)
ObjectsComplete ==
  \A o \in Oids : objects[o] # NoManifest => ChunkSet(objects[o]) \subseteq store

\* drain_chunk_queue removes bytes only while nothing counts on them: no
\* published object references the chunk and no open session registered it,
\* although the decision was taken in an earlier step.
ProtectedBytes ==
  [][\A c \in store \ store' : refs[c] = 0 /\ ~Active(c)]_vars

\* A published object keeps its manifest until collect_due removes it, even
\* when another upload of the same OID finishes with a different manifest.
ObjectsImmutable ==
  [][\A o \in Oids : objects[o] # NoManifest =>
       \/ objects'[o] = objects[o]
       \/ objects'[o] = NoManifest /\ tomb[o] = "due"]_vars

\* Every request changes the tables as the abstract catalog does: whole objects
\* come and go with their reference counts, and only unreferenced rows disappear.
Cat == INSTANCE Catalog
         WITH objects <- objects, rows <- rows, refs <- refs, queue <- queue
ImplementsCatalog == Cat!Spec

\* An entry leaves chunk_gc_queue only when its chunk's row is gone or is
\* referenced: a crash, a failed deletion or another run never loses a queued
\* chunk.  With one exception: a drain that found no row holds no lock when it
\* removes the entry, so a chunk that was uploaded and queued again in between
\* loses its entry.
QueueDurable ==
  [][\A c \in queue \ queue' :
       \/ c \notin rows' \/ refs'[c] > 0
       \/ \E a \in Admins : apc[a] = "dequeue" /\ cur[a] = c]_vars

\* A session only moves forward, and a finalized one stays: a retried finalize
\* of a published upload is answered with success forever.
SessionLifecycle ==
  [][\A s \in SessionIds : state'[s] # state[s] =>
       <<state[s], state'[s]>> \in {<<"none", "open">>, <<"open", "finalized">>,
         <<"open", "expired">>, <<"open", "gone">>, <<"expired", "gone">>}]_vars

-----------------------------------------------------------------------------
(* Progress.                                                                *)

\* tokio polls a request and an administrative run as long as their process
\* lives.  A transaction that waits for a row lock is woken in arrival order by
\* PostgreSQL, so a lock taken again and again cannot starve it: hence strong
\* fairness.
Fairness ==
  /\ \A cl \in Clients : SF_vars(UploadStep(cl))
  /\ \A a \in Admins : SF_vars(AdminStep(a))

\* Every upload request ends, whatever locks reclamation takes meanwhile.
UploadsEnd == \A cl \in Clients : pc[cl] # "idle" ~> pc[cl] = "idle"

\* Every administrative run ends and so releases the rows it locked, although it
\* waits for the rows and for the uncommitted expiries and entries of other runs.
AdminRunsEnd == \A a \in Admins : apc[a] # "idle" ~> apc[a] = "idle"

\* A run that ends does so by itself: it has drained its list or met an error.
NotKilled ==
  \A a \in Admins : apc[a] # "idle" /\ apc'[a] = "idle" => DrainEnd(a) \/ ForgetFails(a)

\* Reclamation as an operator schedules it: uploads-reclaim is started again
\* and again, by whoever is free, it is not killed for ever, and time passes.
ScheduledSpec ==
  /\ Spec /\ Fairness
  /\ <>[][NotKilled]_vars
  /\ SF_vars(\E a \in Admins : StartReclaim(a))
  /\ \A s \in SessionIds : WF_vars(SessionAges(s))

\* A queued chunk is eventually reclaimed or referenced again: what gc.rs
\* promises for its durable queue.
QueueDrains == \A c \in Chunks : c \in queue ~> c \notin queue

\* The chunks whose deletion a finalized session's upload_session_chunks row
\* refuses for good.
Pinned == {c \in Chunks : \E s \in SessionIds : <<s, c>> \in usc /\ state[s] = "finalized"}

\* The queue drains as long as no queued chunk is registered by a finalized
\* session: transient obstacles (open uploads, expired sessions within their
\* grace period, restarted uploads) never block it for good.
QueueDrainsUnlessPinned ==
  \A c \in Chunks : c \in queue ~> (c \notin queue \/ queue \cap Pinned # {})
=============================================================================
