# git-cdc in TLA+

A TLA+ development for git-lfs-delta (repository git-cdc), a Git LFS server that
stores objects as content-defined chunks, with its client. The modules are
translated from the Rust and SQL sources; `PROJECT.json` maps each definition to
its lines. TLC checks small instances, TLAPS proves the central safety
properties for instances of any size.

## The system

| Part | Source | State | Operations | What is hard |
|---|---|---|---|---|
| Upload handlers and chunk catalog | server `lib.rs`, migrations | tables `upload_sessions`, `upload_session_chunks`, `chunks`, `objects`, `object_chunks` | `upload_basic`, `begin_cdc`, `upload_cdc_chunk`, `finalize_cdc` | several transactions and provider calls per request; several requests per object; crashes between them |
| Chunk reclamation | server `gc.rs` | `chunk_gc_queue`, `object_tombstones` | `collect_due`, `reclaim_expired_uploads`, `drain_chunk_queue` | bytes are deleted outside the transaction that decided it, while uploads reuse them |
| Chunk store | `git-lfs-delta-storage` | stored chunks | `put_verified`, `get_verified`, `exists`, `delete` | not transactional with the catalog |
| Reachability and staging | `reconcile.rs`, `gc.rs` | `reachability_epochs`, tombstones | `scan`, `submit_snapshot`, `dry_run`, `stage` | scans, submissions, stagings and pushes interleave |
| Lock API | `lib.rs` | `lfs_locks` | `create_lock`, `unlock`, `list_locks`, `verify_locks` | check and deletion are separate statements; pages are read while locks change |
| Forgejo authentication | `lib.rs` | decision cache | `authenticate_forgejo` | decisions age while they are fetched and while they are cached |
| Request admission, download handlers | `lib.rs` | two semaphores, staged files | every handler, from arrival to its last byte | waiting before or after authentication, clients that disconnect anywhere |
| Client upload | client `backend.rs` | channels, worker threads | `HttpBackend::upload` | workers stop on errors while the producer sends |
| Client download | client `backend.rs`, `main.rs` | channels, workers, on-disk cache | `HttpBackend::download`, `read_or_fetch_chunk`, `prune_cache` | reordering, bounded memory, termination after an error, a cache shared with other processes |
| Transfer agent | client `transfer.rs` | whether it is initialized, the request under way | `run_transfer_protocol` | threads of one request must not reach into the next; errors answered or fatal |
| Chunking and manifests | `git-lfs-delta-core` | a stream's position | `ChunkStream`, `ObjectManifest::validate` | limits that depend on each other, overflow, gaps and overlaps |
| OIDC, configuration, start and shutdown, release tooling | rest | little or none | | see "Not modelled" |

Client and server meet in HTTP requests. Inside the server, requests and
administrative runs (`git-lfs-delta-admin`, a process of its own) share only
PostgreSQL and the object store. PostgreSQL runs at READ COMMITTED: each
statement has its own snapshot, and row locks (`FOR UPDATE`, and the locks of
`UPDATE` and `DELETE`) make others wait.

## Modules

| Module | Models | MC module, configurations | Proofs |
|---|---|---|---|
| `Catalog` | what the metadata promises: an abstract specification | (implemented by the next two) | |
| `ChunkLifecycle` | uploads, catalog, store, reclamation, request by request | `MCChunkLifecycle`: Uploads, Progress, QueueStuck, CdcRace | `ChunkLifecycleProofs` |
| `CatalogTransactions` | the catalog's transactions, SQL statement by SQL statement | `MCCatalogTransactions`: Transactions | `CatalogTransactionsProofs` |
| `Reachability` | reachability epochs, staging, collection, pushes | `MCReachability`: Epochs, StaleTombstone | `ReachabilityProofs` |
| `Locks` | lock API | `MCLocks`: Locking | `LocksProofs` |
| `ForgejoAuth` | authentication cache | (through `ServerRequests`) | `ForgejoAuthProofs` |
| `ServerRequests`, extends `ForgejoAuth` | handlers, permits, staged files, disconnects | `MCServerRequests`: Requests, Revocation | `ServerRequestsProofs` |
| `ClientDownload` | download threads and local cache | (through `TransferAgent`) | |
| `ClientUpload` | upload threads | (through `TransferAgent`) | |
| `TransferAgent`, composes the two | the transfer process and its requests | `MCTransferAgent`: Agent | `TransferAgentProofs` |
| `Manifest` | chunk streams and manifest validation | `MCManifest`: Manifests | `ManifestProofs` |

Operators whose comment says "Mutant" are plausible bugs. Nothing uses them;
`PROJECT.json` names for each property the definition one of them replaces, and
the property must then fail.

### ChunkLifecycle

One action is one transaction, one autocommitted statement or one call of the
store. Everything between two of them is local to a request and is in `pc`,
`sid`, `man` and `prog` (progress per chunk). A run's position is `apc`; `list`
is what `drain_chunk_queue` read from the queue, `cur` the chunk it works on,
whose row it holds `FOR UPDATE` (`Locked`) unless it found none, and `batch` the uncommitted work of
`reclaim_expired_uploads`, which is two actions (`StartReclaim`,
`PurgeSessions`) because its statements have snapshots of their own. A step that
has to wait for a row lock is not enabled. `AbortUpload` and `AbortAdmin` are a
lost connection, an error or a crash at any point: the tables keep what was
committed, locks are released.

Three points matter for what holds and what does not:

* `drain_chunk_queue` decides under the row lock and keeps it until the bytes
  and the row are gone. `register_and_store_chunk` and `publish_manifest`
  touch the same row and wait. That is `ProtectedBytes`.
* The lock does not help an upload that never touches the row:
  `begin_cdc` finds a queued chunk stored and does not ask for it. That is the
  violation of `ObjectsComplete` in `cdc_race`. Clients that use basic
  uploads register every chunk, so for them `ObjectsComplete` holds
  (`progress`, and `BasicObjectsComplete` for any number of them).
* A drain that finds no row for an entry locks nothing and deletes the entry with
  a later statement: `DrainMissing` and `DequeueEntry`. Meanwhile the chunk
  may be uploaded again and queued again, and the DELETE takes the new entry
  with it, against gc.rs:142-143 ("queued chunk deletions remain durable"). It
  takes two runs at a time and a session that expires in between.
  `QueueDurable` states this exception, and that there is no other.

Abstractions: a manifest is a model value with a sequence of chunks, and only
manifests that `ObjectManifest::validate` accepts occur. A refused request, for
example the 409 for a manifest that differs from the open session's, changes
nothing and is no step. Time is the age of a session ("fresh", "due", "old")
and of a tombstone. The order in which a run goes through the queue is any
order (the code sorts by `queued_at`, which is arbitrary with respect to the
other processes). A chunk's size is left out. The provider executes a request
while its caller waits, or not at all. `Genuine` are the manifests whose chunks
hash to the OID, `Canonical` those among them that `upload_basic` computes,
with its one profile. A request that joins a session, or goes on in one, renews
`expires_at`. That is no step of the model: a session that is renewed is still
"fresh" (one that is past `expires_at` is marked expired by the statement before
and not renewed, lib.rs:970-976, 1600-1606), and "fresh" may last as long as it
likes.

### Catalog and CatalogTransactions

`Catalog` has the four tables that carry the promise (objects, chunk rows,
reference counts, queue) and says which changes a reader may see: an object is
published with all its rows and counts, or removed with all of them; a row
disappears only while its count is zero. `ChunkLifecycle` implements it with the
identity as refinement mapping (`ImplementsCatalog`, run uploads and theorem
`RefinesCatalog`).

In `ChunkLifecycle` a transaction is one step. That this is a sound view of
the code is what `CatalogTransactions` is about: it has one action per
statement and models what PostgreSQL does at READ COMMITTED, uncommitted
versions (`new`, `val`, `wrote`) seen by their own transaction only, and row
locks: `keys` for the `FOR KEY SHARE` of a foreign key check, `excl` for `FOR
UPDATE`, `wrote` for updates. A statement whose lock is held by another is not
enabled; `Blockers` names whom it waits for. The committed tables implement the
same `Catalog` (run transactions, theorem `TransactionsRefineCatalog`), whatever
the interleaving of statements.
`collect_due` reads the rows of an object without `ORDER BY`, so `StartCollect`
chooses any order.

Two of `Catalog`'s actions are weaker than one would expect, both because a drain
that found no row locks nothing. `Dequeue` is not guarded by "no row, or
referenced": an entry that is committed before its DELETE goes with it. And
`Remove` does not promise an entry for every chunk whose count becomes zero:
`collect_due` inserts ON CONFLICT DO NOTHING, so it inserts none where one is
committed, and the drain may delete that one before the collection commits. The
transactions run has this behaviour; with a `Remove` that queues all of them
`ImplementsCatalog` fails there.

Two statements are one step where only the transaction itself could tell them
apart: `SubOne` is the UPDATE of a count and the INSERT of the entry (the INSERT
waits only for a drain's DELETE that is followed by its COMMIT), and `Dequeue`
and `Forget` end with the COMMIT. `reclaim_expired_uploads` is in
`ChunkLifecycle` only; the foreign key check of `Forget` may wait for its
cascade, but it locks no chunk row and so is in no circle with a drain.

### Reachability

The Git repository is external: pointers at the tips of refs, pointers in
ancestors only, and pushes that first ask the server with a batch request. A
scan sees what `git grep` on the refs sees, the tips. `completed_at` is
`now()`, the start of the submitting transaction; epochs therefore commit in any
order, and a submission remembers how many visible epochs began after it
(`before`, `newer`). Two epochs are kept, as many as any query reads.
Collecting an object is one step; its chunks are `ChunkLifecycle`'s business.

### Locks

One action per SQL statement. A UUID is a number, so that pages have an order,
and a new lock gets any unused one. Paths are sequences of components, enough
for `validate_lock_path`. A listing carries two history fields: how often each
lock was returned, and which locks existed since it began.

### ForgejoAuth and ServerRequests

A tick of the clock is impossible while a pending HTTP request would exceed its
timeout. Forgejo's tokens and permissions change at any time. `last` records
when a token last had a right. The cache is behind a mutex, so each visit is one
step.

`ServerRequests` puts the handlers around it. `call` is the place of each
handler: waiting for a permit, about to authenticate, awaiting the answer,
working, or returned with a body still being sent. The handlers of the chunk
protocol acquire `data_requests` first and authenticate then; basic transfers
do it the other way round (`PermitFirst`). Permit and temporary file belong to
the handler's future or to the stream of its body, so `Drop` releases them
together wherever a client disconnects. What the work of a handler does to the
catalog is `ChunkLifecycle`'s business.

### TransferAgent, ClientDownload and ClientUpload

One action per channel operation, cache access or HTTP answer of each thread.
What drops a channel's ends follows Rust's captures: the scope closure owns the
sender of `jobs` (it is dropped on every way out) and borrows the receiver of
the results. The server appears through its answers; an answer that is lost is a
retryable failure. In `ClientDownload` the cache on disk is shared with other
threads and with a prune in another process.

`TransferAgent` composes the two: `run_transfer_protocol` reads a line, makes
the call it asks for and answers before it reads the next. Both pipelines have
a main thread, a job channel and workers, and never run together; the instances
`Up` and `Down` share these variables. `Return` puts them back to what a new
call finds. The pipelines' own properties are checked here, over any sequence
of requests.

### Manifest

`ChunkStream` cuts a file; where FastCDC cuts is any choice within the profile's
lengths. A manifest from elsewhere has any descriptors, each chosen when the
loop of `validate` reaches it, and any number of them. `LimitsAssumption` states
what the code's constants satisfy: 100 GiB are exactly 204,800 pieces of 512
KiB, and 204,800 pieces of 8 MiB are far below 2^64.

## Runs

| Run | Instance | Shows |
|---|---|---|
| uploads | a git-cdc-v1 and two basic uploads of one object, 2 genuine manifests (one names a chunk twice, the other is cut elsewhere) and one that does not hash to the OID, one admin run at a time | TypeOK, PublishedVerified, CatalogConsistent, OneUploadPerObject, RefCountsExact, ImplementsCatalog, ObjectsImmutable, SessionLifecycle, ProtectedBytes |
| progress | basic uploads of an object of one chunk, one after the other, 2 admin runs at a time, reclamation run again and again, fair scheduling | ObjectsComplete, QueueDurable, QueueDrainsUnlessPinned, UploadsEnd, AdminRunsEnd |
| epochs | 2 objects, 2 admin runs | TypeOK, RetainedWithoutProof, ProtectedStays |
| locking | 3 ids, pages of one lock, limits below and above the range, 2 concurrent unlocks | TypeOK, ListingExact, VerifySeesTheirs, OnlyEntitledUnlock |
| requests | 2 requests of any kind, one permit of each kind, a cache of one entry for two access kinds; time to live and timeout 1, clock up to 3 | RequestsTypeOK, CacheBounded, GrantsAreRecent, StagingBounded, WorkAuthorized |
| agent | 2 workers (the default), files of up to 6 chunks, two of them equal, any cache contents, any number of requests, fair scheduling | TypeOK, FinalizeAfterAcks, FileInOrder, BoundedMemory, ThreadsJoined, AnswersTruthful, UploadEnds, DownloadEnds |
| transactions | 3 connections, 2 objects that share their chunks in opposite order (one names a chunk twice), a second way to cut the first | TypeOK, DrainsNeverDeadlock, ImplementsCatalog |
| manifests | sizes up to 15 (and 16), pieces of 3 to 5, at most 5 of them, every descriptor of small numbers | TypeOK, CoversExactly, OwnManifestsAccepted |

Runs that show a disagreement between the code and what its documentation or
comments say (quoted in `PROJECT.json`):

| Run | Property | What happens |
|---|---|---|
| queue_stuck | QueueDrains | the chunk list of a finalized session keeps the row of a chunk from ever being deleted; each `uploads-reclaim` or `gc-collect` stops at it |
| cdc_race | ObjectsComplete | a chunk found present by `begin_cdc` is reclaimed before the object is published |
| stale_tombstone | DeletedStillAbsent | an object that was staged, then found again by a scan and contained in one of the two newest epochs, is still deleted |
| revocation | RevokedWithinTtl | the time to live of a cached decision starts at its insertion, up to one HTTP timeout after Forgejo decided: a right is granted longer than the documented 30 seconds after it was withdrawn. `GrantsAreRecent` is the bound that holds, `Ttl + Timeout` |

Further differences, found while modelling, that no run is kept for:

* `reconcile::scan` greps the tips of refs (reconcile.rs:36). An object that only
  ancestor commits name is in no epoch, is staged and deleted, although a
  checkout of that commit needs it; docs/PROJECT_PLAN.md:125-126 says that the
  reconciler "walks commits reachable from branches and tags".
* A basic transfer is authorized before it waits for its permit (lib.rs:793), a
  chunk request after (lib.rs:1040). Behind two long transfers the former
  begins its work with a decision of any age, so `WorkAuthorized` is stated for
  the latter.
* A client that disconnects while its basic upload is hashed frees its permit
  and the name of its file at once (lib.rs:817); the blocking thread goes on
  and keeps the space. `StagingBounded` bounds the files in the directory.
* The gauge of requests in flight is decremented after the handler has answered
  (lib.rs:506-508), so a handler that is dropped leaves it too high.
* Two publications of objects that share chunks in opposite order wait for each
  other. PostgreSQL aborts one of them; it is answered with 500 and the client
  retries. `DrainsNeverDeadlock` says that the run that has already deleted
  bytes is never the one aborted.
* A drain that finds no row for an entry deletes the entry with a later statement
  (gc.rs:286), and one that is inserted in between goes with it: the chunk is
  neither referenced nor queued until it is used again. It is the exception in
  `QueueDurable`.
* `reclaim_expired_uploads` queues the chunks of expired sessions in one
  statement and deletes the sessions in a later one. A chunk registered in
  between (`RegisterChunk` between `StartReclaim` and `PurgeSessions`) loses its
  registration by the cascade and is in no queue, so nothing ever deletes it;
  gc.rs:207 says that unreferenced chunks of abandoned uploads are reclaimed.
* `validate_lock_path` accepts "." components: `a` and `./a` are two locks,
  although its message asks for a normalized path (lib.rs:765).
* The comment at lib.rs:162-163 says that tokens are checked on every request so
  that revocation takes effect immediately; the cache delays it by up to the
  bound of `GrantsAreRecent`.
* A download holds, for the moment it takes to schedule the next chunk, one chunk
  more than it has workers: the one just written (backend.rs:410-421).
  `BoundedMemory` does not count it.
* A corrupt cache file that two workers (of a chunk that occurs twice) or a
  worker and a prune remove at the same time fails the download
  (`RemoveCorrupt`); docs/PROTOCOL.md:65 says such entries are removed and
  refetched.

Bounds. Two of an actor are enough for a race of two handlers: `uploads` has three
uploads and one run, `progress` one upload and two runs, and the proofs are for
any number of both. `transactions` has three connections, for a publication and
a collection that wait for each other while a third transaction drains or
registers what both touch. With two workers, six
chunks are more than workers and both channels take, so that reordering,
refilling, and a producer or a worker that waits on a full channel all happen.
One permit of each kind makes every second request wait. Manifests go up to and
beyond each of their limits. Chunk sharing and a repeated chunk occur in the
catalog's manifests; two objects that share chunks are in the transactions run.
`SessionIds` bounds the sessions created, so that one is purged and another
opened in its place; `MaxTime` exceeds the time to live plus the timeout by as
much as an entry needs to expire.
Symmetry is used in safety runs only. In `progress` one client uploads again and
again, through two sessions, and two runs wait for each other's row locks,
expiries and entries: liveness checking is the most expensive run. In
`revocation` the timeout is two ticks, so that a tick more than the time to live
can be told from the documented bound. `CHECK_DEADLOCK FALSE` appears where the
modelled activity ends: a transfer process that is over, a validated manifest,
ids or time used up.

Fairness. The client's threads and, through its timeouts, its HTTP requests are
weakly fair, and so are the agent's answers; Git LFS may stop sending lines
(`FairSpec` of `TransferAgent`). In `ChunkLifecycle` the steps of a request and of a run are
strongly fair: PostgreSQL wakes the waiters of a row lock in the order they
came, so a lock that is taken again and again starves nobody. Nothing forces a
request to start, an object to be staged or a run to be started. Only
`ScheduledSpec` assumes an operator who has `uploads-reclaim` run again and again
(strong fairness of some `StartReclaim`: it need not be the same process), who
kills runs finitely often (`NotKilled` from some time on), and that sessions
grow old, that is, nobody renews one for ever.

## Proofs

Each from the named assumptions on the constants only. The sets of clients,
runs, sessions, objects, chunks, requests, tokens and locks may be of any size,
and need not be finite.

* `ChunkLifecycleProofs` goes in stages, each an inductive invariant relative to
  the earlier ones. `Sessions`: types of sessions, requests and of
  the uncommitted batch. `Counted`: `RefCountsExact` with what it needs,
  that an object's `object_chunks` rows are exactly its manifest's and finite
  in number (so that publishing adds, and collecting takes away, disjoint
  finite sets; `UsesAdds` does the arithmetic). `Typed`: the remaining types;
  reference counts stay in Nat only because they are exact. `Guarded`: the
  foreign keys, and that a row locked by `drain_chunk_queue` before the
  deletion of bytes is unreferenced and in no open session, which no other
  request can change while the lock is held. From them: `TypeCorrect`,
  `CountsAreExact`, `CatalogIsConsistent`, `BytesAreProtected`, and three more
  action properties, `SessionsMoveForward`, `PublicationIsFinal` and
  `QueueIsDurable` (with its exception). Then three smaller invariants. `OneOpen`, with `Linked` of the
  first stage (the requests of a session upload its manifest), is
  `OneUploadAtATime`. `Vetted` gives `OnlyVerifiedObjects`: whoever may
  publish has seen bytes that hash to the OID, a basic request from its start, a
  git-cdc-v1 request since it verified its chunks. `Stored` gives
  `BasicObjectsComplete`: while its session is open, what a basic request has
  stored is registered and therefore still there (`OpenSessionKeeps`). Its
  hypothesis, no git-cdc-v1 clients, is what `cdc_race` shows to be needed.
  `RefinesCatalog` goes action by action; only registration, publication,
  reclamation and collection change the catalog's tables.
* `CatalogTransactionsProofs`: `TransactionsRefineCatalog`. A commit is one step
  of `Catalog` only if what the transaction has read and written since its
  first statement is still right, and that is what `Inv` says of every
  transaction under way: what it holds at each position (`Shape`), that it
  holds rows that exist or that it inserted (`Grounded`), that the object it
  publishes is still absent and the one it collects still has the manifest it
  read (`Placed`), that each uncommitted count is the committed one plus or minus
  the rows counted so far (`Counted`), and that no two transactions hold
  conflicting locks or versions (`Apart`). The committed counts are exact
  throughout (`Exact`), so a collection never goes below zero
  (`TransactionsTyped`). Most statements change one transaction only, and
  `StepKeepsInv` reduces them to that transaction's part of `Inv`.
  `DrainsOutsideDeadlocks` follows from `Shape`: a drain that waits holds nothing.
* `ReachabilityProofs`: `Typed` (at most two epochs, `newer` within what is
  visible), then `ProofBeforeTombstone`, with the strengthening that a staging
  under way had two epochs and epochs never get fewer, and
  `ProtectedObjectsStay`, whose core is the lemma `NewestEpochs`: wherever a
  new epoch is inserted, an object in it and in one of the two old ones is in
  one of the two that remain.
* `LocksProofs`: `UnlockIsEntitled`. The invariant `Entitled` says that what
  the SELECT of an unlock found is still true at its DELETE, because an id is
  never used twice and a lock never changes its owner. `ListingsAreExact` and
  `TheirsAreSeen` rest on `PageIsExact`: a page has every lock up to its last
  one, or all there are when no page follows. Its counting argument needs a last
  element of a finite set; the library's induction theorems cannot be used, but
  that a set of natural numbers has a least element (`LeastNatural`) follows from
  the well-foundedness of `<` without one. The invariant `Paged` of a listing says
  that of the locks present since its beginning exactly those up to the cursor
  were returned, each once, and nothing beyond it. `LocksTyped` includes the
  unique ids and paths.
* `TransferAgentProofs`: `AgentInv` says that a call in progress satisfies
  its pipeline's invariant and that nothing is left of it afterwards. For an
  upload, `UploadFlow`: unless an error is noted, each missing chunk the file has
  yielded is acknowledged, queued, in a worker's hands or about to be sent, and
  a worker stops without an error only when the channel is closed and empty.
  When all have stopped, only "acknowledged" is left (`FinalizedIsComplete`). For
  a download, `DownloadFlow`: jobs, busy workers, results and pending chunks are
  together no more than the chunks scheduled and not yet written, and these no
  more than the workers, because a chunk is scheduled only when one was
  written. That is `MemoryIsBounded`, and it is why the job channel always has
  room and the main thread never waits on it. `WrittenInOrder`,
  `NoThreadOutlivesItsCall`, `AgentTyped` and `AnswersAreTruthful` follow from the
  same invariant. Any finite number of workers, chunks and attempts; a file of
  any length.
* `ForgejoAuthProofs`: `GrantsStayRecent` from the invariant `Recent`, which
  follows a right through its three ages: Forgejo gave it after the request
  was sent (`AllowedSinceSent`), the request was sent at most `Timeout` ago
  (`AnswersAreTimely`), and an entry expires at most `Ttl + Timeout` after
  Forgejo gave what it grants (`EntriesAreRecent`). `CacheStaysBounded`: an
  insertion follows an eviction, which leaves room for one.
* `ServerRequestsProofs`: `HandlersAuthenticate`, that the handlers implement
  `ForgejoAuth` (a disconnect is a refusal, the end of a granted request, or
  no step at all), carries both over to the server. The invariant
  `RequestsInv` (permits are held by finitely many requests, a staged file has
  a permit, and a request is in `authenticate_forgejo` exactly while its
  handler awaits it and for the access it asked) gives `RequestsTypeCorrect`,
  `StagingStaysBounded` and, with `GrantsAreRecent`, `DataWorkIsAuthorized`.
* `ManifestProofs`: `AcceptedCoversExactly` from `Covered`, the loop invariant of
  `validate`; `OwnManifestsPass` from `Cut`, which says of a stream that its
  pieces follow each other and that all but the last have the minimal length,
  so that a file within the size limit has no more pieces than are allowed.
  These hold for every size and limit that satisfies `LimitsAssumption`, hence
  for the code's.

Every invariant and action property of the passing runs is stated by a theorem.
Only model-checked: the liveness properties `QueueDrainsUnlessPinned`,
`UploadsEnd`, `AdminRunsEnd`, `UploadEnds` and `DownloadEnds`, because the prover
handles neither fairness nor ENABLED. `ObjectsComplete` is proved for basic
uploads and false with git-cdc-v1 ones. The proofs are about the unbounded
specifications; the bounds that remain in them (`SessionIds`, `Ids`, `MaxTime`) are
parameters of any size.

## Not modelled

* OIDC and development authentication: stateless checks of one request.
* Where FastCDC cuts (a library), parsing of digests, URL building, transfer
  selection in the batch answer: pure functions of one request.
* Server start, schema check, readiness, metrics; a shutdown ends the process,
  which is `AbortUpload` to the modelled parts. The client's configuration
  commands (Git keeps the state), release tooling.
* A delete request that the provider executes after the run that sent it was
  killed; corrupt bytes at the provider, which `PutMode::Create` does not
  repair; the size in a chunk's row, inserted before the digest is checked.
* Which cache entries `prune_cache` chooses: a prune removes any entry.
* Repositories and grants managed by `git-lfs-delta-admin`: single statements.

## Plan

Done: the modules, runs and proofs above. What is left, in this order:

1. what holds of git-cdc-v1 uploads in place of `ObjectsComplete`, as a theorem:
   a published object lacks at most chunks that were in the store when
   `begin_cdc` planned the upload and that its session did not register;
2. the safety half of termination: a state in which a transfer cannot go on is
   one in which it has ended (no worker waits on a full channel whose reader is
   gone), as an invariant next to `UploadEnds` and `DownloadEnds`;
3. chunk sizes and corrupt provider bytes in a model of the store with the
   download handlers.
