--------------------------- MODULE ClientDownload ---------------------------
(***************************************************************************)
(* HttpBackend::download: a main thread that schedules, reorders and       *)
(* writes chunks, and workers that read them from the local cache or from  *)
(* the server, over two bounded channels.                                  *)
(*                                                                         *)
(* The closure given to thread::scope owns the sender of `jobs`, so every  *)
(* way out of it closes that channel; it only borrows the receiver of      *)
(* `results`, so a worker never finds that channel disconnected.  The      *)
(* scope ends when all workers have.                                       *)
(***************************************************************************)
EXTENDS Naturals, Sequences, FiniteSets

CONSTANTS
  Workers,    \* chunk_concurrency many
  Total,      \* chunks of the manifest, indexed 0 .. Total - 1
  Digests,
  DigestOf,   \* digest of each index; equal chunks share a cache file
  Attempts    \* requests for one chunk (3 in the code)

Index == 0 .. Total - 1
Width == Cardinality(Workers)

VARIABLES
  main,       \* position of the main thread
  next,       \* next_scheduled
  file,       \* indexes written to the temporary file; next_write is its length
  pending,    \* received and not yet written
  jobs, open, \* the channel to the workers, and whether its sender exists
  results,    \* the channel from the workers
  wk,         \* the workers
  disk,       \* the chunk cache on disk, shared with other processes
  genuine     \* external: the manifest's chunks hash to the requested OID

mainVars == <<main, next, file, pending>>
vars == <<mainVars, jobs, open, results, wk, disk, genuine>>

Idle == [pc |-> "take"]
Worker ==
  {Idle, [pc |-> "exited"]}
    \cup [pc : {"read", "remove", "publish", "send", "sendError"}, index : Index]
    \cup [pc : {"fetch"}, index : Index, attempt : 1 .. Attempts]

TypeOK ==
  /\ main \in {"manifest", "fill", "recv", "drain", "refill", "joinOk", "joinError",
               "kept", "failed"}
  /\ next \in 0 .. Total
  /\ file \in Seq(Index) /\ Len(file) <= next
  /\ pending \subseteq Index
  /\ jobs \in Seq(Index) /\ Len(jobs) <= Width
  /\ open \in BOOLEAN
  /\ results \in Seq(Index \X BOOLEAN) /\ Len(results) <= Width
  /\ wk \in [Workers -> Worker]
  /\ disk \in [Digests -> {"absent", "valid", "corrupt"}]
  /\ genuine \in BOOLEAN

Init ==
  /\ main = "manifest"
  /\ next = 0 /\ file = <<>> /\ pending = {}
  /\ jobs = <<>> /\ open = TRUE /\ results = <<>>
  /\ wk = [w \in Workers |-> Idle]
  /\ disk \in [Digests -> {"absent", "valid", "corrupt"}]
  /\ genuine \in BOOLEAN

-----------------------------------------------------------------------------
(* The main thread.                                                         *)

\* The manifest is fetched and is valid; the workers are started.
ManifestOk ==
  /\ main = "manifest"
  /\ main' = "fill"
  /\ UNCHANGED <<next, file, pending, jobs, open, results, wk, disk, genuine>>

\* It is not, or not for this object: no worker was started.
ManifestError ==
  /\ main = "manifest"
  /\ main' = "failed"
  /\ UNCHANGED <<next, file, pending, jobs, open, results, wk, disk, genuine>>

\* Chunks scheduled before the first one is received.
\* (Mutant: both channels are filled.)
FillBoth == 2 * Width
Window == Width

\* jobs.send of the next index; it blocks while the channel is full.
Schedule ==
  /\ Len(jobs) < Width
  /\ jobs' = Append(jobs, next)
  /\ next' = next + 1

Fill ==
  /\ main = "fill"
  /\ IF next < Total /\ next < Window
     THEN Schedule /\ UNCHANGED main
     ELSE main' = "recv" /\ UNCHANGED <<jobs, next>>
  /\ UNCHANGED <<file, pending, open, results, wk, disk, genuine>>

\* The closure returns: its captured sender is dropped with it.
\* (Mutant: the sender is only borrowed.)
LeaveBorrowed(state) ==
  /\ main' = state
  /\ open' = (state = "joinError")
Leave(state) ==
  /\ main' = state
  /\ open' = FALSE

\* results.recv, or the end of the loop.
Recv ==
  /\ main = "recv"
  /\ IF Len(file) = Total
     THEN Leave("joinOk") /\ UNCHANGED <<pending, results>>
     ELSE /\ results # <<>>
          /\ results' = Tail(results)
          /\ IF Head(results)[2]
             THEN /\ pending' = pending \cup {Head(results)[1]}
                  /\ main' = "drain"
                  /\ UNCHANGED open
             ELSE Leave("joinError") /\ UNCHANGED pending
  /\ UNCHANGED <<next, file, jobs, wk, disk, genuine>>

\* The chunks that may be written next.
\* (Mutant: chunks are written as they arrive.)
Arrived == pending
Writable == pending \cap {Len(file)}

\* What follows a write.
\* (Mutant: there is always one more chunk to schedule.)
AlwaysRefill == "refill"
AfterWrite == IF next < Total THEN "refill" ELSE "drain"

\* Write what is next in order, if it has arrived.
Drain ==
  /\ main = "drain"
  /\ IF Writable = {}
     THEN main' = "recv" /\ UNCHANGED <<file, pending>>
     ELSE \E i \in Writable :
            /\ pending' = pending \ {i}
            /\ file' = Append(file, i)
            /\ main' = AfterWrite
  /\ UNCHANGED <<next, jobs, open, results, wk, disk, genuine>>

\* The temporary file cannot be written.
WriteError ==
  /\ main = "drain"
  /\ Writable # {}
  /\ Leave("joinError")
  /\ UNCHANGED <<next, file, pending, jobs, results, wk, disk, genuine>>

\* One more chunk is scheduled for each one written.
Refill ==
  /\ main = "refill"
  /\ Schedule
  /\ main' = "drain"
  /\ UNCHANGED <<file, pending, open, results, wk, disk, genuine>>

\* The whole file is hashed as it is written.
HashMatches == genuine /\ file = [i \in 1 .. Total |-> i - 1]

\* The scope has joined its threads; the file is kept or deleted.
Finish ==
  /\ main \in {"joinOk", "joinError"}
  /\ \A w \in Workers : wk[w].pc = "exited"
  /\ main' = IF main = "joinOk" /\ HashMatches THEN "kept" ELSE "failed"
  /\ UNCHANGED <<next, file, pending, jobs, open, results, wk, disk, genuine>>

\* temporary.keep fails.
KeepError ==
  /\ main = "joinOk"
  /\ \A w \in Workers : wk[w].pc = "exited"
  /\ main' = "failed"
  /\ UNCHANGED <<next, file, pending, jobs, open, results, wk, disk, genuine>>

-----------------------------------------------------------------------------
(* The workers.                                                             *)

Move(w, state) == wk' = [wk EXCEPT ![w] = state]
At(w, pc) == main # "manifest" /\ wk[w].pc = pc
Entry(w) == DigestOf[wk[w].index]
Go(pc, w) == [pc |-> pc, index |-> wk[w].index]
Fetch(w, n) == [pc |-> "fetch", index |-> wk[w].index, attempt |-> n]

Take(w) ==
  /\ At(w, "take")
  /\ jobs # <<>>
  /\ Move(w, [pc |-> "read", index |-> Head(jobs)])
  /\ jobs' = Tail(jobs)
  /\ UNCHANGED <<mainVars, open, results, disk, genuine>>

Exit(w) ==
  /\ At(w, "take")
  /\ jobs = <<>> /\ ~ open
  /\ Move(w, [pc |-> "exited"])
  /\ UNCHANGED <<mainVars, jobs, open, results, disk, genuine>>

\* read_or_fetch_chunk: a cached chunk is used when its digest is right.
ReadCache(w) ==
  /\ At(w, "read")
  /\ Move(w, CASE disk[Entry(w)] = "valid"   -> Go("send", w)
               [] disk[Entry(w)] = "corrupt" -> Go("remove", w)
               [] disk[Entry(w)] = "absent"  -> Fetch(w, 1))
  /\ UNCHANGED <<mainVars, jobs, open, results, disk, genuine>>

\* remove_file, which fails when another thread or process was faster.
RemoveCorrupt(w) ==
  /\ At(w, "remove")
  /\ IF disk[Entry(w)] # "absent"
     THEN disk' = [disk EXCEPT ![Entry(w)] = "absent"] /\ Move(w, Fetch(w, 1))
     ELSE Move(w, Go("sendError", w)) /\ UNCHANGED disk
  /\ UNCHANGED <<mainVars, jobs, open, results, genuine>>

\* The server answers with the chunk.
FetchOk(w) ==
  /\ At(w, "fetch")
  /\ Move(w, Go("publish", w))
  /\ UNCHANGED <<mainVars, jobs, open, results, disk, genuine>>

\* A retryable status or a transport error.
FetchRetry(w) ==
  /\ At(w, "fetch")
  /\ Move(w, IF wk[w].attempt < Attempts THEN Fetch(w, wk[w].attempt + 1) ELSE Go("sendError", w))
  /\ UNCHANGED <<mainVars, jobs, open, results, disk, genuine>>

\* Another status, a body that fails validation, a cache that cannot be written.
FetchError(w) ==
  /\ At(w, "fetch")
  /\ Move(w, Go("sendError", w))
  /\ UNCHANGED <<mainVars, jobs, open, results, disk, genuine>>

\* persist_noclobber: a file that is there by now is left as it is.
Publish(w) ==
  /\ At(w, "publish")
  /\ disk' = [disk EXCEPT ![Entry(w)] = IF @ = "absent" THEN "valid" ELSE @]
  /\ Move(w, Go("send", w))
  /\ UNCHANGED <<mainVars, jobs, open, results, genuine>>

\* completed.send blocks while the channel is full.
SendResult(w) ==
  /\ At(w, "send") \/ At(w, "sendError")
  /\ Len(results) < Width
  /\ results' = Append(results, <<wk[w].index, wk[w].pc = "send">>)
  /\ Move(w, Idle)
  /\ UNCHANGED <<mainVars, jobs, open, disk, genuine>>

\* `git-lfs-delta cache prune` in another process.
Prune(d) ==
  /\ disk[d] # "absent"
  /\ disk' = [disk EXCEPT ![d] = "absent"]
  /\ UNCHANGED <<mainVars, jobs, open, results, wk, genuine>>

MainStep ==
  \/ ManifestOk \/ ManifestError \/ Fill \/ Recv \/ Drain \/ WriteError \/ Refill
  \/ Finish \/ KeepError
WorkerStep(w) ==
  \/ Take(w) \/ Exit(w) \/ ReadCache(w) \/ RemoveCorrupt(w)
  \/ FetchOk(w) \/ FetchRetry(w) \/ FetchError(w) \/ Publish(w) \/ SendResult(w)

Next == MainStep \/ (\E w \in Workers : WorkerStep(w)) \/ (\E d \in Digests : Prune(d))

Spec == Init /\ [][Next]_vars

-----------------------------------------------------------------------------
\* Workers complete chunks in any order; what is written is always a prefix of
\* the object, and what is kept is the whole object with the requested OID.
FileInOrder ==
  /\ \A i \in DOMAIN file : file[i] = i - 1
  /\ main = "kept" => Len(file) = Total /\ genuine

\* "Bounded-memory": a slow first chunk does not make the others pile up.  The
\* chunks being sent, received or waiting to be written are never more than there
\* are workers.  The one the main thread has just written is not counted: its
\* bytes live until the next one is scheduled, so memory holds one more.
BoundedMemory ==
  Cardinality({w \in Workers : wk[w].pc \in {"publish", "send"}})
    + Len(results) + Cardinality(pending) <= Width

\* Every download ends, also when the main thread stops receiving after an
\* error while workers still have results to send into a bounded channel.
DownloadEnds == (main = "manifest") ~> (main \in {"kept", "failed"})
=============================================================================
