---------------------------- MODULE ClientUpload ----------------------------
(***************************************************************************)
(* HttpBackend::upload: the plan, a producer that reads the file a second  *)
(* time and hands out the missing chunks, workers that PUT them with       *)
(* retries, and the finalization.                                          *)
(*                                                                         *)
(* `jobs` is bounded and a send fails once no worker is left to receive;   *)
(* `errors` is unbounded.  The server is seen through its answers: one     *)
(* that is lost counts as a retryable failure, whatever the server did.    *)
(***************************************************************************)
EXTENDS Naturals, Sequences, FiniteSets

CONSTANTS
  Workers,    \* chunk_concurrency many
  Total,      \* chunks of the manifest, indexed 0 .. Total - 1
  Attempts    \* requests of each kind (3 in the code)

Index == 0 .. Total - 1
Width == Cardinality(Workers)

VARIABLES
  main,       \* position of the main thread
  try,        \* attempts of the request it is sending
  missing,    \* missing_chunk_indexes of the plan
  length,     \* chunks the second pass over the file will yield
  pos,        \* chunks it has yielded
  bad,        \* producer_error is set
  jobs, open, \* the channel to the workers, and whether its sender exists
  errors,     \* failures reported by workers and not received
  wk,         \* the workers
  acked       \* history variable: chunks the server has acknowledged

plan == <<missing, length>>
vars == <<main, try, plan, pos, bad, jobs, open, errors, wk, acked>>

Idle == [pc |-> "take"]
Worker == {Idle, [pc |-> "exited"]} \cup [pc : {"put"}, index : Index, attempt : 1 .. Attempts]

TypeOK ==
  /\ main \in {"begin", "chunk", "send", "poll", "join", "finalize", "done", "failed"}
  /\ try \in 1 .. Attempts
  /\ missing \subseteq Index
  /\ length \in 0 .. Total /\ pos \in 0 .. length
  /\ bad \in BOOLEAN
  /\ jobs \in Seq(missing) /\ Len(jobs) <= Width
  /\ open \in BOOLEAN
  /\ errors \in 0 .. Width
  /\ wk \in [Workers -> Worker]
  /\ acked \subseteq missing

\* The file may be shorter when it is read again; the manifest is of the first
\* pass, and a mismatch with the requested OID and size ended the upload there.
Init ==
  /\ main = "begin" /\ try = 1
  /\ missing = {} /\ length \in 0 .. Total /\ pos = 0
  /\ bad = FALSE
  /\ jobs = <<>> /\ open = TRUE /\ errors = 0
  /\ wk = [w \in Workers |-> Idle]
  /\ acked = {}

-----------------------------------------------------------------------------
(* The main thread.                                                         *)

\* begin_upload succeeds with a plan that passes the checks; workers start.
BeginOk(m) ==
  /\ main = "begin"
  /\ missing' = m
  /\ main' = "chunk" /\ try' = 1
  /\ UNCHANGED <<length, pos, bad, jobs, open, errors, wk, acked>>

\* begin_upload and finalize_upload retry alike.
Retry ==
  /\ main \in {"begin", "finalize"}
  /\ try < Attempts
  /\ try' = try + 1
  /\ UNCHANGED <<main, plan, pos, bad, jobs, open, errors, wk, acked>>

\* Attempts are used up, the answer is final, or the plan fails the checks.
GiveUp ==
  /\ main \in {"begin", "finalize"}
  /\ main' = "failed"
  /\ UNCHANGED <<try, plan, pos, bad, jobs, open, errors, wk, acked>>

\* The loop ends: producer_error is set or not, and jobs is dropped.
EndLoop(error) ==
  /\ main' = "join"
  /\ bad' = error
  /\ open' = FALSE

\* No chunk is left, or it cannot be read.
LastChunk ==
  /\ main = "chunk"
  /\ pos = length
  /\ EndLoop(FALSE)
  /\ UNCHANGED <<try, plan, pos, jobs, errors, wk, acked>>

ReadError ==
  /\ main = "chunk"
  /\ EndLoop(TRUE)
  /\ UNCHANGED <<try, plan, pos, jobs, errors, wk, acked>>

\* A chunk the server has is passed over, a missing one is to be sent.
NextChunk ==
  /\ main = "chunk"
  /\ pos < length
  /\ main' = IF pos \in missing THEN "send" ELSE "poll"
  /\ pos' = pos + 1
  /\ UNCHANGED <<try, plan, bad, jobs, open, errors, wk, acked>>

\* What a sender finds when every worker has stopped.
\* (Mutant: the send waits for room that nobody will make.)
NeverDisconnected == FALSE
Disconnected == \A w \in Workers : wk[w].pc = "exited"

\* jobs.send waits for room.
\* (Mutant: the channel is unbounded.)
SendAlways ==
  /\ main = "send"
  /\ ~ Disconnected
  /\ jobs' = Append(jobs, pos - 1)
  /\ main' = "poll"
  /\ UNCHANGED <<try, plan, pos, bad, open, errors, wk, acked>>
SendChunk ==
  /\ main = "send"
  /\ ~ Disconnected
  /\ Len(jobs) < Width
  /\ jobs' = Append(jobs, pos - 1)
  /\ main' = "poll"
  /\ UNCHANGED <<try, plan, pos, bad, open, errors, wk, acked>>

\* jobs.send fails: "chunk upload worker stopped".
SendError ==
  /\ main = "send"
  /\ Disconnected
  /\ EndLoop(TRUE)
  /\ UNCHANGED <<try, plan, pos, jobs, errors, wk, acked>>

\* errors.try_recv after each chunk.
Poll ==
  /\ main = "poll"
  /\ IF errors > 0
     THEN EndLoop(TRUE) /\ errors' = errors - 1
     ELSE main' = "chunk" /\ UNCHANGED <<bad, open, errors>>
  /\ UNCHANGED <<try, plan, pos, jobs, wk, acked>>

\* Whether the upload failed, looked at when all workers have stopped.
\* (Mutant: only what the producer noticed counts.)
ProducerFailed == bad
Failed == bad \/ errors > 0

\* The scope joins its threads.
\* (Mutant: they are detached.)
Detach ==
  /\ main = "join"
  /\ main' = IF Failed THEN "failed" ELSE "finalize"
  /\ UNCHANGED <<try, plan, pos, bad, jobs, open, errors, wk, acked>>
Join ==
  /\ main = "join"
  /\ \A w \in Workers : wk[w].pc = "exited"
  /\ main' = IF Failed THEN "failed" ELSE "finalize"
  /\ UNCHANGED <<try, plan, pos, bad, jobs, open, errors, wk, acked>>

\* finalize_upload succeeds.
FinalizeOk ==
  /\ main = "finalize"
  /\ main' = "done"
  /\ UNCHANGED <<try, plan, pos, bad, jobs, open, errors, wk, acked>>

-----------------------------------------------------------------------------
(* The workers.                                                             *)

Started == main # "begin" /\ ~ (main = "failed" /\ open)
Move(w, state) == wk' = [wk EXCEPT ![w] = state]

Take(w) ==
  /\ Started
  /\ wk[w].pc = "take"
  /\ jobs # <<>>
  /\ Move(w, [pc |-> "put", index |-> Head(jobs), attempt |-> 1])
  /\ jobs' = Tail(jobs)
  /\ UNCHANGED <<main, try, plan, pos, bad, open, errors, acked>>

\* The channel is empty and disconnected.
Exit(w) ==
  /\ Started
  /\ wk[w].pc = "take"
  /\ jobs = <<>> /\ ~ open
  /\ Move(w, [pc |-> "exited"])
  /\ UNCHANGED <<main, try, plan, pos, bad, jobs, open, errors, acked>>

PutOk(w) ==
  /\ wk[w].pc = "put"
  /\ acked' = acked \cup {wk[w].index}
  /\ Move(w, Idle)
  /\ UNCHANGED <<main, try, plan, pos, bad, jobs, open, errors>>

PutRetry(w) ==
  /\ wk[w].pc = "put"
  /\ wk[w].attempt < Attempts
  /\ Move(w, [wk[w] EXCEPT !.attempt = @ + 1])
  /\ UNCHANGED <<main, try, plan, pos, bad, jobs, open, errors, acked>>

\* The last attempt fails, or an answer is final: the worker reports and stops.
PutError(w) ==
  /\ wk[w].pc = "put"
  /\ errors' = errors + 1
  /\ Move(w, [pc |-> "exited"])
  /\ UNCHANGED <<main, try, plan, pos, bad, jobs, open, acked>>

MainStep ==
  \/ \E m \in SUBSET Index : BeginOk(m)
  \/ Retry \/ GiveUp \/ LastChunk \/ ReadError \/ NextChunk \/ SendChunk \/ SendError
  \/ Poll \/ Join \/ FinalizeOk
WorkerStep(w) == Take(w) \/ Exit(w) \/ PutOk(w) \/ PutRetry(w) \/ PutError(w)

Next == MainStep \/ \E w \in Workers : WorkerStep(w)

Spec == Init /\ [][Next]_vars

-----------------------------------------------------------------------------
\* A worker may fail at any time, with jobs left in the channel, before or after
\* the producer has looked for errors: still, finalization is asked for only
\* when every missing chunk that the file yielded has been acknowledged.
FinalizeAfterAcks ==
  main \in {"finalize", "done"} => acked = missing \cap (0 .. length - 1)

\* Every upload ends: the producer is never left waiting on a full channel
\* whose workers have all stopped.
UploadEnds == (main = "begin") ~> (main \in {"done", "failed"})
=============================================================================
