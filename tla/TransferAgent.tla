--------------------------- MODULE TransferAgent ---------------------------
(***************************************************************************)
(* The process `git-lfs-delta transfer`: run_transfer_protocol reads one   *)
(* line of Git LFS at a time and runs the upload (ClientUpload) or the     *)
(* download (ClientDownload) it asks for to its end before it answers.     *)
(*                                                                         *)
(* The two pipelines are never active together: what both of them have, the*)
(* main thread's position, the job channel and the workers, are the same   *)
(* variables here.  Outside a call its local variables have the values they*)
(* start with.  Git LFS runs several such processes, which share the chunk *)
(* cache, so a call finds any cache contents.                              *)
(***************************************************************************)
EXTENDS Naturals, Sequences, FiniteSets

CONSTANTS Workers, Total, Attempts, Digests, DigestOf   \* see the pipelines

ASSUME WorkersAssumption == IsFiniteSet(Workers) /\ Workers # {}
ASSUME ManifestAssumption == Total \in Nat /\ DigestOf \in [0 .. Total - 1 -> Digests]
ASSUME AttemptsAssumption == Attempts \in Nat \ {0}

VARIABLES
  agent,        \* where run_transfer_protocol is
  initialized,
  outcome,      \* what the backend has returned for the request
  main, jobs, open, wk,                                  \* of the active pipeline
  try, missing, length, pos, bad, errors, acked,         \* of an upload
  next, file, pending, results, disk, genuine            \* of a download

agentVars == <<agent, initialized, outcome>>
uploadVars == <<try, missing, length, pos, bad, errors, acked>>
downloadVars == <<next, file, pending, results, disk, genuine>>
pipeline == <<main, jobs, open, wk, uploadVars, downloadVars>>
vars == <<agentVars, pipeline>>

Up == INSTANCE ClientUpload
Down == INSTANCE ClientDownload

Fresh == [d \in Digests |-> "absent"]

\* The local variables of a call, as it finds or leaves them.
NoCall ==
  /\ main = "none" /\ jobs = <<>> /\ open = TRUE /\ wk = [w \in Workers |-> Up!Idle]
  /\ try = 1 /\ missing = {} /\ length = 0 /\ pos = 0 /\ bad = FALSE
  /\ errors = 0 /\ acked = {}
  /\ next = 0 /\ file = <<>> /\ pending = {} /\ results = <<>>
  /\ disk = Fresh /\ genuine = TRUE

TypeOK ==
  /\ agent \in {"line", "upload", "download", "progress", "complete", "ended", "fatal"}
  /\ initialized \in BOOLEAN
  /\ outcome \in {"none", "uploaded", "downloaded", "error"}
  /\ CASE agent = "upload"   -> Up!TypeOK
       [] agent = "download" -> Down!TypeOK
       [] OTHER              -> NoCall

Init ==
  /\ agent = "line" /\ initialized = FALSE /\ outcome = "none"
  /\ NoCall

-----------------------------------------------------------------------------
(* The lines of Git LFS.                                                    *)

\* `init`; a second one is fatal, and so is an answer that cannot be written.
InitLine ==
  /\ agent = "line"
  /\ ~ initialized
  /\ initialized' = TRUE
  /\ agent' \in {"line", "fatal"}
  /\ UNCHANGED <<outcome, pipeline>>

\* A line that is not a message, a request before `init`, a second `init`, or a
\* read error.
BadLine ==
  /\ agent = "line"
  /\ agent' = "fatal"
  /\ UNCHANGED <<initialized, outcome, pipeline>>

\* `terminate`, or the end of the input.
LastLine ==
  /\ agent = "line"
  /\ agent' = "ended"
  /\ UNCHANGED <<initialized, outcome, pipeline>>

\* backend.upload.  The first pass over the file gives the manifest; the file may
\* be shorter when it is read again.
UploadLine ==
  /\ agent = "line"
  /\ initialized
  /\ agent' = "upload"
  /\ main' = "begin"
  /\ length' \in 0 .. Total
  /\ UNCHANGED <<initialized, outcome, jobs, open, wk, downloadVars>>
  /\ UNCHANGED <<try, missing, pos, bad, errors, acked>>

\* backend.download.
DownloadLine ==
  /\ agent = "line"
  /\ initialized
  /\ agent' = "download"
  /\ main' = "manifest"
  /\ disk' \in [Digests -> {"absent", "valid", "corrupt"}]
  /\ genuine' \in BOOLEAN
  /\ UNCHANGED <<initialized, outcome, jobs, open, wk, uploadVars>>
  /\ UNCHANGED <<next, file, pending, results>>

-----------------------------------------------------------------------------
(* The call and the answer.                                                 *)

UploadMain == agent = "upload" /\ Up!MainStep /\ UNCHANGED <<agentVars, downloadVars>>
UploadWorker(w) == agent = "upload" /\ Up!WorkerStep(w) /\ UNCHANGED <<agentVars, downloadVars>>
DownloadMain == agent = "download" /\ Down!MainStep /\ UNCHANGED <<agentVars, uploadVars>>
DownloadWorker(w) ==
  agent = "download" /\ Down!WorkerStep(w) /\ UNCHANGED <<agentVars, uploadVars>>
OtherProcess(d) == agent = "download" /\ Down!Prune(d) /\ UNCHANGED <<agentVars, uploadVars>>

\* What the backend returns.
\* (Mutant: an upload that failed is reported as complete.)
AlwaysUploaded == IF agent = "upload" THEN "uploaded" ELSE "downloaded"
Returned ==
  CASE main = "done"   -> "uploaded"
    [] main = "kept"   -> "downloaded"
    [] main = "failed" -> "error"

\* The call returns; only a success is preceded by a progress message.
Return ==
  /\ agent \in {"upload", "download"}
  /\ main \in {"done", "kept", "failed"}
  /\ outcome' = Returned
  /\ agent' = IF outcome' = "error" THEN "complete" ELSE "progress"
  /\ main' = "none" /\ jobs' = <<>> /\ open' = TRUE /\ wk' = [w \in Workers |-> Up!Idle]
  /\ try' = 1 /\ missing' = {} /\ length' = 0 /\ pos' = 0 /\ bad' = FALSE
  /\ errors' = 0 /\ acked' = {}
  /\ next' = 0 /\ file' = <<>> /\ pending' = {} /\ results' = <<>>
  /\ disk' = Fresh /\ genuine' = TRUE
  /\ UNCHANGED initialized

EmitProgress ==
  /\ agent = "progress"
  /\ agent' = "complete"
  /\ UNCHANGED <<initialized, outcome, pipeline>>

EmitComplete ==
  /\ agent = "complete"
  /\ agent' = "line"
  /\ outcome' = "none"
  /\ UNCHANGED <<initialized, pipeline>>

\* Git LFS is gone.
WriteFails ==
  /\ agent \in {"progress", "complete"}
  /\ agent' = "fatal"
  /\ UNCHANGED <<initialized, outcome, pipeline>>

Line == InitLine \/ BadLine \/ LastLine \/ UploadLine \/ DownloadLine
Answer == Return \/ EmitProgress \/ EmitComplete \/ WriteFails

Next ==
  \/ Line \/ Answer
  \/ UploadMain \/ DownloadMain
  \/ \E w \in Workers : UploadWorker(w) \/ DownloadWorker(w)
  \/ \E d \in Digests : OtherProcess(d)

Spec == Init /\ [][Next]_vars

\* The operating system runs every thread that can run, and the HTTP client's
\* timeouts end every request.  Git LFS may stop sending lines.
FairSpec ==
  /\ Spec
  /\ WF_vars(Answer) /\ WF_vars(UploadMain) /\ WF_vars(DownloadMain)
  /\ \A w \in Workers : WF_vars(UploadWorker(w)) /\ WF_vars(DownloadWorker(w))

-----------------------------------------------------------------------------
\* The properties of the pipelines hold for every request of a process.
FinalizeAfterAcks == Up!FinalizeAfterAcks
FileInOrder == Down!FileInOrder
BoundedMemory == agent = "download" => Down!BoundedMemory
UploadEnds == Up!UploadEnds
DownloadEnds == Down!DownloadEnds

\* A call returns only when its threads have stopped or were never started, also
\* after an error: no worker of one request sends a chunk, or writes into the
\* cache, while the next request runs.
ThreadsJoined ==
  main \in {"done", "kept", "failed"} =>
    /\ \A w \in Workers : wk[w].pc \in {"take", "exited"}
    /\ \A v, w \in Workers : wk[v] = wk[w]

\* "Object failures are emitted as completion messages and do not terminate the
\* process": a request is answered as a success only when its call succeeded, which
\* for an upload means that every missing chunk of the file is acknowledged, for a
\* download that the whole object is in the file; and no call ends the process.
AnswersTruthful ==
  [][/\ outcome' = "uploaded" /\ outcome = "none" =>
          main = "done" /\ acked = missing \cap (0 .. length - 1)
     /\ outcome' = "downloaded" /\ outcome = "none" =>
          main = "kept" /\ genuine /\ file = [i \in 1 .. Total |-> i - 1]
     /\ agent \in {"upload", "download"} /\ agent' # agent => agent' \in {"progress", "complete"}
    ]_vars
=============================================================================
