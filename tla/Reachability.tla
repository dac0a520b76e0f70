---------------------------- MODULE Reachability ----------------------------
(***************************************************************************)
(* Which objects garbage collection may delete: reachability scans of the  *)
(* Git repository (reconcile), the two newest complete epochs, gc-stage    *)
(* and gc-collect, interleaved with pushes.                                *)
(*                                                                         *)
(* The Git repository is external: an object is at a tip when a tree at    *)
(* the tip of a ref holds its pointer.  Pointers that only ancestor commits*)
(* have are never scanned, and are no different from no pointers here.  A  *)
(* push makes sure first, with a batch request, that the server has the    *)
(* object.                                                                 *)
(*                                                                         *)
(* completed_at is PostgreSQL's now(), the time at which a transaction     *)
(* began: epochs are ordered by that, and become visible as they commit.   *)
(***************************************************************************)
EXTENDS Naturals, Sequences

CONSTANTS
  Oids,     \* LFS object identities
  Admins    \* concurrent runs of git-lfs-delta-admin

VARIABLES
  tip,      \* pointers in the trees at the tips of all refs
  pushing,  \* objects a pusher was told are on the server, ref not yet moved
  objects,  \* table objects
  epochs,   \* the complete epochs that can still be read, oldest first
  tomb,     \* table object_tombstones
  apc,      \* position of each administrative run
  held,     \* the OIDs a run holds in memory between two transactions
  before,   \* the submissions that were under way when a run's own began
  newer     \* how many visible epochs began after a run's submission (2: or more)

adminVars == <<apc, held, before, newer>>
vars == <<tip, pushing, objects, epochs, tomb, adminVars>>

TypeOK ==
  /\ tip \subseteq Oids
  /\ pushing \subseteq Oids
  /\ objects \subseteq Oids
  /\ epochs \in Seq(SUBSET Oids) /\ Len(epochs) <= 2
  /\ tomb \in [Oids -> {"none", "waiting", "due"}]
  /\ apc \in [Admins -> {"idle", "scanned", "submitting", "proposed"}]
  /\ held \in [Admins -> SUBSET Oids]
  /\ before \in [Admins -> SUBSET Admins]
  /\ newer \in [Admins -> 0 .. 2]

\* A repository whose pointers are all uploaded and that was never scanned.
Init ==
  /\ tip \in SUBSET Oids
  /\ pushing = {}
  /\ objects = tip
  /\ epochs = <<>>
  /\ tomb = [o \in Oids |-> "none"]
  /\ apc = [a \in Admins |-> "idle"]
  /\ held = [a \in Admins |-> {}]
  /\ before = [a \in Admins |-> {}]
  /\ newer = [a \in Admins |-> 0]

-----------------------------------------------------------------------------
(* Git and pushes.                                                          *)

\* batch answers an upload request for an object it has with no action at all.
BatchKnown(o) ==
  /\ o \in objects
  /\ pushing' = pushing \cup {o}
  /\ UNCHANGED <<tip, objects, epochs, tomb, adminVars>>

\* batch offers an upload action and the upload is published.
Upload(o) ==
  /\ o \notin objects
  /\ objects' = objects \cup {o}
  /\ pushing' = pushing \cup {o}
  /\ UNCHANGED <<tip, epochs, tomb, adminVars>>

\* The ref moves to a commit that has the pointer.
Push(o) ==
  /\ o \in pushing
  /\ pushing' = pushing \ {o}
  /\ tip' = tip \cup {o}
  /\ UNCHANGED <<objects, epochs, tomb, adminVars>>

\* A commit on top of the tip changes or removes the pointer, or the refs that
\* lead to it are deleted or rewritten.
Supersede(o) ==
  /\ o \in tip
  /\ tip' = tip \ {o}
  /\ UNCHANGED <<pushing, objects, epochs, tomb, adminVars>>

-----------------------------------------------------------------------------
(* Administration.                                                          *)

\* scan clones a mirror and runs git grep over its refs: the trees at the tips.
ScanResult == tip

Scan(a) ==
  /\ apc[a] = "idle"
  /\ apc' = [apc EXCEPT ![a] = "scanned"]
  /\ held' = [held EXCEPT ![a] = ScanResult]
  /\ UNCHANGED <<before, newer, tip, pushing, objects, epochs, tomb>>

\* A run ends, and with it a submission that was under way.
Rest(a) ==
  /\ apc' = [apc EXCEPT ![a] = "idle"]
  /\ held' = [held EXCEPT ![a] = {}]
  /\ before' = [b \in Admins |-> IF b = a THEN {} ELSE before[b] \ {a}]

\* What is left of epochs es when e becomes visible and k of them are newer:
\* dry_run orders by completed_at and reads two.
\* (Mutant: LIMIT 2 is dropped.)
AllEpochs(es, e, k) == Append(es, e)
Newest(es, e, k) ==
  CASE k = 0 -> IF Len(es) = 2 THEN <<es[2], e>> ELSE Append(es, e)
    [] k = 1 -> <<e, es[Len(es)]>>
    [] k = 2 -> es

\* submit_snapshot begins its transaction.
BeginSubmit(a) ==
  /\ apc[a] = "scanned"
  /\ apc' = [apc EXCEPT ![a] = "submitting"]
  /\ before' = [before EXCEPT ![a] = {b \in Admins : apc[b] = "submitting"}]
  /\ UNCHANGED <<held, newer, tip, pushing, objects, epochs, tomb>>

\* The transaction commits: the epoch, its objects and the complete flag.
SubmitSnapshot(a) ==
  /\ apc[a] = "submitting"
  /\ epochs' = Newest(epochs, held[a], newer[a])
  /\ newer' = [b \in Admins |-> IF b = a THEN 0
                                ELSE IF b \in before[a] /\ newer[b] < 2 THEN newer[b] + 1
                                ELSE newer[b]]
  /\ Rest(a)
  /\ UNCHANGED <<tip, pushing, objects, tomb>>

\* dry_run's query.
\* (Mutants: absence from the newest epoch is enough; one epoch is enough.)
CandidatesOfNewest ==
  {o \in objects : Len(epochs) = 2 /\ o \notin epochs[2] /\ tomb[o] = "none"}
CandidatesOfOne ==
  {o \in objects : Len(epochs) > 0 /\ tomb[o] = "none"
                   /\ \A i \in DOMAIN epochs : o \notin epochs[i]}
Candidates ==
  {o \in objects : Len(epochs) = 2 /\ tomb[o] = "none"
                   /\ o \notin epochs[1] /\ o \notin epochs[2]}

\* gc-stage reads the candidates outside its transaction.
Propose(a) ==
  /\ apc[a] = "idle"
  /\ Candidates # {}
  /\ apc' = [apc EXCEPT ![a] = "proposed"]
  /\ held' = [held EXCEPT ![a] = Candidates]
  /\ UNCHANGED <<before, newer, tip, pushing, objects, epochs, tomb>>

\* The transaction of gc-stage; a tombstone that is already there is kept.
Stage(a) ==
  /\ apc[a] = "proposed"
  /\ held[a] \subseteq objects
  /\ tomb' = [o \in Oids |-> IF o \in held[a] /\ tomb[o] = "none" THEN "waiting" ELSE tomb[o]]
  /\ Rest(a)
  /\ UNCHANGED <<newer, tip, pushing, objects, epochs>>

\* A scan or a staging fails, or its process dies: nothing is written.  The
\* foreign key to objects makes a staging fail when a candidate is gone.
Fail(a) ==
  /\ apc[a] # "idle"
  /\ Rest(a)
  /\ newer' = [newer EXCEPT ![a] = 0]
  /\ UNCHANGED <<tip, pushing, objects, epochs, tomb>>

\* delete_after passes.
GraceEnds(o) ==
  /\ tomb[o] = "waiting"
  /\ tomb' = [tomb EXCEPT ![o] = "due"]
  /\ UNCHANGED <<tip, pushing, objects, epochs, adminVars>>

\* collect_due deletes the object and, by cascade, its tombstone.
Collect(o) ==
  /\ tomb[o] = "due"
  /\ objects' = objects \ {o}
  /\ tomb' = [tomb EXCEPT ![o] = "none"]
  /\ UNCHANGED <<tip, pushing, epochs, adminVars>>

Next ==
  \/ \E o \in Oids : BatchKnown(o) \/ Upload(o) \/ Push(o) \/ Supersede(o)
                     \/ GraceEnds(o) \/ Collect(o)
  \/ \E a \in Admins :
       \/ Scan(a) \/ BeginSubmit(a) \/ SubmitSnapshot(a)
       \/ Propose(a) \/ Stage(a) \/ Fail(a)

Spec == Init /\ [][Next]_vars

-----------------------------------------------------------------------------
\* An object is safe when it is stored and at a tip, no scan or staging that is
\* still running disagrees, and it is not proposed by the epochs on record.
Protected(o) ==
  /\ o \in tip /\ o \in objects
  /\ tomb[o] = "none"
  /\ Len(epochs) = 2 => o \in epochs[1] \/ o \in epochs[2]
  /\ \A a \in Admins : (apc[a] \in {"scanned", "submitting"} => o \in held[a])
                       /\ (apc[a] = "proposed" => o \notin held[a])

\* As long as a safe object stays at a tip, no interleaving of scans, stagings
\* and collections makes it unsafe, whatever order the epochs are submitted in
\* and become visible.
ProtectedStays ==
  [][\A o \in Oids : Protected(o) /\ o \in tip' => Protected(o)']_vars

\* Without two complete epochs completed objects are retained: a tombstone
\* exists only when two epochs do, and it always belongs to an object.
RetainedWithoutProof ==
  \A o \in Oids : tomb[o] # "none" => Len(epochs) = 2 /\ o \in objects

\* An object is deleted only when it is absent from the two newest complete
\* epochs.
DeletedStillAbsent ==
  [][\A o \in objects \ objects' :
       Len(epochs) = 2 /\ o \notin epochs[1] /\ o \notin epochs[2]]_vars
=============================================================================
