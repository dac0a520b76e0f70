------------------------ MODULE ChunkLifecycleProofs ------------------------
(***************************************************************************)
(* Proofs about ChunkLifecycle, for any number of requests, administrative *)
(* runs, sessions, objects and chunks.                                     *)
(***************************************************************************)
EXTENDS ChunkLifecycle, FiniteSetTheorems, TLAPS

-----------------------------------------------------------------------------
(* The operators the model is built from.                                   *)

\* Where a manifest's object, chunks and object_chunks rows live.
LEMMA ManifestTypes ==
  ASSUME NEW m \in Manifests
  PROVE  /\ OidOf[m] \in Oids
         /\ ChunkSet(m) \subseteq Chunks
         /\ RowsOf(m) \subseteq Oids \X Nat \X Chunks
         /\ \A r \in RowsOf(m) : r[1] = OidOf[m] /\ r[3] \in ChunkSet(m)
<1>1. ChunksOf[m] \in Seq(Chunks) /\ OidOf[m] \in Oids
  BY ConstantsAssumption
<1>2. \A i \in DOMAIN ChunksOf[m] : ChunksOf[m][i] \in Chunks /\ i \in Nat
  BY <1>1
<1>. QED
  BY <1>1, <1>2 DEF ChunkSet, RowsOf

\* A manifest is a finite sequence, so publication inserts finitely many rows.
LEMMA OrdinalsFinite ==
  ASSUME NEW m \in Manifests
  PROVE  IsFiniteSet(DOMAIN ChunksOf[m])
<1>1. ChunksOf[m] \in Seq(Chunks)
  BY ConstantsAssumption
<1>2. PICK n \in Nat : DOMAIN ChunksOf[m] = 1..n
  BY <1>1
<1>3. 1 \in Int /\ n \in Int
  OBVIOUS
<1>4. IsFiniteSet(1..n)
  BY ONLY <1>3, FS_Interval
<1>. QED
  BY <1>2, <1>4

\* A manifest has finitely many object_chunks rows.
LEMMA RowsOfFinite ==
  ASSUME NEW m \in Manifests
  PROVE  IsFiniteSet(RowsOf(m))
<1> DEFINE S == DOMAIN ChunksOf[m]
           f == [i \in S |-> <<OidOf[m], i, ChunksOf[m][i]>>]
<1>1. IsFiniteSet(S)
  BY OrdinalsFinite
<1>2. f \in Surjection(S, RowsOf(m))
  BY DEF Surjection, RowsOf
<1> HIDE DEF S, f
<1>. QED
  BY <1>1, <1>2, FS_Surjection

\* The number of rows that name a chunk is a number, and it adds up over
\* disjoint sets of rows.
LEMMA UsesType ==
  ASSUME NEW rs, IsFiniteSet(rs), NEW c
  PROVE  Uses(rs, c) \in Nat
<1>1. IsFiniteSet({r \in rs : r[3] = c})
  BY FS_Subset
<1>. QED
  BY <1>1, FS_CardinalityType DEF Uses

\* Uses in disjoint sets of rows add up.
LEMMA UsesAdds ==
  ASSUME NEW A, NEW B, IsFiniteSet(A), IsFiniteSet(B), A \cap B = {}, NEW c
  PROVE  Uses(A \cup B, c) = Uses(A, c) + Uses(B, c)
<1> DEFINE Ac == {r \in A : r[3] = c}
           Bc == {r \in B : r[3] = c}
<1>1. IsFiniteSet(Ac) /\ IsFiniteSet(Bc)
  BY FS_Subset
<1>2. {r \in A \cup B : r[3] = c} = Ac \cup Bc /\ Ac \cap Bc = {}
  OBVIOUS
<1> HIDE DEF Ac, Bc
<1>3. Cardinality(Ac \cup Bc) = Cardinality(Ac) + Cardinality(Bc) - Cardinality(Ac \cap Bc)
  BY <1>1, FS_Union
<1>4. Cardinality(Ac \cap Bc) = 0
  BY <1>2, FS_EmptySet
<1>5. Cardinality(Ac) \in Nat /\ Cardinality(Bc) \in Nat
  BY <1>1, FS_CardinalityType
<1>6. Cardinality(Ac \cup Bc) = Cardinality(Ac) + Cardinality(Bc)
  BY <1>3, <1>4, <1>5
<1>. QED
  BY <1>2, <1>6 DEF Uses, Ac, Bc

-----------------------------------------------------------------------------
(* Stage 1: sessions, the requests working in them, and the reclaim         *)
(* transactions about to change them.                                       *)

SessionTypes ==
  /\ state \in [SessionIds -> {"none", "open", "finalized", "expired", "gone"}]
  /\ sman \in [SessionIds -> Manifests \cup {NoManifest}]
  /\ age \in [SessionIds -> {"fresh", "due", "old"}]
  /\ pc \in [Clients -> {"idle", "plan", "send", "verify", "publish"}]
  /\ man \in [Clients -> Manifests \cup {NoManifest}]
  /\ sid \in [Clients -> SessionIds \cup {NoSession}]

BatchTypes ==
  /\ rows \subseteq Chunks
  /\ batch \in [Admins -> [due : SUBSET SessionIds, gone : SUBSET SessionIds,
                           chunks : SUBSET Chunks]]

\* A session that was created has a manifest; a request works on the manifest
\* of the session it is in.
Linked ==
  /\ \A s \in SessionIds : state[s] # "none" => sman[s] \in Manifests
  /\ \A cl \in Clients : pc[cl] # "idle" =>
       /\ man[cl] \in Manifests
       /\ sid[cl] \in SessionIds
       /\ man[cl] = sman[sid[cl]]
       /\ state[sid[cl]] # "none"

\* The row locks of a reclaim transaction: a session it marks stays open and
\* expired until the commit, one it deletes was expired, and two transactions
\* never mark the same session.
Batched ==
  /\ \A a \in Admins :
       /\ \A s \in batch[a].due : state[s] = "open" /\ age[s] # "fresh"
       /\ \A s \in batch[a].gone : s \in batch[a].due \/ state[s] \in {"expired", "gone"}
  /\ \A a, b \in Admins : a # b => batch[a].due \cap batch[b].due = {}

Sessions == SessionTypes /\ BatchTypes /\ Linked /\ Batched

\* Requests and reclaim transactions agree with the sessions they work on.
LEMMA SessionsInvariant == Spec => []Sessions
<1>1. Init => Sessions
  BY DEF Init, Sessions, SessionTypes, BatchTypes, Linked, Batched, EmptyBatch
<1>2. Sessions /\ [Next]_vars => Sessions'
  <2> SUFFICES ASSUME Sessions, [Next]_vars
               PROVE  Sessions'
    OBVIOUS
  <2> USE DEF sessionVars, clientVars, adminVars, chunkVars, objectVars
  <2>1. ASSUME UNCHANGED <<state, sman, age, pc, man, sid, batch, rows>>
        PROVE  Sessions'
    BY <2>1 DEF Sessions, SessionTypes, BatchTypes, Linked, Batched
  <2>2. ASSUME NEW cl \in Clients, NEW m \in Manifests, NEW s \in SessionIds,
               OpenSession(cl, m, s)
        PROVE  Sessions'
    <3>1. SessionTypes'
      BY <2>2 DEF OpenSession, EnterUpload, FirstStep, Sessions, SessionTypes
    <3>2. BatchTypes'
      BY <2>2 DEF OpenSession, EnterUpload, FirstStep, Sessions, BatchTypes
    <3>3. Linked'
      BY <2>2 DEF OpenSession, EnterUpload, FirstStep, Sessions, Linked,
             SessionTypes, OpenFor
    <3>4. Batched'
      BY <2>2 DEF OpenSession, EnterUpload, FirstStep, Sessions, Batched,
             SessionTypes, BatchTypes, OpenFor, Expiring
    <3>. QED
      BY <3>1, <3>2, <3>3, <3>4 DEF Sessions
  <2>3. ASSUME NEW cl \in Clients, NEW m \in Manifests, NEW s \in SessionIds,
               JoinSession(cl, m, s)
        PROVE  Sessions'
    <3>1. SessionTypes'
      BY <2>3 DEF JoinSession, EnterUpload, FirstStep, Live, Sessions,
             SessionTypes
    <3>2. BatchTypes'
      BY <2>3 DEF JoinSession, EnterUpload, FirstStep, Live, Sessions, BatchTypes
    <3>3. Linked'
      BY <2>3 DEF JoinSession, EnterUpload, FirstStep, Live, Sessions, Linked,
             SessionTypes
    <3>4. Batched'
      BY <2>3 DEF JoinSession, EnterUpload, FirstStep, Live, Sessions, Batched,
             SessionTypes, BatchTypes
    <3>. QED
      BY <3>1, <3>2, <3>3, <3>4 DEF Sessions
  <2>4. ASSUME NEW cl \in Clients, NEW c \in Chunks,
               PlanChunk(cl, c) \/ AcceptChunk(cl, c) \/ VerifyChunk(cl, c)
        PROVE  Sessions'
    BY <2>1, <2>4 DEF PlanChunk, AcceptChunk, VerifyChunk
  <2>5. ASSUME NEW cl \in Clients, NEW c \in Chunks, RegisterChunk(cl, c)
        PROVE  Sessions'
    <3>1. SessionTypes'
      BY <2>5 DEF RegisterChunk, Sessions, SessionTypes
    <3>2. BatchTypes'
      BY <2>5 DEF RegisterChunk, Sessions, BatchTypes
    <3>3. Linked'
      BY <2>5 DEF RegisterChunk, Sessions, Linked, SessionTypes
    <3>4. Batched'
      BY <2>5 DEF RegisterChunk, Sessions, Batched, SessionTypes, BatchTypes
    <3>. QED
      BY <3>1, <3>2, <3>3, <3>4 DEF Sessions
  <2>6. ASSUME NEW cl \in Clients, NEW c \in Chunks, PutChunk(cl, c)
        PROVE  Sessions'
    BY <2>1, <2>6 DEF PutChunk
  <2>7. ASSUME NEW cl \in Clients, NEW c \in Chunks,
               RefuseChunk(cl, c) \/ RegisterFails(cl, c) \/ VerifyFails(cl, c)
        PROVE  Sessions'
    <3>1. SessionTypes'
      BY <2>7 DEF RefuseChunk, RegisterFails, VerifyFails, LeaveUpload, Sessions,
             SessionTypes
    <3>2. BatchTypes'
      BY <2>7 DEF RefuseChunk, RegisterFails, VerifyFails, LeaveUpload, Sessions,
             BatchTypes
    <3>3. Linked'
      BY <2>7 DEF RefuseChunk, RegisterFails, VerifyFails, LeaveUpload, Sessions,
             Linked, SessionTypes
    <3>4. Batched'
      BY <2>7 DEF RefuseChunk, RegisterFails, VerifyFails, LeaveUpload, Sessions,
             Batched, SessionTypes, BatchTypes
    <3>. QED
      BY <3>1, <3>2, <3>3, <3>4 DEF Sessions
  <2>8. ASSUME NEW cl \in Clients,
               PlanReady(cl) \/ BasicComplete(cl) \/ FinalizeLoads(cl)
        PROVE  Sessions'
    <3>1. SessionTypes'
      BY <2>8 DEF PlanReady, BasicComplete, FinalizeLoads, AllSent, Sessions,
             SessionTypes
    <3>2. BatchTypes'
      BY <2>8 DEF PlanReady, BasicComplete, FinalizeLoads, AllSent, Sessions,
             BatchTypes
    <3>3. Linked'
      BY <2>8 DEF PlanReady, BasicComplete, FinalizeLoads, AllSent, Sessions,
             Linked, SessionTypes
    <3>4. Batched'
      BY <2>8 DEF PlanReady, BasicComplete, FinalizeLoads, AllSent, Sessions,
             Batched, SessionTypes, BatchTypes
    <3>. QED
      BY <3>1, <3>2, <3>3, <3>4 DEF Sessions
  <2>9. ASSUME NEW cl \in Clients,
               FinalizeAnswers(cl) \/ PublishRefused(cl) \/ AbortUpload(cl)
        PROVE  Sessions'
    <3>1. SessionTypes'
      BY <2>9 DEF FinalizeAnswers, PublishRefused, AbortUpload, LeaveUpload,
             Sessions, SessionTypes
    <3>2. BatchTypes'
      BY <2>9 DEF FinalizeAnswers, PublishRefused, AbortUpload, LeaveUpload,
             Sessions, BatchTypes
    <3>3. Linked'
      BY <2>9 DEF FinalizeAnswers, PublishRefused, AbortUpload, LeaveUpload,
             Sessions, Linked, SessionTypes
    <3>4. Batched'
      BY <2>9 DEF FinalizeAnswers, PublishRefused, AbortUpload, LeaveUpload,
             Sessions, Batched, SessionTypes, BatchTypes
    <3>. QED
      BY <3>1, <3>2, <3>3, <3>4 DEF Sessions
  <2>10. ASSUME NEW cl \in Clients, Verified(cl)
         PROVE  Sessions'
    <3>1. SessionTypes'
      BY <2>10 DEF Verified, LeaveUpload, Sessions, SessionTypes
    <3>2. BatchTypes'
      BY <2>10 DEF Verified, LeaveUpload, Sessions, BatchTypes
    <3>3. Linked'
      BY <2>10 DEF Verified, LeaveUpload, Sessions, Linked, SessionTypes
    <3>4. Batched'
      BY <2>10 DEF Verified, LeaveUpload, Sessions, Batched, SessionTypes,
             BatchTypes
    <3>. QED
      BY <3>1, <3>2, <3>3, <3>4 DEF Sessions
  <2>11. ASSUME NEW cl \in Clients, PublishManifest(cl)
         PROVE  Sessions'
    <3>1. SessionTypes'
      BY <2>11 DEF PublishManifest, LeaveUpload, Live, Sessions, SessionTypes
    <3>2. BatchTypes'
      BY <2>11, ManifestTypes DEF PublishManifest, LeaveUpload, Live, Sessions,
             BatchTypes, Linked, SessionTypes
    <3>3. Linked'
      BY <2>11 DEF PublishManifest, LeaveUpload, Live, Sessions, Linked,
             SessionTypes
    <3>4. Batched'
      BY <2>11 DEF PublishManifest, LeaveUpload, Live, Sessions, Batched,
             SessionTypes, BatchTypes, Linked
    <3>. QED
      BY <3>1, <3>2, <3>3, <3>4 DEF Sessions
  <2>12. ASSUME NEW cl \in Clients, PublishExisting(cl)
         PROVE  Sessions'
    <3>1. SessionTypes'
      BY <2>12 DEF PublishExisting, LeaveUpload, Live, Sessions, SessionTypes
    <3>2. BatchTypes'
      BY <2>12, ManifestTypes DEF PublishExisting, LeaveUpload, Live, Sessions,
             BatchTypes, Linked, SessionTypes
    <3>3. Linked'
      BY <2>12 DEF PublishExisting, LeaveUpload, Live, Sessions, Linked,
             SessionTypes
    <3>4. Batched'
      BY <2>12 DEF PublishExisting, LeaveUpload, Live, Sessions, Batched,
             SessionTypes, BatchTypes, Linked
    <3>. QED
      BY <3>1, <3>2, <3>3, <3>4 DEF Sessions
  <2>13. ASSUME NEW a \in Admins, StartReclaim(a)
         PROVE  Sessions'
    <3>1. SessionTypes'
      BY <2>13 DEF StartReclaim, Sessions, SessionTypes
    <3>2. BatchTypes'
      BY <2>13 DEF StartReclaim, Sessions, BatchTypes
    <3>3. Linked'
      BY <2>13 DEF StartReclaim, Sessions, Linked, SessionTypes
    <3>4. Batched'
      BY <2>13 DEF StartReclaim, Sessions, Batched, SessionTypes, BatchTypes,
             Expiring
    <3>. QED
      BY <3>1, <3>2, <3>3, <3>4 DEF Sessions
  <2>14. ASSUME NEW a \in Admins, PurgeSessions(a)
         PROVE  Sessions'
    <3>1. SessionTypes'
      BY <2>14 DEF PurgeSessions, EmptyBatch, Sessions, SessionTypes
    <3>2. BatchTypes'
      BY <2>14 DEF PurgeSessions, EmptyBatch, Sessions, BatchTypes
    <3>3. Linked'
      BY <2>14 DEF PurgeSessions, EmptyBatch, Sessions, Linked, SessionTypes,
             Batched, BatchTypes
    <3>4. Batched'
      BY <2>14 DEF PurgeSessions, EmptyBatch, Sessions, Batched, SessionTypes,
             BatchTypes
    <3>. QED
      BY <3>1, <3>2, <3>3, <3>4 DEF Sessions
  <2>15. ASSUME NEW a \in Admins, StartCollect(a) \/ CollectEnd(a) \/ ReadQueue(a)
         PROVE  Sessions'
    BY <2>1, <2>15 DEF StartCollect, CollectEnd, ReadQueue
  <2>16. ASSUME NEW a \in Admins, DeleteBytes(a) \/ DequeueEntry(a)
         PROVE  Sessions'
    BY <2>1, <2>16 DEF DeleteBytes, DequeueEntry
  <2>17. ASSUME NEW a \in Admins, ForgetChunk(a)
         PROVE  Sessions'
    <3>1. SessionTypes'
      BY <2>17 DEF ForgetChunk, Sessions, SessionTypes
    <3>2. BatchTypes'
      BY <2>17 DEF ForgetChunk, Sessions, BatchTypes
    <3>3. Linked'
      BY <2>17 DEF ForgetChunk, Sessions, Linked, SessionTypes
    <3>4. Batched'
      BY <2>17 DEF ForgetChunk, Sessions, Batched, SessionTypes, BatchTypes
    <3>. QED
      BY <3>1, <3>2, <3>3, <3>4 DEF Sessions
  <2>18. ASSUME NEW a \in Admins, ForgetFails(a) \/ DrainEnd(a) \/ AbortAdmin(a)
         PROVE  Sessions'
    <3>1. SessionTypes'
      BY <2>18 DEF ForgetFails, DrainEnd, AbortAdmin, EndAdmin, EmptyBatch,
             Sessions, SessionTypes
    <3>2. BatchTypes'
      BY <2>18 DEF ForgetFails, DrainEnd, AbortAdmin, EndAdmin, EmptyBatch,
             Sessions, BatchTypes
    <3>3. Linked'
      BY <2>18 DEF ForgetFails, DrainEnd, AbortAdmin, EndAdmin, EmptyBatch,
             Sessions, Linked, SessionTypes
    <3>4. Batched'
      BY <2>18, SMTT(30) DEF ForgetFails, DrainEnd, AbortAdmin, EndAdmin, EmptyBatch,
             Sessions, Batched, SessionTypes, BatchTypes
    <3>. QED
      BY <3>1, <3>2, <3>3, <3>4 DEF Sessions
  <2>19. ASSUME NEW a \in Admins, NEW o \in Oids, CollectObject(a, o)
         PROVE  Sessions'
    BY <2>1, <2>19 DEF CollectObject
  <2>20. ASSUME NEW a \in Admins, NEW c \in Chunks,
                DrainDrop(a, c) \/ DrainMissing(a, c) \/ DrainSkip(a, c)
         PROVE  Sessions'
    BY <2>1, <2>20 DEF DrainDrop, DrainMissing, DrainSkip
  <2>21. ASSUME NEW a \in Admins, NEW c \in Chunks, DrainLock(a, c)
         PROVE  Sessions'
    BY <2>1, <2>21 DEF DrainLock
  <2>22. ASSUME NEW o \in Oids, StageObject(o) \/ GraceEnds(o)
         PROVE  Sessions'
    BY <2>1, <2>22 DEF StageObject, GraceEnds
  <2>23. ASSUME NEW s \in SessionIds, SessionAges(s)
         PROVE  Sessions'
    <3>1. SessionTypes'
      BY <2>23 DEF SessionAges, Sessions, SessionTypes
    <3>2. BatchTypes'
      BY <2>23 DEF SessionAges, Sessions, BatchTypes
    <3>3. Linked'
      BY <2>23 DEF SessionAges, Sessions, Linked, SessionTypes
    <3>4. Batched'
      BY <2>23 DEF SessionAges, Sessions, Batched, SessionTypes, BatchTypes
    <3>. QED
      BY <3>1, <3>2, <3>3, <3>4 DEF Sessions
  <2>24. CASE UNCHANGED vars
    BY <2>1, <2>24 DEF vars
  <2>. QED
    BY <2>1, <2>2, <2>3, <2>4, <2>5, <2>6, <2>7, <2>8, <2>9, <2>10, <2>11, <2>12,
       <2>13, <2>14, <2>15, <2>16, <2>17, <2>18, <2>19, <2>20, <2>21, <2>22,
       <2>23, <2>24 DEF Next, StartUpload, UploadStep, AdminStep, Clock
<1>. QED
  BY <1>1, <1>2, PTL DEF Spec

-----------------------------------------------------------------------------
(* Stage 2: objects, their rows and the reference counts.                   *)

CountTypes ==
  /\ refs \in [Chunks -> Nat]
  /\ objects \in [Oids -> Manifests \cup {NoManifest}]
  /\ objChunks \subseteq Oids \X Nat \X Chunks
  /\ IsFiniteSet(objChunks)

ObjectRows ==
  \A o \in Oids :
    {r \in objChunks : r[1] = o} = IF objects[o] = NoManifest THEN {} ELSE RowsOf(objects[o])

Counted == CountTypes /\ RefCountsExact /\ ObjectRows

\* The counts are exact.  Publication inserts rows of an object that had none,
\* so they are new; collection removes exactly the rows it counts.
LEMMA CountedInvariant == Spec => []Counted
<1>1. Init => Counted
  <2> SUFFICES ASSUME Init
               PROVE  Counted
    OBVIOUS
  <2>1. Uses({}, 0) = 0 /\ \A c \in Chunks : Uses({}, c) = 0
    <3>1. \A c : {r \in {} : r[3] = c} = {}
      OBVIOUS
    <3>. QED
      BY <3>1, FS_EmptySet DEF Uses
  <2>2. CountTypes
    BY FS_EmptySet DEF Init, CountTypes
  <2>3. RefCountsExact
    BY <2>1 DEF Init, RefCountsExact
  <2>4. ObjectRows
    BY DEF Init, ObjectRows
  <2>. QED
    BY <2>2, <2>3, <2>4 DEF Counted
<1>2. Sessions /\ Counted /\ [Next]_vars => Counted'
  <2> SUFFICES ASSUME Sessions, Counted, [Next]_vars
               PROVE  Counted'
    OBVIOUS
  <2> USE DEF sessionVars, clientVars, adminVars, chunkVars, objectVars
  <2>1. ASSUME UNCHANGED <<refs, objects, objChunks>>
        PROVE  Counted'
    BY <2>1 DEF Counted, CountTypes, RefCountsExact, ObjectRows, Uses, RowsOf
  <2>2. ASSUME NEW cl \in Clients, NEW m \in Manifests, NEW s \in SessionIds,
               OpenSession(cl, m, s)
        PROVE  Counted'
    BY <2>1, <2>2 DEF OpenSession, EnterUpload, FirstStep
  <2>3. ASSUME NEW cl \in Clients, NEW m \in Manifests, NEW s \in SessionIds,
               JoinSession(cl, m, s)
        PROVE  Counted'
    BY <2>1, <2>3 DEF JoinSession, EnterUpload, FirstStep
  <2>4. ASSUME NEW cl \in Clients, NEW c \in Chunks,
               PlanChunk(cl, c) \/ AcceptChunk(cl, c) \/ VerifyChunk(cl, c)
        PROVE  Counted'
    BY <2>1, <2>4 DEF PlanChunk, AcceptChunk, VerifyChunk
  <2>5. ASSUME NEW cl \in Clients, NEW c \in Chunks, RegisterChunk(cl, c)
        PROVE  Counted'
    BY <2>1, <2>5 DEF RegisterChunk
  <2>6. ASSUME NEW cl \in Clients, NEW c \in Chunks, PutChunk(cl, c)
        PROVE  Counted'
    BY <2>1, <2>6 DEF PutChunk
  <2>7. ASSUME NEW cl \in Clients, NEW c \in Chunks,
               RefuseChunk(cl, c) \/ RegisterFails(cl, c) \/ VerifyFails(cl, c)
        PROVE  Counted'
    BY <2>1, <2>7 DEF RefuseChunk, RegisterFails, VerifyFails, LeaveUpload
  <2>8. ASSUME NEW cl \in Clients,
               PlanReady(cl) \/ BasicComplete(cl) \/ FinalizeLoads(cl)
        PROVE  Counted'
    BY <2>1, <2>8 DEF PlanReady, BasicComplete, FinalizeLoads, AllSent
  <2>9. ASSUME NEW cl \in Clients,
               FinalizeAnswers(cl) \/ PublishRefused(cl) \/ AbortUpload(cl)
        PROVE  Counted'
    BY <2>1, <2>9 DEF FinalizeAnswers, PublishRefused, AbortUpload, LeaveUpload
  <2>10. ASSUME NEW cl \in Clients, Verified(cl)
         PROVE  Counted'
    BY <2>1, <2>10 DEF Verified, LeaveUpload
  <2>11. ASSUME NEW cl \in Clients, PublishManifest(cl)
         PROVE  Counted'
    <3> DEFINE m == man[cl]
    <3>1. m \in Manifests
      BY <2>11 DEF PublishManifest, Sessions, Linked
    <3>2. /\ RowsOf(m) \subseteq Oids \X Nat \X Chunks
          /\ \A r \in RowsOf(m) : r[1] = OidOf[m]
          /\ IsFiniteSet(RowsOf(m))
          /\ OidOf[m] \in Oids
      BY <3>1, ManifestTypes, RowsOfFinite
    <3>3. objChunks \cap RowsOf(m) = {}
      <4>1. objects[OidOf[m]] = NoManifest
        BY <2>11 DEF PublishManifest
      <4>2. {r \in objChunks : r[1] = OidOf[m]} = {}
        BY <3>2, <4>1 DEF Counted, ObjectRows
      <4>. QED
        BY <3>2, <4>2
    <3>4. CountTypes'
      <4>1. \A c \in Chunks : Uses(RowsOf(m), c) \in Nat
        BY <3>2, UsesType
      <4>2. refs' \in [Chunks -> Nat]
        BY <2>11, <4>1 DEF PublishManifest, Increment, Counted, CountTypes
      <4>3. objects' \in [Oids -> Manifests \cup {NoManifest}]
        BY <2>11, <3>1 DEF PublishManifest, Counted, CountTypes
      <4>4. objChunks' \subseteq Oids \X Nat \X Chunks
        BY <2>11, <3>2 DEF PublishManifest, Counted, CountTypes
      <4>5. IsFiniteSet(objChunks')
        BY <2>11, <3>2, FS_Union DEF PublishManifest, Counted, CountTypes
      <4>. QED
        BY <4>2, <4>3, <4>4, <4>5 DEF CountTypes
    <3>5. RefCountsExact'
      <4> SUFFICES ASSUME NEW c \in Chunks
                   PROVE  refs'[c] = Uses(objChunks', c)
        BY DEF RefCountsExact, Uses
      <4>1. Uses(objChunks \cup RowsOf(m), c) = Uses(objChunks, c) + Uses(RowsOf(m), c)
        BY <3>2, <3>3, UsesAdds DEF Counted, CountTypes
      <4>2. refs'[c] = refs[c] + Uses(RowsOf(m), c)
        BY <2>11 DEF PublishManifest, Increment
      <4>. QED
        BY <2>11, <4>1, <4>2 DEF PublishManifest, Counted, RefCountsExact
    <3>6. ObjectRows'
      <4> SUFFICES ASSUME NEW p \in Oids
                   PROVE  {r \in objChunks' : r[1] = p}
                            = IF objects'[p] = NoManifest THEN {} ELSE RowsOf(objects'[p])
        BY DEF ObjectRows, RowsOf
      <4>1. CASE p = OidOf[m]
        <5>1. objects'[p] = m /\ m # NoManifest
          BY <2>11, <3>1, <4>1, ConstantsAssumption DEF PublishManifest, Counted, CountTypes
        <5>2. {r \in objChunks' : r[1] = p} = {r \in objChunks : r[1] = p} \cup RowsOf(m)
          BY <2>11, <3>2, <4>1 DEF PublishManifest
        <5>3. {r \in objChunks : r[1] = p} = {}
          BY <2>11, <4>1 DEF PublishManifest, Counted, ObjectRows
        <5>. QED
          BY <5>1, <5>2, <5>3
      <4>2. CASE p # OidOf[m]
        <5>1. objects'[p] = objects[p]
          BY <2>11, <4>2 DEF PublishManifest, Counted, CountTypes
        <5>2. {r \in objChunks' : r[1] = p} = {r \in objChunks : r[1] = p}
          BY <2>11, <3>2, <4>2 DEF PublishManifest
        <5>. QED
          BY <5>1, <5>2 DEF Counted, ObjectRows
      <4>. QED
        BY <4>1, <4>2
    <3>. QED
      BY <3>4, <3>5, <3>6 DEF Counted
  <2>12. ASSUME NEW cl \in Clients, PublishExisting(cl)
         PROVE  Counted'
    BY <2>1, <2>12 DEF PublishExisting, LeaveUpload
  <2>13. ASSUME NEW a \in Admins, StartReclaim(a)
         PROVE  Counted'
    BY <2>1, <2>13 DEF StartReclaim
  <2>14. ASSUME NEW a \in Admins, PurgeSessions(a)
         PROVE  Counted'
    BY <2>1, <2>14 DEF PurgeSessions
  <2>15. ASSUME NEW a \in Admins, StartCollect(a) \/ CollectEnd(a) \/ ReadQueue(a)
         PROVE  Counted'
    BY <2>1, <2>15 DEF StartCollect, CollectEnd, ReadQueue
  <2>16. ASSUME NEW a \in Admins, DeleteBytes(a) \/ DequeueEntry(a)
         PROVE  Counted'
    BY <2>1, <2>16 DEF DeleteBytes, DequeueEntry
  <2>17. ASSUME NEW a \in Admins, ForgetChunk(a)
         PROVE  Counted'
    BY <2>1, <2>17 DEF ForgetChunk
  <2>18. ASSUME NEW a \in Admins, ForgetFails(a) \/ DrainEnd(a) \/ AbortAdmin(a)
         PROVE  Counted'
    BY <2>1, <2>18 DEF ForgetFails, DrainEnd, AbortAdmin, EndAdmin
  <2>19. ASSUME NEW a \in Admins, NEW o \in Oids, CollectObject(a, o)
         PROVE  Counted'
    <3> DEFINE mine == {r \in objChunks : r[1] = o}
               rest == objChunks \ mine
    <3>1. objChunks' = rest /\ refs' = [c \in Chunks |-> refs[c] - Uses(mine, c)]
      BY <2>19 DEF CollectObject
    <3>2. IsFiniteSet(mine) /\ IsFiniteSet(rest)
      BY FS_Subset DEF Counted, CountTypes
    <3>3. ASSUME NEW c \in Chunks
          PROVE  /\ Uses(objChunks, c) = Uses(rest, c) + Uses(mine, c)
                 /\ Uses(rest, c) \in Nat /\ Uses(mine, c) \in Nat
      <4>1. objChunks = rest \cup mine /\ rest \cap mine = {}
        OBVIOUS
      <4>2. /\ Uses(rest \cup mine, c) = Uses(rest, c) + Uses(mine, c)
            /\ Uses(rest, c) \in Nat /\ Uses(mine, c) \in Nat
        BY <3>2, <4>1, UsesAdds, UsesType
      <4>. QED
        BY <4>1, <4>2
    <3> HIDE DEF rest, mine
    <3>4. \A c \in Chunks : refs'[c] = Uses(rest, c) /\ Uses(rest, c) \in Nat
      <4> SUFFICES ASSUME NEW c \in Chunks
                   PROVE  refs'[c] = Uses(rest, c) /\ Uses(rest, c) \in Nat
        OBVIOUS
      <4>1. refs[c] = Uses(objChunks, c)
        BY DEF Counted, RefCountsExact
      <4>2. refs'[c] = refs[c] - Uses(mine, c)
        BY <3>1
      <4>. QED
        BY <3>3, <4>1, <4>2
    <3>5. CountTypes'
      <4>1. refs' \in [Chunks -> Nat]
        BY <3>1, <3>4
      <4>2. objects' \in [Oids -> Manifests \cup {NoManifest}]
        BY <2>19 DEF CollectObject, Counted, CountTypes
      <4>3. objChunks' \subseteq Oids \X Nat \X Chunks
        BY <3>1 DEF rest, Counted, CountTypes
      <4>. QED
        BY <3>1, <3>2, <4>1, <4>2, <4>3 DEF CountTypes
    <3>6. RefCountsExact'
      BY <3>1, <3>4 DEF RefCountsExact, Uses
    <3>7. ObjectRows'
      <4> SUFFICES ASSUME NEW p \in Oids
                   PROVE  {r \in objChunks' : r[1] = p}
                            = IF objects'[p] = NoManifest THEN {} ELSE RowsOf(objects'[p])
        BY DEF ObjectRows, RowsOf
      <4>1. CASE p = o
        BY <2>19, <3>1, <4>1 DEF rest, mine, CollectObject, Counted, CountTypes
      <4>2. CASE p # o
        <5>1. objects'[p] = objects[p]
          BY <2>19, <4>2 DEF CollectObject, Counted, CountTypes
        <5>2. {r \in objChunks' : r[1] = p} = {r \in objChunks : r[1] = p}
          BY <3>1, <4>2 DEF rest, mine
        <5>. QED
          BY <5>1, <5>2 DEF Counted, ObjectRows
      <4>. QED
        BY <4>1, <4>2
    <3>. QED
      BY <3>5, <3>6, <3>7 DEF Counted
  <2>20. ASSUME NEW a \in Admins, NEW c \in Chunks,
                DrainDrop(a, c) \/ DrainMissing(a, c) \/ DrainSkip(a, c)
         PROVE  Counted'
    BY <2>1, <2>20 DEF DrainDrop, DrainMissing, DrainSkip
  <2>21. ASSUME NEW a \in Admins, NEW c \in Chunks, DrainLock(a, c)
         PROVE  Counted'
    BY <2>1, <2>21 DEF DrainLock
  <2>22. ASSUME NEW o \in Oids, StageObject(o) \/ GraceEnds(o)
         PROVE  Counted'
    BY <2>1, <2>22 DEF StageObject, GraceEnds
  <2>23. ASSUME NEW s \in SessionIds, SessionAges(s)
         PROVE  Counted'
    BY <2>1, <2>23 DEF SessionAges
  <2>24. CASE UNCHANGED vars
    BY <2>1, <2>24 DEF vars
  <2>. QED
    BY <2>1, <2>2, <2>3, <2>4, <2>5, <2>6, <2>7, <2>8, <2>9, <2>10, <2>11, <2>12,
       <2>13, <2>14, <2>15, <2>16, <2>17, <2>18, <2>19, <2>20, <2>21, <2>22,
       <2>23, <2>24 DEF Next, StartUpload, UploadStep, AdminStep, Clock
<1>. QED
  BY <1>1, <1>2, SessionsInvariant, PTL DEF Spec

-----------------------------------------------------------------------------
(* Stage 3: the types of everything else.                                   *)

OtherTypes ==
  /\ usc \subseteq SessionIds \X Chunks
  /\ tomb \in [Oids -> {"none", "waiting", "due"}]
  /\ queue \subseteq Chunks
  /\ store \subseteq Chunks
  /\ apc \in [Admins -> {"idle", "collect", "purge", "read", "drain",
                         "dequeue", "delete", "forget"}]
  /\ list \in [Admins -> SUBSET Chunks]
  /\ cur \in [Admins -> Chunks \cup {NoChunk}]

ProgressType ==
  prog \in [Clients -> [Chunks -> {"none", "ask", "missing", "ready",
                                   "registered", "done"}]]

Typed == OtherTypes /\ ProgressType

\* The tables and local variables that no count depends on keep their types.
LEMMA TypedInvariant == Spec => []Typed
<1>1. Init => Typed
  BY DEF Init, Typed, OtherTypes, ProgressType, NothingToDo
<1>2. Sessions /\ Typed /\ [Next]_vars => Typed'
  <2> SUFFICES ASSUME Sessions, Typed, [Next]_vars
               PROVE  Typed'
    OBVIOUS
  <2> USE DEF sessionVars, clientVars, adminVars, chunkVars, objectVars
  <2>1. ASSUME UNCHANGED <<usc, tomb, queue, store, apc, list, cur, prog>>
        PROVE  Typed'
    BY <2>1 DEF Typed, OtherTypes, ProgressType
  <2>2. ASSUME NEW cl \in Clients, NEW m \in Manifests, NEW s \in SessionIds,
               OpenSession(cl, m, s)
        PROVE  Typed'
    <3>1. OtherTypes'
      BY <2>2 DEF OpenSession, EnterUpload, FirstStep, Typed, OtherTypes
    <3>2. ProgressType'
      BY <2>2 DEF OpenSession, EnterUpload, FirstStep, Typed, ProgressType,
             FirstProgress
    <3>. QED
      BY <3>1, <3>2 DEF Typed
  <2>3. ASSUME NEW cl \in Clients, NEW m \in Manifests, NEW s \in SessionIds,
               JoinSession(cl, m, s)
        PROVE  Typed'
    <3>1. OtherTypes'
      BY <2>3 DEF JoinSession, EnterUpload, FirstStep, Typed, OtherTypes
    <3>2. ProgressType'
      BY <2>3 DEF JoinSession, EnterUpload, FirstStep, Typed, ProgressType,
             FirstProgress
    <3>. QED
      BY <3>1, <3>2 DEF Typed
  <2>4. ASSUME NEW cl \in Clients, NEW c \in Chunks,
               PlanChunk(cl, c) \/ AcceptChunk(cl, c) \/ VerifyChunk(cl, c)
        PROVE  Typed'
    <3>1. OtherTypes'
      BY <2>4 DEF PlanChunk, AcceptChunk, VerifyChunk, Typed, OtherTypes
    <3>2. ProgressType'
      BY <2>4 DEF PlanChunk, AcceptChunk, VerifyChunk, Typed, ProgressType
    <3>. QED
      BY <3>1, <3>2 DEF Typed
  <2>5. ASSUME NEW cl \in Clients, NEW c \in Chunks, RegisterChunk(cl, c)
        PROVE  Typed'
    <3>1. OtherTypes'
      BY <2>5 DEF RegisterChunk, Typed, OtherTypes, Sessions, Linked
    <3>2. ProgressType'
      BY <2>5 DEF RegisterChunk, Typed, ProgressType
    <3>. QED
      BY <3>1, <3>2 DEF Typed
  <2>6. ASSUME NEW cl \in Clients, NEW c \in Chunks, PutChunk(cl, c)
        PROVE  Typed'
    <3>1. OtherTypes'
      BY <2>6 DEF PutChunk, Typed, OtherTypes
    <3>2. ProgressType'
      BY <2>6 DEF PutChunk, Typed, ProgressType
    <3>. QED
      BY <3>1, <3>2 DEF Typed
  <2>7. ASSUME NEW cl \in Clients, NEW c \in Chunks,
               RefuseChunk(cl, c) \/ RegisterFails(cl, c) \/ VerifyFails(cl, c)
        PROVE  Typed'
    <3>1. OtherTypes'
      BY <2>7 DEF RefuseChunk, RegisterFails, VerifyFails, LeaveUpload, Typed,
             OtherTypes
    <3>2. ProgressType'
      BY <2>7 DEF RefuseChunk, RegisterFails, VerifyFails, LeaveUpload, Typed,
             ProgressType, NothingToDo
    <3>. QED
      BY <3>1, <3>2 DEF Typed
  <2>8. ASSUME NEW cl \in Clients,
               PlanReady(cl) \/ BasicComplete(cl) \/ FinalizeLoads(cl)
        PROVE  Typed'
    <3>1. OtherTypes'
      BY <2>8 DEF PlanReady, BasicComplete, FinalizeLoads, AllSent, Typed,
             OtherTypes
    <3>2. ProgressType'
      BY <2>8 DEF PlanReady, BasicComplete, FinalizeLoads, AllSent, Typed,
             ProgressType, FirstProgress
    <3>. QED
      BY <3>1, <3>2 DEF Typed
  <2>9. ASSUME NEW cl \in Clients,
               FinalizeAnswers(cl) \/ PublishRefused(cl) \/ AbortUpload(cl)
        PROVE  Typed'
    <3>1. OtherTypes'
      BY <2>9 DEF FinalizeAnswers, PublishRefused, AbortUpload, LeaveUpload,
             Typed, OtherTypes
    <3>2. ProgressType'
      BY <2>9 DEF FinalizeAnswers, PublishRefused, AbortUpload, LeaveUpload,
             Typed, ProgressType, NothingToDo
    <3>. QED
      BY <3>1, <3>2 DEF Typed
  <2>10. ASSUME NEW cl \in Clients, Verified(cl)
         PROVE  Typed'
    <3>1. OtherTypes'
      BY <2>10 DEF Verified, LeaveUpload, Typed, OtherTypes
    <3>2. ProgressType'
      BY <2>10 DEF Verified, LeaveUpload, Typed, ProgressType, NothingToDo
    <3>. QED
      BY <3>1, <3>2 DEF Typed
  <2>11. ASSUME NEW cl \in Clients, PublishManifest(cl)
         PROVE  Typed'
    <3>1. OtherTypes'
      BY <2>11 DEF PublishManifest, LeaveUpload, Typed, OtherTypes
    <3>2. ProgressType'
      BY <2>11 DEF PublishManifest, LeaveUpload, Typed, ProgressType, NothingToDo
    <3>. QED
      BY <3>1, <3>2 DEF Typed
  <2>12. ASSUME NEW cl \in Clients, PublishExisting(cl)
         PROVE  Typed'
    <3>1. OtherTypes'
      BY <2>12 DEF PublishExisting, LeaveUpload, Typed, OtherTypes
    <3>2. ProgressType'
      BY <2>12 DEF PublishExisting, LeaveUpload, Typed, ProgressType, NothingToDo
    <3>. QED
      BY <3>1, <3>2 DEF Typed
  <2>13. ASSUME NEW a \in Admins, StartReclaim(a)
         PROVE  Typed'
    <3>1. OtherTypes'
      BY <2>13 DEF StartReclaim, Typed, OtherTypes
    <3>2. ProgressType'
      BY <2>13 DEF StartReclaim, Typed, ProgressType
    <3>. QED
      BY <3>1, <3>2 DEF Typed
  <2>14. ASSUME NEW a \in Admins, PurgeSessions(a)
         PROVE  Typed'
    <3>1. OtherTypes'
      BY <2>14 DEF PurgeSessions, Typed, OtherTypes, Cascade, Sessions, BatchTypes
    <3>2. ProgressType'
      BY <2>14 DEF PurgeSessions, Typed, ProgressType
    <3>. QED
      BY <3>1, <3>2 DEF Typed
  <2>15. ASSUME NEW a \in Admins, StartCollect(a) \/ CollectEnd(a) \/ ReadQueue(a)
         PROVE  Typed'
    <3>1. OtherTypes'
      BY <2>15 DEF StartCollect, CollectEnd, ReadQueue, Typed, OtherTypes
    <3>2. ProgressType'
      BY <2>15 DEF StartCollect, CollectEnd, ReadQueue, Typed, ProgressType
    <3>. QED
      BY <3>1, <3>2 DEF Typed
  <2>16. ASSUME NEW a \in Admins, DeleteBytes(a) \/ DequeueEntry(a)
         PROVE  Typed'
    <3>1. OtherTypes'
      BY <2>16 DEF DeleteBytes, DequeueEntry, Typed, OtherTypes
    <3>2. ProgressType'
      BY <2>16 DEF DeleteBytes, DequeueEntry, Typed, ProgressType
    <3>. QED
      BY <3>1, <3>2 DEF Typed
  <2>17. ASSUME NEW a \in Admins, ForgetChunk(a)
         PROVE  Typed'
    <3>1. OtherTypes'
      BY <2>17 DEF ForgetChunk, Typed, OtherTypes
    <3>2. ProgressType'
      BY <2>17 DEF ForgetChunk, Typed, ProgressType
    <3>. QED
      BY <3>1, <3>2 DEF Typed
  <2>18. ASSUME NEW a \in Admins, ForgetFails(a) \/ DrainEnd(a) \/ AbortAdmin(a)
         PROVE  Typed'
    <3>1. OtherTypes'
      BY <2>18 DEF ForgetFails, DrainEnd, AbortAdmin, EndAdmin, Typed, OtherTypes
    <3>2. ProgressType'
      BY <2>18 DEF ForgetFails, DrainEnd, AbortAdmin, EndAdmin, Typed,
             ProgressType
    <3>. QED
      BY <3>1, <3>2 DEF Typed
  <2>19. ASSUME NEW a \in Admins, NEW o \in Oids, CollectObject(a, o)
         PROVE  Typed'
    <3>1. OtherTypes'
      BY <2>19 DEF CollectObject, Typed, OtherTypes, Sessions, BatchTypes
    <3>2. ProgressType'
      BY <2>19 DEF CollectObject, Typed, ProgressType
    <3>. QED
      BY <3>1, <3>2 DEF Typed
  <2>20. ASSUME NEW a \in Admins, NEW c \in Chunks,
                DrainDrop(a, c) \/ DrainMissing(a, c) \/ DrainSkip(a, c)
         PROVE  Typed'
    <3>1. OtherTypes'
      BY <2>20 DEF DrainDrop, DrainMissing, DrainSkip, Typed, OtherTypes
    <3>2. ProgressType'
      BY <2>20 DEF DrainDrop, DrainMissing, DrainSkip, Typed, ProgressType
    <3>. QED
      BY <3>1, <3>2 DEF Typed
  <2>21. ASSUME NEW a \in Admins, NEW c \in Chunks, DrainLock(a, c)
         PROVE  Typed'
    <3>1. OtherTypes'
      BY <2>21 DEF DrainLock, Typed, OtherTypes
    <3>2. ProgressType'
      BY <2>21 DEF DrainLock, Typed, ProgressType
    <3>. QED
      BY <3>1, <3>2 DEF Typed
  <2>22. ASSUME NEW o \in Oids, StageObject(o) \/ GraceEnds(o)
         PROVE  Typed'
    <3>1. OtherTypes'
      BY <2>22 DEF StageObject, GraceEnds, Typed, OtherTypes
    <3>2. ProgressType'
      BY <2>22 DEF StageObject, GraceEnds, Typed, ProgressType
    <3>. QED
      BY <3>1, <3>2 DEF Typed
  <2>23. ASSUME NEW s \in SessionIds, SessionAges(s)
         PROVE  Typed'
    BY <2>1, <2>23 DEF SessionAges
  <2>24. CASE UNCHANGED vars
    BY <2>1, <2>24 DEF vars
  <2>. QED
    BY <2>1, <2>2, <2>3, <2>4, <2>5, <2>6, <2>7, <2>8, <2>9, <2>10, <2>11, <2>12,
       <2>13, <2>14, <2>15, <2>16, <2>17, <2>18, <2>19, <2>20, <2>21, <2>22,
       <2>23, <2>24 DEF Next, StartUpload, UploadStep, AdminStep, Clock
<1>. QED
  BY <1>1, <1>2, SessionsInvariant, PTL DEF Spec

\* Every table and every local variable keeps its type.  The reference counts
\* stay natural numbers, so CHECK (reference_count >= 0) never aborts a
\* collection: this needs the counts to be exact.
THEOREM TypeCorrect == Spec => []TypeOK
<1>1. Sessions /\ Counted /\ Typed => TypeOK
  BY DEF Sessions, SessionTypes, BatchTypes, Counted, CountTypes, Typed, OtherTypes,
         ProgressType, TypeOK
<1>. QED
  BY <1>1, SessionsInvariant, CountedInvariant, TypedInvariant, PTL

\* reference_count is exactly the number of object_chunks rows of the chunk.
THEOREM CountsAreExact == Spec => []RefCountsExact
<1>1. Counted => RefCountsExact
  BY DEF Counted
<1>. QED
  BY <1>1, CountedInvariant, PTL

-----------------------------------------------------------------------------
(* Stage 4: foreign keys, and the chunk rows that drain_chunk_queue locks.  *)

References ==
  /\ \A r \in objChunks : r[3] \in rows
  /\ \A u \in usc : u[2] \in rows /\ state[u[1]] \in {"open", "finalized", "expired"}
  /\ \A o \in Oids : tomb[o] # "none" => objects[o] # NoManifest

\* While a run holds a chunk's row it is the only one, the row exists, the count
\* stays zero and no open session registers the chunk: what drain_chunk_queue
\* found when it took the lock is still true when it deletes the bytes.
Holds(a) == apc[a] \in {"delete", "forget"}
Locks ==
  /\ \A a \in Admins : Holds(a) =>
       cur[a] \in rows /\ refs[cur[a]] = 0 /\ ~Active(cur[a])
  /\ \A a, b \in Admins : a # b /\ Holds(a) /\ Holds(b) => cur[a] # cur[b]

Guarded == References /\ Locks

\* A publication leaves the count of a chunk it does not name alone.
LEMMA NoIncrement ==
  ASSUME NEW m \in Manifests, NEW c \in Chunks, c \notin ChunkSet(m)
  PROVE  Increment(m, c) = 0
<1>1. {r \in RowsOf(m) : r[3] = c} = {}
  BY ManifestTypes
<1>. QED
  BY <1>1, FS_EmptySet DEF Increment, Uses

\* Rows that name a chunk find it, and locked chunks stay unused.
LEMMA GuardedInvariant == Spec => []Guarded
<1>1. Init => Guarded
  BY DEF Init, Guarded, References, Locks, Holds
<1>2. Sessions /\ Counted /\ Typed /\ Guarded /\ [Next]_vars => Guarded'
  <2> SUFFICES ASSUME Sessions, Counted, Typed, Guarded, [Next]_vars
               PROVE  Guarded'
    OBVIOUS
  <2> USE DEF sessionVars, clientVars, adminVars, chunkVars, objectVars, Holds
  <2>1. ASSUME UNCHANGED <<usc, state, rows, refs, objects, objChunks, tomb, apc, cur>>
        PROVE  Guarded'
    BY <2>1 DEF Guarded, References, Locks, Active
  <2>2. ASSUME NEW cl \in Clients, NEW m \in Manifests, NEW s \in SessionIds,
               OpenSession(cl, m, s)
        PROVE  Guarded'
    <3>1. References'
      BY <2>2 DEF OpenSession, EnterUpload, FirstStep, Guarded, References,
             Sessions, SessionTypes, OpenFor, Typed, OtherTypes
    <3>2. Locks'
      <4>1. /\ UNCHANGED <<usc, cur, apc, rows, refs>> /\ state[s] = "none"
            /\ \A t \in SessionIds : state'[t] = "open" => t = s \/ state[t] = "open"
        BY <2>2 DEF OpenSession, OpenFor
      <4>2. ASSUME NEW c PROVE Active(c)' => Active(c)
        BY <4>1 DEF Active, Guarded, References
      <4>. QED
        BY <4>1, <4>2 DEF Guarded, Locks
    <3>. QED
      BY <3>1, <3>2 DEF Guarded
  <2>3. ASSUME NEW cl \in Clients, NEW m \in Manifests, NEW s \in SessionIds,
               JoinSession(cl, m, s)
        PROVE  Guarded'
    BY <2>1, <2>3 DEF JoinSession, EnterUpload, FirstStep
  <2>4. ASSUME NEW cl \in Clients, NEW c \in Chunks,
               PlanChunk(cl, c) \/ AcceptChunk(cl, c) \/ VerifyChunk(cl, c)
        PROVE  Guarded'
    BY <2>1, <2>4 DEF PlanChunk, AcceptChunk, VerifyChunk
  <2>5. ASSUME NEW cl \in Clients, NEW c \in Chunks, RegisterChunk(cl, c)
        PROVE  Guarded'
    <3>1. References'
      BY <2>5 DEF RegisterChunk, Guarded, References, Sessions, SessionTypes,
             Linked
    <3>2. \A a \in Admins : Holds(a) => cur[a] # c
      BY <2>5 DEF RegisterChunk, Locked
    <3>3. Locks'
      BY <2>5, <3>2 DEF RegisterChunk, Guarded, Locks, Active
    <3>. QED
      BY <3>1, <3>3 DEF Guarded
  <2>6. ASSUME NEW cl \in Clients, NEW c \in Chunks, PutChunk(cl, c)
        PROVE  Guarded'
    BY <2>1, <2>6 DEF PutChunk
  <2>7. ASSUME NEW cl \in Clients, NEW c \in Chunks,
               RefuseChunk(cl, c) \/ RegisterFails(cl, c) \/ VerifyFails(cl, c)
        PROVE  Guarded'
    BY <2>1, <2>7 DEF RefuseChunk, RegisterFails, VerifyFails, LeaveUpload
  <2>8. ASSUME NEW cl \in Clients,
               PlanReady(cl) \/ BasicComplete(cl) \/ FinalizeLoads(cl)
        PROVE  Guarded'
    BY <2>1, <2>8 DEF PlanReady, BasicComplete, FinalizeLoads, AllSent
  <2>9. ASSUME NEW cl \in Clients,
               FinalizeAnswers(cl) \/ PublishRefused(cl) \/ AbortUpload(cl)
        PROVE  Guarded'
    BY <2>1, <2>9 DEF FinalizeAnswers, PublishRefused, AbortUpload, LeaveUpload
  <2>10. ASSUME NEW cl \in Clients, Verified(cl)
         PROVE  Guarded'
    BY <2>1, <2>10 DEF Verified, LeaveUpload
  <2>11. ASSUME NEW cl \in Clients, PublishManifest(cl)
         PROVE  Guarded'
    <3> DEFINE m == man[cl]
    <3>1. m \in Manifests /\ sid[cl] \in SessionIds
      BY <2>11 DEF PublishManifest, Sessions, Linked
    <3>2. ChunkSet(m) \subseteq Chunks /\ OidOf[m] \in Oids /\ m # NoManifest
      BY <3>1, ManifestTypes, ConstantsAssumption
    <3>3. References'
      <4>1. \A r \in RowsOf(m) : r[3] \in ChunkSet(m)
        BY <3>1, ManifestTypes
      <4>2. \A r \in objChunks' : r[3] \in rows'
        BY <2>11, <4>1 DEF PublishManifest, Guarded, References
      <4>3. \A u \in usc' : u[2] \in rows' /\ state'[u[1]] \in {"open", "finalized", "expired"}
        BY <2>11, <3>1 DEF PublishManifest, Guarded, References, Sessions, SessionTypes,
                       Typed, OtherTypes
      <4>4. \A o \in Oids : tomb'[o] # "none" => objects'[o] # NoManifest
        BY <2>11, <3>2 DEF PublishManifest, Guarded, References, Counted, CountTypes
      <4>. QED
        BY <4>2, <4>3, <4>4 DEF References
    <3>4. Locks'
      <4>1. \A a \in Admins : Holds(a) =>
              /\ cur[a] \in rows' /\ refs'[cur[a]] = 0
              /\ \A s \in SessionIds : ~(<<s, cur[a]>> \in usc' /\ state'[s] = "open")
        <5> SUFFICES ASSUME NEW a \in Admins, Holds(a)
                     PROVE  /\ cur[a] \in rows' /\ refs'[cur[a]] = 0
                            /\ \A s \in SessionIds : ~(<<s, cur[a]>> \in usc' /\ state'[s] = "open")
          OBVIOUS
        <5>1. cur[a] \in Chunks /\ cur[a] \notin ChunkSet(m)
          BY <2>11 DEF PublishManifest, Locked, Guarded, Locks, Sessions, BatchTypes
        <5>2. Increment(m, cur[a]) = 0
          BY <3>1, <5>1, NoIncrement
        <5>3. cur[a] \in rows /\ refs[cur[a]] = 0 /\ ~Active(cur[a])
          BY DEF Guarded, Locks
        <5>4. refs'[cur[a]] = 0
          BY <2>11, <5>1, <5>2, <5>3 DEF PublishManifest
        <5>5. cur[a] \in rows' /\ \A s \in SessionIds : ~(<<s, cur[a]>> \in usc' /\ state'[s] = "open")
          BY <2>11, <3>1, <5>3 DEF PublishManifest, Active, Sessions, SessionTypes
        <5>. QED
          BY <5>4, <5>5
      <4>2. UNCHANGED <<apc, cur>>
        BY <2>11 DEF PublishManifest
      <4>. QED
        BY <4>1, <4>2 DEF Guarded, Locks, Active
    <3>. QED
      BY <3>3, <3>4 DEF Guarded
  <2>12. ASSUME NEW cl \in Clients, PublishExisting(cl)
         PROVE  Guarded'
    <3>1. References'
      BY <2>12 DEF PublishExisting, LeaveUpload, Guarded, References, Sessions,
             SessionTypes, Linked, Typed, OtherTypes
    <3>2. Locks'
      BY <2>12 DEF PublishExisting, LeaveUpload, Guarded, Locks, Active, Sessions,
             SessionTypes, Linked
    <3>. QED
      BY <3>1, <3>2 DEF Guarded
  <2>13. ASSUME NEW a \in Admins, StartReclaim(a)
         PROVE  Guarded'
    BY <2>13 DEF StartReclaim, Guarded, References, Locks, Active, Typed,
           OtherTypes
  <2>14. ASSUME NEW a \in Admins, PurgeSessions(a)
         PROVE  Guarded'
    <3>1. References'
      BY <2>14 DEF PurgeSessions, Guarded, References, Cascade, Sessions,
             SessionTypes, Typed, OtherTypes
    <3>2. Locks'
      <4>1. \A c \in Chunks : Active(c)' => Active(c)
        BY <2>14 DEF PurgeSessions, Cascade, Active
      <4>2. \A b \in Admins : Holds(b)' => Holds(b)
        BY <2>14 DEF PurgeSessions, Holds, Typed, OtherTypes
      <4>3. UNCHANGED <<cur, rows, refs>>
        BY <2>14 DEF PurgeSessions, chunkVars
      <4>4. \A b \in Admins : Holds(b) => cur[b] \in Chunks
        BY DEF Guarded, Locks, Sessions, BatchTypes
      <4>. QED
        BY <4>1, <4>2, <4>3, <4>4 DEF Guarded, Locks
    <3>. QED
      BY <3>1, <3>2 DEF Guarded
  <2>15. ASSUME NEW a \in Admins, StartCollect(a) \/ CollectEnd(a) \/ ReadQueue(a)
         PROVE  Guarded'
    <3>1. References'
      BY <2>15 DEF StartCollect, CollectEnd, ReadQueue, Guarded, References
    <3>2. /\ UNCHANGED <<rows, refs, usc, state, cur>>
          /\ \A b \in Admins : Holds(b)' => Holds(b)
      BY <2>15 DEF StartCollect, CollectEnd, ReadQueue, Typed, OtherTypes
    <3>3. Locks'
      BY <3>2 DEF Guarded, Locks, Active
    <3>. QED
      BY <3>1, <3>3 DEF Guarded
  <2>16. ASSUME NEW a \in Admins, DeleteBytes(a) \/ DequeueEntry(a)
         PROVE  Guarded'
    <3>1. References'
      BY <2>16 DEF DeleteBytes, DequeueEntry, Guarded, References
    <3>2. /\ UNCHANGED <<rows, refs, usc, state>>
          /\ \A b \in Admins : Holds(b)' => Holds(b) /\ cur'[b] = cur[b]
      BY <2>16 DEF DeleteBytes, DequeueEntry, Typed, OtherTypes
    <3>3. Locks'
      BY <3>2 DEF Guarded, Locks, Active
    <3>. QED
      BY <3>1, <3>3 DEF Guarded
  <2>17. ASSUME NEW a \in Admins, ForgetChunk(a)
         PROVE  Guarded'
    <3>1. References'
      BY <2>17 DEF ForgetChunk, Guarded, References, ForeignKeyHolds, Typed,
             OtherTypes
    <3>2. Locks'
      BY <2>17, ConstantsAssumption DEF ForgetChunk, Guarded, Locks, Active,
             Typed, OtherTypes
    <3>. QED
      BY <3>1, <3>2 DEF Guarded
  <2>18. ASSUME NEW a \in Admins, ForgetFails(a) \/ DrainEnd(a) \/ AbortAdmin(a)
         PROVE  Guarded'
    <3>1. /\ UNCHANGED <<usc, state, rows, refs, objects, objChunks, tomb>>
          /\ apc' = [apc EXCEPT ![a] = "idle"]
          /\ cur' = [cur EXCEPT ![a] = NoChunk]
      BY <2>18 DEF ForgetFails, DrainEnd, AbortAdmin, EndAdmin
    <3>2. References'
      BY <3>1 DEF Guarded, References
    <3>3. Locks'
      BY <3>1 DEF Guarded, Locks, Active, Typed, OtherTypes
    <3>. QED
      BY <3>2, <3>3 DEF Guarded
  <2>19. ASSUME NEW a \in Admins, NEW o \in Oids, CollectObject(a, o)
         PROVE  Guarded'
    <3> DEFINE mine == {r \in objChunks : r[1] = o}
               hit  == {r[3] : r \in mine}
    <3>1. References'
      BY <2>19 DEF CollectObject, Guarded, References, Typed, OtherTypes, Counted, CountTypes
    <3>2. Locks'
      <4>1. \A a2 \in Admins : Holds(a2) => refs'[cur[a2]] = 0
        <5> SUFFICES ASSUME NEW a2 \in Admins, Holds(a2)
                     PROVE  refs'[cur[a2]] = 0
          OBVIOUS
        <5>1. cur[a2] \in Chunks /\ cur[a2] \notin hit
          BY <2>19 DEF CollectObject, Locked, Guarded, Locks, Sessions, BatchTypes
        <5>2. {r \in mine : r[3] = cur[a2]} = {}
          BY <5>1
        <5>3. Uses(mine, cur[a2]) = 0
          BY <5>2, FS_EmptySet DEF Uses
        <5>4. refs'[cur[a2]] = refs[cur[a2]] - Uses(mine, cur[a2])
          BY <2>19, <5>1 DEF CollectObject
        <5>. QED
          BY <5>3, <5>4 DEF Guarded, Locks
      <4>2. UNCHANGED <<apc, cur, rows, usc, state>>
        BY <2>19 DEF CollectObject
      <4>. QED
        BY <4>1, <4>2 DEF Guarded, Locks, Active
    <3>. QED
      BY <3>1, <3>2 DEF Guarded
  <2>20. ASSUME NEW a \in Admins, NEW c \in Chunks,
                DrainDrop(a, c) \/ DrainMissing(a, c) \/ DrainSkip(a, c)
         PROVE  Guarded'
    <3>1. CASE DrainDrop(a, c) \/ DrainSkip(a, c)
      BY <2>1, <3>1 DEF DrainDrop, DrainSkip
    <3>2. CASE DrainMissing(a, c)
      BY <3>2 DEF DrainMissing, Guarded, References, Locks, Active, Typed, OtherTypes
    <3>. QED
      BY <2>20, <3>1, <3>2
  <2>21. ASSUME NEW a \in Admins, NEW c \in Chunks, DrainLock(a, c)
         PROVE  Guarded'
    <3>1. References'
      BY <2>21 DEF DrainLock, Guarded, References
    <3>2. Locks'
      <4>1. /\ c \in rows /\ refs[c] = 0 /\ ~Active(c)
            /\ \A b \in Admins : Holds(b) => cur[b] # c
        BY <2>21 DEF DrainLock, Locked
      <4>2. /\ cur \in [Admins -> Chunks \cup {NoChunk}] /\ DOMAIN apc = Admins
            /\ cur' = [cur EXCEPT ![a] = c] /\ apc' = [apc EXCEPT ![a] = "delete"]
            /\ UNCHANGED <<usc, state, rows, refs>>
        BY <2>21 DEF DrainLock, Typed, OtherTypes
      <4>3. ASSUME NEW d PROVE Active(d)' = Active(d)
        BY <4>2 DEF Active
      <4>4. ASSUME NEW b \in Admins
            PROVE  IF b = a THEN cur'[b] = c /\ apc'[b] = "delete"
                            ELSE cur'[b] = cur[b] /\ apc'[b] = apc[b]
        BY <4>2
      <4>. QED
        BY <4>1, <4>2, <4>3, <4>4 DEF Guarded, Locks
    <3>. QED
      BY <3>1, <3>2 DEF Guarded
  <2>22. ASSUME NEW o \in Oids, StageObject(o) \/ GraceEnds(o)
         PROVE  Guarded'
    <3>1. References'
      BY <2>22 DEF StageObject, GraceEnds, Guarded, References, Typed, OtherTypes
    <3>2. Locks'
      BY <2>22 DEF StageObject, GraceEnds, Guarded, Locks, Active
    <3>. QED
      BY <3>1, <3>2 DEF Guarded
  <2>23. ASSUME NEW s \in SessionIds, SessionAges(s)
         PROVE  Guarded'
    BY <2>1, <2>23 DEF SessionAges
  <2>24. CASE UNCHANGED vars
    BY <2>1, <2>24 DEF vars
  <2>. QED
    BY <2>1, <2>2, <2>3, <2>4, <2>5, <2>6, <2>7, <2>8, <2>9, <2>10, <2>11, <2>12,
       <2>13, <2>14, <2>15, <2>16, <2>17, <2>18, <2>19, <2>20, <2>21, <2>22,
       <2>23, <2>24 DEF Next, StartUpload, UploadStep, AdminStep, Clock
<1>. QED
  BY <1>1, <1>2, SessionsInvariant, CountedInvariant, TypedInvariant, PTL DEF Spec

\* The tables agree with each other: this is what the foreign keys and the
\* publication and collection transactions maintain together.
THEOREM CatalogIsConsistent == Spec => []CatalogConsistent
<1>1. Counted /\ Guarded => CatalogConsistent
  BY DEF Counted, ObjectRows, Guarded, References, CatalogConsistent
<1>. QED
  BY <1>1, CountedInvariant, GuardedInvariant, PTL

-----------------------------------------------------------------------------
(* Which steps change what: the other steps leave these variables alone.    *)

\* Sessions change when one is opened, published, purged or grows older.
LEMMA SessionSteps ==
  ASSUME [Next]_vars
  PROVE  \/ UNCHANGED <<state, sman, age>>
         \/ \E cl \in Clients, m \in Manifests, s \in SessionIds : OpenSession(cl, m, s)
         \/ \E cl \in Clients : PublishManifest(cl) \/ PublishExisting(cl)
         \/ \E a \in Admins : PurgeSessions(a)
         \/ \E s \in SessionIds : SessionAges(s)
<1> USE DEF sessionVars, clientVars, adminVars, chunkVars, objectVars
<1>1. ASSUME NEW cl \in Clients, UploadStep(cl)
      PROVE  UNCHANGED <<state, sman, age>> \/ PublishManifest(cl) \/ PublishExisting(cl)
  <2>1. ASSUME NEW c \in Chunks,
               PlanChunk(cl, c) \/ AcceptChunk(cl, c) \/ RefuseChunk(cl, c)
               \/ RegisterChunk(cl, c) \/ RegisterFails(cl, c) \/ PutChunk(cl, c)
               \/ VerifyChunk(cl, c) \/ VerifyFails(cl, c)
        PROVE  UNCHANGED <<state, sman, age>>
    BY <2>1 DEF PlanChunk, AcceptChunk, RefuseChunk, RegisterChunk, RegisterFails,
                PutChunk, VerifyChunk, VerifyFails
  <2>2. ASSUME PlanReady(cl) \/ BasicComplete(cl) \/ FinalizeLoads(cl)
               \/ FinalizeAnswers(cl) \/ Verified(cl) \/ PublishRefused(cl)
        PROVE  UNCHANGED <<state, sman, age>>
    BY <2>2 DEF PlanReady, BasicComplete, FinalizeLoads, FinalizeAnswers, Verified,
                PublishRefused
  <2>. QED
    BY <1>1, <2>1, <2>2 DEF UploadStep
<1>2. ASSUME NEW cl \in Clients, NEW m \in Manifests, NEW s \in SessionIds, JoinSession(cl, m, s)
      PROVE  UNCHANGED <<state, sman, age>>
  BY <1>2 DEF JoinSession
<1>3. ASSUME NEW cl \in Clients, AbortUpload(cl)
      PROVE  UNCHANGED <<state, sman, age>>
  BY <1>3 DEF AbortUpload
<1>4. ASSUME NEW a \in Admins,
             StartCollect(a) \/ StartReclaim(a) \/ AdminStep(a) \/ AbortAdmin(a)
      PROVE  UNCHANGED <<state, sman, age>> \/ PurgeSessions(a)
  BY <1>4 DEF AdminStep, StartCollect, StartReclaim, AbortAdmin, CollectEnd,
              ReadQueue, DeleteBytes, ForgetChunk, ForgetFails, DrainEnd,
              CollectObject, DrainDrop, DrainMissing, DequeueEntry, DrainSkip, DrainLock
<1>5. ASSUME NEW o \in Oids, StageObject(o) \/ GraceEnds(o)
      PROVE  UNCHANGED <<state, sman, age>>
  BY <1>5 DEF StageObject, GraceEnds
<1>6. CASE UNCHANGED vars
  BY <1>6 DEF vars
<1>. QED
  BY <1>1, <1>2, <1>3, <1>4, <1>5, <1>6 DEF Next, StartUpload, Clock

\* Objects change when one is published or collected.
LEMMA ObjectSteps ==
  ASSUME [Next]_vars
  PROVE  \/ UNCHANGED <<objects, objChunks, refs>>
         \/ \E cl \in Clients : PublishManifest(cl)
         \/ \E a \in Admins, o \in Oids : CollectObject(a, o)
<1> USE DEF sessionVars, clientVars, adminVars, chunkVars, objectVars
<1>1. ASSUME NEW cl \in Clients, UploadStep(cl)
      PROVE  UNCHANGED <<objects, objChunks, refs>> \/ PublishManifest(cl)
  <2>1. ASSUME NEW c \in Chunks,
               PlanChunk(cl, c) \/ AcceptChunk(cl, c) \/ RefuseChunk(cl, c)
               \/ RegisterChunk(cl, c) \/ RegisterFails(cl, c) \/ PutChunk(cl, c)
               \/ VerifyChunk(cl, c) \/ VerifyFails(cl, c)
        PROVE  UNCHANGED <<objects, objChunks, refs>>
    BY <2>1 DEF PlanChunk, AcceptChunk, RefuseChunk, RegisterChunk, RegisterFails,
                PutChunk, VerifyChunk, VerifyFails
  <2>2. ASSUME PlanReady(cl) \/ BasicComplete(cl) \/ FinalizeLoads(cl)
               \/ FinalizeAnswers(cl) \/ Verified(cl) \/ PublishExisting(cl) \/ PublishRefused(cl)
        PROVE  UNCHANGED <<objects, objChunks, refs>>
    BY <2>2 DEF PlanReady, BasicComplete, FinalizeLoads, FinalizeAnswers, Verified,
                PublishExisting, PublishRefused
  <2>. QED
    BY <1>1, <2>1, <2>2 DEF UploadStep
<1>2. ASSUME NEW cl \in Clients, StartUpload(cl) \/ AbortUpload(cl)
      PROVE  UNCHANGED <<objects, objChunks, refs>>
  BY <1>2 DEF StartUpload, OpenSession, JoinSession, AbortUpload
<1>3. ASSUME NEW a \in Admins,
             StartCollect(a) \/ StartReclaim(a) \/ AdminStep(a) \/ AbortAdmin(a)
      PROVE  UNCHANGED <<objects, objChunks, refs>> \/ \E o \in Oids : CollectObject(a, o)
  BY <1>3 DEF AdminStep, StartCollect, StartReclaim, AbortAdmin, CollectEnd,
              PurgeSessions, ReadQueue, DeleteBytes, ForgetChunk, ForgetFails, DrainEnd,
              DrainDrop, DrainMissing, DequeueEntry, DrainSkip, DrainLock
<1>4. CASE Clock \/ UNCHANGED vars
  BY <1>4 DEF Clock, StageObject, GraceEnds, SessionAges, vars
<1>. QED
  BY <1>1, <1>2, <1>3, <1>4 DEF Next

\* Bytes leave the store only when a run deletes them.
LEMMA StoreSteps ==
  ASSUME [Next]_vars
  PROVE  store \subseteq store' \/ \E a \in Admins : DeleteBytes(a)
<1> USE DEF sessionVars, clientVars, adminVars, chunkVars, objectVars
<1>1. ASSUME NEW cl \in Clients, StartUpload(cl) \/ AbortUpload(cl)
      PROVE  UNCHANGED store
  BY <1>1 DEF StartUpload, OpenSession, JoinSession, AbortUpload
<1>2. ASSUME NEW cl \in Clients, UploadStep(cl)
      PROVE  store \subseteq store'
  <2>1. ASSUME NEW d \in Chunks,
               PlanChunk(cl, d) \/ AcceptChunk(cl, d) \/ RefuseChunk(cl, d)
               \/ RegisterChunk(cl, d) \/ RegisterFails(cl, d) \/ PutChunk(cl, d)
               \/ VerifyChunk(cl, d) \/ VerifyFails(cl, d)
        PROVE  store \subseteq store'
    BY <2>1 DEF PlanChunk, AcceptChunk, RefuseChunk, RegisterChunk, RegisterFails,
                PutChunk, VerifyChunk, VerifyFails
  <2>2. ASSUME PlanReady(cl) \/ BasicComplete(cl) \/ FinalizeLoads(cl)
               \/ FinalizeAnswers(cl) \/ Verified(cl) \/ PublishManifest(cl)
               \/ PublishExisting(cl) \/ PublishRefused(cl)
        PROVE  store \subseteq store'
    BY <2>2 DEF PlanReady, BasicComplete, FinalizeLoads, FinalizeAnswers, Verified,
                PublishManifest, PublishExisting, PublishRefused
  <2>. QED
    BY <1>2, <2>1, <2>2 DEF UploadStep
<1>3. ASSUME NEW a \in Admins,
             StartCollect(a) \/ StartReclaim(a) \/ AdminStep(a) \/ AbortAdmin(a)
      PROVE  UNCHANGED store \/ DeleteBytes(a)
  BY <1>3 DEF AdminStep, StartCollect, StartReclaim, AbortAdmin, CollectEnd,
              PurgeSessions, ReadQueue, ForgetChunk, ForgetFails, DrainEnd,
              CollectObject, DrainDrop, DrainMissing, DequeueEntry, DrainSkip, DrainLock
<1>4. CASE Clock \/ UNCHANGED vars
  BY <1>4 DEF Clock, StageObject, GraceEnds, SessionAges, vars
<1>. QED
  BY <1>1, <1>2, <1>3, <1>4 DEF Next

\* Queue entries disappear when a drain withdraws one or forgets its chunk.
LEMMA QueueSteps ==
  ASSUME [Next]_vars
  PROVE  \/ queue \subseteq queue'
         \/ \E a \in Admins : ForgetChunk(a) \/ DequeueEntry(a)
         \/ \E a \in Admins, c \in Chunks : DrainDrop(a, c)
<1> USE DEF sessionVars, clientVars, adminVars, chunkVars, objectVars
<1>1. ASSUME NEW cl \in Clients, StartUpload(cl) \/ AbortUpload(cl)
      PROVE  UNCHANGED queue
  BY <1>1 DEF StartUpload, OpenSession, JoinSession, AbortUpload
<1>2. ASSUME NEW cl \in Clients, UploadStep(cl)
      PROVE  UNCHANGED queue
  <2>1. ASSUME NEW d \in Chunks,
               PlanChunk(cl, d) \/ AcceptChunk(cl, d) \/ RefuseChunk(cl, d)
               \/ RegisterChunk(cl, d) \/ RegisterFails(cl, d) \/ PutChunk(cl, d)
               \/ VerifyChunk(cl, d) \/ VerifyFails(cl, d)
        PROVE  UNCHANGED queue
    BY <2>1 DEF PlanChunk, AcceptChunk, RefuseChunk, RegisterChunk, RegisterFails,
                PutChunk, VerifyChunk, VerifyFails
  <2>2. ASSUME PlanReady(cl) \/ BasicComplete(cl) \/ FinalizeLoads(cl)
               \/ FinalizeAnswers(cl) \/ Verified(cl) \/ PublishManifest(cl)
               \/ PublishExisting(cl) \/ PublishRefused(cl)
        PROVE  UNCHANGED queue
    BY <2>2 DEF PlanReady, BasicComplete, FinalizeLoads, FinalizeAnswers, Verified,
                PublishManifest, PublishExisting, PublishRefused
  <2>. QED
    BY <1>2, <2>1, <2>2 DEF UploadStep
<1>3. ASSUME NEW a \in Admins,
             StartCollect(a) \/ StartReclaim(a) \/ AdminStep(a) \/ AbortAdmin(a)
      PROVE  \/ queue \subseteq queue' \/ ForgetChunk(a) \/ DequeueEntry(a)
             \/ \E c \in Chunks : DrainDrop(a, c)
  <2>1. ASSUME NEW o \in Oids, CollectObject(a, o)
        PROVE  queue \subseteq queue'
    BY <2>1 DEF CollectObject
  <2>. QED
    BY <1>3, <2>1 DEF AdminStep, StartCollect, StartReclaim, AbortAdmin, CollectEnd,
              PurgeSessions, ReadQueue, DeleteBytes, ForgetFails, DrainEnd,
              DrainMissing, DrainSkip, DrainLock
<1>4. CASE Clock \/ UNCHANGED vars
  BY <1>4 DEF Clock, StageObject, GraceEnds, SessionAges, vars
<1>. QED
  BY <1>1, <1>2, <1>3, <1>4 DEF Next

\* Registrations disappear only with their session.
LEMMA RegistrationSteps ==
  ASSUME [Next]_vars
  PROVE  usc \subseteq usc' \/ \E a \in Admins : PurgeSessions(a)
<1> USE DEF sessionVars, clientVars, adminVars, chunkVars, objectVars
<1>1. ASSUME NEW cl \in Clients, StartUpload(cl) \/ AbortUpload(cl)
      PROVE  UNCHANGED usc
  BY <1>1 DEF StartUpload, OpenSession, JoinSession, AbortUpload
<1>2. ASSUME NEW cl \in Clients, UploadStep(cl)
      PROVE  usc \subseteq usc'
  <2>1. ASSUME NEW d \in Chunks,
               PlanChunk(cl, d) \/ AcceptChunk(cl, d) \/ RefuseChunk(cl, d)
               \/ RegisterChunk(cl, d) \/ RegisterFails(cl, d) \/ PutChunk(cl, d)
               \/ VerifyChunk(cl, d) \/ VerifyFails(cl, d)
        PROVE  usc \subseteq usc'
    BY <2>1 DEF PlanChunk, AcceptChunk, RefuseChunk, RegisterChunk, RegisterFails,
                PutChunk, VerifyChunk, VerifyFails
  <2>2. ASSUME PlanReady(cl) \/ BasicComplete(cl) \/ FinalizeLoads(cl)
               \/ FinalizeAnswers(cl) \/ Verified(cl) \/ PublishManifest(cl)
               \/ PublishExisting(cl) \/ PublishRefused(cl)
        PROVE  usc \subseteq usc'
    BY <2>2 DEF PlanReady, BasicComplete, FinalizeLoads, FinalizeAnswers, Verified,
                PublishManifest, PublishExisting, PublishRefused
  <2>. QED
    BY <1>2, <2>1, <2>2 DEF UploadStep
<1>3. ASSUME NEW a \in Admins,
             StartCollect(a) \/ StartReclaim(a) \/ AdminStep(a) \/ AbortAdmin(a)
      PROVE  UNCHANGED usc \/ PurgeSessions(a)
  BY <1>3 DEF AdminStep, StartCollect, StartReclaim, AbortAdmin, CollectEnd,
              ReadQueue, DeleteBytes, ForgetChunk, ForgetFails, DrainEnd,
              CollectObject, DrainDrop, DrainMissing, DequeueEntry, DrainSkip, DrainLock
<1>4. CASE Clock \/ UNCHANGED vars
  BY <1>4 DEF Clock, StageObject, GraceEnds, SessionAges, vars
<1>. QED
  BY <1>1, <1>2, <1>3, <1>4 DEF Next

\* A step of another process leaves a request's own variables alone.
LEMMA RequestSteps ==
  ASSUME Sessions, Typed, [Next]_vars, NEW cl \in Clients
  PROVE  \/ /\ pc'[cl] = pc[cl] /\ man'[cl] = man[cl]
            /\ sid'[cl] = sid[cl] /\ prog'[cl] = prog[cl]
         \/ StartUpload(cl) \/ UploadStep(cl) \/ AbortUpload(cl)
<1> USE DEF sessionVars, clientVars, adminVars, chunkVars, objectVars
<1> DEFINE Kept == /\ pc'[cl] = pc[cl] /\ man'[cl] = man[cl]
                   /\ sid'[cl] = sid[cl] /\ prog'[cl] = prog[cl]
<1>1. ASSUME NEW other \in Clients, other # cl, LeaveUpload(other)
      PROVE  Kept
  BY <1>1 DEF LeaveUpload, Sessions, SessionTypes, Typed, ProgressType
<1>2. ASSUME NEW other \in Clients, other # cl, StartUpload(other)
      PROVE  Kept
  BY <1>2 DEF StartUpload, OpenSession, JoinSession, EnterUpload, Sessions, SessionTypes,
              Typed, ProgressType
<1>3. ASSUME NEW other \in Clients, other # cl, UploadStep(other) \/ AbortUpload(other)
      PROVE  Kept
  <2>1. ASSUME NEW c \in Chunks,
               PlanChunk(other, c) \/ AcceptChunk(other, c) \/ RegisterChunk(other, c)
               \/ PutChunk(other, c) \/ VerifyChunk(other, c)
        PROVE  Kept
    BY <1>3, <2>1 DEF PlanChunk, AcceptChunk, RegisterChunk, PutChunk, VerifyChunk,
                      Typed, ProgressType
  <2>2. ASSUME NEW c \in Chunks,
               RefuseChunk(other, c) \/ RegisterFails(other, c) \/ VerifyFails(other, c)
        PROVE  Kept
    BY <1>1, <1>3, <2>2 DEF RefuseChunk, RegisterFails, VerifyFails
  <2>3. ASSUME FinalizeAnswers(other) \/ PublishManifest(other) \/ PublishExisting(other)
               \/ PublishRefused(other) \/ AbortUpload(other)
        PROVE  Kept
    BY <1>1, <1>3, <2>3 DEF FinalizeAnswers, PublishManifest, PublishExisting,
                            PublishRefused, AbortUpload
  <2>4. ASSUME PlanReady(other) \/ BasicComplete(other) \/ FinalizeLoads(other)
        PROVE  Kept
    BY <1>3, <2>4 DEF PlanReady, BasicComplete, FinalizeLoads, Sessions, SessionTypes,
                      Typed, ProgressType
  <2>5. ASSUME Verified(other)
        PROVE  Kept
    BY <1>1, <1>3, <2>5 DEF Verified, Sessions, SessionTypes
  <2>. QED
    BY <1>3, <2>1, <2>2, <2>3, <2>4, <2>5 DEF UploadStep
<1>4. ASSUME NEW a \in Admins,
             StartCollect(a) \/ StartReclaim(a) \/ AdminStep(a) \/ AbortAdmin(a)
      PROVE  Kept
  BY <1>4 DEF AdminStep, StartCollect, StartReclaim, AbortAdmin, CollectEnd, PurgeSessions,
              ReadQueue, DeleteBytes, ForgetChunk, ForgetFails, DrainEnd,
              CollectObject, DrainDrop, DrainMissing, DequeueEntry, DrainSkip, DrainLock
<1>5. CASE Clock \/ UNCHANGED vars
  BY <1>5 DEF Clock, StageObject, GraceEnds, SessionAges, vars
<1>. QED
  BY <1>2, <1>3, <1>4, <1>5 DEF Next

-----------------------------------------------------------------------------
(* Action properties.                                                       *)

\* drain_chunk_queue deletes bytes only of chunks that no published object
\* references and no open session registers, for any number of concurrent runs
\* and requests.  The row lock carries the check over to the deletion.
THEOREM BytesAreProtected == Spec => ProtectedBytes
<1>1. Guarded /\ [Next]_vars =>
        [\A c \in store \ store' : refs[c] = 0 /\ ~Active(c)]_vars
  <2> SUFFICES ASSUME Guarded, [Next]_vars, NEW c \in store \ store'
               PROVE  refs[c] = 0 /\ ~Active(c)
    BY DEF vars
  <2>1. PICK a \in Admins : DeleteBytes(a)
    BY StoreSteps
  <2>2. c = cur[a] /\ apc[a] = "delete"
    BY <2>1 DEF DeleteBytes
  <2>. QED
    BY <2>2 DEF Guarded, Locks, Holds
<1>. QED
  BY <1>1, GuardedInvariant, PTL DEF Spec, ProtectedBytes

\* A session only moves forward.  The reclaim transaction relies on its row
\* locks: what it marked or chose to delete is still open or expired at COMMIT.
THEOREM SessionsMoveForward == Spec => SessionLifecycle
<1> DEFINE Forward(from, to) ==
      <<from, to>> \in {<<"none", "open">>, <<"open", "finalized">>,
         <<"open", "expired">>, <<"open", "gone">>, <<"expired", "gone">>}
<1>1. Sessions /\ [Next]_vars =>
        [\A s \in SessionIds : state'[s] # state[s] => Forward(state[s], state'[s])]_vars
  <2> SUFFICES ASSUME Sessions, [Next]_vars, NEW s \in SessionIds, state'[s] # state[s]
               PROVE  Forward(state[s], state'[s])
    OBVIOUS
  <2>1. ASSUME NEW cl \in Clients, NEW m \in Manifests, NEW t \in SessionIds,
               OpenSession(cl, m, t)
        PROVE  Forward(state[s], state'[s])
    BY <2>1 DEF OpenSession, OpenFor
  <2>2. ASSUME NEW cl \in Clients, PublishManifest(cl) \/ PublishExisting(cl)
        PROVE  Forward(state[s], state'[s])
    BY <2>2 DEF PublishManifest, PublishExisting, Live, Sessions, SessionTypes
  <2>3. ASSUME NEW a \in Admins, PurgeSessions(a)
        PROVE  Forward(state[s], state'[s])
    BY <2>3 DEF PurgeSessions, Sessions, Batched
  <2>4. ASSUME NEW t \in SessionIds, SessionAges(t)
        PROVE  Forward(state[s], state'[s])
    BY <2>4 DEF SessionAges
  <2>. QED
    BY <2>1, <2>2, <2>3, <2>4, SessionSteps
<1>. QED
  BY <1>1, SessionsInvariant, PTL DEF Spec, SessionLifecycle

\* A published object keeps its manifest until a due tombstone removes it.
THEOREM PublicationIsFinal == Spec => ObjectsImmutable
<1>1. Sessions /\ Counted /\ [Next]_vars =>
        [\A o \in Oids : objects[o] # NoManifest =>
           \/ objects'[o] = objects[o]
           \/ objects'[o] = NoManifest /\ tomb[o] = "due"]_vars
  <2> SUFFICES ASSUME Sessions, Counted, [Next]_vars, NEW o \in Oids, objects[o] # NoManifest
               PROVE  \/ objects'[o] = objects[o]
                      \/ objects'[o] = NoManifest /\ tomb[o] = "due"
    OBVIOUS
  <2>1. ASSUME NEW cl \in Clients, PublishManifest(cl)
        PROVE  objects'[o] = objects[o]
    BY <2>1 DEF PublishManifest, Counted, CountTypes
  <2>2. ASSUME NEW a \in Admins, NEW p \in Oids, CollectObject(a, p)
        PROVE  \/ objects'[o] = objects[o]
               \/ objects'[o] = NoManifest /\ tomb[o] = "due"
    BY <2>2 DEF CollectObject, Counted, CountTypes
  <2>. QED
    BY <2>1, <2>2, ObjectSteps
<1>. QED
  BY <1>1, SessionsInvariant, CountedInvariant, PTL DEF Spec, ObjectsImmutable

\* No step but a drain's removes an entry of chunk_gc_queue, and then the chunk's
\* row is gone or referenced, or was gone when that drain looked: neither a crash
\* (AbortAdmin) nor a refused deletion (ForgetFails) loses one.
THEOREM QueueIsDurable == Spec => QueueDurable
<1> DEFINE Due(c) == \/ c \notin rows' \/ refs'[c] > 0
                     \/ \E a \in Admins : apc[a] = "dequeue" /\ cur[a] = c
<1>1. [Next]_vars => [\A c \in queue \ queue' : Due(c)]_vars
  <2> SUFFICES ASSUME [Next]_vars, NEW c \in queue \ queue'
               PROVE  Due(c)
    OBVIOUS
  <2>1. ASSUME NEW a \in Admins, ForgetChunk(a)
        PROVE  Due(c)
    BY <2>1 DEF ForgetChunk
  <2>2. ASSUME NEW a \in Admins, NEW d \in Chunks, DrainDrop(a, d)
        PROVE  Due(c)
    BY <2>2 DEF DrainDrop, chunkVars
  <2>3. ASSUME NEW a \in Admins, DequeueEntry(a)
        PROVE  Due(c)
    BY <2>3 DEF DequeueEntry
  <2>. QED
    BY <2>1, <2>2, <2>3, QueueSteps
<1>. QED
  BY <1>1, PTL DEF Spec, QueueDurable

-----------------------------------------------------------------------------
(* Stage 5: one open session per object, and what may be published.         *)

\* one_open_upload_per_object.
OneOpen ==
  \A s, t \in SessionIds :
    state[s] = "open" /\ state[t] = "open" /\ OidOf[sman[s]] = OidOf[sman[t]] => s = t

\* Sessions are opened one at a time: whatever is still open for the object is
\* marked expired in the same transaction.
LEMMA OneOpenInvariant == Spec => []OneOpen
<1>1. Init => OneOpen
  BY DEF Init, OneOpen
<1>2. Sessions /\ OneOpen /\ [Next]_vars => OneOpen'
  <2> SUFFICES ASSUME Sessions, OneOpen, [Next]_vars
               PROVE  OneOpen'
    OBVIOUS
  <2>1. ASSUME UNCHANGED sman, \A s \in SessionIds : state'[s] = "open" => state[s] = "open"
        PROVE  OneOpen'
    BY <2>1 DEF OneOpen
  <2>2. ASSUME NEW cl \in Clients, NEW m \in Manifests, NEW s \in SessionIds,
               OpenSession(cl, m, s)
        PROVE  OneOpen'
    <3>1. \A t \in SessionIds : sman'[t] = IF t = s THEN m ELSE sman[t]
      BY <2>2 DEF OpenSession, Sessions, SessionTypes
    <3>2. \A t \in SessionIds : state'[t] = "open" =>
            t = s \/ (state[t] = "open" /\ OidOf[sman[t]] # OidOf[m])
      BY <2>2 DEF OpenSession, OpenFor
    <3>. QED
      BY <3>1, <3>2 DEF OneOpen
  <2>3. ASSUME NEW cl \in Clients, PublishManifest(cl) \/ PublishExisting(cl)
        PROVE  OneOpen'
    BY <2>1, <2>3 DEF PublishManifest, PublishExisting, Sessions, SessionTypes
  <2>4. ASSUME NEW a \in Admins, PurgeSessions(a)
        PROVE  OneOpen'
    BY <2>1, <2>4 DEF PurgeSessions
  <2>5. ASSUME NEW s \in SessionIds, SessionAges(s)
        PROVE  OneOpen'
    BY <2>1, <2>5 DEF SessionAges
  <2>. QED
    BY <2>1, <2>2, <2>3, <2>4, <2>5, SessionSteps
<1>. QED
  BY <1>1, <1>2, SessionsInvariant, PTL DEF Spec

\* An object has one open session, and every request in it uploads the
\* session's manifest, however sessions expire and are renewed meanwhile.
THEOREM OneUploadAtATime == Spec => []OneUploadPerObject
<1>1. Sessions /\ OneOpen => OneUploadPerObject
  BY DEF Sessions, Linked, OneOpen, OneUploadPerObject
<1>. QED
  BY <1>1, SessionsInvariant, OneOpenInvariant, PTL

\* A request that may publish has seen bytes that hash to the OID: a basic one
\* from the start, a git-cdc-v1 one when it has verified the chunks.
Vetted ==
  /\ PublishedVerified
  /\ \A cl \in Clients : pc[cl] = "publish" => man[cl] \in Genuine
  /\ \A cl \in Clients \ CdcClients : pc[cl] # "idle" => man[cl] \in Genuine

\* Nothing reaches publication unverified.
LEMMA VettedInvariant == Spec => []Vetted
<1>1. Init => Vetted
  BY DEF Init, Vetted, PublishedVerified
<1>2. Sessions /\ Counted /\ Vetted /\ [Next]_vars => Vetted'
  <2> SUFFICES ASSUME Sessions, Counted, Vetted, [Next]_vars
               PROVE  Vetted'
    OBVIOUS
  <2> USE DEF sessionVars, clientVars, adminVars, chunkVars, objectVars
  <2>1. ASSUME UNCHANGED <<objects, pc, man>>
        PROVE  Vetted'
    BY <2>1 DEF Vetted, PublishedVerified
  <2>2. ASSUME NEW cl \in Clients, NEW m \in Manifests, NEW s \in SessionIds,
               OpenSession(cl, m, s) \/ JoinSession(cl, m, s)
        PROVE  Vetted'
    <3>1. /\ UNCHANGED objects
          /\ pc' = [pc EXCEPT ![cl] = FirstStep(cl)]
          /\ man' = [man EXCEPT ![cl] = m]
          /\ cl \in CdcClients \/ m \in Genuine
      BY <2>2, ConstantsAssumption DEF OpenSession, JoinSession, EnterUpload, MayUpload
    <3>. QED
      BY <3>1 DEF FirstStep, Vetted, PublishedVerified, Sessions, SessionTypes
  <2>3. ASSUME NEW cl \in Clients, LeaveUpload(cl), UNCHANGED objects
        PROVE  Vetted'
    BY <2>3 DEF LeaveUpload, Vetted, PublishedVerified, Sessions, SessionTypes
  <2>4. ASSUME NEW cl \in Clients, NEW c \in Chunks,
               PlanChunk(cl, c) \/ AcceptChunk(cl, c) \/ RefuseChunk(cl, c)
               \/ RegisterChunk(cl, c) \/ RegisterFails(cl, c) \/ PutChunk(cl, c)
               \/ VerifyChunk(cl, c) \/ VerifyFails(cl, c)
        PROVE  Vetted'
    BY <2>1, <2>3, <2>4 DEF PlanChunk, AcceptChunk, RefuseChunk, RegisterChunk,
                            RegisterFails, PutChunk, VerifyChunk, VerifyFails
  <2>5. ASSUME NEW cl \in Clients, PlanReady(cl) \/ FinalizeLoads(cl)
        PROVE  Vetted'
    BY <2>5 DEF PlanReady, FinalizeLoads, AllSent, Vetted, PublishedVerified, Sessions,
                SessionTypes
  <2>6. ASSUME NEW cl \in Clients, BasicComplete(cl)
        PROVE  Vetted'
    BY <2>6 DEF BasicComplete, AllSent, Vetted, PublishedVerified, Sessions, SessionTypes
  <2>7. ASSUME NEW cl \in Clients, Verified(cl)
        PROVE  Vetted'
    <3>1. CASE man[cl] \in Genuine
      BY <2>7, <3>1 DEF Verified, Vetted, PublishedVerified, Sessions, SessionTypes
    <3>2. CASE man[cl] \notin Genuine
      BY <2>3, <2>7, <3>2 DEF Verified
    <3>. QED
      BY <3>1, <3>2
  <2>8. ASSUME NEW cl \in Clients,
               FinalizeAnswers(cl) \/ PublishExisting(cl) \/ PublishRefused(cl) \/ AbortUpload(cl)
        PROVE  Vetted'
    BY <2>3, <2>8 DEF FinalizeAnswers, PublishExisting, PublishRefused, AbortUpload
  <2>9. ASSUME NEW cl \in Clients, PublishManifest(cl)
        PROVE  Vetted'
    <3>1. man[cl] \in Genuine /\ objects' = [objects EXCEPT ![OidOf[man[cl]]] = man[cl]]
      BY <2>9 DEF PublishManifest, Vetted
    <3>2. LeaveUpload(cl)
      BY <2>9 DEF PublishManifest
    <3>3. PublishedVerified'
      BY <3>1 DEF Vetted, PublishedVerified, Counted, CountTypes
    <3>. QED
      BY <3>2, <3>3 DEF LeaveUpload, Vetted, Sessions, SessionTypes
  <2>10. ASSUME NEW a \in Admins, NEW o \in Oids, CollectObject(a, o)
         PROVE  Vetted'
    BY <2>10 DEF CollectObject, Vetted, PublishedVerified, Counted, CountTypes
  <2>11. ASSUME NEW a \in Admins,
                StartCollect(a) \/ StartReclaim(a) \/ AbortAdmin(a) \/ CollectEnd(a)
                \/ PurgeSessions(a) \/ ReadQueue(a) \/ DeleteBytes(a) \/ ForgetChunk(a)
                \/ ForgetFails(a) \/ DequeueEntry(a) \/ DrainEnd(a)
                \/ \E c \in Chunks : DrainDrop(a, c) \/ DrainMissing(a, c)
                                    \/ DrainSkip(a, c) \/ DrainLock(a, c)
         PROVE  Vetted'
    BY <2>1, <2>11 DEF StartCollect, StartReclaim, AbortAdmin, CollectEnd, PurgeSessions,
                       ReadQueue, DeleteBytes, ForgetChunk, ForgetFails, DrainEnd,
                       DrainDrop, DrainMissing, DequeueEntry, DrainSkip, DrainLock
  <2>12. CASE Clock \/ UNCHANGED vars
    BY <2>1, <2>12 DEF Clock, StageObject, GraceEnds, SessionAges, vars
  <2>. QED
    BY <2>2, <2>4, <2>5, <2>6, <2>7, <2>8, <2>9, <2>10, <2>11, <2>12
       DEF Next, StartUpload, UploadStep, AdminStep
<1>. QED
  BY <1>1, <1>2, SessionsInvariant, CountedInvariant, PTL DEF Spec

\* Only objects whose bytes were hashed against their OID are published, for
\* any mix of basic and git-cdc-v1 requests that share sessions.
THEOREM OnlyVerifiedObjects == Spec => []PublishedVerified
<1>1. Vetted => PublishedVerified
  BY DEF Vetted
<1>. QED
  BY <1>1, VettedInvariant, PTL

-----------------------------------------------------------------------------
(* Stage 6: the bytes of published objects.                                 *)

\* While its session is open, a basic request has registered every chunk it
\* stored, and what it stored is still there; it publishes when all chunks are.
StoredBy(cl) ==
  pc[cl] # "idle" =>
    /\ pc[cl] \in {"send", "publish"}
    /\ \A c \in ChunkSet(man[cl]) : prog[cl][c] \in {"ready", "registered", "done"}
    /\ pc[cl] = "publish" => \A c \in ChunkSet(man[cl]) : prog[cl][c] = "done"
    /\ state[sid[cl]] = "open" =>
         \A c \in Chunks :
           /\ prog[cl][c] \in {"registered", "done"} => <<sid[cl], c>> \in usc
           /\ prog[cl][c] = "done" => c \in store

Stored == \A cl \in Clients \ CdcClients : StoredBy(cl)

\* A session that is open after a step was open before it, unless it is new; it
\* keeps its registrations, and the stored chunks among them keep their bytes.
LEMMA OpenSessionKeeps ==
  ASSUME Sessions, Typed, Guarded, [Next]_vars,
         NEW s \in SessionIds, state[s] # "none", state'[s] = "open"
  PROVE  /\ state[s] = "open"
         /\ \A c \in Chunks : <<s, c>> \in usc => <<s, c>> \in usc'
         /\ \A c \in Chunks : <<s, c>> \in usc /\ c \in store => c \in store'
<1>1. state[s] = "open"
  <2>1. ASSUME NEW cl \in Clients, NEW m \in Manifests, NEW t \in SessionIds,
               OpenSession(cl, m, t)
        PROVE  state[s] = "open"
    BY <2>1 DEF OpenSession
  <2>2. ASSUME NEW cl \in Clients, PublishManifest(cl) \/ PublishExisting(cl)
        PROVE  state[s] = "open"
    BY <2>2 DEF PublishManifest, PublishExisting, Sessions, SessionTypes
  <2>3. ASSUME NEW a \in Admins, PurgeSessions(a)
        PROVE  state[s] = "open"
    BY <2>3 DEF PurgeSessions
  <2>4. ASSUME NEW t \in SessionIds, SessionAges(t)
        PROVE  state[s] = "open"
    BY <2>4 DEF SessionAges
  <2>. QED
    BY <2>1, <2>2, <2>3, <2>4, SessionSteps
<1>2. \A c \in Chunks : <<s, c>> \in usc => <<s, c>> \in usc'
  <2>1. ASSUME NEW a \in Admins, PurgeSessions(a)
        PROVE  \A c \in Chunks : <<s, c>> \in usc => <<s, c>> \in usc'
    <3>1. s \notin batch[a].gone /\ usc' = {u \in usc : u[1] \notin batch[a].gone}
      BY <2>1 DEF PurgeSessions, Cascade
    <3>. QED
      BY <3>1
  <2>. QED
    BY <2>1, RegistrationSteps
<1>3. ASSUME NEW c \in Chunks, <<s, c>> \in usc, c \in store
      PROVE  c \in store'
  <2>1. ASSUME NEW a \in Admins, DeleteBytes(a)
        PROVE  c \in store'
    <3>1. Active(c)
      BY <1>1, <1>3 DEF Active
    <3>2. cur[a] # c
      BY <2>1, <3>1 DEF DeleteBytes, Guarded, Locks, Holds
    <3>. QED
      BY <1>3, <2>1, <3>2 DEF DeleteBytes
  <2>. QED
    BY <1>3, <2>1, StoreSteps
<1>. QED
  BY <1>1, <1>2, <1>3

\* A basic request's registrations keep its bytes in the store.
LEMMA StoredInvariant == Spec => []Stored
<1>1. Init => Stored
  BY DEF Init, Stored, StoredBy
<1>2. Sessions /\ Typed /\ Guarded /\ Stored /\ [Next]_vars => Stored'
  <2> SUFFICES ASSUME Sessions, Typed, Guarded, Stored, [Next]_vars,
                      NEW cl \in Clients \ CdcClients, pc'[cl] # "idle"
               PROVE  StoredBy(cl)'
    BY DEF Stored, StoredBy
  <2> USE DEF sessionVars, clientVars, adminVars, chunkVars, objectVars
  <2>1. ASSUME pc[cl] # "idle"
        PROVE  /\ StoredBy(cl) /\ man[cl] \in Manifests
               /\ sid[cl] \in SessionIds /\ state[sid[cl]] # "none"
               /\ ChunkSet(man[cl]) \subseteq Chunks
    BY <2>1, ManifestTypes DEF Stored, Sessions, Linked
  <2>2. CASE /\ pc'[cl] = pc[cl] /\ man'[cl] = man[cl]
             /\ sid'[cl] = sid[cl] /\ prog'[cl] = prog[cl]
    BY <2>1, <2>2, OpenSessionKeeps DEF StoredBy, ChunkSet
  <2>3. CASE StartUpload(cl)
    <3>1. PICK m \in Manifests, s \in SessionIds : OpenSession(cl, m, s) \/ JoinSession(cl, m, s)
      BY <2>3 DEF StartUpload
    <3>2. /\ pc'[cl] = "send" /\ man'[cl] = m
          /\ prog'[cl] = [c \in Chunks |-> IF c \notin ChunkSet(m) THEN "none" ELSE "ready"]
      BY <3>1 DEF OpenSession, JoinSession, EnterUpload, FirstStep, FirstProgress,
                  Sessions, SessionTypes, Typed, ProgressType
    <3>3. ChunkSet(m) \subseteq Chunks
      BY ManifestTypes
    <3>. QED
      BY <3>2, <3>3 DEF StoredBy, ChunkSet
  <2>4. CASE UploadStep(cl)
    <3>1. pc[cl] # "idle"
      BY <2>4 DEF UploadStep, PlanReady, BasicComplete, FinalizeLoads, FinalizeAnswers, AllSent,
             Verified, PublishManifest, PublishExisting, PublishRefused, PlanChunk, AcceptChunk,
             RefuseChunk, RegisterChunk, RegisterFails, PutChunk, VerifyChunk, VerifyFails
    <3>2. ~LeaveUpload(cl)
      BY DEF LeaveUpload, Sessions, SessionTypes
    <3>3. pc[cl] \in {"send", "publish"}
      BY <2>1, <3>1 DEF StoredBy
    <3>4. ASSUME BasicComplete(cl)
          PROVE  StoredBy(cl)'
      <4>1. /\ UNCHANGED <<man, sid, prog, state, usc, store>> /\ pc'[cl] = "publish"
            /\ \A c \in Chunks : prog[cl][c] \in {"none", "done"}
        BY <3>4 DEF BasicComplete, AllSent, Sessions, SessionTypes
      <4>. QED
        BY <2>1, <3>1, <4>1 DEF StoredBy, ChunkSet
    <3>5. ASSUME NEW c \in Chunks, AcceptChunk(cl, c)
          PROVE  StoredBy(cl)'
      <4>1. /\ UNCHANGED <<pc, man, sid, state, usc, store>>
            /\ prog' = [prog EXCEPT ![cl][c] = "ready"] /\ pc[cl] = "send"
        BY <3>5 DEF AcceptChunk
      <4>2. \A d \in Chunks : prog'[cl][d] = IF d = c THEN "ready" ELSE prog[cl][d]
        BY <4>1 DEF Typed, ProgressType
      <4>. QED
        BY <2>1, <3>1, <4>1, <4>2 DEF StoredBy, ChunkSet
    <3>6. ASSUME NEW c \in Chunks, RegisterChunk(cl, c)
          PROVE  StoredBy(cl)'
      <4>1. /\ UNCHANGED <<pc, man, sid, state, store>> /\ usc' = usc \cup {<<sid[cl], c>>}
            /\ prog' = [prog EXCEPT ![cl][c] = "registered"] /\ pc[cl] = "send"
        BY <3>6 DEF RegisterChunk
      <4>2. \A d \in Chunks : prog'[cl][d] = IF d = c THEN "registered" ELSE prog[cl][d]
        BY <4>1 DEF Typed, ProgressType
      <4>. QED
        BY <2>1, <3>1, <4>1, <4>2 DEF StoredBy, ChunkSet
    <3>7. ASSUME NEW c \in Chunks, PutChunk(cl, c)
          PROVE  StoredBy(cl)'
      <4>1. /\ UNCHANGED <<pc, man, sid, state, usc>> /\ store' = store \cup {c}
            /\ prog' = [prog EXCEPT ![cl][c] = "done"]
            /\ pc[cl] = "send" /\ prog[cl][c] = "registered"
        BY <3>7 DEF PutChunk
      <4>2. \A d \in Chunks : prog'[cl][d] = IF d = c THEN "done" ELSE prog[cl][d]
        BY <4>1 DEF Typed, ProgressType
      <4>. QED
        BY <2>1, <3>1, <4>1, <4>2 DEF StoredBy, ChunkSet
    <3>. QED
      BY <2>4, <3>2, <3>3, <3>4, <3>5, <3>6, <3>7 DEF UploadStep, PlanReady, FinalizeLoads,
         FinalizeAnswers, Verified, PublishManifest, PublishExisting, PublishRefused,
         PlanChunk, RefuseChunk, RegisterFails, VerifyChunk, VerifyFails
  <2>5. CASE AbortUpload(cl)
    BY <2>5 DEF AbortUpload, LeaveUpload, Sessions, SessionTypes
  <2>. QED
    BY <2>2, <2>3, <2>4, <2>5, RequestSteps
<1>. QED
  BY <1>1, <1>2, SessionsInvariant, TypedInvariant, GuardedInvariant, PTL DEF Spec

\* A chunk that a published object names has a positive count.
LEMMA NamedChunksCounted ==
  ASSUME Counted, NEW o \in Oids, objects[o] # NoManifest, NEW c \in ChunkSet(objects[o])
  PROVE  c \in Chunks /\ refs[c] > 0
<1>1. objects[o] \in Manifests
  BY DEF Counted, CountTypes
<1>2. c \in Chunks
  BY <1>1, ManifestTypes
<1>3. PICK i \in DOMAIN ChunksOf[objects[o]] : c = ChunksOf[objects[o]][i]
  BY DEF ChunkSet
<1> DEFINE r == <<OidOf[objects[o]], i, c>>
<1>4. r \in objChunks
  <2>1. r \in RowsOf(objects[o])
    BY <1>3 DEF RowsOf
  <2>2. {q \in objChunks : q[1] = o} = RowsOf(objects[o])
    BY DEF Counted, ObjectRows
  <2>. QED
    BY <2>1, <2>2
<1>5. IsFiniteSet({q \in objChunks : q[3] = c})
  BY FS_Subset DEF Counted, CountTypes
<1>6. {q \in objChunks : q[3] = c} # {}
  BY <1>4
<1>7. /\ Cardinality({q \in objChunks : q[3] = c}) # 0
      /\ Cardinality({q \in objChunks : q[3] = c}) \in Nat
  BY <1>5, <1>6, FS_EmptySet, FS_CardinalityType
<1>8. refs[c] = Cardinality({q \in objChunks : q[3] = c})
  BY <1>2 DEF Counted, RefCountsExact, Uses
<1>. QED
  BY <1>2, <1>7, <1>8

\* When every upload is a basic one, each chunk of a published object is in the
\* store, whatever reclamation runs do meanwhile.  (With git-cdc-v1 uploads this
\* is false: a chunk found in the store is not registered.)
THEOREM BasicObjectsComplete ==
  ASSUME CdcClients = {}
  PROVE  Spec => []ObjectsComplete
<1>1. Init => ObjectsComplete
  BY DEF Init, ObjectsComplete
<1>2. Sessions /\ Counted /\ Guarded /\ Stored /\ ObjectsComplete /\ [Next]_vars => ObjectsComplete'
  <2> SUFFICES ASSUME Sessions, Counted, Guarded, Stored, ObjectsComplete, [Next]_vars,
                      NEW o \in Oids, objects'[o] # NoManifest,
                      NEW c \in ChunkSet(objects'[o])
               PROVE  c \in store'
    BY DEF ObjectsComplete, ChunkSet
  <2>1. CASE objects'[o] = objects[o]
    <3>1. c \in Chunks /\ refs[c] > 0 /\ c \in store
      BY <2>1, NamedChunksCounted DEF ObjectsComplete
    <3>2. ASSUME NEW a \in Admins, DeleteBytes(a)
          PROVE  c \in store'
      BY <3>1, <3>2 DEF DeleteBytes, Guarded, Locks, Holds
    <3>. QED
      BY <3>1, <3>2, StoreSteps
  <2>2. ASSUME NEW cl \in Clients, PublishManifest(cl), objects'[o] # objects[o]
        PROVE  c \in store'
    <3>1. /\ objects'[o] = man[cl] /\ pc[cl] = "publish" /\ UNCHANGED store
          /\ state[sid[cl]] = "open" /\ man[cl] \in Manifests
      BY <2>2 DEF PublishManifest, Counted, CountTypes, Live, Sessions, Linked
    <3>2. cl \in Clients \ CdcClients
      OBVIOUS
    <3>3. c \in Chunks /\ prog[cl][c] = "done"
      BY <3>1, <3>2, ManifestTypes DEF Stored, StoredBy
    <3>. QED
      BY <3>1, <3>2, <3>3 DEF Stored, StoredBy
  <2>3. ASSUME NEW a \in Admins, NEW p \in Oids, CollectObject(a, p)
        PROVE  objects'[o] = objects[o]
    BY <2>3 DEF CollectObject, Counted, CountTypes
  <2>. QED
    BY <2>1, <2>2, <2>3, ObjectSteps
<1>. QED
  BY <1>1, <1>2, SessionsInvariant, CountedInvariant, GuardedInvariant, StoredInvariant, PTL
     DEF Spec

-----------------------------------------------------------------------------
(* The request handlers and the reclamation implement the abstract catalog. *)

\* Counting a manifest's ordinals is counting its object_chunks rows.
LEMMA OrdinalsAreRows ==
  ASSUME NEW m \in Manifests, NEW c
  PROVE  Cat!Uses(m, c) = Uses(RowsOf(m), c)
<1> DEFINE I == {i \in DOMAIN ChunksOf[m] : ChunksOf[m][i] = c}
           R == {r \in RowsOf(m) : r[3] = c}
           f == [i \in I |-> <<OidOf[m], i, ChunksOf[m][i]>>]
<1>1. f \in Bijection(I, R)
  <2>1. f \in Injection(I, R)
    <3>1. f \in [I -> R]
      BY DEF RowsOf
    <3>2. \A i, j \in I : f[i] = f[j] => i = j
      OBVIOUS
    <3>. QED
      BY <3>1, <3>2 DEF Injection, IsInjective
  <2>2. f \in Surjection(I, R)
    BY DEF Surjection, RowsOf
  <2>. QED
    BY <2>1, <2>2 DEF Bijection
<1>2. IsFiniteSet(R)
  BY RowsOfFinite, FS_Subset
<1>3. IsFiniteSet(I)
  BY OrdinalsFinite, FS_Subset
<1> HIDE DEF f
<1>4. Cardinality(I) = Cardinality(R)
  BY <1>1, <1>2, <1>3, FS_Bijection DEF ExistsBijection
<1>5. Cat!Cardinality(I) = Cardinality(I)
  BY DEF Cat!Cardinality, Cardinality
<1>. QED
  BY <1>4, <1>5 DEF Cat!Uses, Cat!Ordinals, Uses

\* Every step of a request or an administrative run is one step of the abstract
\* catalog, or leaves the catalog alone: objects come and go whole, with exactly
\* their counts, and a chunk's row goes only while its count is zero.
THEOREM RefinesCatalog == Spec => ImplementsCatalog
<1>1. Init => Cat!Init
  BY DEF Init, Cat!Init
<1>2. Sessions /\ Counted /\ Typed /\ Guarded /\ [Next]_vars => [Cat!Next]_(Cat!vars)
  <2> SUFFICES ASSUME Sessions, Counted, Typed, Guarded, [Next]_vars
               PROVE  [Cat!Next]_(Cat!vars)
    OBVIOUS
  <2> USE DEF sessionVars, clientVars, adminVars, chunkVars, objectVars
  <2>1. ASSUME UNCHANGED <<objects, rows, refs, queue>>
        PROVE  [Cat!Next]_(Cat!vars)
    BY <2>1 DEF Cat!vars
  <2>2. ASSUME NEW cl \in Clients, NEW c \in Chunks, RegisterChunk(cl, c)
        PROVE  Cat!Next
    <3>1. Cat!AddRows({c})
      BY <2>2 DEF RegisterChunk, Cat!AddRows
    <3>. QED
      BY <3>1 DEF Cat!Next
  <2>3. ASSUME NEW cl \in Clients, PublishManifest(cl)
        PROVE  Cat!Next
    <3>1. man[cl] \in Manifests
      BY <2>3 DEF PublishManifest, Sessions, Linked
    <3>2. \A c \in Chunks : Increment(man[cl], c) = Cat!Uses(man[cl], c)
      BY <3>1, OrdinalsAreRows DEF Increment
    <3>3. ChunkSet(man[cl]) = Cat!ChunkSet(man[cl])
      BY DEF ChunkSet, Cat!ChunkSet, Cat!Ordinals
    <3>4. refs' = [c \in Chunks |-> refs[c] + Cat!Uses(man[cl], c)]
      BY <2>3, <3>2 DEF PublishManifest
    <3>5. Cat!Publish(man[cl])
      BY <2>3, <3>3, <3>4 DEF PublishManifest, Cat!Publish
    <3>. QED
      BY <3>1, <3>5 DEF Cat!Next
  <2>4. ASSUME NEW cl \in Clients, PublishExisting(cl)
        PROVE  Cat!Next
    <3>1. ChunkSet(man[cl]) \subseteq Chunks
      BY <2>4, ManifestTypes DEF PublishExisting, Sessions, Linked
    <3>2. Cat!AddRows(ChunkSet(man[cl]))
      BY <2>4 DEF PublishExisting, Cat!AddRows
    <3>. QED
      BY <3>1, <3>2 DEF Cat!Next
  <2>5. ASSUME NEW a \in Admins, NEW o \in Oids, CollectObject(a, o)
        PROVE  Cat!Next
    <3> DEFINE m    == objects[o]
               mine == {r \in objChunks : r[1] = o}
               hit  == {r[3] : r \in mine}
    <3>1. m \in Manifests /\ m # NoManifest /\ mine = RowsOf(m)
      BY <2>5 DEF CollectObject, Guarded, References, Counted, CountTypes, ObjectRows
    <3>2. hit = Cat!ChunkSet(m)
      <4>1. hit \subseteq Cat!ChunkSet(m)
        BY <3>1 DEF RowsOf, Cat!ChunkSet, Cat!Ordinals
      <4>2. ASSUME NEW i \in DOMAIN ChunksOf[m]
            PROVE  ChunksOf[m][i] \in hit
        <5>1. <<OidOf[m], i, ChunksOf[m][i]>> \in mine
          BY <3>1 DEF RowsOf
        <5>2. <<OidOf[m], i, ChunksOf[m][i]>>[3] = ChunksOf[m][i]
          OBVIOUS
        <5>. QED
          BY <5>1, <5>2
      <4>. QED
        BY <4>1, <4>2 DEF Cat!ChunkSet, Cat!Ordinals
    <3>3. hit \subseteq rows
      BY DEF Guarded, References
    <3>4. \A c \in Chunks : Uses(mine, c) = Cat!Uses(m, c)
      BY <3>1, OrdinalsAreRows
    <3>5. /\ refs' = [c \in Chunks |-> refs[c] - Uses(mine, c)]
          /\ queue' = queue \cup {c \in hit \cap rows : refs'[c] = 0}
          /\ objects' = [objects EXCEPT ![o] = NoManifest]
          /\ UNCHANGED rows
      BY <2>5 DEF CollectObject
    <3> HIDE DEF hit, mine
    <3>6. refs' = [c \in Chunks |-> refs[c] - Cat!Uses(m, c)]
      BY <3>4, <3>5
    <3>7. queue' = queue \cup {c \in Cat!ChunkSet(m) : refs'[c] = 0}
      BY <3>2, <3>3, <3>5
    <3>8. Cat!Remove(o)
      BY <3>1, <3>5, <3>6, <3>7 DEF Cat!Remove
    <3>. QED
      BY <3>8 DEF Cat!Next
  <2>6. ASSUME NEW a \in Admins, PurgeSessions(a)
        PROVE  Cat!Next
    <3>1. Cat!Enqueue(batch[a].chunks)
      BY <2>6 DEF PurgeSessions, Cat!Enqueue
    <3>2. batch[a].chunks \subseteq Chunks
      BY DEF Sessions, BatchTypes
    <3>. QED
      BY <3>1, <3>2 DEF Cat!Next
  <2>7. ASSUME NEW a \in Admins, NEW c \in Chunks, DrainDrop(a, c)
        PROVE  Cat!Next
    <3>1. Cat!Dequeue(c)
      BY <2>7 DEF DrainDrop, Cat!Dequeue
    <3>. QED
      BY <3>1 DEF Cat!Next
  <2>14. ASSUME NEW a \in Admins, DequeueEntry(a)
         PROVE  [Cat!Next]_(Cat!vars)
    <3>1. CASE cur[a] \in Chunks
      <4>1. Cat!Dequeue(cur[a])
        BY <2>14 DEF DequeueEntry, Cat!Dequeue
      <4>. QED
        BY <3>1, <4>1 DEF Cat!Next
    <3>2. CASE cur[a] = NoChunk
      <4>1. queue' = queue
        BY <2>14, <3>2, ConstantsAssumption DEF DequeueEntry, Typed, OtherTypes
      <4>. QED
        BY <2>1, <2>14, <4>1 DEF DequeueEntry
    <3>. QED
      BY <3>1, <3>2 DEF Typed, OtherTypes
  <2>8. ASSUME NEW a \in Admins, ForgetChunk(a)
        PROVE  Cat!Next
    <3>1. cur[a] \in Chunks /\ refs[cur[a]] = 0
      BY <2>8 DEF ForgetChunk, Guarded, Locks, Holds, Sessions, BatchTypes
    <3>2. Cat!Forget(cur[a])
      BY <2>8, <3>1 DEF ForgetChunk, Cat!Forget
    <3>. QED
      BY <3>1, <3>2 DEF Cat!Next
  <2>9. ASSUME NEW cl \in Clients, StartUpload(cl) \/ AbortUpload(cl)
        PROVE  UNCHANGED <<objects, rows, refs, queue>>
    BY <2>9 DEF StartUpload, OpenSession, JoinSession, AbortUpload
  <2>10. ASSUME NEW cl \in Clients, NEW c \in Chunks,
                PlanChunk(cl, c) \/ AcceptChunk(cl, c) \/ RefuseChunk(cl, c)
                \/ RegisterFails(cl, c) \/ PutChunk(cl, c)
                \/ VerifyChunk(cl, c) \/ VerifyFails(cl, c)
         PROVE  UNCHANGED <<objects, rows, refs, queue>>
    BY <2>10 DEF PlanChunk, AcceptChunk, RefuseChunk, RegisterFails, PutChunk,
                 VerifyChunk, VerifyFails
  <2>11. ASSUME NEW cl \in Clients,
                PlanReady(cl) \/ BasicComplete(cl) \/ FinalizeLoads(cl)
                \/ FinalizeAnswers(cl) \/ Verified(cl) \/ PublishRefused(cl)
         PROVE  UNCHANGED <<objects, rows, refs, queue>>
    BY <2>11 DEF PlanReady, BasicComplete, FinalizeLoads, FinalizeAnswers, Verified,
                 PublishRefused
  <2>12. ASSUME NEW a \in Admins,
                StartCollect(a) \/ StartReclaim(a) \/ AbortAdmin(a) \/ CollectEnd(a)
                \/ ReadQueue(a) \/ DeleteBytes(a) \/ ForgetFails(a) \/ DrainEnd(a)
                \/ \E c \in Chunks : DrainMissing(a, c) \/ DrainSkip(a, c) \/ DrainLock(a, c)
         PROVE  UNCHANGED <<objects, rows, refs, queue>>
    BY <2>12 DEF StartCollect, StartReclaim, AbortAdmin, CollectEnd, ReadQueue,
                 DeleteBytes, ForgetFails, DrainEnd, DrainMissing, DrainSkip, DrainLock
  <2>13. CASE Clock \/ UNCHANGED vars
    BY <2>1, <2>13 DEF Clock, StageObject, GraceEnds, SessionAges, vars
  <2>. QED
    BY <2>1, <2>2, <2>3, <2>4, <2>5, <2>6, <2>7, <2>8, <2>9, <2>10, <2>11, <2>12, <2>13, <2>14
       DEF Next, UploadStep, AdminStep
<1>. QED
  BY <1>1, <1>2, SessionsInvariant, CountedInvariant, TypedInvariant, GuardedInvariant, PTL
     DEF Spec, ImplementsCatalog, Cat!Spec
=============================================================================
