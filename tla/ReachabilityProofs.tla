------------------------- MODULE ReachabilityProofs -------------------------
(***************************************************************************)
(* Proofs about Reachability for any set of objects and any number of      *)
(* concurrent administrative runs.                                         *)
(***************************************************************************)
EXTENDS Reachability, SequenceTheorems, TLAPS

\* What Newest does to a list of at most two epochs: it keeps at most two, never
\* fewer than before, and the new epoch is one of them unless two are newer.
LEMMA NewestEpochs ==
  ASSUME NEW es \in Seq(SUBSET Oids), Len(es) <= 2, NEW e \in SUBSET Oids,
         NEW k \in 0 .. 2, k = 1 => Len(es) > 0
  PROVE  /\ Newest(es, e, k) \in Seq(SUBSET Oids)
         /\ Len(Newest(es, e, k)) <= 2
         /\ Len(es) = 2 => Len(Newest(es, e, k)) = 2
         /\ Len(es) > 0 => Len(Newest(es, e, k)) > 0
         /\ k < 2 => /\ Len(Newest(es, e, k)) > 0
                     /\ \E i \in 1 .. Len(Newest(es, e, k)) : Newest(es, e, k)[i] = e
         /\ k = 2 => Newest(es, e, k) = es
<1>0. Len(es) \in Nat
  BY LenProperties
<1>1. CASE k = 0 /\ Len(es) = 2
  <2>1. es[2] \in SUBSET Oids
    <3>1. 2 \in 1..Len(es)
      BY <1>1
    <3>. QED
      BY ONLY <3>1, ElementOfSeq, es \in Seq(SUBSET Oids)
  <2>2. Newest(es, e, k) = <<es[2], e>>
    BY <1>1 DEF Newest
  <2>3. /\ <<es[2], e>> \in Seq(SUBSET Oids)
        /\ Len(<<es[2], e>>) = 2
        /\ <<es[2], e>>[2] = e
    BY <2>1
  <2>4. 2 <= 2 /\ 2 > 0 /\ 2 \in 1 .. 2 /\ k # 2
    BY <1>1
  <2>. QED
    BY <2>2, <2>3, <2>4, Zenon
<1>2. CASE k = 0 /\ Len(es) # 2
  <2>1. Newest(es, e, k) = Append(es, e)
    BY <1>2 DEF Newest
  <2>2. /\ Append(es, e) \in Seq(SUBSET Oids)
        /\ Len(Append(es, e)) = Len(es) + 1
        /\ Append(es, e)[Len(es) + 1] = e
    BY AppendProperties
  <2>3. Len(es) + 1 <= 2 /\ Len(es) + 1 > 0 /\ Len(es) + 1 \in 1 .. Len(es) + 1
    <3>1. \A n \in Nat : n <= 2 /\ n # 2 => n + 1 <= 2 /\ n + 1 > 0 /\ n + 1 \in 1 .. n + 1
      OBVIOUS
    <3>. QED
      BY <1>0, <1>2, <3>1, Zenon
  <2>4. k # 2
    BY <1>2
  <2>. QED
    BY <1>2, <2>1, <2>2, <2>3, <2>4, Zenon
<1>3. CASE k = 1
  <2>1. es[Len(es)] \in SUBSET Oids
    <3>1. Len(es) \in 1..Len(es)
      BY <1>0, <1>3
    <3>. QED
      BY ONLY <3>1, ElementOfSeq, es \in Seq(SUBSET Oids)
  <2>2. Newest(es, e, k) = <<e, es[Len(es)]>>
    BY <1>3 DEF Newest
  <2>3. /\ <<e, es[Len(es)]>> \in Seq(SUBSET Oids)
        /\ Len(<<e, es[Len(es)]>>) = 2
        /\ <<e, es[Len(es)]>>[1] = e
    BY <2>1
  <2>4. 2 <= 2 /\ 2 > 0 /\ 1 \in 1 .. 2 /\ k # 2
    BY <1>3
  <2>. QED
    BY <2>2, <2>3, <2>4, Zenon
<1>4. CASE k = 2
  BY <1>4 DEF Newest
<1>. QED
  BY <1>1, <1>2, <1>3, <1>4

\* Types, and: a run that counts a newer epoch can see one.
Typed ==
  /\ TypeOK
  /\ \A a \in Admins : newer[a] > 0 => Len(epochs) > 0

\* The types hold in every state.
LEMMA TypedInvariant == Spec => []Typed
<1>1. Init => Typed
  BY DEF Init, Typed, TypeOK
<1>2. Typed /\ [Next]_vars => Typed'
  <2> SUFFICES ASSUME Typed, [Next]_vars
               PROVE  Typed'
    OBVIOUS
  <2> USE DEF Typed, TypeOK
  <2>1. CASE UNCHANGED vars
    BY <2>1 DEF vars, adminVars
  <2>2. ASSUME NEW o \in Oids,
               BatchKnown(o) \/ Upload(o) \/ Push(o) \/ Supersede(o)
                 \/ GraceEnds(o) \/ Collect(o)
        PROVE  Typed'
    BY <2>2 DEF BatchKnown, Upload, Push, Supersede, GraceEnds, Collect,
                adminVars
  <2>3. ASSUME NEW a \in Admins,
               Scan(a) \/ BeginSubmit(a) \/ Propose(a) \/ Stage(a) \/ Fail(a)
        PROVE  Typed'
    BY <2>3 DEF Scan, ScanResult, BeginSubmit, Propose, Candidates, Stage, Fail, Rest
  <2>4. ASSUME NEW a \in Admins, SubmitSnapshot(a)
        PROVE  Typed'
    <3>1. epochs' = Newest(epochs, held[a], newer[a])
      BY <2>4 DEF SubmitSnapshot
    <3>2. held[a] \in SUBSET Oids /\ newer[a] \in 0 .. 2 /\ (newer[a] = 1 => Len(epochs) > 0)
      OBVIOUS
    <3>3. /\ epochs' \in Seq(SUBSET Oids) /\ Len(epochs') <= 2
          /\ newer[a] < 2 => Len(epochs') > 0
          /\ Len(epochs) > 0 => Len(epochs') > 0
      BY <3>1, <3>2, NewestEpochs
    <3>4. Len(epochs') > 0
      BY <3>2, <3>3
    <3>5. newer' \in [Admins -> 0 .. 2] /\ before' \in [Admins -> SUBSET Admins]
      BY <2>4 DEF SubmitSnapshot, Rest
    <3>. QED
      BY <2>4, <3>3, <3>4, <3>5 DEF SubmitSnapshot, Rest
  <2>. QED
    BY <2>1, <2>2, <2>3, <2>4 DEF Next
<1>. QED
  BY <1>1, <1>2, PTL DEF Spec

\* Every table and every local variable of the runs keeps its type, and at most two
\* epochs are read.
THEOREM TypeCorrect == Spec => []TypeOK
<1>1. Typed => TypeOK
  BY DEF Typed
<1>. QED
  BY <1>1, TypedInvariant, PTL

-----------------------------------------------------------------------------
\* The inductive form of RetainedWithoutProof: a staging that is about to write
\* tombstones also had two epochs, and epochs never become fewer.
ProofExists ==
  /\ RetainedWithoutProof
  /\ \A a \in Admins : apc[a] = "proposed" => Len(epochs) = 2

\* Tombstones exist only for stored objects and only once two complete epochs
\* exist: gc-stage and gc-collect cannot touch a repository without them.
THEOREM ProofBeforeTombstone == Spec => []RetainedWithoutProof
<1>1. Init => ProofExists
  BY DEF Init, ProofExists, RetainedWithoutProof
<1>2. Typed /\ ProofExists /\ [Next]_vars => ProofExists'
  <2> SUFFICES ASSUME Typed, ProofExists, [Next]_vars
               PROVE  ProofExists'
    OBVIOUS
  <2> USE DEF Typed, TypeOK, ProofExists, RetainedWithoutProof
  <2>1. CASE UNCHANGED vars
    BY <2>1 DEF vars, adminVars
  <2>2. ASSUME NEW o \in Oids,
               BatchKnown(o) \/ Upload(o) \/ Push(o) \/ Supersede(o)
                 \/ GraceEnds(o) \/ Collect(o)
        PROVE  ProofExists'
    BY <2>2 DEF BatchKnown, Upload, Push, Supersede, GraceEnds, Collect,
                adminVars
  <2>3. ASSUME NEW a \in Admins, Scan(a) \/ BeginSubmit(a) \/ Propose(a) \/ Stage(a) \/ Fail(a)
        PROVE  ProofExists'
    BY <2>3 DEF Scan, BeginSubmit, Propose, Candidates, Stage, Fail, Rest
  <2>4. ASSUME NEW a \in Admins, SubmitSnapshot(a)
        PROVE  ProofExists'
    <3>0. /\ epochs' = Newest(epochs, held[a], newer[a])
          /\ held[a] \in SUBSET Oids /\ newer[a] \in 0 .. 2 /\ (newer[a] = 1 => Len(epochs) > 0)
      BY <2>4 DEF SubmitSnapshot
    <3>1. Len(epochs) = 2 => Len(epochs') = 2
      BY <3>0, NewestEpochs
    <3>. QED
      BY <2>4, <3>1 DEF SubmitSnapshot, Rest
  <2>. QED
    BY <2>1, <2>2, <2>3, <2>4 DEF Next
<1>3. ProofExists => RetainedWithoutProof
  BY DEF ProofExists
<1>. QED
  BY <1>1, <1>2, <1>3, TypedInvariant, PTL DEF Spec

-----------------------------------------------------------------------------
\* A safe object stays safe for as long as it stays at a tip: no interleaving of
\* scans, submissions, stagings and collections stages or deletes it.
THEOREM ProtectedObjectsStay == Spec => ProtectedStays
<1>1. Typed /\ [Next]_vars =>
        [\A o \in Oids : Protected(o) /\ o \in tip' => Protected(o)']_vars
  <2> SUFFICES ASSUME Typed, [Next]_vars,
                      NEW o \in Oids, Protected(o), o \in tip'
               PROVE  Protected(o)'
    BY DEF vars
  <2> USE DEF Typed, TypeOK, Protected
  <2>1. CASE UNCHANGED vars
    BY <2>1 DEF vars, adminVars
  <2>2. ASSUME NEW p \in Oids,
               BatchKnown(p) \/ Upload(p) \/ Push(p) \/ Supersede(p)
                 \/ GraceEnds(p) \/ Collect(p)
        PROVE  Protected(o)'
    BY <2>2 DEF BatchKnown, Upload, Push, Supersede, GraceEnds, Collect,
                adminVars
  <2>3. ASSUME NEW a \in Admins, Scan(a) \/ BeginSubmit(a) \/ Propose(a) \/ Stage(a) \/ Fail(a)
        PROVE  Protected(o)'
    BY <2>3 DEF Scan, ScanResult, BeginSubmit, Propose, Candidates, Stage, Fail, Rest
  <2>4. ASSUME NEW a \in Admins, SubmitSnapshot(a)
        PROVE  Protected(o)'
    <3>1. /\ epochs' = Newest(epochs, held[a], newer[a])
          /\ held[a] \in SUBSET Oids /\ newer[a] \in 0 .. 2 /\ (newer[a] = 1 => Len(epochs) > 0)
          /\ o \in held[a]
      BY <2>4 DEF SubmitSnapshot
    <3>2. /\ newer[a] < 2 => \E i \in 1 .. Len(epochs') : epochs'[i] = held[a]
          /\ newer[a] = 2 => epochs' = epochs
      <4>1. epochs \in Seq(SUBSET Oids) /\ Len(epochs) <= 2
        OBVIOUS
      <4>. QED
        BY ONLY <3>1, <4>1, NewestEpochs, ZenonT(60)
    <3>3. Len(epochs') = 2 => o \in epochs'[1] \/ o \in epochs'[2]
      <4>1. CASE newer[a] = 2
        BY <3>2, <4>1
      <4>2. CASE newer[a] < 2
        <5>1. PICK i \in 1 .. Len(epochs') : epochs'[i] = held[a]
          BY <3>2, <4>2
        <5>2. Len(epochs') = 2 => i = 1 \/ i = 2
          OBVIOUS
        <5>. QED
          BY <3>1, <5>1, <5>2
      <4>. QED
        BY <3>1, <4>1, <4>2
    <3>. QED
      BY <2>4, <3>3 DEF SubmitSnapshot, Rest
  <2>. QED
    BY <2>1, <2>2, <2>3, <2>4 DEF Next
<1>. QED
  BY <1>1, TypedInvariant, PTL DEF Spec, ProtectedStays
=============================================================================
