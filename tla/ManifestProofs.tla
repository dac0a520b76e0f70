--------------------------- MODULE ManifestProofs ---------------------------
(***************************************************************************)
(* Proofs about Manifest for files of any size and any limits that satisfy *)
(* LimitsAssumption, which the code's constants do.                        *)
(***************************************************************************)
EXTENDS Manifest, SequenceTheorems, TLAPS

End(d) == d.offset + d.length

\* Descriptors as numbers, and what appending one to a manifest does.
LEMMA AppendDescriptor ==
  ASSUME NEW s \in Seq(Descriptor), NEW d \in Descriptor
  PROVE  /\ Append(s, d) \in Seq(Descriptor)
         /\ Len(s) \in Nat /\ Len(Append(s, d)) = Len(s) + 1
         /\ \A i \in 1 .. Len(s) : Append(s, d)[i] = s[i]
         /\ Append(s, d)[Len(s) + 1] = d
BY AppendProperties, LenProperties

\* The fields of a descriptor.
LEMMA DescriptorNumbers ==
  ASSUME NEW s \in Seq(Descriptor), NEW i \in 1 .. Len(s)
  PROVE  s[i] \in Descriptor /\ s[i].offset \in Nat /\ s[i].length \in Nat /\ End(s[i]) \in Nat
<1>1. s[i] \in Descriptor
  BY ElementOfSeq
<1>. QED
  BY <1>1 DEF Descriptor, End

-----------------------------------------------------------------------------
(* Types.                                                                   *)

\* How many descriptors are known in each phase.
Typed ==
  /\ TypeOK
  /\ phase \in {"cut", "begin"} => index = 0 /\ expected = 0
  /\ phase = "cut" => own
  /\ phase = "begin" /\ ~ own => chunks = <<>>
  /\ phase = "loop" => index <= count /\ (own \/ Len(chunks) = index)
  /\ phase = "accepted" => index = count /\ expected = size

\* The types of the stream and of the validation hold in every state.
LEMMA TypedInvariant == Spec => []Typed
<1>1. Init => Typed
  <2> SUFFICES ASSUME Init PROVE Typed
    OBVIOUS
  <2>1. chunks \in Seq(Descriptor) /\ Len(chunks) = 0
    BY EmptySeq DEF Init
  <2>2. file \in Nat /\ size \in Nat /\ count \in Nat /\ index = 0 /\ expected = 0
    <3>1. FileSizes \subseteq Nat /\ Counts \subseteq Nat
      BY InputsAssumption
    <3>2. /\ file \in FileSizes /\ index = 0 /\ expected = 0
          /\ (size = 0 /\ count = 0) \/ (size = file /\ count \in Counts)
      BY Zenon DEF Init
    <3>3. 0 \in Nat
      OBVIOUS
    <3>. QED
      BY ONLY <3>1, <3>2, <3>3, Zenon
  <2>3. /\ chunks = <<>> /\ own \in BOOLEAN
        /\ (phase = "cut" /\ own) \/ (phase = "begin" /\ ~ own)
    BY Zenon DEF Init
  <2>. QED
    BY ONLY <2>1, <2>2, <2>3 DEF Typed, TypeOK
<1>2. Typed /\ [Next]_vars => Typed'
  <2> SUFFICES ASSUME Typed, [Next]_vars PROVE Typed'
    OBVIOUS
  <2> USE DEF Typed, TypeOK
  <2>0. Len(chunks) \in Nat
    BY LenProperties
  <2>1. CASE UNCHANGED vars
    BY <2>1 DEF vars
  <2>2. CASE NextChunk
    <3>1. PICK n \in CutLengths(file - size) :
            /\ chunks' = Append(chunks, [offset |-> size, length |-> n])
            /\ size' = size + n
      BY <2>2 DEF NextChunk
    <3>2. n \in Nat /\ size \in Nat
      <4>1. size \in Nat /\ file \in Nat /\ size < file
        BY <2>2 DEF NextChunk
      <4>2. MinLength \in Nat /\ MaxLength \in Nat
        BY LimitsAssumption
      <4>3. n \in CutLengths(file - size)
        OBVIOUS
      <4>. QED
        BY ONLY <4>1, <4>2, <4>3 DEF CutLengths
    <3>3. [offset |-> size, length |-> n] \in Descriptor
      BY <3>2 DEF Descriptor
    <3>4. chunks' \in Seq(Descriptor)
      BY <3>1, <3>3, AppendDescriptor
    <3>. QED
      BY <2>2, <3>1, <3>2, <3>4 DEF NextChunk
  <2>3. CASE CompletedManifest
    BY <2>0, <2>3 DEF CompletedManifest
  <2>4. CASE ChunkingFails
    BY <2>4 DEF ChunkingFails
  <2>5. CASE CheckLimits
    <3>1. own \/ Len(chunks) = 0
      BY <2>5, EmptySeq DEF CheckLimits
    <3>. QED
      BY <2>0, <2>5, <3>1 DEF CheckLimits
  <2>6. CASE CheckChunk
    <3>1. PICK d \in IF own THEN {chunks[index + 1]} ELSE Descriptors :
            /\ chunks' = IF own THEN chunks ELSE Append(chunks, d)
            /\ IF Broken(d)
               THEN phase' = "rejected" /\ UNCHANGED <<index, expected>>
               ELSE /\ index' = index + 1
                    /\ expected' = expected + d.length
                    /\ UNCHANGED phase
      BY <2>6 DEF CheckChunk
    <3>2. d \in Descriptor /\ d.length \in Nat
      <4>1. CASE own
        <5>1. index + 1 \in 1 .. Len(chunks)
          BY <2>0, <2>6, <4>1 DEF CheckChunk
        <5>. QED
          BY <3>1, <4>1, <5>1, DescriptorNumbers
      <4>2. CASE ~ own
        BY <3>1, <4>2, InputsAssumption DEF Descriptor
      <4>. QED
        BY <4>1, <4>2
    <3>3. /\ chunks' \in Seq(Descriptor)
          /\ own => Len(chunks') = Len(chunks)
          /\ ~ own => Len(chunks') = Len(chunks) + 1
      BY <3>1, <3>2, AppendDescriptor
    <3>4. phase = "loop" /\ index < count /\ UNCHANGED <<own, file, size, count>>
      BY <2>6 DEF CheckChunk
    <3>. QED
      BY <2>0, <3>1, <3>2, <3>3, <3>4
  <2>7. CASE CheckSize
    BY <2>0, <2>7 DEF CheckSize
  <2>. QED
    BY <2>1, <2>2, <2>3, <2>4, <2>5, <2>6, <2>7 DEF Next
<1>. QED
  BY <1>1, <1>2, PTL DEF Spec

\* Sizes, offsets and the loop's variables are natural numbers, and the loop never
\* looks at a descriptor that is not there.
THEOREM TypeCorrect == Spec => []TypeOK
<1>1. Typed => TypeOK
  BY DEF Typed
<1>. QED
  BY <1>1, TypedInvariant, PTL

-----------------------------------------------------------------------------
(* What validate knows after `index` descriptors.                           *)

\* The checked descriptors cover the bytes below expected, in order.
Covered ==
  phase \in {"loop", "accepted"} =>
    /\ \A p \in Nat : p < expected => \E i \in 1 .. index : Within(p, i)
    /\ \A i \in 1 .. index :
         /\ chunks[i].offset + chunks[i].length <= expected
         /\ chunks[i].length \in 1 .. MaxLength
         /\ i < count => chunks[i].length >= MinLength
    /\ \A i, j \in 1 .. index :
         i < j => chunks[i].offset + chunks[i].length <= chunks[j].offset

\* The loop invariant of validate holds in every state.
LEMMA CoveredInvariant == Spec => []Covered
<1>1. Init => Covered
  BY DEF Init, Covered
<1>2. Typed /\ Covered /\ [Next]_vars => Covered'
  <2> SUFFICES ASSUME Typed, Covered, [Next]_vars PROVE Covered'
    OBVIOUS
  <2> USE DEF Typed, TypeOK
  <2>0. Len(chunks) \in Nat
    BY LenProperties
  <2>1. CASE UNCHANGED vars
    BY <2>1 DEF vars, Covered, Within
  <2>2. CASE NextChunk \/ CompletedManifest \/ ChunkingFails
    BY <2>2 DEF NextChunk, CompletedManifest, ChunkingFails, Covered
  <2>3. CASE CheckLimits
    BY <2>3 DEF CheckLimits, Covered
  <2>4. CASE CheckChunk
    <3>1. PICK d \in IF own THEN {chunks[index + 1]} ELSE Descriptors :
            /\ chunks' = IF own THEN chunks ELSE Append(chunks, d)
            /\ IF Broken(d)
               THEN phase' = "rejected" /\ UNCHANGED <<index, expected>>
               ELSE /\ index' = index + 1
                    /\ expected' = expected + d.length
                    /\ UNCHANGED phase
      BY <2>4 DEF CheckChunk
    <3>2. phase = "loop" /\ index < count /\ UNCHANGED <<own, file, size, count>>
      BY <2>4 DEF CheckChunk
    <3>3. CASE Broken(d)
      BY <3>1, <3>3 DEF Covered
    <3>4. CASE ~ Broken(d)
      <4>1. d \in Descriptor /\ d.length \in Nat /\ d.offset \in Nat
        <5>1. CASE own
          <6>1. index + 1 \in 1 .. Len(chunks)
            BY <2>0, <3>2, <5>1
          <6>. QED
            BY <3>1, <5>1, <6>1, DescriptorNumbers
        <5>2. CASE ~ own
          BY <3>1, <5>2, InputsAssumption DEF Descriptor
        <5>. QED
          BY <5>1, <5>2
      <4>2. /\ \A i \in 1 .. index : chunks'[i] = chunks[i]
            /\ chunks'[index + 1] = d
        <5>1. CASE own
          BY <3>1, <5>1
        <5>2. CASE ~ own
          <6>1. Len(chunks) = index /\ chunks' = Append(chunks, d)
            BY <3>1, <3>2, <5>2
          <6>. QED
            BY <4>1, <6>1, AppendDescriptor
        <5>. QED
          BY <5>1, <5>2
      <4>3. /\ d.length > 0 /\ d.offset = expected /\ d.length <= MaxLength
            /\ index + 1 < count => d.length >= MinLength
        <5>1. MaxLength \in Nat /\ MinLength \in Nat
          BY LimitsAssumption
        <5>2. index \in Nat /\ count \in Nat
          OBVIOUS
        <5>. QED
          BY ONLY <3>4, <4>1, <5>1, <5>2 DEF Broken
      <4>4. index' = index + 1 /\ expected' = expected + d.length /\ phase' = "loop"
        BY <3>1, <3>2, <3>4
      <4>5. /\ index \in Nat /\ expected \in Nat /\ count \in Nat /\ MaxLength \in Nat
            /\ MinLength \in Nat /\ count' = count
        BY <3>2, LimitsAssumption
      <4>6. \A i \in 1 .. index : /\ chunks[i].offset \in Nat /\ chunks[i].length \in Nat
                                  /\ chunks[i].offset + chunks[i].length <= expected
                                  /\ chunks[i].length \in 1 .. MaxLength
                                  /\ i < count => chunks[i].length >= MinLength
        <5>1. index <= Len(chunks)
          BY <3>2
        <5>2. \A i \in 1 .. index : i \in 1 .. Len(chunks)
          BY <2>0, <4>5, <5>1
        <5>. QED
          BY <3>2, <5>2, DescriptorNumbers DEF Covered
      <4>7. ASSUME NEW p \in Nat, p < expected'
            PROVE  \E i \in 1 .. index' : Within(p, i)'
        <5>1. CASE p < expected
          <6>1. PICK i \in 1 .. index : Within(p, i)
            BY <3>2, <5>1 DEF Covered
          <6>2. i \in 1 .. index'
            BY <4>4, <4>5, <6>1
          <6>. QED
            BY <4>2, <6>1, <6>2 DEF Within
        <5>2. CASE ~ (p < expected)
          <6>1. PICK k \in 1 .. index' : k = index + 1
            BY <4>4, <4>5
          <6>2. Within(p, k)'
            BY ONLY <4>1, <4>2, <4>3, <4>4, <4>5, <4>7, <5>2, <6>1 DEF Within
          <6>. QED
            BY <6>1, <6>2
        <5>. QED
          BY <5>1, <5>2
      <4>8. ASSUME NEW i \in 1 .. index'
            PROVE  /\ chunks'[i].offset + chunks'[i].length <= expected'
                   /\ chunks'[i].length \in 1 .. MaxLength
                   /\ i < count' => chunks'[i].length >= MinLength
        <5>1. CASE i \in 1 .. index
          BY ONLY <4>1, <4>2, <4>4, <4>5, <4>6, <5>1
        <5>2. CASE i = index + 1
          BY <4>1, <4>2, <4>3, <4>4, <4>5, <5>2
        <5>3. i \in 1 .. index \/ i = index + 1
          BY <4>4, <4>5
        <5>. QED
          BY <5>1, <5>2, <5>3
      <4>9. ASSUME NEW i \in 1 .. index', NEW j \in 1 .. index', i < j
            PROVE  chunks'[i].offset + chunks'[i].length <= chunks'[j].offset
        <5>1. i \in 1 .. index /\ (j \in 1 .. index \/ j = index + 1)
          BY <4>4, <4>5, <4>9
        <5>2. CASE j \in 1 .. index
          BY <3>2, <4>2, <4>9, <5>1, <5>2 DEF Covered
        <5>3. CASE j = index + 1
          BY <4>2, <4>3, <4>6, <5>1, <5>3
        <5>. QED
          BY <5>1, <5>2, <5>3
      <4>. QED
        BY <4>7, <4>8, <4>9 DEF Covered
    <3>. QED
      BY <3>3, <3>4
  <2>5. CASE CheckSize
    BY <2>5 DEF CheckSize, Covered, Within
  <2>. QED
    BY <2>1, <2>2, <2>3, <2>4, <2>5 DEF Next
<1>. QED
  BY <1>1, <1>2, TypedInvariant, PTL DEF Spec

\* A manifest that validate accepts covers every byte of the object once and in
\* order, whatever a client has put into it.
THEOREM AcceptedCoversExactly == Spec => []CoversExactly
<1>1. Typed /\ Covered => CoversExactly
  <2> SUFFICES ASSUME Typed, Covered, phase = "accepted" PROVE CoversExactly
    BY DEF CoversExactly
  <2>1. index = count /\ expected = size /\ size \in Nat
    BY DEF Typed, TypeOK
  <2>2. \A p \in 0 .. size - 1 : p \in Nat /\ p < expected
    BY <2>1
  <2>. QED
    BY <2>1, <2>2 DEF Covered, CoversExactly
<1>. QED
  BY <1>1, TypedInvariant, CoveredInvariant, PTL

-----------------------------------------------------------------------------
(* What ChunkStream has cut.                                                *)

\* Multiplication, where the provers need it: the smallest n + 1 pieces, and how
\* many pieces fit below a product.
LEMMA OneMorePiece == \A n, a \in Nat : (n + 1) * a = n * a + a /\ n * a \in Nat
OBVIOUS

\* Fewer bytes in pieces of one length are fewer pieces.
LEMMA PiecesFit ==
  ASSUME NEW n \in Nat, NEW k \in Nat, NEW a \in Nat, n * a < k * a
  PROVE  n < k
<1> SUFFICES ASSUME n >= k PROVE FALSE
  OBVIOUS
<1>1. PICK e \in Nat : n = k + e
  <2>1. n - k \in Nat /\ n = k + (n - k)
    OBVIOUS
  <2>. QED
    BY <2>1
<1>2. n * a = k * a + e * a /\ e * a \in Nat /\ k * a \in Nat
  BY <1>1
<1>. QED
  BY <1>2

\* The pieces follow each other and end at size; all but the last are at least
\* of the minimal length, and so is the last while something is left to cut.
Cut ==
  own => /\ size <= file
         /\ \A i \in 1 .. Len(chunks) :
              /\ End(chunks[i]) <= size
              /\ chunks[i].length \in 1 .. MaxLength
              /\ i < Len(chunks) \/ (phase = "cut" /\ size < file) => chunks[i].length >= MinLength
              /\ chunks[i].offset = IF i = 1 THEN 0 ELSE End(chunks[i - 1])
         /\ size = IF Len(chunks) = 0 THEN 0 ELSE End(chunks[Len(chunks)])
         /\ Len(chunks) > 0 => (Len(chunks) - 1) * MinLength < size
         /\ phase = "cut" /\ size < file => Len(chunks) * MinLength <= size
         /\ phase = "loop" => expected = IF index = 0 THEN 0 ELSE End(chunks[index])

\* While a manifest of the own kind within the limit is validated, no check fails.
Accepted ==
  /\ Cut
  /\ OwnManifestsAccepted

\* What is known of a stream's manifest holds in every state.
LEMMA AcceptedInvariant == Spec => []Accepted
<1>0. MaxSize \in Nat /\ MaxChunks \in Nat /\ MinLength \in Nat /\ MaxLength \in Nat /\ Limit \in Nat
  BY LimitsAssumption
<1>1. Init => Accepted
  <2> SUFFICES ASSUME Init PROVE Accepted
    OBVIOUS
  <2>1. Len(chunks) = 0 /\ phase \in {"cut", "begin"} /\ file \in Nat
    BY EmptySeq, InputsAssumption DEF Init
  <2>2. own => size = 0 /\ phase = "cut"
    BY Zenon DEF Init
  <2>3. 0 * MinLength = 0
    BY <1>0
  <2>. QED
    BY ONLY <1>0, <2>1, <2>2, <2>3 DEF Accepted, Cut, OwnManifestsAccepted
<1>2. Typed /\ Accepted /\ [Next]_vars => Accepted'
  <2> SUFFICES ASSUME Typed, Accepted, [Next]_vars PROVE Accepted'
    OBVIOUS
  <2>0. /\ Len(chunks) \in Nat /\ chunks \in Seq(Descriptor) /\ own \in BOOLEAN
        /\ file \in Nat /\ size \in Nat /\ count \in Nat /\ index \in Nat /\ expected \in Nat
    BY LenProperties DEF Typed, TypeOK
  <2>n. \A i \in 1 .. Len(chunks) : /\ chunks[i].offset \in Nat /\ chunks[i].length \in Nat
                                    /\ End(chunks[i]) \in Nat
    BY <2>0, DescriptorNumbers
  <2>1. CASE UNCHANGED vars
    BY <2>1 DEF vars, Accepted, Cut, OwnManifestsAccepted, End
  <2>2. CASE NextChunk
    <3>1. /\ phase = "cut" /\ own /\ size < file
          /\ UNCHANGED <<phase, own, file>>
      BY <2>2 DEF NextChunk, Typed
    <3>2. PICK n \in CutLengths(file - size) :
            /\ chunks' = Append(chunks, [offset |-> size, length |-> n])
            /\ size' = size + n
      BY <2>2 DEF NextChunk
    <3>3. /\ n \in 1 .. MaxLength /\ size + n <= file
          /\ size + n < file => n >= MinLength
      BY <1>0, <2>0, <3>1, LimitsAssumption DEF CutLengths
    <3>4. DEFINE d == [offset |-> size, length |-> n]
    <3>5. d \in Descriptor /\ d.offset = size /\ d.length = n /\ End(d) = size + n
      BY <1>0, <2>0, <3>3 DEF Descriptor, End
    <3>6. /\ Len(chunks') = Len(chunks) + 1
          /\ \A i \in 1 .. Len(chunks) : chunks'[i] = chunks[i]
          /\ chunks'[Len(chunks) + 1] = d
      BY <2>0, <3>2, <3>5, AppendDescriptor
    <3>. HIDE DEF d
    <3>7. /\ \A i \in 1 .. Len(chunks) :
               /\ End(chunks[i]) <= size
               /\ chunks[i].length \in 1 .. MaxLength
               /\ chunks[i].length >= MinLength
               /\ chunks[i].offset = IF i = 1 THEN 0 ELSE End(chunks[i - 1])
          /\ size = IF Len(chunks) = 0 THEN 0 ELSE End(chunks[Len(chunks)])
          /\ Len(chunks) * MinLength <= size
      BY <3>1 DEF Accepted, Cut
    <3>8. ASSUME NEW i \in 1 .. Len(chunks')
          PROVE  /\ End(chunks'[i]) <= size'
                 /\ chunks'[i].length \in 1 .. MaxLength
                 /\ i < Len(chunks') \/ size' < file => chunks'[i].length >= MinLength
                 /\ chunks'[i].offset = IF i = 1 THEN 0 ELSE End(chunks'[i - 1])
      <4>1. CASE i \in 1 .. Len(chunks)
        <5>1. chunks'[i] = chunks[i] /\ (i # 1 => chunks'[i - 1] = chunks[i - 1])
          BY <2>0, <3>6, <4>1
        <5>2. /\ End(chunks[i]) \in Nat /\ End(chunks[i]) <= size
              /\ chunks[i].length \in 1 .. MaxLength /\ chunks[i].length >= MinLength
              /\ chunks[i].offset = IF i = 1 THEN 0 ELSE End(chunks[i - 1])
          BY <2>n, <3>7, <4>1
        <5>3. n \in Nat /\ size' = size + n /\ size \in Nat
          BY <1>0, <2>0, <3>2, <3>3
        <5>4. End(chunks[i]) <= size'
          BY ONLY <5>2, <5>3
        <5>. QED
          BY ONLY <5>1, <5>2, <5>4
      <4>2. CASE i = Len(chunks) + 1
        <5>1. i # 1 => chunks'[i - 1] = chunks[Len(chunks)] /\ Len(chunks) # 0
          BY <2>0, <3>6, <4>2
        <5>2. i = 1 => Len(chunks) = 0
          BY <2>0, <4>2
        <5>. QED
          BY ONLY <1>0, <2>0, <3>2, <3>3, <3>5, <3>6, <3>7, <4>2, <5>1, <5>2
      <4>. QED
        BY <2>0, <3>6, <4>1, <4>2
    <3>9. /\ size' <= file
          /\ size' = End(chunks'[Len(chunks')]) /\ Len(chunks') # 0
          /\ (Len(chunks') - 1) * MinLength < size'
          /\ size' < file => Len(chunks') * MinLength <= size'
      <4>1. (Len(chunks) + 1) * MinLength = Len(chunks) * MinLength + MinLength
        BY <1>0, <2>0, OneMorePiece
      <4>2. Len(chunks) * MinLength \in Nat /\ Len(chunks') - 1 = Len(chunks)
        BY <1>0, <2>0, <3>6, OneMorePiece
      <4>. QED
        BY ONLY <1>0, <2>0, <3>2, <3>3, <3>5, <3>6, <3>7, <4>1, <4>2, SMTT(30)
    <3>. QED
      BY ONLY <3>1, <3>8, <3>9 DEF Accepted, Cut, OwnManifestsAccepted
  <2>3. CASE CompletedManifest
    BY <2>0, <2>3 DEF CompletedManifest, Accepted, Cut, OwnManifestsAccepted, End
  <2>4. CASE ChunkingFails
    BY <2>0, <2>4 DEF ChunkingFails, Accepted, Cut, OwnManifestsAccepted, End
  <2>5. CASE CheckLimits
    <3>1. /\ phase = "begin" /\ phase' = (IF BeyondLimits THEN "rejected" ELSE "loop")
          /\ UNCHANGED <<own, file, size, count, chunks, index, expected>>
      BY <2>5 DEF CheckLimits
    <3>2. index = 0 /\ expected = 0 /\ (own => Len(chunks) = count)
      BY <3>1 DEF Typed, TypeOK
    <3>3. own /\ file <= MaxSize => ~ BeyondLimits
      <4> SUFFICES ASSUME own, file <= MaxSize PROVE ~ BeyondLimits
        OBVIOUS
      <4>1. size <= MaxSize
        BY <1>0, <2>0 DEF Accepted, Cut
      <4>2. CASE count = 0
        BY <1>0, <2>0, <4>1, <4>2 DEF BeyondLimits
      <4>3. CASE count > 0
        <5>1. count - 1 \in Nat /\ (count - 1) * MinLength < size
          <6>1. Len(chunks) > 0 => (Len(chunks) - 1) * MinLength < size
            BY Zenon DEF Accepted, Cut
          <6>2. Len(chunks) = count /\ count \in Nat
            BY <2>0, <3>2
          <6>. QED
            BY ONLY <4>3, <6>1, <6>2
        <5>2. (count - 1) * MinLength < MaxChunks * MinLength
          <6>1. MaxSize <= MaxChunks * MinLength
            BY LimitsAssumption
          <6>2. MaxChunks * MinLength \in Nat /\ (count - 1) * MinLength \in Nat
            BY <1>0, <5>1, OneMorePiece
          <6>. QED
            BY <1>0, <2>0, <4>1, <5>1, <6>1, <6>2
        <5>3. count - 1 < MaxChunks
          BY <1>0, <5>1, <5>2, PiecesFit
        <5>. QED
          BY <1>0, <2>0, <4>1, <5>3 DEF BeyondLimits
      <4>. QED
        BY <2>0, <4>2, <4>3
    <3>4. Cut'
      BY <2>0, <3>1, <3>2 DEF Accepted, Cut, End
    <3>. QED
      BY <3>1, <3>3, <3>4 DEF Accepted, OwnManifestsAccepted
  <2>6. CASE CheckChunk
    <3>1. phase = "loop" /\ index < count /\ UNCHANGED <<own, file, size, count>>
      BY <2>6 DEF CheckChunk
    <3>2. CASE ~ own
      BY <2>0, <3>1, <3>2 DEF Accepted, Cut, OwnManifestsAccepted
    <3>3. CASE own
      <4>1. PICK k \in 1 .. Len(chunks) : k = index + 1
        BY <2>0, <3>1, <3>3 DEF Typed, TypeOK
      <4>2. /\ chunks' = chunks
            /\ IF Broken(chunks[k])
               THEN phase' = "rejected" /\ UNCHANGED <<index, expected>>
               ELSE /\ index' = index + 1
                    /\ expected' = expected + chunks[k].length
                    /\ UNCHANGED phase
        BY <2>6, <3>3, <4>1 DEF CheckChunk
      <4>3. /\ chunks[k].offset = expected /\ End(chunks[k]) = expected + chunks[k].length
            /\ End(chunks[k]) <= size /\ size <= file
            /\ chunks[k].length \in 1 .. MaxLength
            /\ k < Len(chunks) => chunks[k].length >= MinLength
        <5>1. /\ expected = IF index = 0 THEN 0 ELSE End(chunks[index])
              /\ chunks[k].offset = IF k = 1 THEN 0 ELSE End(chunks[k - 1])
          BY <3>1, <3>3 DEF Accepted, Cut
        <5>2. chunks[k].offset = expected
          BY ONLY <2>0, <4>1, <5>1
        <5>3. End(chunks[k]) = expected + chunks[k].length
          BY <5>2 DEF End
        <5>. QED
          BY <3>3, <5>2, <5>3 DEF Accepted, Cut
      <4>4. Len(chunks) = count
        BY <3>1, <3>3 DEF Typed, TypeOK
      <4>5. Cut'
        <5>1. CASE Broken(chunks[k])
          BY <2>0, <3>1, <3>3, <4>2, <5>1 DEF Accepted, Cut, End
        <5>2. CASE ~ Broken(chunks[k])
          <6>1. /\ index' = k /\ index' # 0 /\ expected' = End(chunks[k])
                /\ chunks' = chunks /\ phase' = phase
            BY ONLY <2>0, <4>1, <4>2, <4>3, <5>2
          <6>. QED
            BY <3>1, <3>3, <6>1 DEF Accepted, Cut, End
        <5>. QED
          BY <5>1, <5>2
      <4>6. file <= MaxSize => ~ Broken(chunks[k])
        <5> SUFFICES ASSUME file <= MaxSize PROVE ~ Broken(chunks[k])
          OBVIOUS
        <5>1. MaxSize < Limit
          <6>1. MaxChunks * MinLength <= MaxChunks * MaxLength
            <7>1. PICK e \in Nat : MaxLength = MinLength + e
              <8>1. MaxLength - MinLength \in Nat /\ MaxLength = MinLength + (MaxLength - MinLength)
                BY <1>0, LimitsAssumption
              <8>. QED
                BY <8>1
            <7>2. MaxChunks * MaxLength = MaxChunks * MinLength + MaxChunks * e
              BY <1>0, <7>1
            <7>3. MaxChunks * MinLength \in Nat /\ MaxChunks * e \in Nat
              BY <1>0, <7>1, OneMorePiece
            <7>. QED
              BY <7>2, <7>3
          <6>2. MaxChunks * MinLength \in Nat /\ MaxChunks * MaxLength \in Nat
            BY <1>0, OneMorePiece
          <6>. QED
            BY <1>0, <6>1, <6>2, LimitsAssumption
        <5>2. chunks[k].length \in Nat /\ chunks[k].offset \in Nat
          BY <2>n, <4>1
        <5>. QED
          BY ONLY <1>0, <2>0, <4>1, <4>3, <4>4, <5>1, <5>2, file <= MaxSize DEF Broken
      <4>. QED
        BY <3>1, <3>3, <4>2, <4>5, <4>6 DEF Accepted, OwnManifestsAccepted
    <3>. QED
      BY <3>2, <3>3
  <2>7. CASE CheckSize
    <3>1. /\ phase = "loop" /\ index = count
          /\ phase' = (IF expected = size THEN "accepted" ELSE "rejected")
          /\ UNCHANGED <<own, file, size, count, chunks, index, expected>>
      BY <2>7 DEF CheckSize
    <3>2. own => expected = size
      <4>1. own => Len(chunks) = count
        BY <3>1 DEF Typed, TypeOK
      <4>. QED
        BY <3>1, <4>1 DEF Accepted, Cut
    <3>3. Cut'
      BY <2>0, <3>1 DEF Accepted, Cut, End
    <3>. QED
      BY <3>1, <3>2, <3>3 DEF Accepted, OwnManifestsAccepted
  <2>. QED
    BY <2>1, <2>2, <2>3, <2>4, <2>5, <2>6, <2>7 DEF Next
<1>. QED
  BY <1>1, <1>2, TypedInvariant, PTL DEF Spec

\* Whatever ChunkStream makes of a file within the size limit passes validate.
THEOREM OwnManifestsPass == Spec => []OwnManifestsAccepted
<1>1. Accepted => OwnManifestsAccepted
  BY DEF Accepted
<1>. QED
  BY <1>1, AcceptedInvariant, PTL
=============================================================================
