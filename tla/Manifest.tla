------------------------------ MODULE Manifest ------------------------------
(***************************************************************************)
(* Manifests: ChunkStream, which cuts a file and describes the pieces, and *)
(* ObjectManifest::validate, which the server runs on the manifests of     *)
(* clients and on its own, and the client on those of the server.          *)
(*                                                                         *)
(* A manifest comes from a ChunkStream of this code, or from elsewhere: its*)
(* descriptors may then be anything, and each is chosen when validate's    *)
(* loop reaches it.  Digests are compared elsewhere and left out.          *)
(***************************************************************************)
EXTENDS Naturals, Sequences, FiniteSets

CONSTANTS
  MaxSize,      \* MAX_OBJECT_SIZE, 100 GiB
  MaxChunks,    \* MAX_CHUNK_DESCRIPTORS, 204,800
  MinLength,    \* of the profile, 512 KiB
  MaxLength,    \* of the profile, 8 MiB
  Limit,        \* 2^64, where checked_add fails
  FileSizes,    \* of the files that are cut
  Descriptors,  \* that a manifest from elsewhere may contain
  Counts        \* its numbers of descriptors

\* The limit on descriptors admits every object of the largest size, and no
\* accepted sum overflows.
ASSUME LimitsAssumption ==
  /\ {MaxSize, MaxChunks, MinLength, MaxLength, Limit} \subseteq Nat
  /\ 0 < MinLength /\ MinLength <= MaxLength
  /\ MaxSize <= MaxChunks * MinLength
  /\ MaxChunks * MaxLength < Limit
ASSUME InputsAssumption ==
  /\ FileSizes \subseteq Nat /\ Counts \subseteq Nat
  /\ Descriptors \subseteq [offset : Nat, length : Nat]

VARIABLES
  phase,
  own,        \* the manifest is that of a ChunkStream
  file,       \* size of the file it cuts
  size,       \* object_size
  count,      \* number of descriptors
  chunks,     \* descriptors that are known
  index, expected   \* validate's loop

vars == <<phase, own, file, size, count, chunks, index, expected>>

Descriptor == [offset : Nat, length : Nat]

TypeOK ==
  /\ phase \in {"cut", "begin", "loop", "accepted", "rejected", "failed"}
  /\ own \in BOOLEAN
  /\ {file, size, count, index, expected} \subseteq Nat
  /\ chunks \in Seq(Descriptor)
  /\ phase \in {"loop", "accepted"} => index <= Len(chunks)
  /\ own /\ phase # "cut" => Len(chunks) = count \/ phase = "failed"

Init ==
  /\ index = 0 /\ expected = 0 /\ chunks = <<>>
  /\ file \in FileSizes
  /\ \/ phase = "cut" /\ own = TRUE /\ size = 0 /\ count = 0
     \/ phase = "begin" /\ own = FALSE /\ size = file /\ count \in Counts

-----------------------------------------------------------------------------
(* ChunkStream.                                                             *)

\* external: the lengths FastCDC may cut from what is left of the file.
CutLengths(rest) ==
  IF rest <= MinLength THEN {rest}
  ELSE {n \in MinLength .. MaxLength : n <= rest}

\* (Mutant: the piece's length is taken off the offset.)
NextChunkFromEnd ==
  /\ phase = "cut"
  /\ size < file
  /\ \E n \in CutLengths(file - size) :
       /\ chunks' = Append(chunks, [offset |-> size - n, length |-> n])
       /\ size' = size + n
  /\ UNCHANGED <<phase, own, file, count, index, expected>>
NextChunk ==
  /\ phase = "cut"
  /\ size < file
  /\ \E n \in CutLengths(file - size) :
       /\ chunks' = Append(chunks, [offset |-> size, length |-> n])
       /\ size' = size + n
  /\ UNCHANGED <<phase, own, file, count, index, expected>>

CompletedManifest ==
  /\ phase = "cut"
  /\ size = file
  /\ phase' = "begin"
  /\ count' = Len(chunks)
  /\ UNCHANGED <<own, file, size, chunks, index, expected>>

\* The source cannot be read.
ChunkingFails ==
  /\ phase = "cut"
  /\ phase' = "failed"
  /\ UNCHANGED <<own, file, size, count, chunks, index, expected>>

-----------------------------------------------------------------------------
(* validate.                                                                *)

\* ObjectTooLarge and TooManyChunks.
\* (Mutant: the limit itself is refused.)
ReachesLimits == size > MaxSize \/ count >= MaxChunks
BeyondLimits == size > MaxSize \/ count > MaxChunks

CheckLimits ==
  /\ phase = "begin"
  /\ phase' = IF BeyondLimits THEN "rejected" ELSE "loop"
  /\ UNCHANGED <<own, file, size, count, chunks, index, expected>>

\* EmptyChunk, UnexpectedOffset, ChunkTooLarge, ChunkTooSmall unless it is the
\* last, SizeOverflow.
\* (Mutant: overlaps are not noticed.)
BrokenUnlessBehind(d) ==
  \/ d.length = 0
  \/ d.offset > expected
  \/ d.length > MaxLength
  \/ index + 1 < count /\ d.length < MinLength
  \/ expected + d.length >= Limit
Broken(d) ==
  \/ d.length = 0
  \/ d.offset # expected
  \/ d.length > MaxLength
  \/ index + 1 < count /\ d.length < MinLength
  \/ expected + d.length >= Limit

CheckChunk ==
  /\ phase = "loop"
  /\ index < count
  /\ \E d \in IF own THEN {chunks[index + 1]} ELSE Descriptors :
       /\ chunks' = IF own THEN chunks ELSE Append(chunks, d)
       /\ IF Broken(d)
          THEN phase' = "rejected" /\ UNCHANGED <<index, expected>>
          ELSE /\ index' = index + 1
               /\ expected' = expected + d.length
               /\ UNCHANGED phase
  /\ UNCHANGED <<own, file, size, count>>

\* SizeMismatch, or the manifest is accepted.
CheckSize ==
  /\ phase = "loop"
  /\ index = count
  /\ phase' = IF expected = size THEN "accepted" ELSE "rejected"
  /\ UNCHANGED <<own, file, size, count, chunks, index, expected>>

Next ==
  \/ NextChunk \/ CompletedManifest \/ ChunkingFails
  \/ CheckLimits \/ CheckChunk \/ CheckSize

Spec == Init /\ [][Next]_vars

-----------------------------------------------------------------------------
Within(p, i) == chunks[i].offset <= p /\ p < chunks[i].offset + chunks[i].length

\* "This proves ordered, gap-free coverage of exactly object_size": each byte of
\* an accepted object is in one chunk, and no chunk has a byte beyond it or is
\* shorter or longer than the profile allows.
CoversExactly ==
  phase = "accepted" =>
    /\ \A p \in 0 .. size - 1 : \E i \in 1 .. count : Within(p, i)
    /\ \A i \in 1 .. count :
         /\ chunks[i].offset + chunks[i].length <= size
         /\ chunks[i].length \in 1 .. MaxLength
         /\ i < count => chunks[i].length >= MinLength
    /\ \A i, j \in 1 .. count :
         i < j => chunks[i].offset + chunks[i].length <= chunks[j].offset

\* Client and server agree: whatever ChunkStream makes of a file within the limit
\* on sizes is accepted, including an empty file, a file of the largest size cut
\* into the smallest pieces, and a last piece of one byte.
OwnManifestsAccepted == own /\ file <= MaxSize => phase # "rejected"
=============================================================================
