----------------------------- MODULE MCManifest -----------------------------
(* Instances of Manifest for TLC.                                           *)
EXTENDS Manifest

\* Sizes up to one beyond the largest, descriptors in and out of range.
MCFileSizes == 0 .. MaxSize + 1
MCDescriptors == [offset : 0 .. MaxSize + 1, length : 0 .. MaxLength + 1]
MCCounts == 0 .. MaxChunks + 1
=============================================================================
