--------------------------- MODULE MCReachability ---------------------------
(* Instances of Reachability for TLC.                                       *)
EXTENDS Reachability, TLC

Interchangeable == Permutations(Oids) \cup Permutations(Admins)
=============================================================================
