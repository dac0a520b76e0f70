------------------------- MODULE MCServerRequests -------------------------
(* An instance of ServerRequests for TLC.                                   *)
EXTENDS ServerRequests, TLC

Interchangeable == Permutations(Tokens) \cup Permutations(Repos) \cup Permutations(Requests)
=============================================================================
