-------------------------- MODULE MCTransferAgent --------------------------
(* Instances of TransferAgent for TLC.                                      *)
EXTENDS TransferAgent

CONSTANTS d1, d2

\* The first two chunks of the object are equal.
MCDigestOf == [i \in 0 .. Total - 1 |-> IF i < 2 THEN d1 ELSE d2]
=============================================================================
