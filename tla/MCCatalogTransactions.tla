----------------------- MODULE MCCatalogTransactions -----------------------
(* Instances of CatalogTransactions for TLC.                                *)
EXTENDS CatalogTransactions, TLC

CONSTANTS o1, o2, c1, c2, m1, m2, m3

\* Two objects that share their chunks in opposite order, the second with one of
\* them twice, and another way to cut the first (the chunks repeat one byte).
MCOidOf == m1 :> o1 @@ m2 :> o2 @@ m3 :> o1
MCChunksOf == m1 :> <<c1, c2>> @@ m2 :> <<c2, c1, c2>> @@ m3 :> <<c2, c1>>

Interchangeable == Permutations(Tx)
=============================================================================
