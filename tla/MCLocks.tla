------------------------------ MODULE MCLocks ------------------------------
(* Instances of Locks for TLC.                                              *)
EXTENDS Locks

CONSTANTS r1, u1, u2

\* u2 administrates the repository.
MCManagers == {<<u2, r1>>}

\* Paths that are accepted, and a shape that is refused.
MCPaths == {<<"a">>, <<"b">>, <<"a", "b">>, <<"..", "a">>}
=============================================================================
