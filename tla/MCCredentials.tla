--------------------------- MODULE MCCredentials ---------------------------
(***************************************************************************)
(* Small instances of Credentials for TLC.                                 *)
(***************************************************************************)
EXTENDS Credentials, TLC

\* Operations are alike, and so are re-asserts.
Symmetry == Permutations(Ops) \cup Permutations(Sweeps)

=============================================================================
