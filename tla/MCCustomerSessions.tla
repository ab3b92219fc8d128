------------------------- MODULE MCCustomerSessions -------------------------
(***************************************************************************)
(* A small instance of CustomerSessions for TLC: an app with room for two   *)
(* requests at once, and another device that signs in beside it, whose      *)
(* session the first one's changes end and whose requests are left out:     *)
(* what they would do to the account, a reset does.                         *)
(***************************************************************************)
EXTENDS CustomerSessions, TLC

CONSTANTS r1, r2

MCApps == {"here", "there"}
MCRequests == {r1, r2}
MCOf(r) == "here"
MCSymmetry == Permutations(MCRequests)
=============================================================================
