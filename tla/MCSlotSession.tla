--------------------------- MODULE MCSlotSession ---------------------------
(***************************************************************************)
(* Small instances of SlotSession for TLC.                                 *)
(***************************************************************************)
EXTENDS SlotSession, TLC

=============================================================================
