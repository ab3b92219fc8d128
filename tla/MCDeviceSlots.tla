--------------------------- MODULE MCDeviceSlots ---------------------------
(***************************************************************************)
(* Small instances of DeviceSlots for TLC.                                 *)
(***************************************************************************)
EXTENDS DeviceSlots, TLC

\* Devices are alike, and so are the requests in flight.
Symmetry == Permutations(Sessions) \cup Permutations(Requests)
=============================================================================
