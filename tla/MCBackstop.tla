----------------------------- MODULE MCBackstop -----------------------------
(***************************************************************************)
(* Small instances of Backstop for TLC.  Two devices: their nodes report    *)
(* together, or one after the other; which of them is first is a name.     *)
(***************************************************************************)
EXTENDS Backstop, TLC

First == CHOOSE d \in Devices : TRUE

MCPhases == {[d \in Devices |-> 0], [d \in Devices |-> IF d = First THEN 0 ELSE 1]}

\* Shared from the beginning, or one device in use at a time.
MCStarts == {Anyone, First}
MCOneAtATime == Devices

=============================================================================
