------------------------------ MODULE SlotSet ------------------------------
(***************************************************************************)
(* What the device slots of a subscription promise                         *)
(* (apps/backend/src/modules/device-slots/device-slots.service.ts),        *)
(* without requests, locks, handles or Redis: a set of devices in use, to   *)
(* which a device is added only while there is room, and from which others *)
(* are displaced only to make room for one.                                *)
(***************************************************************************)
EXTENDS Integers, FiniteSets

CONSTANTS Devices, \* the customer's devices
          Limits   \* values the plan's limit may take

VARIABLES using, \* devices that hold a slot
          shut   \* devices that were displaced, and may be cut off for it

Init == using = {} /\ shut = {}

\* A device is let in: it is not on record as displaced, and there is room.
Enter(d) ==
  /\ d \notin using \cup shut
  /\ \E l \in Limits : Cardinality(using) < l
  /\ using' = using \cup {d}
  /\ UNCHANGED shut

\* Devices leave: released, signed out, silent, or their subscription over.
Leave(S) ==
  /\ using' = using \ S
  /\ UNCHANGED shut

\* Some of those who leave are displaced, which makes room for exactly one.
Displace(S, T) ==
  /\ T # {} /\ T \subseteq S /\ S \subseteq using
  /\ \E l \in Limits : Cardinality(using \ S) = l - 1
  /\ using' = using \ S
  /\ shut' = shut \cup T

\* What was on record against a device is dropped.
Forgive(S) ==
  /\ shut' = shut \ S
  /\ UNCHANGED using

\* Everything is forgotten.
Lose == using' = {} /\ shut' = {}

Next ==
  \/ \E d \in Devices : Enter(d)
  \/ \E S \in SUBSET Devices :
       Leave(S) \/ Forgive(S) \/ \E T \in SUBSET S : Displace(S, T)
  \/ Lose

Spec == Init /\ [][Next]_<<using, shut>>
=============================================================================
