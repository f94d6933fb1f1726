------------------------------ MODULE BloomSet ------------------------------
(***************************************************************************)
(* What a Bloom filter promises, whatever its layout: a set without        *)
(* deletion whose membership test may err on one side only.  members are   *)
(* the keys inserted, maybe the keys reported as possibly present.         *)
(***************************************************************************)
CONSTANT Keys

VARIABLES members, maybe

Init == members = {} /\ maybe = {}

(***************************************************************************)
(* Insertion, in one step or bit by bit: more keys are reported, and those *)
(* whose insertion is over are among them.  Nothing is ever forgotten.     *)
(***************************************************************************)
Grow ==
  /\ members' \in SUBSET Keys
  /\ maybe' \in SUBSET Keys
  /\ members \subseteq members'
  /\ maybe \subseteq maybe'
  /\ members' \subseteq maybe'

Spec == Init /\ [][Grow]_<<members, maybe>>
=============================================================================
