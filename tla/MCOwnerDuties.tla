---- MODULE MCOwnerDuties ----
(* Instances of OwnerDuties for TLC.                                       *)
EXTENDS OwnerDuties

CONSTANTS p1, p2
====
