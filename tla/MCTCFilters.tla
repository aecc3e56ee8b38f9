----------------------------- MODULE MCTCFilters -----------------------------
(***************************************************************************)
(* Instances of TCFilters for TLC.                                         *)
(***************************************************************************)
EXTENDS TCFilters

MCHookOf == [p \in Programs |-> IF p = "tc_init_e" THEN "egress" ELSE "ingress"]
==============================================================================
