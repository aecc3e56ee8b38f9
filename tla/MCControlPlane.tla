--------------------------- MODULE MCControlPlane ---------------------------
(***************************************************************************)
(* Instances of ControlPlane for TLC.  e1 and e2 are two incarnations that *)
(* use the same address one after the other, e3 has an address of its own. *)
(***************************************************************************)
EXTENDS ControlPlane

MCIPOf == [e \in Endpoints |-> IF e = "e3" THEN "i2" ELSE "i1"]
=============================================================================
