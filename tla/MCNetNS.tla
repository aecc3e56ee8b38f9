------------------------------- MODULE MCNetNS -------------------------------
(***************************************************************************)
(* Instances of NetNS for TLC: every namespace has an inode of its own.    *)
(***************************************************************************)
EXTENDS NetNS

MCInodeOf == [n \in Namespaces |-> IF n = "host" THEN 1 ELSE 2]
=============================================================================
