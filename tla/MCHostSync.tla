------------------------------ MODULE MCHostSync ------------------------------
(* Instances of HostSync small enough for TLC. *)
EXTENDS HostSync

CONSTANTS p, s1, s2, joe

===============================================================================
