-------------------------------- MODULE MCUpsd --------------------------------
(* Instances of Upsd small enough for TLC. *)
EXTENDS Upsd

CONSTANTS u1, u2, c1, c2, c3

===============================================================================
