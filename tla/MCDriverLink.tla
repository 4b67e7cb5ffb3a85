----------------------------- MODULE MCDriverLink -----------------------------
(* Instances of DriverLink small enough for TLC. *)
EXTENDS DriverLink

\* A status, and a variable that comes, goes and changes.
TwoVars == [v \in {"ups.status", "x"} |-> IF v = "x" THEN {"1", "2"} ELSE {"OL"}]

===============================================================================
