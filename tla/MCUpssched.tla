------------------------------ MODULE MCUpssched ------------------------------
(* Instances of Upssched small enough for TLC. *)
EXTENDS Upssched

CONSTANTS d1, d2

Start(name, ofs)    == [cmd |-> "START", name |-> name, ofs |-> ofs, cname |-> FALSE]
Cancel(name, cname) == [cmd |-> "CANCEL", name |-> name, ofs |-> 0, cname |-> cname]

\* One timer, of one second, that is started, cancelled, and cancelled or else.
OneTimer == {Start("t", 1), Cancel("t", FALSE), Cancel("t", TRUE)}

===============================================================================
