----------------------------- MODULE MCUpsdrvctl -----------------------------
(* Small instances of Upsdrvctl.                                            *)
EXTENDS Upsdrvctl

CONSTANTS a, b

\* Two sections of ups.conf; the first driver is tried once, the second one twice.
MCTable  == <<a, b>>
MCUPS    == {a, b}
MCProcs  == 1 .. 3
MCOnce   == [u \in MCUPS |-> IF u = a THEN 1 ELSE 2]
MCFirst  == [u \in MCUPS |-> 0]
MCDelay  == [u \in MCUPS |-> 1]

\* The second one is to follow the first.
MCOrder  == [u \in MCUPS |-> IF u = a THEN 0 ELSE 1]

===============================================================================
