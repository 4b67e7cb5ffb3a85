------------------------------ MODULE MCFailover ------------------------------
(* Instances of Failover small enough for TLC. *)
EXTENDS Failover

CONSTANTS d1, d2

TwoDrivers == <<d1, d2>>
Of(x, y) == [d \in {d1, d2} |-> IF d = d1 THEN x ELSE y]

\* The second driver stays on battery, where it lasts longer.
LineOrBattery == Of({"OL", "OB"}, {"OB"})
Runtimes == Of(1, 2)

\* The first one dies; the second one loses its data, or is slow and gets ignored.
Troubles == {Of({"dies"}, {"stale"}), Of({"dies"}, {"slow", "overridden"})}
IgnoreTheSecond == Of({}, {<<"ignore", -1>>, <<"ignore", 0>>})

===============================================================================
