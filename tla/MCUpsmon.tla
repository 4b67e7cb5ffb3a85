------------------------------- MODULE MCUpsmon -------------------------------
(* Instances of Upsmon small enough for TLC. *)
EXTENDS Upsmon

CONSTANTS u1, u2, joe, eve

Said(words)  == [words |-> words, buzz |-> "none"]

\* Every configuration of the UPSes in "set" with power value 1.
Conf(set, primary) ==
  [pv |-> [u \in set |-> 1], cred |-> [u \in set |-> joe], primary |-> primary]

\* Two redundant supplies, one of them managed by another host.
BatteryReports == {Said(<<"OL">>), Said(<<"OB">>), Said(<<"OB", "LB">>)}
PrimaryOfOne   == {Conf({u1, u2}, {u1})}

\* One supply and every kind of trouble it can report.
TroubleReports == {Said(<<"OL">>), Said(<<"OB">>), Said(<<"OFF">>),
                   Said(<<"OL", "BYPASS">>), Said(<<"OL", "OVER">>),
                   Said(<<"OB", "LB", "CAL">>), Said(<<"ALARM", "OL">>),
                   Said(<<"OB", "LB", "FSD">>), Said(<< >>)}
PrimaryOnly    == {Conf({u1}, {u1})}
EitherRole     == PrimaryOnly \cup {Conf({u1}, {})}

\* A MONITOR line comes and goes, changes its role, its power value and its
\* credentials.
LineReports == {Said(<<"OL">>), Said(<<"OB", "LB">>)}
ReloadConfigs ==
  {Conf({u1}, {u1}), Conf({u1}, {}), Conf({u1, u2}, {u1}),
   [Conf({u1}, {u1}) EXCEPT !.cred[u1] = eve],
   [Conf({u1}, {u1}) EXCEPT !.pv[u1] = 0]}

===============================================================================
