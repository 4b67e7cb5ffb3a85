--------------------------- MODULE OrderlyShutdown ---------------------------
(***************************************************************************)
(* What NUT promises to the hosts that share a UPS: the secondaries log    *)
(* out and go down first, and the primary, whose shutdown cuts the power,  *)
(* goes down only when none is logged in any more, when it has waited      *)
(* HOSTSYNC seconds for them, or when it cannot know.                      *)
(***************************************************************************)
EXTENDS Integers

CONSTANTS Secondaries, HOSTSYNC, Horizon

VARIABLES
  attached,   \* secondaries logged in
  primary,    \* the primary: "runs", "waits", "leaves", "down"
  waited,     \* how long it has been waiting
  blind       \* it cannot learn who is logged in

ovars == <<attached, primary, waited, blind>>

Init == attached = {} /\ primary = "runs" /\ waited = 0 /\ blind \in BOOLEAN

\* Secondaries come and go, and so does the sight of them.
Others == /\ attached' \in SUBSET Secondaries /\ blind' \in BOOLEAN
          /\ UNCHANGED <<primary, waited>>

\* The primary announces the shutdown and waits.
Announce ==
  /\ primary = "runs" /\ primary' = "waits" /\ waited' = 0
  /\ UNCHANGED <<attached, blind>>

Wait ==
  /\ primary = "waits" /\ waited < Horizon /\ waited' = waited + 1
  /\ UNCHANGED <<attached, primary, blind>>

\* It stops waiting: all have left, or its patience is over.
Leave ==
  /\ primary = "waits"
  /\ attached = {} \/ waited > HOSTSYNC \/ blind
  /\ primary' = "leaves" /\ waited' = 0
  /\ UNCHANGED <<attached, blind>>

GoDown ==
  /\ primary = "leaves" /\ primary' = "down" /\ blind' \in BOOLEAN
  /\ UNCHANGED <<attached, waited>>

Next == Others \/ Announce \/ Wait \/ Leave \/ GoDown

Spec == Init /\ [][Next]_ovars

=============================================================================
