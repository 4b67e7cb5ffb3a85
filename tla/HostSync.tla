------------------------------- MODULE HostSync -------------------------------
(***************************************************************************)
(* The hosts that draw their power from one UPS, each with its upsmon, and *)
(* the upsd between them: the primary, which puts the forced shutdown into *)
(* upsd and waits for the logins to go (clients/upsmon.c), and the         *)
(* secondaries, which see it in ups.status, go down and take their logins  *)
(* with them.  How upsd counts logins, and how long it counts one whose    *)
(* client is gone, is in Upsd.tla; how one upsmon judges a status is in    *)
(* UpsStatus.tla, whose records the hosts keep here.                       *)
(*                                                                         *)
(* Abstractions: one UPS with power value 1 and MINSUPPLIES 1; polling,    *)
(* judging and setting FSD take no time; the records of a host that is not *)
(* monitoring any more are those of a fresh start.                         *)
(***************************************************************************)
EXTENDS UpsStatus

CONSTANTS
  Primary, Secondaries,   \* the hosts
  FINALDELAY,
  MaxGhosts,              \* no link breaks and no host starts while upsd counts
                          \* as many logins whose client is gone
  Faults                  \* "stale": the driver's data; "link": connections

Hosts == {Primary} \cup Secondaries

ASSUME HostSyncAssumption ==
  /\ Primary \notin Secondaries /\ IsFiniteSet(Secondaries)
  /\ FINALDELAY \in Nat /\ Horizon > FINALDELAY /\ MaxGhosts \in Nat
  /\ POLLFREQALERT <= POLLFREQ
  /\ Creds # {} /\ Faults \subseteq {"stale", "link"}

VARIABLES
  power,      \* what the driver reports: "OL", "OB", "LB" (on battery and low)
  fresh,      \* the driver is connected to upsd and its data are not stale
  fsd,        \* upsd's flag of the UPS
  sessions,   \* the hosts whose connection, logged in, is alive at both ends
  ghosts,     \* logins upsd counts whose client is gone
  mon,        \* of each host: its utype_t
  at,         \* of each host: "nap", "force", "sync", "final", "down"
  slept,      \* of each host: how long it has been waiting there
  warned      \* history: the secondaries logged in when FSD was set

ups  == <<power, fresh>>
upsd == <<fsd, sessions, ghosts>>
vars == <<ups, upsd, mon, at, slept, warned>>

Fresh(h) == addups(1, CHOOSE c \in Creds : TRUE, h = Primary)

\* Every secondary may be down at first; upsmon polls as soon as it starts.
Init ==
  /\ power = "OL" /\ fresh = TRUE
  /\ fsd = FALSE /\ sessions = {} /\ ghosts = 0
  /\ mon = [h \in Hosts |-> Fresh(h)]
  /\ \E up \in SUBSET Secondaries :
       at = [h \in Hosts |-> IF h \in up \cup {Primary} THEN "nap" ELSE "down"]
  /\ slept = [h \in Hosts |-> POLLFREQ]
  /\ warned = {}

-----------------------------------------------------------------------------
(* upsd.                                                                   *)

\* Mutation: the flag is not in the answer.
StatusWithoutFsd ==
  CASE power = "OL" -> <<"OL">> [] power = "OB" -> <<"OB">>
    [] power = "LB" -> <<"OB", "LB">>

\* ups.status, with the forced shutdown before what the driver says.
ups_status ==
  (IF fsd THEN <<"FSD">> ELSE << >>)
    \o CASE power = "OL" -> <<"OL">>
         [] power = "OB" -> <<"OB">>
         [] power = "LB" -> <<"OB", "LB">>

numlogins == Cardinality(sessions) + ghosts

\* A session ends at the client; upsd counts it until it notices.
Ended(h) ==
  /\ sessions' = sessions \ {h}
  /\ ghosts' = IF h \in sessions THEN ghosts + 1 ELSE ghosts

\* Mutation: a login is taken off the count whoever leaves.
client_disconnect_any ==
  /\ ghosts' = ghosts - 1
  /\ UNCHANGED <<ups, fsd, sessions, mon, at, slept, warned>>

\* upsd notices, or sheds the idle connection.
client_disconnect ==
  /\ ghosts > 0 /\ ghosts' = ghosts - 1
  /\ UNCHANGED <<ups, fsd, sessions, mon, at, slept, warned>>

-----------------------------------------------------------------------------
(* One cycle of upsmon: poll and judge.                                    *)

Answer == [words |-> ups_status, buzz |-> "none"]

\* A connection that is logged in.
Polled(u) ==
  IF fresh THEN parse_status(u, Answer) ELSE ups_is_gone(u)

\* recalc() and what follows: MINSUPPLIES is lost with this UPS.
recalc(h, u) ==
  /\ mon' = [mon EXCEPT ![h] = Judged(Promoted(u))]
  /\ at' = [at EXCEPT ![h] = IF is_ups_critical(Promoted(u)) THEN "force"
                                                             ELSE "nap"]
  /\ slept' = [slept EXCEPT ![h] = 0]
  /\ UNCHANGED <<ups, fsd, warned>>

Due(h) == at[h] = "nap" /\ slept[h] >= POLLFREQALERT

Poll(h) ==
  /\ Due(h) /\ h \in sessions
  /\ recalc(h, Polled(mon[h])) /\ UNCHANGED <<sessions, ghosts>>

\* The connection turns out to be dead.
PollBroken(h) ==
  /\ Due(h) /\ h \notin sessions /\ "CLICONNECTED" \in mon[h].status
  /\ recalc(h, drop_connection(ups_is_gone(mon[h])))
  /\ UNCHANGED <<sessions, ghosts>>

Unconnected(h) ==
  Due(h) /\ h \notin sessions /\ "CLICONNECTED" \notin mon[h].status

\* try_connect(), and the poll over the new connection.
Reconnect(h) ==
  /\ Unconnected(h)
  /\ sessions' = sessions \cup {h} /\ UNCHANGED ghosts
  /\ recalc(h, Polled(Connected(mon[h], "all")))

ConnectFails(h) ==
  /\ Unconnected(h) /\ "link" \in Faults
  /\ recalc(h, ups_is_gone(mon[h])) /\ UNCHANGED <<sessions, ghosts>>

-----------------------------------------------------------------------------
(* forceshutdown().                                                        *)

\* No record is read any more on the way down.
Goes(h, place) ==
  /\ at' = [at EXCEPT ![h] = place] /\ slept' = [slept EXCEPT ![h] = 0]
  /\ mon' = [mon EXCEPT ![h] = Fresh(h)]
  /\ UNCHANGED ups

\* A failure is only logged.
setfsd ==
  IF Primary \in sessions
  THEN fsd' = TRUE /\ warned' = warned \cup (sessions \ {Primary})
  ELSE UNCHANGED <<fsd, warned>>

forceshutdown ==
  /\ at[Primary] = "force"
  /\ setfsd /\ Goes(Primary, "sync") /\ UNCHANGED <<sessions, ghosts>>

forceshutdown_secondary(h) ==
  /\ h \in Secondaries /\ at[h] = "force"
  /\ Goes(h, "final") /\ UNCHANGED <<upsd, warned>>

\* upsd tells the count only while the driver's data are available.
CanCount == Primary \in sessions /\ fresh

\* Mutation: one login too many is taken for our own.
LoginsSeenLess == IF CanCount THEN numlogins - 1 ELSE 0

\* The count as sync_secondaries() gets it: a failure counts as no login.
LoginsSeen == IF CanCount THEN numlogins ELSE 0

\* sync_secondaries()
SyncDone == LoginsSeen <= 1 \/ slept[Primary] > HOSTSYNC

sync_secondaries ==
  /\ at[Primary] = "sync" /\ SyncDone
  /\ Goes(Primary, "final") /\ UNCHANGED <<upsd, warned>>

\* doshutdown(): SHUTDOWNCMD runs and upsmon exits.
doshutdown(h) ==
  /\ at[h] = "final" /\ slept[h] >= FINALDELAY
  /\ Ended(h)
  /\ Goes(h, "down") /\ UNCHANGED <<fsd, warned>>

-----------------------------------------------------------------------------
(* The power, the driver, the network, hosts that start, and time.         *)

PowerChanges ==
  /\ power' \in {"OL", "OB", "LB"} \ {power}
  /\ UNCHANGED <<fresh, upsd, mon, at, slept, warned>>

DataGoStale ==
  /\ "stale" \in Faults /\ fresh' = ~fresh
  /\ UNCHANGED <<power, upsd, mon, at, slept, warned>>

LinkBreaks(h) ==
  /\ "link" \in Faults /\ h \in sessions
  /\ ghosts < MaxGhosts /\ Ended(h)
  /\ UNCHANGED <<ups, fsd, mon, at, slept, warned>>

\* A secondary starts, not only in quiet times.
Boot(h) ==
  /\ h \in Secondaries /\ at[h] = "down" /\ at[Primary] # "down"
  /\ ghosts < MaxGhosts
  /\ at' = [at EXCEPT ![h] = "nap"] /\ slept' = [slept EXCEPT ![h] = POLLFREQ]
  /\ warned' = warned \ {h}
  /\ UNCHANGED <<ups, upsd, mon>>

\* A step that is due, or whose wait is over, is not put off.
CanWait(h) ==
  CASE at[h] = "nap"   -> slept[h] < POLLFREQ
    [] at[h] = "force" -> FALSE
    [] at[h] = "sync"  -> ~SyncDone
    [] at[h] = "final" -> slept[h] < FINALDELAY
    [] at[h] = "down"  -> TRUE

Waited(h) == IF at[h] = "down" THEN slept[h] ELSE Older(slept[h])

Tick ==
  /\ at[Primary] # "down" /\ \A h \in Hosts : CanWait(h)
  /\ slept' = [h \in Hosts |-> Waited(h)]
  /\ mon' = [h \in Hosts |-> IF at[h] = "nap" THEN Aged(mon[h]) ELSE mon[h]]
  /\ UNCHANGED <<ups, upsd, at, warned>>

-----------------------------------------------------------------------------

upsmon(h) ==
  \/ Poll(h) \/ PollBroken(h) \/ Reconnect(h) \/ ConnectFails(h)
  \/ forceshutdown_secondary(h) \/ doshutdown(h)

Program ==
  \/ \E h \in Hosts : upsmon(h)
  \/ forceshutdown \/ sync_secondaries \/ client_disconnect

Environment ==
  \/ PowerChanges \/ DataGoStale
  \/ \E h \in Hosts : LinkBreaks(h) \/ Boot(h)

Next == Program \/ Tick \/ Environment

Spec == Init /\ [][Next]_vars

\* The processes run and time passes.  Between two ticks each of them has only
\* a few steps to take, so none starves the others.
Fairness == WF_vars(Program) /\ WF_vars(Tick)
FairSpec == Spec /\ Fairness

-----------------------------------------------------------------------------
(* Properties.                                                             *)

\* The variables keep their types.
TypeOK ==
  /\ power \in {"OL", "OB", "LB"} /\ fresh \in BOOLEAN /\ fsd \in BOOLEAN
  /\ sessions \subseteq Hosts /\ ghosts \in Nat
  /\ mon \in [Hosts -> utype_t] /\ slept \in [Hosts -> Ages]
  /\ at \in [Hosts -> {"nap", "force", "sync", "final", "down"}]
  /\ warned \subseteq Secondaries

Attached == sessions \ {Primary}
PrimaryState ==
  CASE at[Primary] \in {"nap", "force"} -> "runs"
    [] at[Primary] = "sync"  -> "waits"
    [] at[Primary] = "final" -> "leaves"
    [] at[Primary] = "down"  -> "down"
Patience == IF at[Primary] = "sync" THEN slept[Primary] ELSE 0

Orderly == INSTANCE OrderlyShutdown
             WITH attached <- Attached, primary <- PrimaryState, waited <- Patience,
                  blind <- ~CanCount

\* forceshutdown() and sync_secondaries(), upsmon.c:1246 and 1193: the primary
\* does not go down before the secondaries that are logged in, unless HOSTSYNC is
\* over or upsd does not tell it the count; with logins left over, hosts that
\* start late and connections that break.
IsOrderly == Orderly!Spec

\* recalc(), doshutdown() and sync_secondaries(), upsmon.c:1542, 930 and 1193:
\* when HOSTSYNC covers a poll interval and FINALDELAY, every secondary that
\* was logged in when the shutdown was announced is down before the primary,
\* and with it the power, is.
InTime == at[Primary] = "down" => \A h \in warned : at[h] = "down"

\* recalc() and doshutdown(), upsmon.c:1542 and 930: a secondary that is logged
\* in when the shutdown is announced does go down, whatever the power does next.
WarnedGoDown == \A h \in Secondaries : h \in warned ~> at[h] = "down"

===============================================================================
