---------------------------- MODULE HostSyncProofs ----------------------------
(* Theorems about the hosts that share a UPS. *)
EXTENDS HostSync, UpsStatusProofs, FiniteSetTheorems

USE HostSyncAssumption

Places == {"nap", "force", "sync", "final", "down"}

LEMMA FreshType == \A h \in Hosts : Fresh(h) \in utype_t
<1>1. (CHOOSE c \in Creds : TRUE) \in Creds
  OBVIOUS
<1> QED BY <1>1, AddupsType DEF Fresh

LEMMA AgesHold == 0 \in Ages /\ POLLFREQ \in Ages /\ 1 \in Nat
BY HorizonAssumption, TimesAssumption DEF Ages

LEMMA InitType == Init => TypeOK
<1> SUFFICES ASSUME Init PROVE TypeOK
  OBVIOUS
<1>1. mon \in [Hosts -> utype_t]
  BY FreshType DEF Init
<1>2. slept \in [Hosts -> Ages]
  BY AgesHold DEF Init
<1>3. at \in [Hosts -> Places]
  BY DEF Init, Places
<1> QED BY <1>1, <1>2, <1>3 DEF Init, TypeOK, Places

\* recalc(), upsmon.c:1542, after any poll.
LEMMA RecalcType ==
  ASSUME TypeOK, NEW h \in Hosts, NEW u \in utype_t, recalc(h, u)
  PROVE  /\ mon' \in [Hosts -> utype_t] /\ slept' \in [Hosts -> Ages]
         /\ at' \in [Hosts -> Places]
<1>1. mon' \in [Hosts -> utype_t]
  BY JudgedType DEF recalc, TypeOK
<1>2. slept' \in [Hosts -> Ages]
  BY AgesHold DEF recalc, TypeOK
<1>3. at' \in [Hosts -> Places]
  BY DEF recalc, TypeOK, Places
<1> QED BY <1>1, <1>2, <1>3

LEMMA PolledType == \A u \in utype_t : Polled(u) \in utype_t
BY ParseType, ConnectionType DEF Polled

\* A step on the way down, forceshutdown() and after.
LEMMA GoesType ==
  ASSUME TypeOK, NEW h \in Hosts, NEW place \in Places, Goes(h, place)
  PROVE  /\ mon' \in [Hosts -> utype_t] /\ slept' \in [Hosts -> Ages]
         /\ at' \in [Hosts -> Places]
<1>1. mon' \in [Hosts -> utype_t]
  BY FreshType DEF Goes, TypeOK
<1>2. slept' \in [Hosts -> Ages]
  BY AgesHold DEF Goes, TypeOK
<1>3. at' \in [Hosts -> Places]
  BY DEF Goes, TypeOK, Places
<1> QED BY <1>1, <1>2, <1>3

LEMMA EndedType ==
  ASSUME TypeOK, NEW h \in Hosts, Ended(h)
  PROVE  sessions' \subseteq Hosts /\ ghosts' \in Nat
BY DEF Ended, TypeOK

\* One cycle of one upsmon.
LEMMA UpsmonType ==
  ASSUME TypeOK, NEW h \in Hosts, upsmon(h)
  PROVE  TypeOK'
<1>0. mon[h] \in utype_t
  BY DEF TypeOK
<1> DEFINE Kept3 == /\ mon' \in [Hosts -> utype_t] /\ slept' \in [Hosts -> Ages]
                    /\ at' \in [Hosts -> Places]
<1>1. ASSUME NEW u \in utype_t, recalc(h, u),
             sessions' \subseteq Hosts, ghosts' \in Nat
      PROVE  TypeOK'
  <2>1. Kept3
    BY <1>1, RecalcType
  <2> QED BY <1>1, <2>1 DEF recalc, ups, TypeOK, Places
<1>2. CASE Poll(h)
  <2>1. Polled(mon[h]) \in utype_t
    BY <1>0, PolledType
  <2> QED BY <1>2, <2>1, <1>1 DEF Poll, TypeOK
<1>3. CASE PollBroken(h)
  <2>1. drop_connection(ups_is_gone(mon[h])) \in utype_t
    BY <1>0, ConnectionType
  <2> QED BY <1>3, <2>1, <1>1 DEF PollBroken, TypeOK
<1>4. CASE Reconnect(h)
  <2>1. Connected(mon[h], "all") \in utype_t
    BY <1>0, ConnectionType
  <2>2. Polled(Connected(mon[h], "all")) \in utype_t
    BY <2>1, PolledType
  <2> QED BY <1>4, <2>2, <1>1 DEF Reconnect, TypeOK
<1>5. CASE ConnectFails(h)
  <2>1. ups_is_gone(mon[h]) \in utype_t
    BY <1>0, ConnectionType
  <2> QED BY <1>5, <2>1, <1>1 DEF ConnectFails, TypeOK
<1>6. CASE forceshutdown_secondary(h)
  <2>1. Kept3
    BY <1>6, GoesType DEF forceshutdown_secondary, Places
  <2> QED BY <1>6, <2>1 DEF forceshutdown_secondary, Goes, ups, upsd, TypeOK, Places
<1>7. CASE doshutdown(h)
  <2>1. Kept3
    BY <1>7, GoesType DEF doshutdown, Places
  <2>2. sessions' \subseteq Hosts /\ ghosts' \in Nat
    BY <1>7, EndedType DEF doshutdown
  <2> QED BY <1>7, <2>1, <2>2 DEF doshutdown, Goes, ups, TypeOK, Places
<1> QED BY <1>2, <1>3, <1>4, <1>5, <1>6, <1>7 DEF upsmon

\* forceshutdown() and sync_secondaries(), upsmon.c:1246 and 1193.
LEMMA PrimaryType ==
  ASSUME TypeOK, forceshutdown \/ sync_secondaries
  PROVE  TypeOK'
<1>0. Primary \in Hosts
  BY DEF Hosts
<1>1. CASE forceshutdown
  <2>1. /\ mon' \in [Hosts -> utype_t] /\ slept' \in [Hosts -> Ages]
        /\ at' \in [Hosts -> Places]
    BY <1>0, <1>1, GoesType DEF forceshutdown, Places
  <2>2. fsd' \in BOOLEAN /\ warned' \subseteq Secondaries
    BY <1>1 DEF forceshutdown, setfsd, TypeOK, Hosts
  <2> QED BY <1>1, <2>1, <2>2 DEF forceshutdown, Goes, ups, TypeOK, Places
<1>2. CASE sync_secondaries
  <2>1. /\ mon' \in [Hosts -> utype_t] /\ slept' \in [Hosts -> Ages]
        /\ at' \in [Hosts -> Places]
    BY <1>0, <1>2, GoesType DEF sync_secondaries, Places
  <2> QED BY <1>2, <2>1 DEF sync_secondaries, Goes, ups, upsd, TypeOK, Places
<1> QED BY <1>1, <1>2

\* The rest of the world, and time.
LEMMA WorldType ==
  ASSUME TypeOK, client_disconnect \/ Tick \/ Environment
  PROVE  TypeOK'
<1>1. CASE client_disconnect
  BY <1>1 DEF client_disconnect, ups, TypeOK
<1>2. CASE Tick
  <2>1. slept' \in [Hosts -> Ages]
    BY <1>2, OlderType DEF Tick, Waited, TypeOK
  <2>2. mon' \in [Hosts -> utype_t]
    BY <1>2, ClockType DEF Tick, TypeOK
  <2> QED BY <1>2, <2>1, <2>2 DEF Tick, ups, upsd, TypeOK
<1>3. CASE PowerChanges
  BY <1>3 DEF PowerChanges, upsd, TypeOK
<1>4. CASE DataGoStale
  BY <1>4 DEF DataGoStale, upsd, TypeOK
<1>5. ASSUME NEW h \in Hosts, LinkBreaks(h)
      PROVE  TypeOK'
  <2>1. sessions' \subseteq Hosts /\ ghosts' \in Nat
    BY <1>5, EndedType DEF LinkBreaks
  <2> QED BY <1>5, <2>1 DEF LinkBreaks, ups, TypeOK
<1>6. ASSUME NEW h \in Hosts, Boot(h)
      PROVE  TypeOK'
  BY <1>6, AgesHold DEF Boot, ups, upsd, TypeOK
<1> QED BY <1>1, <1>2, <1>3, <1>4, <1>5, <1>6 DEF Environment

\* The variables of the hosts and of upsd keep their types.
THEOREM TypeCorrect == Spec => []TypeOK
<1>1. Init => TypeOK
  BY InitType
<1>2. TypeOK /\ [Next]_vars => TypeOK'
  <2> SUFFICES ASSUME TypeOK, [Next]_vars PROVE TypeOK'
    OBVIOUS
  <2>1. CASE Next
    BY <2>1, UpsmonType, PrimaryType, WorldType DEF Next, Program
  <2>2. CASE UNCHANGED vars
    BY <2>2 DEF vars, ups, upsd, TypeOK
  <2> QED BY <2>1, <2>2
<1> QED BY <1>1, <1>2, PTL DEF Spec

-----------------------------------------------------------------------------
(* The hosts shut down in order.                                           *)

\* A count of at most one login, read over the primary's own, leaves nobody
\* else: what the comment at upsmon.c:1223 relies on.
LEMMA NobodyElse ==
  ASSUME TypeOK, CanCount, numlogins <= 1
  PROVE  Attached = {}
<1>1. IsFiniteSet(Hosts)
  BY FS_AddElement, FS_EmptySet, FS_Singleton, FS_Union DEF Hosts
<1>2. IsFiniteSet(sessions) /\ Primary \in sessions
  BY <1>1, FS_Subset DEF TypeOK, CanCount
<1>3. /\ IsFiniteSet(Attached) /\ Cardinality(sessions) \in Nat
      /\ Cardinality(Attached) = Cardinality(sessions) - 1
  BY <1>2, FS_RemoveElement, FS_CardinalityType DEF Attached
<1>4. Cardinality(sessions) <= 1
  BY <1>3 DEF numlogins, TypeOK
<1>5. Cardinality(Attached) = 0
  BY <1>3, <1>4, FS_CardinalityType
<1> QED BY <1>3, <1>5, FS_EmptySet

\* A step of a host that leaves the primary's place alone.
LEMMA OthersStep ==
  ASSUME TypeOK, TypeOK', PrimaryState' = PrimaryState, Patience' = Patience
  PROVE  Orderly!Next
BY DEF TypeOK, Hosts, Attached, CanCount, Orderly!Next, Orderly!Others

LEMMA InitOrderly == Init => Orderly!Init
BY DEF Init, Orderly!Init, Attached, PrimaryState, Patience, CanCount, Hosts

\* A poll of the primary leaves it running.
LEMMA RecalcStep ==
  ASSUME TypeOK, TypeOK', NEW h \in Hosts, NEW u, at[h] = "nap", recalc(h, u)
  PROVE  Orderly!Next
<1>1. CASE h = Primary
  <2>1. at[Primary] = "nap" /\ at'[Primary] \in {"nap", "force"}
    BY <1>1 DEF recalc, TypeOK
  <2> QED BY <2>1, OthersStep DEF PrimaryState, Patience
<1>2. CASE h # Primary
  <2>1. at'[Primary] = at[Primary] /\ slept'[Primary] = slept[Primary]
    BY <1>2 DEF recalc, TypeOK, Hosts
  <2> QED BY <2>1, OthersStep DEF PrimaryState, Patience
<1> QED BY <1>1, <1>2

\* Steps of hosts other than the primary.
LEMMA ElsewhereStep ==
  ASSUME TypeOK, TypeOK', NEW h \in Secondaries, NEW place, Goes(h, place)
  PROVE  Orderly!Next
<1>1. at'[Primary] = at[Primary] /\ slept'[Primary] = slept[Primary]
  BY DEF Goes, TypeOK, Hosts
<1> QED BY <1>1, OthersStep DEF PrimaryState, Patience

\* Time is the primary's patience while it waits, and nothing otherwise.
LEMMA TickStep ==
  ASSUME TypeOK, TypeOK', Tick
  PROVE  Orderly!Next
<1>0. Primary \in Hosts /\ at'[Primary] = at[Primary]
  BY DEF Tick, Hosts
<1>1. slept[Primary] \in Ages /\ slept'[Primary] = Waited(Primary)
  BY <1>0 DEF Tick, TypeOK
<1>2. CASE at[Primary] = "sync" /\ slept[Primary] < Horizon
  <2>1. slept'[Primary] = slept[Primary] + 1
    BY <1>1, <1>2, HorizonAssumption DEF Waited, Older, Ages, Unset
  <2>2. Attached' = Attached /\ CanCount' = CanCount
    BY DEF Tick, ups, upsd, Attached, CanCount
  <2> QED BY <1>0, <1>2, <2>1, <2>2
          DEF PrimaryState, Patience, Orderly!Next, Orderly!Wait
<1>3. CASE at[Primary] = "sync" /\ ~(slept[Primary] < Horizon)
  <2>1. slept'[Primary] = slept[Primary]
    BY <1>1, <1>3, HorizonAssumption DEF Waited, Older, Ages, Unset
  <2> QED BY <1>0, <2>1, OthersStep DEF PrimaryState, Patience
<1>4. CASE at[Primary] # "sync"
  BY <1>0, <1>4, OthersStep DEF PrimaryState, Patience
<1> QED BY <1>2, <1>3, <1>4

LEMMA UpsmonStep ==
  ASSUME TypeOK, TypeOK', NEW h \in Hosts, upsmon(h)
  PROVE  Orderly!Next
<1>1. CASE Poll(h) \/ PollBroken(h) \/ Reconnect(h) \/ ConnectFails(h)
  BY <1>1, RecalcStep DEF Poll, PollBroken, Reconnect, ConnectFails, Due, Unconnected
<1>2. CASE forceshutdown_secondary(h)
  BY <1>2, ElsewhereStep DEF forceshutdown_secondary
<1>3. CASE doshutdown(h) /\ h # Primary
  BY <1>3, ElsewhereStep DEF doshutdown, Hosts
<1>4. CASE doshutdown(h) /\ h = Primary
  <2>1. at[Primary] = "final" /\ at'[Primary] = "down"
    BY <1>4 DEF doshutdown, Goes, TypeOK
  <2>2. Attached' = Attached
    BY <1>4 DEF doshutdown, Ended, Attached
  <2> QED BY <2>1, <2>2 DEF PrimaryState, Patience, CanCount,
                            Orderly!Next, Orderly!GoDown
<1> QED BY <1>1, <1>2, <1>3, <1>4 DEF upsmon

LEMMA PrimaryStep ==
  ASSUME TypeOK, TypeOK', forceshutdown \/ sync_secondaries
  PROVE  Orderly!Next
<1>0. Primary \in Hosts
  BY DEF Hosts
<1>1. CASE forceshutdown
  <2>1. at[Primary] = "force" /\ at'[Primary] = "sync" /\ slept'[Primary] = 0
    BY <1>0, <1>1 DEF forceshutdown, Goes, TypeOK
  <2>2. Attached' = Attached /\ CanCount' = CanCount
    BY <1>1 DEF forceshutdown, Goes, ups, Attached, CanCount
  <2> QED BY <2>1, <2>2 DEF PrimaryState, Patience, Orderly!Next, Orderly!Announce
<1>2. CASE sync_secondaries
  <2>1. at[Primary] = "sync" /\ at'[Primary] = "final"
    BY <1>0, <1>2 DEF sync_secondaries, Goes, TypeOK
  <2>2. Attached' = Attached /\ CanCount' = CanCount
    BY <1>2 DEF sync_secondaries, Goes, ups, upsd, Attached, CanCount
  <2>3. Attached = {} \/ slept[Primary] > HOSTSYNC \/ ~CanCount
    BY <1>2, NobodyElse DEF sync_secondaries, SyncDone, LoginsSeen
  <2> QED BY <2>1, <2>2, <2>3
          DEF PrimaryState, Patience, Orderly!Next, Orderly!Leave
<1> QED BY <1>1, <1>2

\* What happens outside the primary is none of its business.
LEMMA WorldStep ==
  ASSUME TypeOK, TypeOK', client_disconnect \/ Environment
  PROVE  Orderly!Next
<1>1. at'[Primary] = at[Primary] /\ slept'[Primary] = slept[Primary]
  BY DEF client_disconnect, Environment, PowerChanges, DataGoStale, LinkBreaks, Boot,
         TypeOK, Hosts
<1> QED BY <1>1, OthersStep DEF PrimaryState, Patience

\* The hosts implement the orderly shutdown: forceshutdown(), upsmon.c:1246, sends
\* the primary down only when no secondary is logged in, when HOSTSYNC is over
\* or when the primary cannot know.
THEOREM ShutdownIsOrderly == Spec => IsOrderly
<1>1. Init => Orderly!Init
  BY InitOrderly
<1>2. TypeOK /\ TypeOK' /\ [Next]_vars => [Orderly!Next]_(Orderly!ovars)
  <2> SUFFICES ASSUME TypeOK, TypeOK', [Next]_vars
               PROVE  [Orderly!Next]_(Orderly!ovars)
    OBVIOUS
  <2>1. CASE Next
    BY <2>1, UpsmonStep, PrimaryStep, TickStep, WorldStep DEF Next, Program
  <2>2. CASE UNCHANGED vars
    BY <2>2 DEF vars, ups, upsd, Orderly!ovars, Attached, PrimaryState, Patience,
                CanCount
  <2> QED BY <2>1, <2>2
<1> QED BY <1>1, <1>2, TypeCorrect, PTL DEF Spec, IsOrderly, Orderly!Spec

-----------------------------------------------------------------------------
(* The warned secondaries are down in time.  The program's own doing: data *)
(* stay fresh and no connection breaks, and HOSTSYNC covers the wait for   *)
(* the next poll and FINALDELAY.                                           *)

Undisturbed == Faults = {}
HostsyncSuffices == POLLFREQ + FINALDELAY <= HOSTSYNC

\* Nobody waits for longer than it has to.
Rested ==
  \A h \in Hosts : /\ at[h] = "nap"   => slept[h] <= POLLFREQ
                   /\ at[h] = "final" => slept[h] <= FINALDELAY

\* FSD is set before the primary is done with the hosts it warned.
Announced ==
  warned # {} => fsd /\ at[Primary] \in {"sync", "final", "down"}

\* How far a warned host must have come while the primary has waited for s.
Hurries(h, s) ==
  /\ h \in sessions /\ at[h] \in {"nap", "force", "final"}
  /\ at[h] = "nap"   => s <= slept[h]
  /\ at[h] = "force" => s <= POLLFREQ
  /\ at[h] = "final" => s <= POLLFREQ + slept[h]

\* The primary counts the hosts it waits for.
Awaited ==
  at[Primary] = "sync" =>
    /\ warned # {} => Primary \in sessions
    /\ \A h \in warned : at[h] = "down" \/ Hurries(h, slept[Primary])

Gone == at[Primary] \in {"final", "down"} => \A h \in warned : at[h] = "down"

TimeInv ==
  /\ fresh = TRUE /\ \A h \in Secondaries : at[h] # "sync"
  /\ Rested /\ Announced /\ Awaited /\ Gone

LEMMA InitTime == Init => TimeInv
<1> SUFFICES ASSUME Init PROVE TimeInv
  OBVIOUS
<1>1. Primary \in Hosts /\ at[Primary] = "nap"
  BY DEF Init, Hosts
<1>2. \A h \in Hosts : at[h] \in {"nap", "down"} /\ slept[h] = POLLFREQ
  BY DEF Init
<1> QED BY <1>1, <1>2, TimesAssumption
        DEF Init, TimeInv, Rested, Announced, Awaited, Gone, Hosts

\* parse_status() and is_ups_critical(), upsmon.c:2729 and 1274: a poll over
\* fresh data that finds FSD set makes the UPS critical, whatever else it reads.
LEMMA FsdIsCritical ==
  ASSUME NEW u \in utype_t, fresh = TRUE, fsd = TRUE,
         power \in {"OL", "OB", "LB"}
  PROVE  is_ups_critical(Promoted(Polled(u)))
<1> DEFINE ws == ups_status
           v  == Polled(u)
<1>1. ws # << >> /\ 1 \in DOMAIN ws /\ ws[1] = "FSD"
  <2>1. PICK line \in {<<"OL">>, <<"OB">>, <<"OB", "LB">>} : ws = <<"FSD">> \o line
    BY DEF ups_status
  <2> HIDE DEF ws
  <2>2. line \in Seq(Words) /\ <<"FSD">> \in Seq(Words)
    <3>1. \A a, b \in Words : <<a>> \in Seq(Words) /\ <<a, b>> \in Seq(Words)
      OBVIOUS
    <3>2. {"FSD", "OL", "OB", "LB"} \subseteq Words
      BY DEF Words, LineWords, Toggles
    <3> QED BY <2>1, <3>1, <3>2
  <2>3. Len(ws) = 1 + Len(line) /\ Len(line) \in Nat /\ ws[1] = "FSD"
    BY <2>1, <2>2
  <2>4. ws \in Seq(Words)
    BY <2>1, <2>2
  <2> QED BY <2>3, <2>4
<1>2. "FSD" \in Seen(ws)
  BY <1>1 DEF Seen
<1>3. "FSD" \in StatusAfter(Kept(u.status, Answer), ws)
  <2> HIDE DEF ws
  <2> QED BY <1>2 DEF StatusAfter, Toggles
<1>4. v = parse_status(u, Answer) /\ Answer.words = ws
  BY DEF Polled, Answer
<1>5. v \in utype_t
  BY PolledType
<1>6. v.status = StatusAfter(Kept(u.status, Answer), ws)
  <2> HIDE DEF ws
  <2> QED BY <1>1, <1>4 DEF parse_status, ups_is_alive, utype_t
<1> HIDE DEF v
<1>7. "FSD" \in Promoted(v).status
  BY <1>3, <1>5, <1>6 DEF Promoted, utype_t
<1> QED BY <1>7 DEF is_ups_critical, CriticalAnyway, v

\* With nothing left but one login, or HOSTSYNC over, no warned host is up.
LEMMA NobodyAwaited ==
  ASSUME TypeOK, TimeInv, HostsyncSuffices, at[Primary] = "sync", SyncDone
  PROVE  \A h \in warned : at[h] = "down"
<1> SUFFICES ASSUME NEW h \in warned, at[h] # "down" PROVE FALSE
  OBVIOUS
<1>1. h \in Hosts /\ h # Primary /\ Primary \in Hosts
  BY DEF TypeOK, Hosts
<1>2. Primary \in sessions /\ h \in sessions /\ Hurries(h, slept[Primary])
  BY DEF TimeInv, Awaited, Hurries
<1>3. slept[h] \in Int /\ slept[Primary] \in Int
  BY <1>1, HorizonAssumption DEF TypeOK, Ages
<1>4. slept[Primary] <= POLLFREQ + FINALDELAY
  BY <1>1, <1>2, <1>3, TimesAssumption DEF Hurries, TimeInv, Rested
<1>5. ~(slept[Primary] > HOSTSYNC)
  BY <1>3, <1>4, TimesAssumption DEF HostsyncSuffices
<1>6. CanCount /\ numlogins <= 1
  BY <1>2, <1>5 DEF TimeInv, CanCount, SyncDone, LoginsSeen
<1> QED BY <1>1, <1>2, <1>6, NobodyElse DEF Attached

\* A step of h leaves the place and the wait of everybody else.
LEMMA GoesElsewhere ==
  ASSUME TypeOK, NEW h \in Hosts, NEW place, Goes(h, place)
  PROVE  /\ at'[h] = place /\ slept'[h] = 0
         /\ \A g \in Hosts \ {h} : at'[g] = at[g] /\ slept'[g] = slept[g]
BY DEF Goes, TypeOK

LEMMA RecalcElsewhere ==
  ASSUME TypeOK, NEW h \in Hosts, NEW u, recalc(h, u)
  PROVE  /\ at'[h] \in {"nap", "force"} /\ slept'[h] = 0
         /\ is_ups_critical(Promoted(u)) => at'[h] = "force"
         /\ \A g \in Hosts \ {h} : at'[g] = at[g] /\ slept'[g] = slept[g]
         /\ UNCHANGED <<power, fresh, fsd, warned>>
BY DEF recalc, ups, TypeOK

LEMMA PowerIsKnown == TypeOK => power \in {"OL", "OB", "LB"}
BY DEF TypeOK

\* Poll(), PollBroken(), Reconnect() and ConnectFails(): a warned host that is up
\* keeps its connection, and its next poll sends it down.
LEMMA CycleTime ==
  ASSUME TypeOK, TimeInv, Undisturbed, NEW h \in Hosts,
         Poll(h) \/ PollBroken(h) \/ Reconnect(h) \/ ConnectFails(h)
  PROVE  TimeInv'
<1>0. /\ Primary \in Hosts /\ at[h] = "nap" /\ slept[h] \in Int
      /\ slept[Primary] \in Int /\ warned \subseteq Hosts
  BY HorizonAssumption
     DEF Poll, PollBroken, Reconnect, ConnectFails, Due, Unconnected, TypeOK, Ages, Hosts
<1>1. PICK u : recalc(h, u) /\ (Poll(h) => u = Polled(mon[h]))
  BY <1>0 DEF Poll, PollBroken, Reconnect, ConnectFails
<1>2. /\ at'[h] \in {"nap", "force"} /\ slept'[h] = 0
      /\ is_ups_critical(Promoted(u)) => at'[h] = "force"
      /\ \A g \in Hosts \ {h} : at'[g] = at[g] /\ slept'[g] = slept[g]
      /\ power' = power /\ fresh' = fresh /\ fsd' = fsd /\ warned' = warned
  BY <1>1, RecalcElsewhere
<1>3. sessions \subseteq sessions'
  BY DEF Poll, PollBroken, Reconnect, ConnectFails
<1>4. ASSUME at[Primary] = "sync", h \in warned
      PROVE  at'[h] = "force" /\ slept[Primary] <= POLLFREQ
  <2>1. Hurries(h, slept[Primary])
    BY <1>0, <1>4 DEF TimeInv, Awaited
  <2>2. slept[Primary] <= POLLFREQ
    BY <1>0, <2>1, TimesAssumption DEF Hurries, TimeInv, Rested
  <2>3. Poll(h)
    BY <2>1 DEF Hurries, PollBroken, Reconnect, ConnectFails, Unconnected
  <2>4. mon[h] \in utype_t /\ fresh = TRUE /\ fsd = TRUE
    BY <1>4 DEF TypeOK, TimeInv, Announced
  <2>5. is_ups_critical(Promoted(Polled(mon[h])))
    BY <2>4, FsdIsCritical, PowerIsKnown
  <2> QED BY <1>1, <1>2, <2>2, <2>3, <2>5
<1>5. /\ fresh' = TRUE /\ \A g \in Secondaries : at'[g] # "sync"
  BY <1>2 DEF TimeInv, Hosts
<1>6. Rested'
  BY <1>2, TimesAssumption DEF TimeInv, Rested
<1>7. Announced'
  <2>1. h = Primary => warned = {}
    BY <1>0 DEF TimeInv, Announced
  <2> QED BY <1>0, <1>2, <2>1 DEF TimeInv, Announced
<1>8. Awaited'
  <2> SUFFICES ASSUME at'[Primary] = "sync"
               PROVE  /\ warned # {} => Primary \in sessions'
                      /\ \A g \in warned : \/ at'[g] = "down"
                                           \/ Hurries(g, slept[Primary])'
    BY <1>0, <1>2 DEF Awaited, Hurries
  <2>1. h # Primary /\ at[Primary] = "sync" /\ slept'[Primary] = slept[Primary]
    BY <1>0, <1>2
  <2>2. ASSUME NEW g \in warned, at'[g] # "down"
        PROVE  Hurries(g, slept[Primary])'
    <3>1. CASE g = h
      <4>1. at'[h] = "force" /\ slept[Primary] <= POLLFREQ /\ h \in sessions
        BY <1>0, <1>4, <2>1, <3>1 DEF TimeInv, Awaited, Hurries
      <4> QED BY <1>3, <2>1, <3>1, <4>1 DEF Hurries
    <3>2. CASE g # h
      <4>1. at'[g] = at[g] /\ slept'[g] = slept[g]
        BY <1>0, <1>2, <3>2
      <4>2. Hurries(g, slept[Primary])
        BY <2>1, <2>2, <4>1 DEF TimeInv, Awaited
      <4> QED BY <1>3, <2>1, <4>1, <4>2 DEF Hurries
    <3> QED BY <3>1, <3>2
  <2> QED BY <1>3, <2>1, <2>2 DEF TimeInv, Awaited
<1>9. Gone'
  <2>1. at'[Primary] \in {"final", "down"} => at[Primary] = at'[Primary]
    BY <1>0, <1>2
  <2>2. \A g \in warned : at[g] = "down" => at'[g] = "down"
    BY <1>0, <1>2
  <2> QED BY <1>2, <2>1, <2>2 DEF TimeInv, Gone
<1> QED BY <1>5, <1>6, <1>7, <1>8, <1>9 DEF TimeInv

\* doshutdown(), upsmon.c:930, and forceshutdown() of a secondary, 1246.
LEMMA SecondaryTime ==
  ASSUME TypeOK, TimeInv, NEW h \in Secondaries,
         forceshutdown_secondary(h) \/ doshutdown(h)
  PROVE  TimeInv'
<1>0. /\ Primary \in Hosts /\ h \in Hosts /\ h # Primary /\ warned \subseteq Hosts
      /\ slept[Primary] \in Int
  BY HorizonAssumption DEF TypeOK, Hosts, Ages
<1>1. PICK place \in {"final", "down"} :
        /\ Goes(h, place)
        /\ place = "final" => at[h] = "force" /\ sessions' = sessions
        /\ sessions \ {h} \subseteq sessions'
  BY DEF forceshutdown_secondary, doshutdown, Ended, upsd
<1>2. /\ at'[h] = place /\ slept'[h] = 0
      /\ \A g \in Hosts \ {h} : at'[g] = at[g] /\ slept'[g] = slept[g]
  BY <1>0, <1>1, GoesElsewhere
<1>3. power' = power /\ fresh' = fresh /\ fsd' = fsd /\ warned' = warned
  BY DEF forceshutdown_secondary, doshutdown, Goes, ups, upsd
<1>4. at'[Primary] = at[Primary] /\ slept'[Primary] = slept[Primary]
  BY <1>0, <1>2
<1>5. Rested'
  BY <1>1, <1>2 DEF TimeInv, Rested
<1>6. Awaited'
  <2> SUFFICES ASSUME at[Primary] = "sync"
               PROVE  /\ warned # {} => Primary \in sessions'
                      /\ \A g \in warned : \/ at'[g] = "down"
                                           \/ Hurries(g, slept[Primary])'
    BY <1>3, <1>4 DEF Awaited, Hurries
  <2>1. ASSUME NEW g \in warned, at'[g] # "down"
        PROVE  Hurries(g, slept[Primary])'
    <3>1. CASE g = h
      <4>1. place = "final" /\ at[h] = "force"
        BY <1>1, <1>2, <2>1, <3>1
      <4>2. Hurries(h, slept[Primary])
        BY <2>1, <3>1, <4>1 DEF TimeInv, Awaited
      <4>3. slept[Primary] <= POLLFREQ /\ h \in sessions
        BY <4>1, <4>2 DEF Hurries
      <4>4. /\ h \in sessions' /\ at'[h] = "final"
            /\ slept'[Primary] <= POLLFREQ + slept'[h]
        BY <1>0, <1>1, <1>2, <1>4, <4>1, <4>3, TimesAssumption
      <4> QED BY <3>1, <4>4 DEF Hurries
    <3>2. CASE g # h
      <4>1. at'[g] = at[g] /\ slept'[g] = slept[g]
        BY <1>0, <1>2, <3>2
      <4>2. Hurries(g, slept[Primary])
        BY <2>1, <4>1 DEF TimeInv, Awaited
      <4> QED BY <1>1, <1>4, <3>2, <4>1, <4>2 DEF Hurries
    <3> QED BY <3>1, <3>2
  <2> QED BY <1>0, <1>1, <2>1 DEF TimeInv, Awaited
<1>7. Gone'
  BY <1>0, <1>1, <1>2, <1>3, <1>4 DEF TimeInv, Gone, forceshutdown_secondary, doshutdown
<1>8. \A g \in Secondaries : at'[g] # "sync"
  BY <1>0, <1>1, <1>2 DEF TimeInv, Hosts
<1> QED BY <1>3, <1>4, <1>5, <1>6, <1>7, <1>8 DEF TimeInv, Announced

\* forceshutdown(), upsmon.c:1246: whom it warns is logged in, and the waiting
\* starts.
LEMMA AnnounceTime ==
  ASSUME TypeOK, TimeInv, forceshutdown
  PROVE  TimeInv'
<1>0. Primary \in Hosts /\ at[Primary] = "force" /\ warned = {}
  BY DEF forceshutdown, TimeInv, Announced, Hosts
<1>1. /\ at'[Primary] = "sync" /\ slept'[Primary] = 0
      /\ \A g \in Hosts \ {Primary} : at'[g] = at[g] /\ slept'[g] = slept[g]
  BY <1>0, GoesElsewhere DEF forceshutdown
<1>2. fresh' = fresh /\ sessions' = sessions
  BY DEF forceshutdown, Goes, ups
<1>3. warned' # {} =>
        fsd' = TRUE /\ Primary \in sessions /\ warned' = sessions \ {Primary}
  BY <1>0 DEF forceshutdown, setfsd
<1>4. Rested' /\ Gone'
  BY <1>0, <1>1, TimesAssumption DEF TimeInv, Rested, Gone
<1>5. ASSUME NEW g \in warned'
      PROVE  at'[g] = "down" \/ Hurries(g, slept[Primary])'
  <2>1. g \in Secondaries /\ g \in Hosts \ {Primary} /\ g \in sessions
    BY <1>3 DEF TypeOK, Hosts
  <2>2. at[g] \in {"nap", "force", "final", "down"} /\ slept[g] \in Nat
    BY <2>1, HorizonAssumption DEF TimeInv, TypeOK, Ages
  <2>3. at'[g] = at[g] /\ slept'[g] = slept[g] /\ slept'[Primary] = 0
    BY <1>1, <2>1
  <2> QED BY <1>2, <2>1, <2>2, <2>3, TimesAssumption DEF Hurries
<1>6. Awaited'
  BY <1>2, <1>3, <1>5 DEF Awaited
<1>7. \A g \in Secondaries : at'[g] # "sync"
  BY <1>0, <1>1 DEF TimeInv, Hosts
<1> QED BY <1>1, <1>2, <1>3, <1>4, <1>6, <1>7 DEF TimeInv, Announced

\* sync_secondaries(), upsmon.c:1193, and doshutdown(), 930, of the primary.
LEMMA PrimaryTime ==
  ASSUME TypeOK, TimeInv, HostsyncSuffices, sync_secondaries \/ doshutdown(Primary)
  PROVE  TimeInv'
<1>0. Primary \in Hosts /\ warned \subseteq Hosts \ {Primary}
  BY DEF TypeOK, Hosts
<1>1. PICK place \in {"final", "down"} : Goes(Primary, place)
  BY DEF sync_secondaries, doshutdown
<1>2. /\ at'[Primary] = place /\ slept'[Primary] = 0
      /\ \A g \in Hosts \ {Primary} : at'[g] = at[g] /\ slept'[g] = slept[g]
  BY <1>0, <1>1, GoesElsewhere
<1>3. fresh' = fresh /\ fsd' = fsd /\ warned' = warned
  BY DEF sync_secondaries, doshutdown, Goes, ups, upsd
<1>4. at[Primary] \in {"sync", "final"}
  BY DEF sync_secondaries, doshutdown
<1>5. \A g \in warned : at[g] = "down"
  <2>1. CASE sync_secondaries
    BY <2>1, NobodyAwaited DEF sync_secondaries
  <2>2. CASE doshutdown(Primary)
    BY <2>2 DEF doshutdown, TimeInv, Gone
  <2> QED BY <2>1, <2>2
<1>6. Rested' /\ Awaited'
  BY <1>1, <1>2 DEF TimeInv, Rested, Awaited
<1>7. Gone'
  BY <1>0, <1>2, <1>3, <1>5 DEF Gone
<1>8. \A g \in Secondaries : at'[g] # "sync"
  BY <1>1, <1>2 DEF TimeInv, Hosts
<1> QED BY <1>1, <1>2, <1>3, <1>4, <1>6, <1>7, <1>8 DEF TimeInv, Announced

\* Time: a warned host grows older with the primary's wait.
LEMMA TickTime ==
  ASSUME TypeOK, TimeInv, Tick
  PROVE  TimeInv'
<1>0. /\ Primary \in Hosts /\ warned \subseteq Hosts
      /\ UNCHANGED <<power, fresh, fsd, sessions, ghosts, at, warned>>
  BY DEF Tick, ups, upsd, TypeOK, Hosts
<1>1. ASSUME NEW g \in Hosts
      PROVE  /\ slept[g] \in 0..Horizon /\ CanWait(g) /\ slept'[g] = Waited(g)
  BY DEF Tick, TypeOK, Ages
<1>2. ASSUME NEW g \in Hosts, at[g] # "down", slept[g] < Horizon
      PROVE  slept'[g] = slept[g] + 1
  BY <1>1, <1>2, HorizonAssumption DEF Waited, Older, Unset
<1>3. ASSUME NEW g \in Hosts, at[g] = "nap"
      PROVE  slept'[g] = slept[g] + 1 /\ slept'[g] <= POLLFREQ
  <2>1. slept[g] < POLLFREQ
    BY <1>1, <1>3 DEF CanWait
  <2> QED BY <1>1, <1>2, <1>3, <2>1, HorizonAssumption, TimesAssumption
<1>4. ASSUME NEW g \in Hosts, at[g] = "final"
      PROVE  slept'[g] = slept[g] + 1 /\ slept'[g] <= FINALDELAY
  <2>1. slept[g] < FINALDELAY
    BY <1>1, <1>4 DEF CanWait
  <2> QED BY <1>1, <1>2, <1>4, <2>1, HorizonAssumption
<1>5. slept'[Primary] <= slept[Primary] + 1
  BY <1>0, <1>1, HorizonAssumption DEF Waited, Older, Unset
<1>6. Rested'
  BY <1>0, <1>3, <1>4 DEF Rested
<1>7. Awaited'
  <2> SUFFICES ASSUME at[Primary] = "sync"
               PROVE  /\ warned # {} => Primary \in sessions
                      /\ \A g \in warned : \/ at[g] = "down"
                                           \/ Hurries(g, slept[Primary])'
    BY <1>0 DEF Awaited, Hurries
  <2>1. ASSUME NEW g \in warned, at[g] # "down"
        PROVE  Hurries(g, slept[Primary])'
    <3>1. g \in Hosts /\ Hurries(g, slept[Primary]) /\ at[g] # "force"
      BY <1>0, <1>1, <2>1 DEF TimeInv, Awaited, CanWait
    <3>2. slept'[g] = slept[g] + 1
      BY <1>3, <1>4, <3>1 DEF Hurries
    <3>3. /\ slept[Primary] \in Int /\ slept'[Primary] \in Int /\ slept[g] \in Int
          /\ slept'[Primary] <= slept[Primary] + 1
      BY <1>0, <1>1, <1>5, <3>1, HorizonAssumption DEF Waited, Older, Unset
    <3> QED BY <1>0, <3>1, <3>2, <3>3, TimesAssumption DEF Hurries
  <2> QED BY <2>1 DEF TimeInv, Awaited
<1> QED BY <1>0, <1>6, <1>7 DEF TimeInv, Announced, Gone

\* A secondary that starts is not one the primary warned.
LEMMA BootTime ==
  ASSUME TypeOK, TimeInv, NEW h \in Hosts, Boot(h)
  PROVE  TimeInv'
<1>0. /\ h # Primary /\ Primary \in Hosts /\ warned \subseteq Hosts
      /\ warned' = warned \ {h}
      /\ UNCHANGED <<power, fresh, fsd, sessions>>
  BY DEF Boot, ups, upsd, TypeOK, Hosts
<1>1. /\ at'[h] = "nap" /\ slept'[h] = POLLFREQ
      /\ \A g \in Hosts \ {h} : at'[g] = at[g] /\ slept'[g] = slept[g]
  BY DEF Boot, TypeOK
<1>2. at'[Primary] = at[Primary] /\ slept'[Primary] = slept[Primary]
  BY <1>0, <1>1
<1>3. Rested'
  BY <1>1, TimesAssumption DEF TimeInv, Rested
<1>4. ASSUME NEW g \in warned', Hurries(g, slept[Primary])
      PROVE  Hurries(g, slept[Primary])'
  <2>1. at'[g] = at[g] /\ slept'[g] = slept[g]
    BY <1>0, <1>1
  <2> QED BY <1>0, <1>2, <1>4, <2>1 DEF Hurries
<1>5. \A g \in warned' : g \in warned /\ at'[g] = at[g]
  BY <1>0, <1>1
<1>6. Awaited'
  BY <1>0, <1>2, <1>4, <1>5 DEF TimeInv, Awaited
<1>7. Announced' /\ Gone'
  BY <1>0, <1>2, <1>5 DEF TimeInv, Announced, Gone
<1>8. \A g \in Secondaries : at'[g] # "sync"
  BY <1>1 DEF TimeInv, Hosts
<1> QED BY <1>0, <1>3, <1>6, <1>7, <1>8 DEF TimeInv

LEMMA WorldTime ==
  ASSUME TypeOK, TimeInv, Undisturbed, client_disconnect \/ Environment
  PROVE  TimeInv'
<1>1. CASE client_disconnect \/ PowerChanges
  <2>1. UNCHANGED <<fresh, fsd, sessions, at, slept, warned>>
    BY <1>1 DEF client_disconnect, PowerChanges, ups, upsd
  <2> QED BY <2>1 DEF TimeInv, Rested, Announced, Awaited, Gone, Hurries
<1>2. ~DataGoStale /\ \A h \in Hosts : ~LinkBreaks(h)
  BY DEF Undisturbed, DataGoStale, LinkBreaks
<1> QED BY <1>1, <1>2, BootTime DEF Environment

LEMMA UpsmonTime ==
  ASSUME TypeOK, TimeInv, Undisturbed, HostsyncSuffices, NEW h \in Hosts, upsmon(h)
  PROVE  TimeInv'
<1>1. CASE Poll(h) \/ PollBroken(h) \/ Reconnect(h) \/ ConnectFails(h)
  BY <1>1, CycleTime
<1>2. CASE forceshutdown_secondary(h) \/ doshutdown(h)
  BY <1>2, SecondaryTime, PrimaryTime DEF forceshutdown_secondary, Hosts
<1> QED BY <1>1, <1>2 DEF upsmon

\* recalc(), doshutdown() and sync_secondaries(), upsmon.c:1542, 930 and 1193:
\* while data stay fresh and connections hold, and HOSTSYNC covers a poll
\* interval and FINALDELAY, every secondary that was logged in when FSD was set
\* is down before the primary is: the primary waits for those it counts, and
\* none of them takes so long that it gives up.
THEOREM SecondariesDownInTime ==
  ASSUME Undisturbed, HostsyncSuffices
  PROVE  Spec => []InTime
<1>1. Init => TimeInv
  BY InitTime
<1>2. TypeOK /\ TimeInv /\ [Next]_vars => TimeInv'
  <2> SUFFICES ASSUME TypeOK, TimeInv, [Next]_vars PROVE TimeInv'
    OBVIOUS
  <2>1. CASE Next
    BY <2>1, UpsmonTime, AnnounceTime, PrimaryTime, TickTime, WorldTime
       DEF Next, Program
  <2>2. CASE UNCHANGED vars
    BY <2>2 DEF vars, ups, upsd, TimeInv, Rested, Announced, Awaited, Gone, Hurries
  <2> QED BY <2>1, <2>2
<1>3. TimeInv => InTime
  BY DEF TimeInv, Gone, InTime
<1> QED BY <1>1, <1>2, <1>3, TypeCorrect, PTL DEF Spec

===============================================================================
