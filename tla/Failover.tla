------------------------------- MODULE Failover -------------------------------
(***************************************************************************)
(* The failover driver (drivers/failover.c): it is connected to the        *)
(* sockets of several drivers, elects one of them as the primary and       *)
(* publishes its variables as those of one UPS.                            *)
(*                                                                         *)
(* Abstractions: of what a driver publishes only ups.status and two        *)
(* variables are kept, one that it always has and one that it has on       *)
(* battery; these change together, in one message; commands, flags, ranges *)
(* and enumerations are copied like variables and left out; an override    *)
(* keeps the time it has left; checkruntime 3 is left out.                 *)
(***************************************************************************)
EXTENDS Integers, Sequences, FiniteSets, Functions

CONSTANTS
  Order,          \* the tracked drivers, as in the port argument
  None,           \* no driver
  Reports,        \* of each driver: the values of ups.status it may have
  Runtime,        \* of each driver: battery.runtime, -1 when it has none
  INITTIME, DEADTIME, NOPRIMARYTIME, MAXCONNFAILS, COOLOFFTIME,
  FSDMODE, CHECKRUNTIME, STRICT,
  HaveAny, HaveAll, NotHaveAny, NotHaveAll,   \* the status filters
  POLLINTERVAL,   \* seconds between two calls of upsdrv_updateinfo()
  READTIMEOUT,    \* CONN_READ_TIMEOUT
  LOGOUTTIME,     \* seconds upsdrvquery_close() sleeps after a LOGOUT
  BACKLOG,        \* DS_LISTEN_BACKLOG: connections a driver has not accepted
  ALARMTIME,      \* ALARM_PROPAG_TIME
  Habits,         \* what the drivers may do: "stale", lose the data of the UPS;
                  \* "slow", keep one waiting; "dies"; "overridden", get commands
  Overrides,      \* of each driver: the commands for it, <<"ignore", n>> for
                  \* force.ignore n and <<"force", n>> for force.primary n
  Capacity        \* bound: messages under way when a driver tells a change

Drivers == {Order[k] : k \in 1..Len(Order)}
Place(d) == CHOOSE k \in 1..Len(Order) : Order[k] = d
AllReports == UNION {Reports[d] : d \in Drivers}

Unset == -1

\* Bounds: the ages compared with a limit stop behind it.
PINGTIME == DEADTIME \div 3
GONETIME == NOPRIMARYTIME + ALARMTIME
Round    == LET turns == Len(Order) * (READTIMEOUT + LOGOUTTIME)
            IN IF turns > POLLINTERVAL THEN turns ELSE POLLINTERVAL
SILENCE  == DEADTIME + Round

ASSUME FailoverAssumption ==
  /\ Len(Order) \in Nat /\ Order \in Seq(Drivers)
  /\ \A k, l \in 1..Len(Order) : Order[k] = Order[l] => k = l
  /\ None \notin Drivers
  /\ \A d \in Drivers : Reports[d] \subseteq {"OL", "OB"} /\ Reports[d] # {}
  /\ \A d \in Drivers : Runtime[d] \in Int
  /\ \A t \in {INITTIME, DEADTIME, NOPRIMARYTIME, COOLOFFTIME, ALARMTIME} : t \in Nat
  /\ MAXCONNFAILS \in Nat /\ POLLINTERVAL \in Nat /\ READTIMEOUT \in Nat
  /\ LOGOUTTIME \in Nat /\ BACKLOG \in Nat \ {0}
  /\ FSDMODE \in 0..2 /\ CHECKRUNTIME \in BOOLEAN /\ STRICT \in BOOLEAN
  /\ \A f \in {HaveAny, HaveAll, NotHaveAny, NotHaveAll} : f \subseteq {"OL", "OB"}
  /\ Habits \subseteq [Drivers -> SUBSET {"stale", "slow", "dies", "overridden"}]
  /\ \A d \in Drivers : Overrides[d] \subseteq {"ignore", "force"} \X Int
  /\ Capacity \in Nat

VARIABLES
  \* the drivers
  drv,          \* of each: "up" or "down"
  report,       \* of each: its ups.status
  fresh,        \* of each: it has data of its UPS
  does,         \* of each: its habits, chosen at the start
  asked,        \* of each: what it was asked and has not answered
  toF,          \* of each: what is under way from it
  queue,        \* of each: the failover driver's connections it has not accepted
  \* the failover driver
  ups,          \* of each driver: its ups_device_t
  alive_count, online_count,
  primary,      \* primary_ups
  gone,         \* primaries_gone
  gone_time,    \* seconds since primaries_gone_time, Unset for 0
  init_elapsed, \* init_time_elapsed
  uptime,       \* seconds since drv_startup_time
  dstate,       \* what it publishes: status words, variables, stale or not
  step,         \* "check", "read", "bye" (in upsdrvquery_close()) or "nap"
  turn,         \* the place of the driver that is looked at
  left,         \* messages read and not yet parsed
  waited,       \* seconds in this step: connect(), the read or the goodbye
  since,        \* seconds since this call of upsdrv_updateinfo() began
  held,         \* history: in this call, connect() waited for a driver
  absent        \* history: Unset after an election that found a candidate, else
                \* seconds since the first one that did not, once inittime is over

world    == <<drv, report, fresh, does>>
links    == <<asked, toF, queue>>
counts   == <<alive_count, online_count>>
election == <<primary, gone, gone_time, init_elapsed, absent>>
control  == <<step, turn, left, waited, since, held>>
vars == <<world, links, ups, counts, election, uptime, dstate, control>>

\* The variables of d, and their values, with a report r.
Vars(d, r) ==
  [v \in CASE r = "none" -> {} [] r = "OL" -> {"load"} [] r = "OB" -> {"load", "timer"}
     |-> <<d, r>>]

NewDevice ==
  [conn |-> "none", flags |-> {}, list |-> "none", needs_export |-> FALSE,
   force_export |-> FALSE, heard |-> 0, pinged |-> PINGTIME + 1,
   failures |-> 0, failed |-> COOLOFFTIME + 1, ignore |-> 0, force |-> 0]

\* ups_connect(), which asks for a dump and frees what is known.
Connect(u) ==
  [u EXCEPT !.conn = "open", !.flags = {"ALIVE"}, !.list = "none",
            !.needs_export = FALSE, !.force_export = TRUE, !.heard = 0,
            !.failures = 0, !.failed = COOLOFFTIME + 1]

\* The time of a failure is that before connect(), which took t seconds.
ConnectFails(u, t) ==
  [u EXCEPT !.failures = IF @ > MAXCONNFAILS THEN @ ELSE @ + 1, !.failed = t]

\* A driver that is not there reports nothing in particular.
Default(d) == CHOOSE r \in Reports[d] : TRUE

\* upsdrv_initinfo()
Init ==
  /\ does \in Habits
  /\ drv \in [Drivers -> {"up", "down"}]
  /\ \A d \in Drivers : drv[d] = "up" \/ "dies" \in does[d]
  /\ report \in {r \in [Drivers -> AllReports] : \A d \in Drivers :
                   r[d] \in IF drv[d] = "up" THEN Reports[d] ELSE {Default(d)}}
  /\ fresh = [d \in Drivers |-> TRUE]
  /\ asked = [d \in Drivers |-> IF drv[d] = "up" THEN {"DUMPALL"} ELSE {}]
  /\ toF = [d \in Drivers |-> << >>]
  /\ queue = [d \in Drivers |-> IF drv[d] = "up" THEN 1 ELSE 0]
  /\ ups = [d \in Drivers |-> IF drv[d] = "up" THEN Connect(NewDevice)
                                               ELSE ConnectFails(NewDevice, 0)]
  /\ alive_count = Cardinality({d \in Drivers : drv[d] = "up"}) /\ online_count = 0
  /\ primary = None /\ gone = FALSE /\ gone_time = Unset
  /\ init_elapsed = FALSE /\ uptime = 0
  /\ dstate = [status |-> {"WAIT"}, vars |-> << >>, stale |-> FALSE]
  /\ step = "check" /\ turn = 1 /\ left = 0 /\ waited = 0 /\ since = 0
  /\ held = FALSE /\ absent = Unset

-----------------------------------------------------------------------------
(* The drivers.                                                            *)

Failover == UNCHANGED <<ups, counts, election, uptime, dstate, control>>

At(d, s) == step = s /\ left = 0 /\ turn <= Len(Order) /\ d = Order[turn]

\* What a driver does between two looks of the failover driver at it can as well
\* happen in the second one, when it reads or is about to connect or to hang up:
\* nobody sees the difference.
Seen(d) ==
  At(d, "read") \/ (At(d, "check") /\ ("ALIVE" \in ups[d].flags => ups[d].heard > DEADTIME))

\* A change is broadcast to those that are connected.
Tell(d, m) ==
  IF ups[d].conn = "open"
  THEN /\ Len(toF[d]) < Capacity /\ toF' = [toF EXCEPT ![d] = Append(@, m)]
  ELSE UNCHANGED toF

Reported(d, r) ==
  /\ Seen(d) /\ drv[d] = "up" /\ r # report[d]
  /\ report' = [report EXCEPT ![d] = r] /\ Tell(d, r)
  /\ UNCHANGED <<drv, fresh, does, asked, queue>> /\ Failover

\* dstate_dataok() and dstate_datastale() of the driver.
DataChange(d) ==
  /\ Seen(d) /\ drv[d] = "up" /\ "stale" \in does[d]
  /\ fresh' = [fresh EXCEPT ![d] = ~@]
  /\ Tell(d, IF fresh[d] THEN "DATASTALE" ELSE "DATAOK")
  /\ UNCHANGED <<drv, report, does, asked, queue>> /\ Failover

Dump(d) == <<report[d], IF fresh[d] THEN "DATAOK" ELSE "DATASTALE", "DUMPDONE">>

\* The driver accepts the connections and answers what it was asked.
AnswerDump(d) ==
  /\ drv[d] = "up" /\ "DUMPALL" \in asked[d]
  /\ toF' = [toF EXCEPT ![d] = @ \o Dump(d)]
  /\ asked' = [asked EXCEPT ![d] = @ \ {"DUMPALL"}]
  /\ queue' = [queue EXCEPT ![d] = 0]
  /\ UNCHANGED world /\ Failover

AnswerPing(d) ==
  /\ drv[d] = "up" /\ asked[d] = {"PING"}
  /\ toF' = [toF EXCEPT ![d] = Append(@, "PONG")]
  /\ asked' = [asked EXCEPT ![d] = {}]
  /\ UNCHANGED <<world, queue>> /\ Failover

\* It accepts connections that were closed in the meantime.
Accept(d) ==
  /\ drv[d] = "up" /\ asked[d] = {} /\ queue[d] > 0
  /\ queue' = [queue EXCEPT ![d] = 0]
  /\ UNCHANGED <<world, asked, toF>> /\ Failover

Start(d) ==
  /\ Seen(d) /\ drv[d] = "down" /\ drv' = [drv EXCEPT ![d] = "up"]
  /\ \E r \in Reports[d] : report' = [report EXCEPT ![d] = r]
  /\ UNCHANGED <<fresh, does, links>> /\ Failover

\* What it has written can still be read.
Die(d) ==
  /\ Seen(d) /\ drv[d] # "down" /\ "dies" \in does[d]
  /\ drv' = [drv EXCEPT ![d] = "down"]
  /\ report' = [report EXCEPT ![d] = Default(d)] /\ fresh' = [fresh EXCEPT ![d] = TRUE]
  /\ asked' = [asked EXCEPT ![d] = {}] /\ queue' = [queue EXCEPT ![d] = 0]
  /\ ups' = [ups EXCEPT ![d].conn = IF @ = "open" THEN "eof" ELSE @]
  /\ UNCHANGED <<does, toF, counts, election, uptime, dstate, control>>

-----------------------------------------------------------------------------
(* handle_connections()                                                    *)

NextDriver ==
  /\ step' = "check" /\ turn' = turn + 1 /\ left' = 0 /\ waited' = 0
  /\ UNCHANGED <<since, held>>

Read == step' = "read" /\ waited' = 0 /\ UNCHANGED <<turn, left, since, held>>

Has(d, f) == f \in ups[d].flags

\* Mutation: the retries never begin again.
InCooloffForGood(d) == ups[d].failures > MAXCONNFAILS

InCooloff(d) == ups[d].failures > MAXCONNFAILS /\ ups[d].failed <= COOLOFFTIME

\* connect() waits for a driver that does not accept; the socket becomes
\* non-blocking only after it.
ConnectWaits(d) ==
  /\ At(d, "check") /\ ~Has(d, "ALIVE") /\ ~InCooloff(d) /\ drv[d] # "down"
  /\ queue[d] >= BACKLOG

ups_connect(d) ==
  /\ At(d, "check") /\ ~Has(d, "ALIVE") /\ ~InCooloff(d) /\ drv[d] # "down"
  /\ queue[d] < BACKLOG /\ queue' = [queue EXCEPT ![d] = @ + 1]
  /\ ups' = [ups EXCEPT ![d] = Connect(@)]
  /\ alive_count' = alive_count + 1
  /\ asked' = [asked EXCEPT ![d] = {"DUMPALL"}]
  /\ Read
  /\ UNCHANGED <<world, toF, online_count, election, uptime, dstate>>

StaysDead(d) ==
  /\ At(d, "check") /\ ~Has(d, "ALIVE")
  /\ \/ InCooloff(d) /\ UNCHANGED ups
     \/ /\ ~InCooloff(d) /\ drv[d] = "down"
        /\ ups' = [ups EXCEPT ![d] = ConnectFails(@, waited)]
  /\ NextDriver
  /\ UNCHANGED <<world, links, counts, election, uptime, dstate>>

\* upsdrvquery_close(): a LOGOUT that could be written is followed by a sleep.
SayGoodbye(d) ==
  IF ups[d].conn = "open"
  THEN step' = "bye" /\ left' = 0 /\ waited' = 0 /\ UNCHANGED <<turn, since, held>>
  ELSE NextDriver

\* Mutation: the count of those online is left alone.
DisconnectUncounted(d) ==
  /\ ups' = [ups EXCEPT ![d].conn = "none", ![d].flags = {}, ![d].heard = 0,
                        ![d].pinged = PINGTIME + 1]
  /\ alive_count' = alive_count - 1 /\ UNCHANGED online_count
  /\ asked' = [asked EXCEPT ![d] = {}] /\ toF' = [toF EXCEPT ![d] = << >>]
  /\ UNCHANGED queue /\ SayGoodbye(d)

\* The ages mean nothing until the next connection.
ups_disconnect(d) ==
  /\ ups' = [ups EXCEPT ![d].conn = "none", ![d].flags = {}, ![d].heard = 0,
                        ![d].pinged = PINGTIME + 1]
  /\ alive_count' = alive_count - 1
  /\ online_count' = IF Has(d, "ONLINE") THEN online_count - 1 ELSE online_count
  /\ asked' = [asked EXCEPT ![d] = {}] /\ toF' = [toF EXCEPT ![d] = << >>]
  /\ UNCHANGED queue /\ SayGoodbye(d)

PingDue(d) == ups[d].heard > PINGTIME /\ ups[d].pinged > PINGTIME

\* Mutation: a driver that closed the connection is not watched.
DeadIfOpen(d) == ups[d].heard > DEADTIME /\ ups[d].conn = "open"

Dead(d) == ups[d].heard > DEADTIME

\* is_ups_alive()
is_ups_alive(d) ==
  /\ At(d, "check") /\ Has(d, "ALIVE") /\ ~Dead(d)
  /\ IF PingDue(d)
     THEN /\ ups' = [ups EXCEPT ![d].pinged = 0]
          /\ asked' = IF ups[d].conn = "open"
                      THEN [asked EXCEPT ![d] = @ \cup {"PING"}] ELSE asked
     ELSE UNCHANGED <<ups, asked>>
  /\ Read
  /\ UNCHANGED <<world, toF, queue, counts, election, uptime, dstate>>

DeclaredDead(d) ==
  /\ At(d, "check") /\ Has(d, "ALIVE") /\ Dead(d)
  /\ ups_disconnect(d)
  /\ UNCHANGED <<world, election, uptime, dstate>>

\* How many messages the buffer takes: all, or a part of a dump, which is longer.
Buffer(q) == {k \in 1..Len(q) : k = Len(q) \/ \E l \in k + 1..Len(q) : q[l] = "DUMPDONE"}

ups_read_data(d) ==
  /\ At(d, "read") /\ toF[d] # << >>
  /\ left' \in Buffer(toF[d]) /\ UNCHANGED <<step, turn, waited, since, held>>
  /\ UNCHANGED <<world, links, ups, counts, election, uptime, dstate>>

\* An end of file is no failure.
ReadsNothing(d) ==
  /\ At(d, "read") /\ toF[d] = << >> /\ ups[d].conn = "eof"
  /\ NextDriver
  /\ UNCHANGED <<world, links, ups, counts, election, uptime, dstate>>

\* A timeout is a failure, and so is a connection that the driver reset.
ReadFails(d) ==
  /\ At(d, "read")
  /\ \/ toF[d] = << >> /\ ups[d].conn = "open" /\ waited >= READTIMEOUT
     \/ ups[d].conn = "eof"
  /\ ups_disconnect(d)
  /\ UNCHANGED <<world, election, uptime, dstate>>

\* The sleep of upsdrvquery_close() is over.
upsdrvquery_close(d) ==
  /\ At(d, "bye") /\ waited >= LOGOUTTIME
  /\ NextDriver
  /\ UNCHANGED <<world, links, ups, counts, election, uptime, dstate>>

-----------------------------------------------------------------------------
(* ups_parse_protocol()                                                    *)

Without(f, S) == Restrict(f, DOMAIN f \ S)

\* ups_set_var(), ups_is_online() and ups_is_offline()
Listed(u, r) ==
  [u EXCEPT !.list = r, !.needs_export = @ \/ u.list # r,
            !.flags = IF r = "OL" THEN @ \cup {"ONLINE"} ELSE @ \ {"ONLINE"}]

\* ups_del_var(): what the primary has no more is published no more.
Unpublished(d, r) ==
  IF primary = d
  THEN [dstate EXCEPT !.vars = Without(@, DOMAIN Vars(d, ups[d].list) \ DOMAIN Vars(d, r))]
  ELSE dstate

Parsed(d, m) ==
  CASE m \in {"OL", "OB"} -> Listed(ups[d], m)
    [] m = "DATAOK"       -> [ups[d] EXCEPT !.flags = @ \cup {"DATA_OK"}]
    [] m = "DATASTALE"    -> [ups[d] EXCEPT !.flags = @ \ {"DATA_OK"}]
    [] m = "DUMPDONE"     -> [ups[d] EXCEPT !.flags = @ \cup {"DUMPED"}]
    [] m = "PONG"         -> ups[d]

One(b) == IF b THEN 1 ELSE 0

ups_parse_protocol ==
  /\ left > 0
  /\ LET d == Order[turn]
         u == Parsed(d, Head(toF[d]))
     IN /\ ups' = [ups EXCEPT ![d] = [u EXCEPT !.heard = 0]]
        /\ toF' = [toF EXCEPT ![d] = Tail(@)]
        /\ online_count' = online_count + One("ONLINE" \in u.flags) - One(Has(d, "ONLINE"))
        /\ dstate' = IF u.list = ups[d].list THEN dstate ELSE Unpublished(d, u.list)
  /\ IF left = 1 THEN NextDriver
                 ELSE left' = left - 1 /\ UNCHANGED <<step, turn, waited, since, held>>
  /\ UNCHANGED <<world, asked, queue, alive_count, election, uptime>>

-----------------------------------------------------------------------------
(* get_primary_candidate()                                                 *)

ups_passes_status_filters(d) ==
  LET words == {ups[d].list} IN
  /\ ups[d].list # "none"
  /\ HaveAny \cup HaveAll \cup NotHaveAny \cup NotHaveAll # {}
  /\ NotHaveAny \cap words = {} /\ HaveAll \subseteq words
  /\ NotHaveAll # {} => ~(NotHaveAll \subseteq words)
  /\ HaveAny # {} => HaveAny \cap words # {}

Eligible(d) == {"ALIVE", "DUMPED"} \subseteq ups[d].flags /\ ups[d].ignore = 0

Forced(d) == ups[d].force # 0

\* The priorities of failover.h; -1: not considered.
Priority(d) ==
  CASE ~Eligible(d)                                -> -1
    [] Eligible(d) /\ Forced(d)                    -> 0
    [] Eligible(d) /\ ~Forced(d) /\ ups_passes_status_filters(d) -> 1
    [] OTHER -> CASE STRICT                        -> -1
                  [] ~STRICT /\ {"DATA_OK", "ONLINE"} \subseteq ups[d].flags -> 2
                  [] ~STRICT /\ Has(d, "DATA_OK") /\ ~Has(d, "ONLINE")       -> 3
                  [] ~STRICT /\ ~Has(d, "DATA_OK")                           -> 4

Primaries == {d \in Drivers : Priority(d) >= 0}

runtime(d) == IF ups[d].list = "none" THEN -1 ELSE Runtime[d]

Best == {d \in Primaries : \A e \in Primaries : Priority(d) <= Priority(e)}

\* Drivers that are not fully online compete with their runtimes.
LongestOf(S) ==
  {d \in S : CHECKRUNTIME /\ Priority(d) >= 3 => \A e \in S : runtime(d) >= runtime(e)}

FirstOf(S) == CHOOSE d \in S : \A e \in S : Place(d) <= Place(e)

get_primary_candidate == IF Primaries = {} THEN None ELSE FirstOf(LongestOf(Best))

-----------------------------------------------------------------------------
(* upsdrv_updateinfo(), after handle_connections().                        *)

\* ups_clean_dstate()
Cleaned(ds, d) ==
  [ds EXCEPT !.status = {}, !.vars = Without(@, DOMAIN Vars(d, ups[d].list))]

\* Mutation: the status words that were set stay.
ExportedOver(ds, d, all) ==
  LET u    == ups[d]
      some == u.list # "none" /\ (u.needs_export \/ all)
  IN [ds EXCEPT !.status = IF some THEN @ \cup {u.list} ELSE @,
                !.vars   = IF some THEN [v \in DOMAIN @ \cup DOMAIN Vars(d, u.list) |->
                                           IF v \in DOMAIN Vars(d, u.list)
                                           THEN Vars(d, u.list)[v] ELSE @[v]] ELSE @]

\* ups_export_dstate(): what is marked, or all.
Exported(ds, d, all) ==
  LET u    == ups[d]
      some == u.list # "none" /\ (u.needs_export \/ all)
  IN [ds EXCEPT !.status = IF some THEN {u.list} ELSE IF all THEN {} ELSE @,
                !.vars   = IF some THEN [v \in DOMAIN @ \cup DOMAIN Vars(d, u.list) |->
                                           IF v \in DOMAIN Vars(d, u.list)
                                           THEN Vars(d, u.list)[v] ELSE @[v]] ELSE @]

Napping ==
  step' = "nap" /\ turn' = 1 /\ left' = 0 /\ waited' = 0 /\ UNCHANGED <<since, held>>

Elects(c) == step = "check" /\ turn > Len(Order) /\ c = get_primary_candidate

\* Mutation: the one that steps down leaves its variables behind.
SwitchedUncleaned(c) ==
  CASE primary = None                       -> Exported(dstate, c, TRUE)
    [] primary = c /\ gone                  -> Exported(Cleaned(dstate, c), c, TRUE)
    [] primary = c /\ ~gone                 -> Exported(dstate, c, ups[c].force_export)
    [] primary \notin {None, c}             -> Exported(dstate, c, TRUE)

\* ups_promote_primary(), ups_demote_primary() and the return of a primary that
\* was kept.
Switched(c) ==
  CASE primary = None                       -> Exported(dstate, c, TRUE)
    [] primary = c /\ gone                  -> Exported(Cleaned(dstate, c), c, TRUE)
    [] primary = c /\ ~gone                 -> Exported(dstate, c, ups[c].force_export)
    [] primary \notin {None, c}             -> Exported(Cleaned(dstate, primary), c, TRUE)

\* A short absence leaves gone_time as it is.
HasCandidate(c) ==
  /\ Elects(c) /\ c # None
  /\ init_elapsed' = TRUE /\ absent' = Unset
  /\ gone' = FALSE /\ gone_time' = IF gone THEN Unset ELSE gone_time
  /\ primary' = c
  /\ dstate' = [Switched(c) EXCEPT !.stale = ~Has(c, "DATA_OK")]
  /\ ups' = [ups EXCEPT ![c].needs_export = FALSE, ![c].force_export = FALSE]
  /\ Napping
  /\ UNCHANGED <<world, links, counts, uptime>>

Missed == IF absent = Unset THEN 0 ELSE absent

\* handle_init_time()
handle_init_time ==
  /\ Elects(None) /\ ~init_elapsed /\ uptime <= INITTIME
  /\ dstate' = [dstate EXCEPT !.stale = FALSE]
  /\ Napping
  /\ UNCHANGED <<world, links, ups, counts, election, uptime>>

\* Mutation: the time of every call is taken for that of the first.
ElapsedSinceNow == 0

Elapsed == IF gone_time = Unset THEN 0 ELSE gone_time

Demoted == IF primary # None /\ FSDMODE > 0 THEN Cleaned(dstate, primary) ELSE dstate

Fallback ==
  CASE FSDMODE = 0 -> [Demoted EXCEPT !.stale = TRUE]
    [] FSDMODE = 1 -> [Demoted EXCEPT !.status = @ \cup {"ALARM"},
                                      !.stale = Elapsed >= NOPRIMARYTIME + ALARMTIME]
    [] FSDMODE = 2 -> [Demoted EXCEPT !.status = @ \cup {"ALARM", "FSD"}, !.stale = FALSE]

handle_no_primaries ==
  /\ Elects(None) /\ (init_elapsed \/ uptime > INITTIME)
  /\ init_elapsed' = TRUE
  /\ gone_time' = Elapsed /\ absent' = Missed
  /\ primary' = IF FSDMODE > 0 THEN None ELSE primary
  /\ gone' = (gone \/ Elapsed > NOPRIMARYTIME)
  /\ dstate' = IF Elapsed > NOPRIMARYTIME THEN Fallback
                                          ELSE [Demoted EXCEPT !.stale = FALSE]
  /\ Napping
  /\ UNCHANGED <<world, links, ups, counts, uptime>>

-----------------------------------------------------------------------------
(* Between two calls: commands, and time.                                  *)

\* instcmd(): force.ignore and force.primary; an override of n seconds ends when
\* more have passed.
Override(v) == IF v > 0 THEN v + 1 ELSE v

instcmd(d, which, n) ==
  /\ step = "nap" /\ "overridden" \in does[d] /\ ups[d][which] # Override(n)
  /\ ups' = [ups EXCEPT ![d][which] = Override(n)]
  /\ UNCHANGED <<world, links, counts, election, uptime, dstate, control>>

\* The nap ends when the interval that began with the call is over.
EndNap ==
  /\ step = "nap" /\ since >= POLLINTERVAL
  /\ step' = "check" /\ since' = 0 /\ held' = FALSE /\ UNCHANGED <<turn, left, waited>>
  /\ UNCHANGED <<world, links, ups, counts, election, uptime, dstate>>

Older(t, limit) == IF t = Unset \/ t > limit THEN t ELSE t + 1
Less(n) == IF n > 0 THEN n - 1 ELSE n

Aged(u) ==
  [u EXCEPT !.heard  = IF u.conn = "none" THEN @ ELSE Older(@, SILENCE),
            !.pinged = Older(@, PINGTIME), !.failed = Older(@, COOLOFFTIME),
            !.ignore = Less(@), !.force = Less(@)]

\* A driver that is not slow accepts and answers within the second.
Prompt == \A d \in Drivers : asked[d] # {} \/ queue[d] > 0 => "slow" \in does[d]

ReadWaits(d) == /\ At(d, "read") /\ waited < READTIMEOUT
                /\ toF[d] = << >> /\ ups[d].conn = "open"

Blocked == \E d \in Drivers :
  ConnectWaits(d) \/ ReadWaits(d) \/ (At(d, "bye") /\ waited < LOGOUTTIME)

Tick ==
  /\ Prompt
  /\ (step = "nap" /\ since < POLLINTERVAL) \/ Blocked
  /\ waited' = CASE step = "check"         -> Older(waited, COOLOFFTIME)
                 [] step \in {"read", "bye"} -> waited + 1
                 [] step = "nap"           -> waited
  /\ held' = (held \/ step = "check")
  /\ since' = IF since < POLLINTERVAL THEN since + 1 ELSE since
  /\ ups' = [d \in Drivers |-> Aged(ups[d])]
  /\ gone_time' = Older(gone_time, GONETIME) /\ absent' = Older(absent, GONETIME)
  /\ uptime' = IF init_elapsed THEN uptime ELSE Older(uptime, INITTIME)
  /\ UNCHANGED <<world, links, counts, primary, gone, init_elapsed, dstate, step, turn, left>>

-----------------------------------------------------------------------------

Answer(d) == AnswerDump(d) \/ AnswerPing(d) \/ Accept(d)

Environment == \E d \in Drivers :
  \/ \E r \in Reports[d] : Reported(d, r)
  \/ DataChange(d) \/ Start(d) \/ Die(d)
  \/ \E cmd \in Overrides[d] : instcmd(d, cmd[1], cmd[2])

handle_connections == \E d \in Drivers :
  \/ ups_connect(d) \/ StaysDead(d) \/ is_ups_alive(d) \/ DeclaredDead(d)
  \/ ups_read_data(d) \/ ReadsNothing(d) \/ ReadFails(d)
  \/ upsdrvquery_close(d)

upsdrv_updateinfo ==
  \/ handle_connections \/ ups_parse_protocol
  \/ \E c \in Drivers : HasCandidate(c)
  \/ handle_init_time \/ handle_no_primaries

Next ==
  \/ upsdrv_updateinfo \/ EndNap \/ Tick
  \/ \E d \in Drivers : Answer(d)
  \/ Environment

Spec == Init /\ [][Next]_vars

\* The failover driver runs, time passes, and a driver that is up answers.
Fairness ==
  /\ WF_vars(upsdrv_updateinfo \/ EndNap) /\ WF_vars(Tick)
  /\ \A d \in Drivers : WF_vars(Answer(d))

FairSpec == Spec /\ Fairness

-----------------------------------------------------------------------------
(* Properties.                                                             *)

ups_device_t ==
  [conn : {"none", "open", "eof"},
   flags : SUBSET {"ALIVE", "DUMPED", "DATA_OK", "ONLINE"},
   list : {"none", "OL", "OB"}, needs_export : BOOLEAN, force_export : BOOLEAN,
   heard : 0..SILENCE + 1, pinged : 0..PINGTIME + 1,
   failures : 0..MAXCONNFAILS + 1, failed : 0..COOLOFFTIME + 1,
   ignore : Int, force : Int]

dstate_t ==
  [status : SUBSET {"WAIT", "OL", "OB", "ALARM", "FSD"}, stale : BOOLEAN,
   vars : UNION {[S -> Drivers \X {"OL", "OB"}] : S \in SUBSET {"load", "timer"}}]

Messages == {"OL", "OB", "DATAOK", "DATASTALE", "DUMPDONE", "PONG"}

\* The variables keep their types.
TypeOK ==
  /\ drv \in [Drivers -> {"up", "down"}] /\ report \in [Drivers -> {"OL", "OB"}]
  /\ fresh \in [Drivers -> BOOLEAN] /\ does \in Habits
  /\ asked \in [Drivers -> SUBSET {"DUMPALL", "PING"}]
  /\ toF \in [Drivers -> Seq(Messages)] /\ queue \in [Drivers -> 0..BACKLOG]
  /\ ups \in [Drivers -> ups_device_t]
  /\ alive_count \in 0..Len(Order) /\ online_count \in 0..Len(Order)
  /\ primary \in Drivers \cup {None} /\ gone \in BOOLEAN
  /\ gone_time \in -1..GONETIME + 1 /\ absent \in -1..GONETIME + 1
  /\ init_elapsed \in BOOLEAN /\ uptime \in 0..INITTIME + 1
  /\ dstate \in dstate_t
  /\ step \in {"check", "read", "bye", "nap"} /\ turn \in 1..Len(Order) + 1
  /\ left \in Nat /\ waited \in Nat /\ since \in 0..POLLINTERVAL /\ held \in BOOLEAN

\* ups_is_dead(), ups_is_online() and ups_is_offline(), failover.c:1290: through
\* connections, dumps, hang-ups and timeouts the two counts published as
\* driver.stats are those of the drivers that are connected and that are online.
Counted ==
  /\ alive_count = Cardinality({d \in Drivers : ups[d].conn # "none"})
  /\ online_count = Cardinality({d \in Drivers : ups[d].conn # "none" /\ ups[d].list = "OL"})

\* ups_export_dstate() and ups_clean_dstate(), failover.c:1576 and 1661: when a
\* call of upsdrv_updateinfo() is over, all that is published is what the primary
\* has told, or nothing: no change was missed and nothing of another driver, or of
\* an earlier connection, is left.  (Not so with fsdmode 0, where a primary that
\* is kept while it is away forgets what it has published.)
PublishedIsPrimary ==
  step = "nap" /\ FSDMODE > 0 =>
    dstate.vars = IF primary = None THEN << >> ELSE Vars(primary, ups[primary].list)

\* handle_no_primaries(), failover.c:687: FSD and ALARM are published only while
\* there is no primary, and are taken back with the first one.
FallbackIsTakenBack ==
  dstate.status \cap {"FSD", "ALARM"} # {} /\ step = "nap" =>
    primary = None /\ gone

\* handle_no_primaries(), failover.c:687: an absence longer than noprimarytime
\* does enter the fallback mode.
FallbackInTime ==
  step = "nap" /\ since = 0 /\ absent > NOPRIMARYTIME => gone

\* handle_connections(), failover.c:634: what is published as the data of the
\* primary was confirmed by it within deadtime and one round of the loop, in which
\* every other driver may take a read that times out and a goodbye; but for a round
\* in which connect() waited for a driver that hangs and has its queue full, which
\* has no limit.
PrimaryHeard ==
  step = "nap" /\ ~held /\ primary # None /\ absent = Unset =>
    ups[primary].heard <= SILENCE

\* handle_connections() and get_primary_candidate(), failover.c:634 and 1318: one
\* driver that is up and answers is enough, whatever the others do: time and again
\* the data of a primary are published.  (Not so if connect() is made to wait
\* for ever and ever: others are taken for dead when it returns.)
Recovers ==
  \A d \in Drivers :
    <>[](drv[d] = "up" /\ "slow" \notin does[d] /\ ups[d].ignore = 0 /\ ~held)
      => []<>(primary # None)

\* docs/man/failover.txt:83: "Duration to wait without a suitable primary UPS driver
\* before entering the configured fallback mode".
FallbackNotEarly == step = "nap" /\ gone => absent > NOPRIMARYTIME

===============================================================================
