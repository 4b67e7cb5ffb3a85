-------------------------------- MODULE Upsmon --------------------------------
(***************************************************************************)
(* The upsmon process of clients/upsmon.c: the main loop that polls every  *)
(* monitored UPS, adds up the power it can still count on and forces the   *)
(* shutdown of its host; the signal handlers that raise flags for it; the  *)
(* reload of upsmon.conf; the tracking of the host's sleep and wake-up;    *)
(* and the privileged parent that runs the shutdown command.               *)
(*                                                                         *)
(* upsd, the other hosts and the operating system are the environment: a   *)
(* poll may be answered by any report in Reports, refused, or fail.        *)
(***************************************************************************)
EXTENDS UpsStatus, FiniteSetsExt

CONSTANTS
  UPS,              \* the UPSes a MONITOR line can name
  Reports,          \* answers to GET VAR ups.status, with ups.mode.buzzwords
  Configs,          \* contents of upsmon.conf
  MINSUPPLIES, FINALDELAY, SHUTDOWNEXIT,
  DefaultSleep,     \* initial value of sleepval
  UsePipe,          \* a privileged parent runs SHUTDOWNCMD (no "upsmon -p")
  Signals,          \* which of "fsd", "reload", "exit" may be received
  Inhibitor,        \* built so that isPreparingForSleep() is supported
  Suspends,         \* the host may be suspended
  SlowPolls,        \* a poll may take time
  Faults            \* what may go wrong; see FaultKinds

FaultKinds == {"unreadable", "vanished", "crash", "parent_dies", "no_pdflag"}

\* A configuration: pv maps the UPSes it names to their power value, cred to
\* the credentials; primary is the set of those monitored as primary.
IsConfig(c) ==
  /\ c.pv \in [DOMAIN c.pv -> Nat] /\ DOMAIN c.pv \subseteq UPS
  /\ c.cred \in [DOMAIN c.pv -> Creds]
  /\ c.primary \subseteq DOMAIN c.pv

ASSUME UpsmonAssumption ==
  /\ IsFiniteSet(UPS) /\ Creds # {}
  /\ \A r \in Reports : IsReport(r)
  /\ \A c \in Configs : IsConfig(c)
  /\ MINSUPPLIES \in Nat /\ FINALDELAY \in Nat /\ SHUTDOWNEXIT \in Int
  /\ DefaultSleep \in Nat
  /\ Horizon > FINALDELAY /\ Horizon > SHUTDOWNEXIT /\ Horizon > DefaultSleep
  /\ UsePipe \in BOOLEAN /\ Inhibitor \in BOOLEAN
  /\ Suspends \in BOOLEAN /\ SlowPolls \in BOOLEAN
  /\ Signals \subseteq {"fsd", "reload", "exit"}
  /\ Faults \subseteq FaultKinds

VARIABLES
  monitored,      \* the list firstups
  ups,            \* the utype_t of each monitored UPS
  sleepval,       \* seconds between two cycles
  pc, todo,       \* where the main loop is; UPSes still to poll this cycle
  slept,          \* seconds since the current wait began
  userfsd, reload_flag, exit_flag,    \* raised by the signal handlers
  os,             \* PreparingForSleep of the host: 1 before a sleep, else 0
  os_seen,        \* the value isPreparingForSleep() remembers as "prev"
  sleep_inhibitor_status,             \* -1 stands for every negative value
  parent,         \* the privileged parent: "none", "waiting", "gone"
  pipe,           \* the byte written for it
  pdflag,         \* the POWERDOWNFLAG file exists
  ordered,        \* SHUTDOWNCMD was run
  \* History, read by no step: what each UPS last reported, why the shutdown
  \* was forced, which UPSes recalc() found critical, and the configuration
  \* loaded last.
  said, cause, critical, conf

process == <<pc, todo, slept>>
signals == <<userfsd, reload_flag, exit_flag>>
host    == <<os, os_seen, sleep_inhibitor_status>>
order   == <<parent, pipe, pdflag, ordered>>
history == <<said, cause, critical, conf>>
vars == <<monitored, ups, sleepval, process, signals, host, order, history>>

-----------------------------------------------------------------------------
(* Configuration.                                                          *)

Supply(power, S) == MapThenSumSet(LAMBDA u : power[u], S)

NoUps == addups(0, CHOOSE c \in Creds : TRUE, FALSE)
Nothing == [words |-> {}, line |-> "none", stale |-> FALSE, woke |-> FALSE]

\* upsmon.conf vanished after check_file(): loadconfig() logs it and returns.
NoConfig == [pv |-> [u \in {} |-> 0], cred |-> [u \in {} |-> 0], primary |-> {}]

\* Mutation: what is not in upsmon.conf any more stays in the list.
RetainedAll(c) == monitored \cup DOMAIN c.pv

\* The list after loadconfig() and the deletion of what was not retained.
Retained(c) == DOMAIN c.pv
Reloaded(list, c) ==
  [u \in UPS |->
     IF u \notin DOMAIN c.pv THEN NoUps
     ELSE IF u \in monitored
       THEN redefine_ups(list[u], c.pv[u], c.cred[u], u \in c.primary)
       ELSE addups(c.pv[u], c.cred[u], u \in c.primary)]

CanStart(c) == Supply(c.pv, DOMAIN c.pv) >= MINSUPPLIES

\* reload_conf() applied to the records in "list"; "then" is where the main
\* loop goes on.  A file that cannot be opened only clears the flag.
reload_conf(list, told, then) ==
  /\ reload_flag' = FALSE
  /\ \/ /\ "unreadable" \in Faults
        /\ ups' = list /\ pc' = then /\ said' = told
        /\ UNCHANGED <<monitored, conf>>
     \/ \E c \in Configs \cup (IF "vanished" \in Faults THEN {NoConfig} ELSE {}) :
          /\ monitored' = Retained(c) /\ conf' = c
          /\ ups' = Reloaded(list, c)
          /\ said' = [u \in UPS |-> IF u \in monitored \cap DOMAIN c.pv
                                    THEN told[u] ELSE Nothing]
          /\ pc' = IF CanStart(c) THEN then ELSE "exited"

\* The list main() loads before its loop.
FirstList(c) == [u \in UPS |-> IF u \in DOMAIN c.pv
                               THEN addups(c.pv[u], c.cred[u], u \in c.primary)
                               ELSE NoUps]

FirstParent == IF UsePipe THEN "waiting" ELSE "none"

\* main() up to its loop, from any state of the files: a POWERDOWNFLAG left by
\* the last shutdown is removed.
Started(c) ==
  /\ monitored = DOMAIN c.pv /\ ups = FirstList(c)
  /\ sleepval = DefaultSleep
  /\ pc = "top" /\ todo = {} /\ slept = 0
  /\ userfsd = FALSE /\ reload_flag = FALSE /\ exit_flag = FALSE
  /\ os = 0 /\ os_seen = 0 /\ sleep_inhibitor_status = -1
  /\ parent = FirstParent
  /\ pipe = FALSE /\ pdflag = FALSE /\ ordered = FALSE
  /\ said = [u \in UPS |-> Nothing] /\ cause = "none" /\ critical = {}
  /\ conf = c

Init == \E c \in Configs : CanStart(c) /\ Started(c)

-----------------------------------------------------------------------------
(* The host's sleep, and time.                                             *)

\* isPreparingForSleep() tells a change once, and -1 otherwise.
OsChanged == Inhibitor /\ os # os_seen

OsGoesToSleep ==
  /\ Suspends /\ os = 0 /\ pc # "exited"
  /\ os' = 1
  /\ UNCHANGED <<monitored, ups, sleepval, process, signals, os_seen,
                 sleep_inhibitor_status, order, history>>

OnList(f(_)) == [u \in UPS |-> IF u \in monitored THEN f(ups[u]) ELSE ups[u]]

Waits == {"nap", "sync", "final", "linger"}

\* Short as it is for the process, the sleep moved the clock far ahead.
OsWakesUp ==
  /\ os = 1
  /\ os' = 0
  /\ ups' = OnList(Jumped)
  /\ slept' = IF pc \in Waits THEN Horizon ELSE slept
  /\ UNCHANGED <<monitored, sleepval, pc, todo, signals, os_seen,
                 sleep_inhibitor_status, order, history>>

\* One second passes while the process waits, or while upsd keeps it waiting.
\* No wait that could end now lasts longer.
Tick ==
  /\ \/ pc = "nap" /\ slept < sleepval /\ ~OsChanged
     \/ pc = "final" /\ slept < FINALDELAY
     \/ pc = "linger" /\ SHUTDOWNEXIT > 0 /\ slept < SHUTDOWNEXIT
     \/ pc = "sync" /\ slept <= HOSTSYNC
     \/ pc = "doze" /\ ~OsChanged
     \/ pc = "poll" /\ SlowPolls /\ todo # {}
  /\ slept' = Older(slept) /\ ups' = OnList(Aged)
  /\ UNCHANGED <<monitored, sleepval, pc, todo, signals, host, order, history>>

-----------------------------------------------------------------------------
(* The signal handlers.  A signal ends the sleep() it interrupts; with the *)
(* inhibitor the nap is a loop of short sleeps that only exit_flag breaks. *)

\* Mutation: a signal sends the main loop round again.
InterruptedLoop(flag) == IF pc \in {"nap", "final"} THEN "top" ELSE pc

Interrupted(flag) ==
  CASE pc = "nap" /\ (~Inhibitor \/ flag = "exit") -> "top"
    [] pc = "final"                                -> "order"
    [] OTHER                                       -> pc

Signal(flag) ==
  /\ flag \in Signals /\ pc # "exited"
  /\ userfsd'     = (userfsd \/ flag = "fsd")
  /\ reload_flag' = (reload_flag \/ flag = "reload")
  /\ exit_flag'   = (exit_flag \/ flag = "exit")
  /\ pc' = Interrupted(flag)
  /\ slept' = IF pc' = "top" THEN 0 ELSE slept
  /\ UNCHANGED <<monitored, ups, sleepval, todo, host, order, history>>

-----------------------------------------------------------------------------
(* The main loop up to the polls.                                          *)

\* exit_flag ends the loop; upsmon_cleanup() closes every connection.
Quit ==
  /\ pc = "quit" \/ (pc = "top" /\ exit_flag)
  /\ pc' = "exited"
  /\ ups' = OnList(drop_connection)
  /\ UNCHANGED <<monitored, sleepval, todo, slept, signals, host, order, history>>

\* "upsmon -c fsd": forceshutdown() without looking at any UPS.
UserShutdown ==
  /\ pc = "top" /\ ~exit_flag /\ userfsd
  /\ pc' = "force" /\ cause' = "user"
  /\ UNCHANGED <<monitored, ups, sleepval, todo, slept, signals, host, order,
                 said, critical, conf>>

StayLoaded == UNCHANGED <<monitored, ups, reload_flag, said, conf>>

Top ==
  /\ pc = "top" /\ ~exit_flag /\ ~userfsd
  /\ IF reload_flag THEN reload_conf(ups, said, "os") ELSE pc' = "os" /\ StayLoaded
  /\ UNCHANGED <<sleepval, todo, slept, userfsd, exit_flag, host, order,
                 cause, critical>>

\* A status kept from an aborted cycle stays, unless no lock is held
\* (isInhibitSupported() is false) and the host says something newer.
LearnSleepStatus ==
  IF sleep_inhibitor_status < 0
  THEN /\ os_seen' = os
       /\ sleep_inhibitor_status' = IF OsChanged THEN os ELSE -1
  ELSE \/ UNCHANGED <<os_seen, sleep_inhibitor_status>>
       \/ OsChanged /\ os_seen' = os /\ sleep_inhibitor_status' = os

CheckSleep ==
  /\ pc = "os"
  /\ IF Inhibitor THEN LearnSleepStatus
                  ELSE UNCHANGED <<os_seen, sleep_inhibitor_status>>
  /\ pc' = CASE sleep_inhibitor_status' = 1 -> "doze"
             [] sleep_inhibitor_status' = 0 -> "wake"
             [] OTHER                       -> "begin"
  /\ UNCHANGED <<monitored, ups, sleepval, todo, slept, signals, os, order,
                 history>>

\* The doze ends when the host says so or a signal came: to exit, to handle
\* the wake-up, or to read the configuration again and go on.
EndDoze ==
  /\ pc = "doze" /\ (OsChanged \/ reload_flag \/ exit_flag)
  /\ os_seen' = os
  /\ sleep_inhibitor_status' = IF OsChanged THEN os ELSE -1
  /\ IF exit_flag THEN pc' = "quit" /\ StayLoaded
     ELSE IF sleep_inhibitor_status' = 0 THEN pc' = "wake" /\ StayLoaded
     ELSE IF reload_flag THEN reload_conf(ups, said, "begin")
     ELSE pc' = "begin" /\ StayLoaded
  /\ UNCHANGED <<sleepval, todo, slept, userfsd, exit_flag, os, order, cause,
                 critical>>

Awakened(u) == [u EXCEPT !.status = {}, !.lastpoll = 0]
Outdated(h) == [h EXCEPT !.line = "none", !.stale = TRUE, !.woke = TRUE]

\* Waking up: every flag is forgotten, PRIMARY too, and the reload that
\* follows is what sets PRIMARY again.
Wake ==
  /\ pc = "wake"
  /\ reload_conf(OnList(Awakened), [u \in UPS |-> Outdated(said[u])], "begin")
  /\ UNCHANGED <<sleepval, todo, slept, userfsd, exit_flag, host, order, cause,
                 critical>>

Begin ==
  /\ pc = "begin"
  /\ pc' = "poll" /\ todo' = monitored /\ sleep_inhibitor_status' = -1
  /\ UNCHANGED <<monitored, ups, sleepval, slept, signals, os, os_seen, order,
                 history>>

-----------------------------------------------------------------------------
(* pollups().  The list order is the configuration's; the model polls in   *)
(* any order.                                                              *)

Polls(u) == pc = "poll" /\ u \in todo /\ ~OsChanged

PollKeeps == UNCHANGED <<monitored, pc, slept, signals, host, order, cause,
                         critical, conf>>

\* A change in the host's sleep aborts the cycle.
AbortCycle ==
  /\ pc = "poll" /\ todo # {} /\ OsChanged
  /\ os_seen' = os /\ sleep_inhibitor_status' = os
  /\ pc' = "top" /\ todo' = {}
  /\ UNCHANGED <<monitored, ups, sleepval, slept, signals, os, order, history>>

\* try_connect(): upsd cannot be reached.
PollNotConnected(u) ==
  /\ Polls(u) /\ "CLICONNECTED" \notin ups[u].status
  /\ ups' = [ups EXCEPT ![u] = ups_is_gone(@)] /\ todo' = todo \ {u}
  /\ PollKeeps /\ UNCHANGED <<sleepval, said>>

\* Connected, but upsd refused the LOGIN, or only to make us the primary.
PollNotAllowed(u, granted) ==
  /\ Polls(u) /\ "CLICONNECTED" \notin ups[u].status
  /\ granted = "login" => "PRIMARY" \in ups[u].status
  /\ ups' = [ups EXCEPT ![u] = Connected(@, granted)] /\ todo' = todo \ {u}
  /\ PollKeeps /\ UNCHANGED <<sleepval, said>>

\* A connection left over from an earlier cycle is used as it is, logged in
\* or not.
Reached(u) ==
  IF "CLICONNECTED" \in ups[u].status THEN ups[u] ELSE Connected(ups[u], "all")

LineSaid(ws, line) ==
  IF LastLine(ws) = {} THEN line ELSE CHOOSE w \in LastLine(ws) : TRUE

Hears(h, r) ==
  IF r.words = << >> THEN h
  ELSE [words |-> Seen(r.words), line |-> LineSaid(r.words, h.line),
        stale |-> FALSE, woke |-> h.woke /\ "OFF" \in Seen(r.words)]

PollAnswered(u, r) ==
  /\ Polls(u)
  /\ ups' = [ups EXCEPT ![u] = parse_status(Reached(u), r)]
  /\ sleepval' = IF r.words = << >> THEN sleepval
                 ELSE SleepAfterReport(Reached(u).status, r, sleepval)
  /\ said' = [said EXCEPT ![u] = Hears(@, r)]
  /\ todo' = todo \ {u} /\ PollKeeps

\* No value could be read; the connection may be lost with it.
PollFailed(u, lost) ==
  /\ Polls(u)
  /\ ups' = [ups EXCEPT ![u] = IF lost THEN drop_connection(ups_is_gone(Reached(u)))
                                       ELSE ups_is_gone(Reached(u))]
  /\ todo' = todo \ {u} /\ PollKeeps /\ UNCHANGED <<sleepval, said>>

-----------------------------------------------------------------------------
(* recalc() and the rest of the cycle.                                     *)

recalc ==
  /\ pc = "poll" /\ todo = {}
  /\ LET judging == OnList(Promoted)
         touching == {u \in monitored : TouchesSleep(judging[u])}
         crit == {u \in monitored : is_ups_critical(judging[u])}
         power == [u \in UPS |-> ups[u].pv]
     IN  /\ ups' = [u \in UPS |-> IF u \in monitored THEN Judged(judging[u])
                                                     ELSE ups[u]]
         /\ IF touching = {} THEN UNCHANGED sleepval
            ELSE \E u \in touching : sleepval' = SleepAfterJudging(judging[u])
         /\ critical' = crit
         /\ IF Supply(power, monitored \ crit) < MINSUPPLIES
            THEN pc' = "force" /\ cause' = "power"
            ELSE pc' = "nap" /\ UNCHANGED cause
  /\ slept' = 0
  /\ UNCHANGED <<monitored, todo, signals, host, order, said, conf>>

\* A nap ends in time, or with news from the host.  A clock that ran past the
\* planned end is taken for a wake-up.
EndNap ==
  /\ pc = "nap"
  /\ \/ slept >= sleepval
     \/ OsChanged
  /\ pc' = "top" /\ slept' = 0
  /\ IF Inhibitor THEN os_seen' = os ELSE UNCHANGED os_seen
  /\ sleep_inhibitor_status' =
       IF OsChanged THEN os ELSE IF slept > sleepval THEN 0 ELSE -1
  /\ UNCHANGED <<monitored, ups, sleepval, todo, signals, os, order, history>>

-----------------------------------------------------------------------------
(* forceshutdown(), sync_secondaries() and doshutdown().                   *)

Primaries == {u \in monitored : "PRIMARY" \in ups[u].status}

forceshutdown ==
  /\ pc = "force"
  /\ pc' = IF Primaries = {} THEN "final" ELSE "sync"
  /\ slept' = 0
  /\ UNCHANGED <<monitored, ups, sleepval, todo, signals, host, order, history>>

\* upsd's login counts, as far as they can be read: an answer that cannot is
\* the same as no login.
SecondariesGone ==
  /\ pc = "sync"
  /\ pc' = "final" /\ slept' = 0
  /\ UNCHANGED <<monitored, ups, sleepval, todo, signals, host, order, history>>

\* Mutation: every round of the loop starts the timer again.
SyncRestarted ==
  /\ pc = "sync" /\ slept > HOSTSYNC
  /\ pc' = "sync" /\ slept' = 0
  /\ UNCHANGED <<monitored, ups, sleepval, todo, signals, host, order, history>>

SyncExpired ==
  /\ pc = "sync" /\ slept > HOSTSYNC
  /\ pc' = "final" /\ slept' = 0
  /\ UNCHANGED <<monitored, ups, sleepval, todo, signals, host, order, history>>

EndFinalDelay ==
  /\ pc = "final" /\ slept >= FINALDELAY
  /\ pc' = "order"
  /\ UNCHANGED <<monitored, ups, sleepval, todo, slept, signals, host, order,
                 history>>

set_pdflag == \/ pdflag' = TRUE
              \/ "no_pdflag" \in Faults /\ UNCHANGED pdflag

\* The byte cannot be delivered once the parent is gone: only a log message.
CallParent ==
  /\ pc = "order" /\ UsePipe
  /\ pipe' = (pipe \/ parent = "waiting")
  /\ pc' = "linger" /\ slept' = 0
  /\ UNCHANGED <<monitored, ups, sleepval, todo, signals, host, parent, pdflag,
                 ordered, history>>

RunShutdown ==
  /\ pc = "order" /\ ~UsePipe
  /\ set_pdflag /\ ordered' = TRUE
  /\ pc' = "linger" /\ slept' = 0
  /\ UNCHANGED <<monitored, ups, sleepval, todo, signals, host, parent, pipe,
                 history>>

Linger ==
  /\ pc = "linger"
  /\ \/ SHUTDOWNEXIT = 0
     \/ exit_flag
     \/ SHUTDOWNEXIT > 0 /\ slept >= SHUTDOWNEXIT
  /\ pc' = "exited"
  /\ UNCHANGED <<monitored, ups, sleepval, todo, slept, signals, host, order,
                 history>>

-----------------------------------------------------------------------------
(* The privileged parent, runparent().                                     *)

ParentRuns ==
  /\ parent = "waiting" /\ pipe
  /\ set_pdflag /\ ordered' = TRUE /\ parent' = "gone"
  /\ UNCHANGED <<monitored, ups, sleepval, process, signals, host, pipe, history>>

\* The pipe is closed and empty: the child exited.
ParentSeesExit ==
  /\ parent = "waiting" /\ ~pipe /\ pc = "exited"
  /\ parent' = "gone"
  /\ UNCHANGED <<monitored, ups, sleepval, process, signals, host, pipe, pdflag,
                 ordered, history>>

-----------------------------------------------------------------------------
(* Crashes, and the next start: by an administrator, or of a booted host.  *)

Crash ==
  /\ "crash" \in Faults /\ pc # "exited"
  /\ pc' = "exited"
  /\ UNCHANGED <<monitored, ups, sleepval, todo, slept, signals, host, order,
                 history>>

ParentDies ==
  /\ "parent_dies" \in Faults /\ parent = "waiting"
  /\ parent' = "gone"
  /\ UNCHANGED <<monitored, ups, sleepval, process, signals, host, pipe, pdflag,
                 ordered, history>>

\* Mutation: the file of the last shutdown stays.
pdflag_left == pdflag' = pdflag

clear_pdflag == pdflag' = FALSE

\* An old parent still at work is waited for.
Start ==
  /\ pc = "exited" /\ parent # "waiting"
  /\ \E c \in Configs :
       /\ CanStart(c)
       /\ monitored' = DOMAIN c.pv /\ ups' = FirstList(c) /\ conf' = c
  /\ sleepval' = DefaultSleep
  /\ pc' = "top" /\ todo' = {} /\ slept' = 0
  /\ userfsd' = FALSE /\ reload_flag' = FALSE /\ exit_flag' = FALSE
  /\ os' = 0 /\ os_seen' = 0 /\ sleep_inhibitor_status' = -1
  /\ parent' = FirstParent
  /\ clear_pdflag /\ pipe' = FALSE /\ ordered' = FALSE
  /\ said' = [u \in UPS |-> Nothing] /\ cause' = "none" /\ critical' = {}

-----------------------------------------------------------------------------

Poll == \E u \in UPS :
  \/ PollNotConnected(u)
  \/ \E granted \in {"none", "login"} : PollNotAllowed(u, granted)
  \/ \E r \in Reports : PollAnswered(u, r)
  \/ \E lost \in BOOLEAN : PollFailed(u, lost)

Shutdown ==
  \/ forceshutdown \/ SyncExpired \/ EndFinalDelay
  \/ CallParent \/ RunShutdown \/ Linger

Child ==
  \/ Quit \/ UserShutdown \/ Top \/ CheckSleep \/ EndDoze \/ Wake \/ Begin
  \/ AbortCycle \/ Poll \/ recalc \/ EndNap \/ Shutdown

Parent == ParentRuns \/ ParentSeesExit

Environment ==
  \/ OsGoesToSleep \/ OsWakesUp
  \/ \E flag \in {"fsd", "reload", "exit"} : Signal(flag)
  \/ SecondariesGone \/ Crash \/ ParentDies \/ Start

Next == Child \/ Parent \/ Tick \/ Environment

Spec == Init /\ [][Next]_vars

\* Both processes are scheduled and time passes.  Nothing obliges the
\* secondaries to log out.
Fairness == WF_vars(Child) /\ WF_vars(Parent) /\ WF_vars(Tick)
FairSpec == Spec /\ Fairness

-----------------------------------------------------------------------------
(* Properties.                                                             *)

Places == {"top", "os", "doze", "wake", "begin", "poll", "nap", "quit",
           "force", "sync", "final", "order", "linger", "exited"}
\* stale: said before the last wake-up; woke: a wake-up came since it said OFF.
Heard == [words : SUBSET Words, line : LineWords \cup {"none"},
          stale : BOOLEAN, woke : BOOLEAN]

\* The variables keep their types.
TypeOK ==
  /\ monitored \subseteq UPS /\ ups \in [UPS -> utype_t]
  /\ sleepval \in {DefaultSleep, POLLFREQ, POLLFREQALERT, OblbPoll}
  /\ pc \in Places /\ slept \in Ages
  /\ todo \subseteq monitored /\ (todo # {} => pc \in {"poll", "exited"})
  /\ userfsd \in BOOLEAN /\ reload_flag \in BOOLEAN /\ exit_flag \in BOOLEAN
  /\ os \in {0, 1} /\ os_seen \in {0, 1}
  /\ sleep_inhibitor_status \in {-1, 0, 1}
  /\ parent \in {"none", "waiting", "gone"}
  /\ pipe \in BOOLEAN /\ pdflag \in BOOLEAN /\ ordered \in BOOLEAN
  /\ said \in [UPS -> Heard] /\ cause \in {"none", "user", "power"}
  /\ critical \subseteq UPS
  /\ IsConfig(conf) /\ monitored = DOMAIN conf.pv

(* Of a record p and what was heard h of the UPS it stands for.            *)

Silent(p)  == p.commstate = 0
Primary(p) == "PRIMARY" \in p.status

\* What was heard of a UPS that is then lost.
AtRiskWhenLost(p, h) ==
  \/ "CAL" \in h.words /\ ~h.stale
  \/ "BYPASS" \in h.words
  \/ "ALARM" \in h.words /\ ALARMCRITICAL
  \/ "OFF" \in h.words /\ OFFDURATION >= 0
  \/ "OVER" \in h.words /\ OVERDURATION >= 0 /\ p.oversince >= OVERDURATION

\* On battery, not calibrating, and low or silent for DEADTIME.
Failing(p, h) ==
  /\ h.line = "OB" /\ "CAL" \notin h.words /\ ~h.stale
  /\ "LB" \in h.words \/ p.lastpoll > DEADTIME
  /\ Primary(p) \/ p.lastnoncrit > HOSTSYNC

Evidence(p, h) ==
  \/ "FSD" \in h.words /\ ~h.stale
  \/ Silent(p) /\ AtRiskWhenLost(p, h)
  \/ /\ "OFF" \in h.words /\ OFFDURATION >= 0
     /\ p.offsince >= OFFDURATION \/ h.woke
  \/ Failing(p, h) /\ (OBLBDURATION > 0 => p.oblbsince >= OBLBDURATION)

ShuttingDown == pc \in {"force", "sync", "final", "order", "linger"}
Power == [u \in UPS |-> ups[u].pv]

\* recalc(), upsmon.c:1542: a shutdown that no user asked for is backed by
\* what the UPSes themselves last said and for how long, never by a leftover
\* of the flags; and the UPSes it does not count leave too little power.
ShutdownIsJustified ==
  ShuttingDown /\ cause = "power" =>
    /\ \A u \in critical : Evidence(ups[u], said[u])
    /\ Supply(Power, monitored \ critical) < MINSUPPLIES

\* What must not be slept on, as it was n seconds ago.
Doomed(p, h, n) ==
  /\ ~h.stale
  /\ \/ "FSD" \in h.words
     \/ Silent(p) /\ "BYPASS" \in h.words
     \/ Silent(p) /\ "OFF" \in h.words /\ OFFDURATION >= 0
     \/ /\ h.line = "OB" /\ "CAL" \notin h.words
        /\ "LB" \in h.words \/ p.lastpoll > DEADTIME + n
        /\ OBLBDURATION <= 0
        /\ Primary(p) \/ p.lastnoncrit > HOSTSYNC + n

\* recalc(), upsmon.c:1542: whenever upsmon goes to sleep instead of shutting
\* down, no UPS whose power it counts on had said it was failing, or had been
\* silent for too long while on battery.
NapIsSafe ==
  pc = "nap" =>
    /\ \A u \in monitored : Doomed(ups[u], said[u], slept) => u \in critical
    /\ ~(Supply(Power, monitored \ critical) < MINSUPPLIES)

\* try_connect() and drop_connection(), upsmon.c:1741 and 2661: upsmon never
\* thinks it is logged in over a connection it has given up.
LoginNeedsConnection ==
  \A u \in monitored : "LOGIN" \in ups[u].status => "CLICONNECTED" \in ups[u].status

\* addups() and redefine_ups(), upsmon.c:1904 and 1790: upsmon acts as the
\* primary of exactly the UPSes the configuration loaded last says.
RoleAsConfigured == \A u \in monitored : Primary(ups[u]) <=> u \in conf.primary

\* set_pdflag(), clear_pdflag() and runparent(), upsmon.c:909, 3165 and 3281:
\* the flag that cuts the power exists only once this upsmon has forced a
\* shutdown and monitors no more.
FlagMeansShutdown ==
  pdflag \/ pipe \/ ordered => cause # "none" /\ pc \in {"linger", "exited"}

\* forceshutdown() and doshutdown(), upsmon.c:1246 and 930: no signal, reload,
\* wake-up or return of the power calls a shutdown off.
ShutdownIsFinal ==
  [][ShuttingDown => ShuttingDown' \/ pc' = "exited"]_vars

PowerFails ==
  Supply(Power, {u \in monitored : ~Failing(ups[u], said[u])}) < MINSUPPLIES

\* pollups(), recalc() and doshutdown(), upsmon.c:2986, 1542 and 930: when the
\* supplies that are not failing are too few, the host goes down or they become
\* enough again (OBLBDURATION being off).
FailureShutsDown == PowerFails ~> (ordered \/ ~PowerFails)

\* forceshutdown(), upsmon.c:1246: a shutdown once forced is carried out,
\* whatever upsd and the secondaries do.
ForcedIsOrdered == (pc = "force") ~> ordered

=============================================================================
