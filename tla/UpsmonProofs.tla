----------------------------- MODULE UpsmonProofs -----------------------------
(* Theorems about the upsmon process: its types, its flag files, its logins, *)
(* its roles, and what justifies a shutdown or a nap.                        *)
EXTENDS Upsmon, UpsStatusProofs, WellFoundedInduction

USE UpsmonAssumption

LEMMA NoUpsType == NoUps \in utype_t
BY AddupsType DEF NoUps

LEMMA NothingType == Nothing \in Heard
BY DEF Nothing, Heard

\* The clocks and connections of the whole list.
LEMMA OnListType ==
  ASSUME TypeOK
  PROVE  /\ OnList(Jumped) \in [UPS -> utype_t]
         /\ OnList(Aged) \in [UPS -> utype_t]
         /\ OnList(drop_connection) \in [UPS -> utype_t]
         /\ OnList(Awakened) \in [UPS -> utype_t]
<1>0. ups \in [UPS -> utype_t]
  BY DEF TypeOK
<1>1. OnList(Jumped) \in [UPS -> utype_t]
  BY <1>0, ClockType DEF OnList
<1>2. OnList(Aged) \in [UPS -> utype_t]
  BY <1>0, ClockType DEF OnList
<1>3. OnList(drop_connection) \in [UPS -> utype_t]
  BY <1>0, ConnectionType DEF OnList
<1>4. ASSUME NEW u \in utype_t
      PROVE  Awakened(u) \in utype_t
  <2>1. 0 \in Ages
    BY HorizonAssumption DEF Ages
  <2> QED BY <2>1 DEF utype_t, Awakened
<1>5. OnList(Awakened) \in [UPS -> utype_t]
  BY <1>0, <1>4 DEF OnList
<1> QED BY <1>1, <1>2, <1>3, <1>5

\* main() loads a configuration.
LEMMA FirstListType ==
  ASSUME NEW c, IsConfig(c)
  PROVE  FirstList(c) \in [UPS -> utype_t]
BY NoUpsType, AddupsType DEF FirstList, IsConfig

\* reload_conf(), upsmon.c:3413.
LEMMA ReloadType ==
  ASSUME TypeOK, NEW list \in [UPS -> utype_t], NEW told \in [UPS -> Heard],
         NEW then \in Places, reload_conf(list, told, then)
  PROVE  /\ monitored' \subseteq UPS /\ ups' \in [UPS -> utype_t]
         /\ said' \in [UPS -> Heard] /\ pc' \in Places
         /\ reload_flag' \in BOOLEAN
         /\ IsConfig(conf') /\ monitored' = DOMAIN conf'.pv
<1>1. reload_flag' \in BOOLEAN
  BY DEF reload_conf
<1>2. CASE /\ ups' = list /\ pc' = then /\ said' = told
           /\ UNCHANGED <<monitored, conf>>
  BY <1>1, <1>2 DEF TypeOK
<1>3. CASE \E c \in Configs \cup {NoConfig} :
             /\ monitored' = Retained(c) /\ conf' = c
             /\ ups' = Reloaded(list, c)
             /\ said' = [u \in UPS |-> IF u \in monitored \cap DOMAIN c.pv
                                       THEN told[u] ELSE Nothing]
             /\ pc' = IF CanStart(c) THEN then ELSE "exited"
  <2>1. PICK c \in Configs \cup {NoConfig} :
             /\ monitored' = Retained(c) /\ conf' = c
             /\ ups' = Reloaded(list, c)
             /\ said' = [u \in UPS |-> IF u \in monitored \cap DOMAIN c.pv
                                       THEN told[u] ELSE Nothing]
             /\ pc' = IF CanStart(c) THEN then ELSE "exited"
    BY <1>3
  <2>2. IsConfig(NoConfig)
    BY DEF NoConfig, IsConfig
  <2>3. IsConfig(c)
    BY <2>2
  <2>4. Reloaded(list, c) \in [UPS -> utype_t]
    <3> SUFFICES ASSUME NEW u \in UPS PROVE Reloaded(list, c)[u] \in utype_t
      BY DEF Reloaded
    <3>1. CASE u \notin DOMAIN c.pv
      BY <3>1, NoUpsType DEF Reloaded
    <3>2. CASE u \in DOMAIN c.pv /\ u \in monitored
      BY <2>3, <3>2, RedefineType DEF Reloaded, IsConfig
    <3>3. CASE u \in DOMAIN c.pv /\ u \notin monitored
      BY <2>3, <3>3, AddupsType DEF Reloaded, IsConfig
    <3> QED BY <3>1, <3>2, <3>3
  <2>5. said' \in [UPS -> Heard]
    BY <2>1, NothingType
  <2>6. pc' \in Places
    BY <2>1 DEF Places
  <2> QED BY <1>1, <2>1, <2>3, <2>4, <2>5, <2>6 DEF Retained, IsConfig
<1> QED BY <1>2, <1>3 DEF reload_conf

LEMMA InitType == Init => TypeOK
<1> SUFFICES ASSUME NEW c \in Configs, Started(c) PROVE TypeOK
  BY DEF Init
<1>1. IsConfig(c)
  OBVIOUS
<1>2. ups \in [UPS -> utype_t]
  BY <1>1, FirstListType DEF Started
<1>3. said \in [UPS -> Heard]
  BY NothingType DEF Started
<1>4. 0 \in Ages
  BY HorizonAssumption DEF Ages
<1>5. IsConfig(conf) /\ monitored = DOMAIN conf.pv /\ monitored \subseteq UPS
  BY <1>1 DEF Started, IsConfig
<1>6. parent \in {"none", "waiting", "gone"}
  BY DEF Started, FirstParent
<1> QED
  BY <1>2, <1>3, <1>4, <1>5, <1>6 DEF Started, TypeOK, Places

-----------------------------------------------------------------------------
(* One step lemma for each part of the program.                            *)

LEMMA HostStepType ==
  ASSUME TypeOK, OsGoesToSleep \/ OsWakesUp \/ Tick
  PROVE  TypeOK'
<1>1. CASE OsGoesToSleep
  BY <1>1 DEF OsGoesToSleep, TypeOK, process, signals, order, history
<1>2. CASE OsWakesUp
  BY <1>2, OnListType, HorizonAssumption
  DEF OsWakesUp, TypeOK, signals, order, history, Ages
<1>3. CASE Tick
  BY <1>3, OnListType, OlderType
  DEF Tick, TypeOK, signals, host, order, history
<1> QED BY <1>1, <1>2, <1>3

LEMMA LoopStepType ==
  ASSUME TypeOK,
         \/ Quit \/ UserShutdown \/ Top \/ CheckSleep \/ EndDoze \/ Wake
         \/ Begin \/ AbortCycle \/ EndNap
  PROVE  TypeOK'
<1>0. 0 \in Ages
  BY HorizonAssumption DEF Ages
<1>1. CASE Quit
  BY <1>1, OnListType DEF Quit, TypeOK, Places, signals, host, order, history
<1>2. CASE UserShutdown
  BY <1>2 DEF UserShutdown, TypeOK, Places, signals, host, order
<1>3. CASE Top
  <2>1. /\ monitored' \subseteq UPS /\ ups' \in [UPS -> utype_t]
        /\ said' \in [UPS -> Heard] /\ pc' \in Places
        /\ reload_flag' \in BOOLEAN
        /\ IsConfig(conf') /\ monitored' = DOMAIN conf'.pv
    <3>1. CASE reload_flag
      BY <1>3, <3>1, ReloadType DEF Top, TypeOK, Places
    <3>2. CASE ~reload_flag
      BY <1>3, <3>2 DEF Top, TypeOK, Places, StayLoaded
    <3> QED BY <3>1, <3>2
  <2>2. todo' = {}
    BY <1>3 DEF Top, TypeOK
  <2> QED BY <1>3, <2>1, <2>2 DEF Top, TypeOK, host, order
<1>4. CASE CheckSleep
  BY <1>4 DEF CheckSleep, LearnSleepStatus, OsChanged, TypeOK, Places, signals,
              order, history
<1>5. CASE EndDoze
  <2>1. /\ monitored' \subseteq UPS /\ ups' \in [UPS -> utype_t]
        /\ said' \in [UPS -> Heard] /\ pc' \in Places
        /\ reload_flag' \in BOOLEAN
        /\ IsConfig(conf') /\ monitored' = DOMAIN conf'.pv
    <3>1. CASE reload_conf(ups, said, "begin")
      BY <3>1, ReloadType DEF TypeOK, Places
    <3>2. CASE StayLoaded /\ pc' \in {"quit", "wake", "begin"}
      BY <3>2 DEF TypeOK, Places, StayLoaded
    <3> QED BY <1>5, <3>1, <3>2 DEF EndDoze
  <2>2. todo' = {} /\ sleep_inhibitor_status' \in {-1, 0, 1}
    BY <1>5 DEF EndDoze, TypeOK
  <2> QED BY <1>5, <2>1, <2>2 DEF EndDoze, TypeOK, order
<1>6. CASE Wake
  <2> DEFINE fresh == OnList(Awakened)
             told == [u \in UPS |-> Outdated(said[u])]
  <2>1. told \in [UPS -> Heard]
    BY DEF TypeOK, Heard, Outdated
  <2>2. fresh \in [UPS -> utype_t] /\ "begin" \in Places
    BY OnListType DEF Places
  <2>3. reload_conf(fresh, told, "begin")
    BY <1>6 DEF Wake
  <2> HIDE DEF fresh, told
  <2>4. /\ monitored' \subseteq UPS /\ ups' \in [UPS -> utype_t]
        /\ said' \in [UPS -> Heard] /\ pc' \in Places
        /\ reload_flag' \in BOOLEAN
        /\ IsConfig(conf') /\ monitored' = DOMAIN conf'.pv
    BY <2>1, <2>2, <2>3, ReloadType
  <2>5. UNCHANGED <<sleepval, todo, slept, userfsd, exit_flag, host, order, cause,
                    critical>>
    BY <1>6 DEF Wake
  <2>6. todo = {}
    BY <1>6 DEF Wake, TypeOK
  <2> QED BY <2>4, <2>5, <2>6 DEF TypeOK, host, order
<1>7. CASE Begin
  BY <1>7 DEF Begin, TypeOK, Places, signals, order, history
<1>8. CASE AbortCycle
  BY <1>8 DEF AbortCycle, TypeOK, Places, signals, order, history
<1>9. CASE EndNap
  BY <1>0, <1>9 DEF EndNap, TypeOK, Places, signals, order, history
<1> QED BY <1>1, <1>2, <1>3, <1>4, <1>5, <1>6, <1>7, <1>8, <1>9

LEMMA HearsType ==
  ASSUME NEW h \in Heard, NEW r \in Reports
  PROVE  Hears(h, r) \in Heard
<1>1. IsReport(r)
  OBVIOUS
<1>2. Seen(r.words) \in SUBSET Words
  BY <1>1 DEF Seen, IsReport
<1>3. LineSaid(r.words, h.line) \in LineWords \cup {"none"}
  BY DEF LineSaid, LastLine, Heard
<1> QED BY <1>2, <1>3 DEF Hears, Heard

\* pollups(), upsmon.c:2986.
LEMMA PollStepType ==
  ASSUME TypeOK, Poll
  PROVE  TypeOK'
<1> PICK u \in UPS :
       \/ PollNotConnected(u)
       \/ \E granted \in {"none", "login"} : PollNotAllowed(u, granted)
       \/ \E r \in Reports : PollAnswered(u, r)
       \/ \E lost \in BOOLEAN : PollFailed(u, lost)
  BY DEF Poll
<1>0. ups[u] \in utype_t /\ Reached(u) \in utype_t
  BY ConnectionType DEF TypeOK, Reached
<1>1. ASSUME NEW v \in utype_t, ups' = [ups EXCEPT ![u] = v],
             todo' = todo \ {u}, Polls(u), PollKeeps, UNCHANGED <<sleepval, said>>
      PROVE  TypeOK'
  BY <1>1 DEF TypeOK, Polls, PollKeeps, signals, host, order
<1>2. CASE PollNotConnected(u)
  BY <1>0, <1>1, <1>2, ConnectionType DEF PollNotConnected
<1>3. CASE \E granted \in {"none", "login"} : PollNotAllowed(u, granted)
  BY <1>0, <1>1, <1>3, ConnectionType DEF PollNotAllowed
<1>4. CASE \E lost \in BOOLEAN : PollFailed(u, lost)
  <2>1. /\ ups_is_gone(Reached(u)) \in utype_t
        /\ drop_connection(ups_is_gone(Reached(u))) \in utype_t
    BY <1>0, ConnectionType
  <2> QED BY <1>1, <1>4, <2>1 DEF PollFailed
<1>5. ASSUME NEW r \in Reports, PollAnswered(u, r)
      PROVE  TypeOK'
  <2>1. ups' \in [UPS -> utype_t]
    BY <1>0, <1>5, ParseType DEF PollAnswered, TypeOK
  <2>2. sleepval' \in {sleepval, POLLFREQ, POLLFREQALERT}
    BY <1>5, SleepType DEF PollAnswered
  <2>4. Hears(said[u], r) \in Heard
    BY HearsType DEF TypeOK
  <2>5. said' \in [UPS -> Heard]
    BY <1>5, <2>4 DEF PollAnswered, TypeOK
  <2> QED
    BY <1>5, <2>1, <2>2, <2>5
    DEF PollAnswered, TypeOK, Polls, PollKeeps, signals, host, order
<1> QED BY <1>2, <1>3, <1>4, <1>5

\* recalc(), upsmon.c:1542.
LEMMA RecalcStepType ==
  ASSUME TypeOK, recalc
  PROVE  TypeOK'
<1> DEFINE judging == OnList(Promoted)
<1>1. judging \in [UPS -> utype_t]
  BY JudgedType DEF OnList, TypeOK
<1>2. ups' \in [UPS -> utype_t]
  BY <1>1, JudgedType DEF recalc, TypeOK
<1>3. sleepval' \in {sleepval, POLLFREQ, POLLFREQALERT, OblbPoll}
  BY SleepType DEF recalc
<1>4. pc' \in {"force", "nap"} /\ cause' \in {"power", cause}
  BY DEF recalc
<1>5. critical' \subseteq UPS
  BY DEF recalc, TypeOK
<1>6. slept' \in Ages
  BY HorizonAssumption DEF recalc, Ages
<1>7. todo' = {} /\ UNCHANGED <<monitored, signals, host, order, said, conf>>
  BY DEF recalc
<1> QED
  BY <1>2, <1>3, <1>4, <1>5, <1>6, <1>7
  DEF TypeOK, Places, signals, host, order

\* forceshutdown() to the end, and the parent.
LEMMA ShutdownStepType ==
  ASSUME TypeOK, Shutdown \/ SecondariesGone \/ Parent \/ Crash \/ ParentDies
  PROVE  TypeOK'
<1>0. 0 \in Ages
  BY HorizonAssumption DEF Ages
<1>1. CASE forceshutdown \/ SecondariesGone \/ SyncExpired \/ EndFinalDelay \/ Linger
  BY <1>0, <1>1
  DEF forceshutdown, SecondariesGone, SyncExpired, EndFinalDelay, Linger, TypeOK,
      Places, signals, host, order, history
<1>2. CASE CallParent
  BY <1>0, <1>2 DEF CallParent, TypeOK, Places, signals, host, history
<1>3. CASE RunShutdown
  <2>1. pdflag' \in BOOLEAN
    BY <1>3 DEF RunShutdown, set_pdflag, TypeOK
  <2> QED
    BY <1>0, <1>3, <2>1 DEF RunShutdown, TypeOK, Places, signals, host, history
<1>4. CASE ParentRuns
  <2>1. pdflag' \in BOOLEAN
    BY <1>4 DEF ParentRuns, set_pdflag, TypeOK
  <2> QED
    BY <1>4, <2>1 DEF ParentRuns, TypeOK, process, signals, host, history
<1>5. CASE ParentSeesExit
  BY <1>5 DEF ParentSeesExit, TypeOK, process, signals, host, history
<1>6. CASE Crash
  BY <1>6 DEF Crash, TypeOK, Places, signals, host, order, history
<1>7. CASE ParentDies
  BY <1>7 DEF ParentDies, TypeOK, process, signals, host, history
<1> QED BY <1>1, <1>2, <1>3, <1>4, <1>5, <1>6, <1>7 DEF Shutdown, Parent

LEMMA SignalStepType ==
  ASSUME TypeOK, NEW flag \in {"fsd", "reload", "exit"}, Signal(flag)
  PROVE  TypeOK'
<1>1. 0 \in Ages
  BY HorizonAssumption DEF Ages
<1>2. pc' \in {pc, "top", "order"} /\ (pc' = pc \/ pc \in {"nap", "final"})
  BY DEF Signal, Interrupted
<1> QED BY <1>1, <1>2 DEF Signal, TypeOK, Places, host, order, history

LEMMA StartStepType ==
  ASSUME TypeOK, Start
  PROVE  TypeOK'
<1>1. PICK c \in Configs :
        monitored' = DOMAIN c.pv /\ ups' = FirstList(c) /\ conf' = c
  BY DEF Start
<1>2. IsConfig(c)
  OBVIOUS
<1>3. ups' \in [UPS -> utype_t]
  BY <1>1, <1>2, FirstListType
<1>4. said' \in [UPS -> Heard]
  BY NothingType DEF Start
<1>5. 0 \in Ages
  BY HorizonAssumption DEF Ages
<1>6. IsConfig(conf') /\ monitored' = DOMAIN conf'.pv /\ monitored' \subseteq UPS
  BY <1>1, <1>2 DEF IsConfig
<1>7. parent' \in {"none", "waiting", "gone"} /\ pdflag' \in BOOLEAN
  BY DEF Start, FirstParent, clear_pdflag
<1> QED
  BY <1>3, <1>4, <1>5, <1>6, <1>7 DEF Start, TypeOK, Places

\* The variables keep their types: every handler of upsmon.c leaves a record
\* behind, and the polls still to do are of monitored UPSes.
THEOREM TypeCorrect == Spec => []TypeOK
<1>1. TypeOK /\ Next => TypeOK'
  BY HostStepType, LoopStepType, PollStepType, RecalcStepType, ShutdownStepType,
     SignalStepType, StartStepType
  DEF Next, Child, Environment
<1>2. TypeOK /\ UNCHANGED vars => TypeOK'
  BY DEF TypeOK, vars, process, signals, host, order, history
<1> QED BY InitType, <1>1, <1>2, PTL DEF Spec

-----------------------------------------------------------------------------
(* The order to shut down.                                                 *)

\* Why FlagMeansShutdown is inductive: a shutdown under way has a cause.
OrderIsCaused == (ShuttingDown => cause # "none") /\ FlagMeansShutdown

LEMMA OrderIsCausedStep ==
  ASSUME TypeOK, OrderIsCaused, [Next]_vars
  PROVE  OrderIsCaused'
<1> USE DEF OrderIsCaused, FlagMeansShutdown, ShuttingDown
<1>1. CASE OsGoesToSleep \/ OsWakesUp \/ Tick
  BY <1>1 DEF OsGoesToSleep, OsWakesUp, Tick, order, history, process
<1>2. CASE \E flag \in {"fsd", "reload", "exit"} : Signal(flag)
  BY <1>2 DEF Signal, Interrupted, order, history
<1>3. CASE Quit
  BY <1>3 DEF Quit, order, history
<1>4. CASE UserShutdown
  BY <1>4 DEF UserShutdown, order
<1>5. CASE Top \/ EndDoze \/ Wake
  <2>1. pc \in {"top", "doze", "wake"}
        /\ pc' \in {"os", "quit", "wake", "begin", "exited"}
    BY <1>5 DEF Top, EndDoze, Wake, reload_conf
  <2>2. UNCHANGED <<order, cause>>
    BY <1>5 DEF Top, EndDoze, Wake
  <2> QED BY <2>1, <2>2 DEF order
<1>6. CASE CheckSleep \/ Begin \/ AbortCycle \/ EndNap
  BY <1>6 DEF CheckSleep, Begin, AbortCycle, EndNap, order, history
<1>7. CASE Poll
  <2>1. UNCHANGED <<pc, order, cause>>
    BY <1>7
    DEF Poll, PollNotConnected, PollNotAllowed, PollAnswered, PollFailed, PollKeeps
  <2> QED BY <2>1 DEF order
<1>8. CASE recalc
  <2>1. /\ pc = "poll"
        /\ (pc' = "force" /\ cause' = "power") \/ (pc' = "nap" /\ cause' = cause)
        /\ UNCHANGED order
    BY <1>8 DEF recalc
  <2> QED BY <2>1 DEF order
<1>9. CASE Shutdown \/ SecondariesGone
  <2>1. CASE CallParent
    BY <2>1 DEF CallParent, history
  <2>2. CASE RunShutdown
    BY <2>2 DEF RunShutdown, set_pdflag, history
  <2>3. CASE forceshutdown \/ SecondariesGone \/ SyncExpired \/ EndFinalDelay \/ Linger
    BY <2>3 DEF forceshutdown, SecondariesGone, SyncExpired, EndFinalDelay, Linger,
                order, history
  <2> QED BY <1>9, <2>1, <2>2, <2>3 DEF Shutdown
<1>10. CASE ParentRuns
  BY <1>10 DEF ParentRuns, set_pdflag, process, history
<1>11. CASE ParentSeesExit \/ ParentDies
  BY <1>11 DEF ParentSeesExit, ParentDies, process, history
<1>12. CASE Crash
  BY <1>12 DEF Crash, order, history
<1>13. CASE Start
  BY <1>13 DEF Start, clear_pdflag
<1>14. CASE UNCHANGED vars
  BY <1>14 DEF vars, process, order, history
<1> QED
  BY <1>1, <1>2, <1>3, <1>4, <1>5, <1>6, <1>7, <1>8, <1>9, <1>10, <1>11, <1>12,
     <1>13, <1>14
  DEF Next, Child, Parent, Environment

\* set_pdflag(), clear_pdflag() and runparent(), upsmon.c:909, 3165 and 3281:
\* whatever is configured and whatever fails, the flag that makes the UPS cut
\* the power exists only after this upsmon forced a shutdown.
THEOREM FlagIsEarned == Spec => []FlagMeansShutdown
<1>1. Init => OrderIsCaused
  BY DEF Init, Started, OrderIsCaused, FlagMeansShutdown, ShuttingDown
<1>2. OrderIsCaused => FlagMeansShutdown
  BY DEF OrderIsCaused
<1> QED BY TypeCorrect, <1>1, <1>2, OrderIsCausedStep, PTL DEF Spec

\* forceshutdown() and doshutdown(), upsmon.c:1246 and 930: no step leads out
\* of a shutdown but the end of the process.
THEOREM NoWayBack == Spec => ShutdownIsFinal
<1>1. [Next]_vars => (ShuttingDown => ShuttingDown' \/ pc' = "exited")
  <2> USE DEF ShuttingDown
  <2> SUFFICES ASSUME [Next]_vars, ShuttingDown
               PROVE  ShuttingDown' \/ pc' = "exited"
    OBVIOUS
  <2>1. CASE OsGoesToSleep \/ OsWakesUp \/ Tick
    BY <2>1 DEF OsGoesToSleep, OsWakesUp, Tick, process
  <2>2. CASE \E flag \in {"fsd", "reload", "exit"} : Signal(flag)
    BY <2>2 DEF Signal, Interrupted
  <2>3. CASE Quit \/ UserShutdown \/ Top \/ EndDoze \/ Wake
    BY <2>3 DEF Quit, UserShutdown, Top, EndDoze, Wake
  <2>4. CASE CheckSleep \/ Begin \/ AbortCycle \/ EndNap
    BY <2>4 DEF CheckSleep, Begin, AbortCycle, EndNap
  <2>5. CASE Poll
    BY <2>5
    DEF Poll, PollNotConnected, PollNotAllowed, PollAnswered, PollFailed, Polls
  <2>6. CASE recalc
    BY <2>6 DEF recalc
  <2>7. CASE Shutdown \/ SecondariesGone
    BY <2>7
    DEF Shutdown, forceshutdown, SecondariesGone, SyncExpired, EndFinalDelay,
        CallParent, RunShutdown, Linger
  <2>8. CASE Parent \/ ParentDies
    BY <2>8 DEF Parent, ParentRuns, ParentSeesExit, ParentDies, process
  <2>9. CASE Crash \/ Start
    BY <2>9 DEF Crash, Start
  <2>10. CASE UNCHANGED vars
    BY <2>10 DEF vars, process
  <2> QED
    BY <2>1, <2>2, <2>3, <2>4, <2>5, <2>6, <2>7, <2>8, <2>9, <2>10
    DEF Next, Child, Environment
<1> QED BY <1>1, PTL DEF Spec, ShutdownIsFinal

-----------------------------------------------------------------------------
(* Logins and their connections.                                           *)

AllLinked == \A u \in UPS : Linked(ups[u])

LEMMA LinkedList ==
  ASSUME NEW c, IsConfig(c), NEW list \in [UPS -> utype_t],
         \A u \in UPS : Linked(list[u])
  PROVE  /\ \A u \in UPS : Linked(Reloaded(list, c)[u])
         /\ \A u \in UPS : Linked(FirstList(c)[u])
<1>1. Linked(NoUps)
  BY DEF NoUps, addups, Linked
<1> SUFFICES ASSUME NEW u \in UPS
             PROVE  Linked(Reloaded(list, c)[u]) /\ Linked(FirstList(c)[u])
  OBVIOUS
<1>2. CASE u \notin DOMAIN c.pv
  BY <1>1, <1>2 DEF Reloaded, FirstList
<1>3. CASE u \in DOMAIN c.pv
  <2>1. c.pv[u] \in Nat /\ c.cred[u] \in Creds
    BY <1>3 DEF IsConfig
  <2>2. /\ Linked(addups(c.pv[u], c.cred[u], u \in c.primary))
        /\ Linked(redefine_ups(list[u], c.pv[u], c.cred[u], u \in c.primary))
    BY <2>1, LinkedConfigured
  <2> QED BY <1>3, <2>2 DEF Reloaded, FirstList
<1> QED BY <1>2, <1>3

LEMMA LinkedReload ==
  ASSUME TypeOK, NEW list \in [UPS -> utype_t], NEW told, NEW then,
         \A u \in UPS : Linked(list[u]), reload_conf(list, told, then)
  PROVE  AllLinked'
<1>1. CASE ups' = list
  BY <1>1 DEF AllLinked
<1>2. ASSUME NEW c \in Configs \cup {NoConfig}, ups' = Reloaded(list, c)
      PROVE  AllLinked'
  <2>1. IsConfig(NoConfig)
    BY DEF NoConfig, IsConfig
  <2>2. IsConfig(c)
    BY <2>1
  <2> QED BY <1>2, <2>2, LinkedList DEF AllLinked
<1> QED BY <1>1, <1>2 DEF reload_conf

LEMMA LinkedPoll ==
  ASSUME TypeOK, AllLinked, Poll
  PROVE  AllLinked'
<1> PICK u \in UPS :
       \/ PollNotConnected(u)
       \/ \E granted \in {"none", "login"} : PollNotAllowed(u, granted)
       \/ \E r \in Reports : PollAnswered(u, r)
       \/ \E lost \in BOOLEAN : PollFailed(u, lost)
  BY DEF Poll
<1>0. /\ ups[u] \in utype_t /\ Linked(ups[u])
      /\ Reached(u) \in utype_t /\ Linked(Reached(u))
  BY ConnectionType, LinkedKept DEF TypeOK, AllLinked, Reached
<1>1. \A v : Linked(v) /\ ups' = [ups EXCEPT ![u] = v] => AllLinked'
  BY DEF TypeOK, AllLinked
<1>2. CASE PollNotConnected(u)
  BY <1>0, <1>1, <1>2, LinkedKept DEF PollNotConnected
<1>3. CASE \E granted \in {"none", "login"} : PollNotAllowed(u, granted)
  BY <1>0, <1>1, <1>3, LinkedKept DEF PollNotAllowed
<1>4. CASE \E r \in Reports : PollAnswered(u, r)
  BY <1>0, <1>1, <1>4, LinkedParse DEF PollAnswered
<1>5. CASE \E lost \in BOOLEAN : PollFailed(u, lost)
  <2>1. /\ Linked(ups_is_gone(Reached(u)))
        /\ Linked(drop_connection(ups_is_gone(Reached(u))))
    BY <1>0, ConnectionType, LinkedKept
  <2> QED BY <1>1, <1>5, <2>1 DEF PollFailed
<1> QED BY <1>2, <1>3, <1>4, <1>5

LEMMA LinkedStep ==
  ASSUME TypeOK, AllLinked, [Next]_vars
  PROVE  AllLinked'
<1>0. ups \in [UPS -> utype_t]
  BY DEF TypeOK
<1>1. CASE OsWakesUp \/ Tick \/ Quit \/ recalc
  <2>1. \A u \in UPS : ups'[u] \in {ups[u], Jumped(ups[u]), Aged(ups[u]),
                                   drop_connection(ups[u]),
                                   Judged(Promoted(ups[u]))}
    BY <1>0, <1>1 DEF OsWakesUp, Tick, Quit, recalc, OnList
  <2> QED BY <1>0, <2>1, LinkedKept DEF AllLinked
<1>2. CASE Top \/ EndDoze
  <2>1. UNCHANGED ups \/ \E then : reload_conf(ups, said, then)
    BY <1>2 DEF Top, EndDoze, StayLoaded
  <2> QED BY <1>0, <2>1, LinkedReload DEF AllLinked
<1>3. CASE Wake
  <2> PICK list : list = OnList(Awakened)
    OBVIOUS
  <2>1. list \in [UPS -> utype_t]
    BY OnListType
  <2>2. \A u \in UPS : Linked(list[u])
    BY <1>0 DEF AllLinked, OnList, Awakened, Linked, utype_t
  <2>3. \E told : reload_conf(list, told, "begin")
    BY <1>3 DEF Wake
  <2> QED BY <2>1, <2>2, <2>3, LinkedReload
<1>4. CASE Start
  <2>1. PICK c \in Configs : ups' = FirstList(c)
    BY <1>4 DEF Start
  <2> QED BY <1>0, <2>1, LinkedList DEF AllLinked
<1>5. CASE UNCHANGED ups
  BY <1>5 DEF AllLinked
<1>6. CASE \/ OsGoesToSleep \/ UserShutdown \/ CheckSleep \/ Begin \/ AbortCycle
           \/ EndNap \/ Shutdown \/ Parent \/ SecondariesGone \/ Crash
           \/ ParentDies \/ \E flag \in {"fsd", "reload", "exit"} : Signal(flag)
  BY <1>5, <1>6
  DEF OsGoesToSleep, UserShutdown, CheckSleep, Begin, AbortCycle, EndNap, Shutdown,
      forceshutdown, SyncExpired, EndFinalDelay, CallParent, RunShutdown, Linger,
      Parent, ParentRuns, ParentSeesExit, SecondariesGone, Crash, ParentDies, Signal
<1> QED
  BY <1>1, <1>2, <1>3, <1>4, <1>5, <1>6, LinkedPoll
  DEF Next, Child, Environment, vars

\* try_connect() and drop_connection(), upsmon.c:2661 and 1741: upsmon is logged
\* in only where it holds a connection.
THEOREM LoginsAreConnected == Spec => []LoginNeedsConnection
<1>1. Init => AllLinked
  <2> SUFFICES ASSUME NEW c \in Configs, Started(c) PROVE AllLinked
    BY DEF Init
  <2>1. ups = FirstList(c) /\ ups \in [UPS -> utype_t]
    BY FirstListType DEF Started
  <2>2. PICK list : list = [u \in UPS |-> NoUps]
    OBVIOUS
  <2>3. list \in [UPS -> utype_t] /\ \A u \in UPS : Linked(list[u])
    BY <2>2, NoUpsType DEF NoUps, addups, Linked
  <2> QED BY <2>1, <2>3, LinkedList DEF AllLinked
<1>2. TypeOK /\ AllLinked => LoginNeedsConnection
  BY DEF TypeOK, AllLinked, Linked, LoginNeedsConnection
<1> QED BY TypeCorrect, <1>1, <1>2, LinkedStep, PTL DEF Spec

-----------------------------------------------------------------------------
(* The roles.                                                              *)

\* What a wake-up forgets is read again: the host is never suspended, or
\* upsmon.conf can be opened when it is.
WakeUpsReload == Suspends => "unreadable" \notin Faults

LEMMA SmallestOf ==
  ASSUME NEW T, T \subseteq Nat, T # {}
  PROVE  \E m \in T : \A n \in T : m <= n
<1> DEFINE R == {p \in Nat \X Nat : p[1] < p[2]}
<1>1. IsWellFoundedOn(R, Nat)
  BY NatLessThanWellFounded DEF OpToRel
<1> HIDE DEF R
<1>2. PICK m \in T : \A n \in T : <<n, m>> \notin R
  BY <1>1, WFMin
<1>3. \A n \in T : ~(n < m)
  BY <1>2 DEF R
<1> QED BY <1>3

\* is_ups_critical(), upsmon.c:1274: the greatest common divisor it sleeps for
\* exists.
LEMMA OblbPollType == OblbPoll \in 1..POLLFREQALERT
<1> DEFINE Common(d) == Divides(d, POLLFREQALERT) /\ Divides(d, OBLBDURATION)
           T == {n \in Nat : \E d \in 1..POLLFREQALERT :
                                n = POLLFREQALERT - d /\ Common(d)}
<1>1. 1 \in 1..POLLFREQALERT /\ Common(1)
  BY TimesAssumption DEF Divides
<1> HIDE DEF Common
<1>2. POLLFREQALERT - 1 \in T
  BY <1>1, TimesAssumption
<1>3. PICK m \in T : \A n \in T : m <= n
  BY <1>2, SmallestOf
<1>4. PICK d \in 1..POLLFREQALERT : m = POLLFREQALERT - d /\ Common(d)
  BY <1>3
<1>5. \A e \in 1..POLLFREQALERT : Common(e) => e <= d
  <2> SUFFICES ASSUME NEW e \in 1..POLLFREQALERT, Common(e) PROVE e <= d
    OBVIOUS
  <2>1. POLLFREQALERT - e \in T
    BY TimesAssumption
  <2>2. m <= POLLFREQALERT - e
    BY <1>3, <2>1
  <2> HIDE DEF T
  <2> QED BY <1>4, <2>2, TimesAssumption
<1> USE DEF Common
<1> QED BY <1>4, <1>5 DEF OblbPoll

LEMMA SleepvalType == TypeOK => sleepval \in Nat /\ slept \in Nat
BY OblbPollType, TimesAssumption, HorizonAssumption DEF TypeOK, Ages

\* Without suspends the host never seems to have slept: no nap ends late.
NeverSlept ==
  ~Suspends =>
    /\ os = 0 /\ os_seen = 0 /\ sleep_inhibitor_status = -1 /\ pc # "wake"
    /\ pc = "nap" => slept <= sleepval

LEMMA NeverSleptStep ==
  ASSUME TypeOK, NeverSlept, [Next]_vars
  PROVE  NeverSlept'
<1> SUFFICES ASSUME ~Suspends
             PROVE  /\ os' = 0 /\ os_seen' = 0 /\ sleep_inhibitor_status' = -1
                    /\ pc' # "wake" /\ (pc' = "nap" => slept' <= sleepval')
  BY DEF NeverSlept
<1>0. /\ os = 0 /\ os_seen = 0 /\ sleep_inhibitor_status = -1 /\ pc # "wake"
      /\ pc = "nap" => slept <= sleepval
      /\ ~OsChanged /\ sleepval \in Nat /\ slept \in Nat
  BY SleepvalType DEF NeverSlept, OsChanged
<1>1. CASE OsGoesToSleep \/ OsWakesUp \/ AbortCycle \/ Wake
  BY <1>0, <1>1 DEF OsGoesToSleep, OsWakesUp, AbortCycle, Wake
<1>2. CASE Tick
  <2>1. slept' \in {slept, slept + 1} /\ (pc = "nap" => slept < sleepval)
    BY <1>2 DEF Tick, Older
  <2> QED BY <1>0, <1>2, <2>1 DEF Tick, host
<1>3. CASE \E flag \in {"fsd", "reload", "exit"} : Signal(flag)
  BY <1>0, <1>3 DEF Signal, Interrupted, host
<1>4. CASE Quit \/ UserShutdown
  BY <1>0, <1>4 DEF Quit, UserShutdown, host
<1>5. CASE Top
  <2>1. pc' \in {"os", "exited"}
    BY <1>5 DEF Top, reload_conf
  <2> QED BY <1>0, <1>5, <2>1 DEF Top, host
<1>6. CASE CheckSleep \/ Begin
  BY <1>0, <1>6 DEF CheckSleep, LearnSleepStatus, Begin
<1>7. CASE EndDoze
  <2>1. sleep_inhibitor_status' = -1 /\ os' = 0 /\ os_seen' = 0
    BY <1>0, <1>7 DEF EndDoze
  <2>2. pc' \in {"quit", "begin", "exited"}
    BY <1>7, <2>1 DEF EndDoze, reload_conf
  <2> QED BY <2>1, <2>2
<1>8. CASE Poll
  <2>1. UNCHANGED <<pc, slept, host>> /\ pc = "poll"
    BY <1>8
    DEF Poll, PollNotConnected, PollNotAllowed, PollAnswered, PollFailed, PollKeeps, Polls
  <2> QED BY <1>0, <2>1 DEF host
<1>9. CASE recalc
  <2>1. sleepval' \in {sleepval, POLLFREQ, POLLFREQALERT, OblbPoll}
    BY <1>9, SleepType DEF recalc
  <2>2. slept' = 0 /\ 0 <= sleepval'
    BY <1>0, <1>9, <2>1, OblbPollType, TimesAssumption DEF recalc
  <2>3. pc' \in {"force", "nap"} /\ UNCHANGED host
    BY <1>9 DEF recalc
  <2> QED BY <1>0, <2>2, <2>3 DEF host
<1>10. CASE EndNap
  BY <1>0, <1>10 DEF EndNap
<1>11. CASE Shutdown \/ SecondariesGone
  BY <1>0, <1>11
  DEF Shutdown, forceshutdown, SecondariesGone, SyncExpired, EndFinalDelay,
      CallParent, RunShutdown, Linger, host
<1>12. CASE Parent \/ ParentDies
  BY <1>0, <1>12 DEF Parent, ParentRuns, ParentSeesExit, ParentDies, process, host
<1>13. CASE Crash \/ Start
  BY <1>0, <1>13 DEF Crash, Start, host
<1>14. CASE UNCHANGED vars
  BY <1>0, <1>14 DEF vars, process, host
<1> QED
  BY <1>1, <1>2, <1>3, <1>4, <1>5, <1>6, <1>7, <1>8, <1>9, <1>10, <1>11, <1>12,
     <1>13, <1>14
  DEF Next, Child, Environment

SameRole(p, q) == Primary(p) <=> Primary(q)

\* Of all the handlers only redefine_ups() and the wake-up touch the role.
LEMMA RoleKept ==
  ASSUME NEW u \in utype_t
  PROVE  /\ SameRole(Aged(u), u) /\ SameRole(Jumped(u), u)
         /\ SameRole(ups_is_gone(u), u) /\ SameRole(drop_connection(u), u)
         /\ \A granted : SameRole(Connected(u, granted), u)
         /\ SameRole(Judged(Promoted(u)), u)
         /\ \A r : SameRole(parse_status(u, r), u)
<1>1. /\ Aged(u).status = u.status /\ Jumped(u).status = u.status
      /\ ups_is_gone(u).status = u.status
  BY DEF Aged, Jumped, ups_is_gone, utype_t
<1>2. drop_connection(u).status = u.status \ {"LOGIN", "CLICONNECTED"}
  BY DEF drop_connection, utype_t
<1>3. ASSUME NEW granted PROVE SameRole(Connected(u, granted), u)
  BY DEF Connected, utype_t, SameRole, Primary
<1>4. Judged(Promoted(u)).status \in {u.status, u.status \cup {"LB"}}
  <2>1. Promoted(u) \in utype_t
    BY JudgedType
  <2>2. Judged(Promoted(u)).status = Promoted(u).status
    BY <2>1 DEF Judged, utype_t
  <2> QED BY <2>2 DEF Promoted, utype_t
<1>5. ASSUME NEW r PROVE SameRole(parse_status(u, r), u)
  <2> DEFINE s == StatusAfter(Kept(u.status, r), r.words)
  <2>1. CASE r.words = << >>
    BY <1>1, <2>1 DEF parse_status, SameRole, Primary
  <2>2. CASE r.words # << >>
    <3>1. parse_status(u, r).status = s
      BY <2>2 DEF parse_status, ups_is_alive, utype_t
    <3>2. "PRIMARY" \in s <=> "PRIMARY" \in u.status
      BY DEF StatusAfter, Kept, LastLine, LineWords, Toggles
    <3> QED BY <3>1, <3>2 DEF SameRole, Primary
  <2> QED BY <2>1, <2>2
<1> QED BY <1>1, <1>2, <1>3, <1>4, <1>5 DEF SameRole, Primary

LEMMA RoleConfigured ==
  ASSUME NEW pv \in Nat, NEW cred \in Creds, NEW primary \in BOOLEAN
  PROVE  /\ Primary(addups(pv, cred, primary)) <=> primary
         /\ \A u \in utype_t : Primary(redefine_ups(u, pv, cred, primary)) <=> primary
<1>1. Primary(addups(pv, cred, primary)) <=> primary
  BY DEF Primary, addups
<1>2. ASSUME NEW u \in utype_t
      PROVE  Primary(redefine_ups(u, pv, cred, primary)) <=> primary
  <2> DEFINE told == [u EXCEPT !.pv = pv, !.cred = cred]
             again == IF cred # u.cred /\ "LOGIN" \notin u.status
                      THEN drop_connection(told) ELSE told
             more == [again EXCEPT !.status = @ \cup {"PRIMARY"}]
             less == [again EXCEPT !.status = @ \ {"PRIMARY"}]
  <2>1. told \in utype_t /\ told.status = u.status
    BY <1>2 DEF utype_t
  <2>2. again \in utype_t /\ SameRole(again, u)
    BY <2>1, ConnectionType, RoleKept DEF SameRole, Primary
  <2> HIDE DEF again
  <2>3. more \in utype_t /\ Primary(more) /\ ~Primary(less)
    BY <2>2 DEF utype_t, Flags, Primary
  <2>4. Primary(drop_connection(more))
    BY <2>3, RoleKept DEF SameRole
  <2>5. redefine_ups(u, pv, cred, primary) =
          IF primary /\ "PRIMARY" \notin u.status THEN drop_connection(more)
          ELSE IF primary THEN again ELSE less
    BY DEF redefine_ups, again
  <2> QED BY <2>2, <2>3, <2>4, <2>5 DEF SameRole, Primary
<1> QED BY <1>1, <1>2

LEMMA RolesListed ==
  ASSUME NEW c, IsConfig(c), NEW list \in [UPS -> utype_t]
  PROVE  \A u \in DOMAIN c.pv :
            /\ Primary(Reloaded(list, c)[u]) <=> u \in c.primary
            /\ Primary(FirstList(c)[u]) <=> u \in c.primary
<1> SUFFICES ASSUME NEW u \in DOMAIN c.pv
             PROVE  /\ Primary(Reloaded(list, c)[u]) <=> u \in c.primary
                    /\ Primary(FirstList(c)[u]) <=> u \in c.primary
  OBVIOUS
<1> DEFINE primary == u \in c.primary
<1>1. /\ c.pv[u] \in Nat /\ c.cred[u] \in Creds /\ primary \in BOOLEAN
      /\ u \in UPS /\ list[u] \in utype_t
  BY DEF IsConfig
<1>2. /\ Primary(addups(c.pv[u], c.cred[u], primary)) <=> primary
      /\ Primary(redefine_ups(list[u], c.pv[u], c.cred[u], primary)) <=> primary
  BY <1>1, RoleConfigured
<1> QED BY <1>1, <1>2 DEF Reloaded, FirstList

\* loadconfig() over any records sets every role; a reload that cannot open the
\* file leaves the records as they are.
LEMMA RolesReload ==
  ASSUME NEW list \in [UPS -> utype_t], NEW told, NEW then,
         reload_conf(list, told, then)
  PROVE  \/ RoleAsConfigured'
         \/ /\ "unreadable" \in Faults
            /\ ups' = list /\ UNCHANGED <<monitored, conf>>
<1>1. ASSUME NEW c \in Configs \cup {NoConfig}, monitored' = DOMAIN c.pv, conf' = c,
             ups' = Reloaded(list, c)
      PROVE  RoleAsConfigured'
  <2>1. IsConfig(NoConfig)
    BY DEF NoConfig, IsConfig
  <2>2. IsConfig(c)
    BY <2>1
  <2>3. \A u \in DOMAIN c.pv : Primary(Reloaded(list, c)[u]) <=> u \in c.primary
    BY <2>2, RolesListed
  <2> QED BY <1>1, <2>3 DEF RoleAsConfigured, Primary
<1> QED BY <1>1 DEF reload_conf, Retained

\* Records that keep their roles under a configuration that stays.
LEMMA RolesStay ==
  ASSUME RoleAsConfigured, \A u \in monitored : SameRole(ups'[u], ups[u]),
         UNCHANGED <<monitored, conf>>
  PROVE  RoleAsConfigured'
BY DEF RoleAsConfigured, SameRole, Primary

LEMMA RolesPoll ==
  ASSUME TypeOK, RoleAsConfigured, Poll
  PROVE  RoleAsConfigured'
<1> PICK u \in UPS :
       \/ PollNotConnected(u)
       \/ \E granted \in {"none", "login"} : PollNotAllowed(u, granted)
       \/ \E r \in Reports : PollAnswered(u, r)
       \/ \E lost \in BOOLEAN : PollFailed(u, lost)
  BY DEF Poll
<1>0. UNCHANGED <<monitored, conf>> /\ monitored \subseteq UPS
  BY DEF PollNotConnected, PollNotAllowed, PollAnswered, PollFailed, PollKeeps, TypeOK
<1>1. /\ ups[u] \in utype_t /\ Reached(u) \in utype_t
      /\ SameRole(Reached(u), ups[u])
  BY ConnectionType, RoleKept DEF TypeOK, Reached, SameRole
<1>2. PICK v : SameRole(v, ups[u]) /\ ups' = [ups EXCEPT ![u] = v]
  <2>1. CASE PollNotConnected(u)
    BY <1>1, <2>1, RoleKept DEF PollNotConnected
  <2>2. CASE \E granted \in {"none", "login"} : PollNotAllowed(u, granted)
    BY <1>1, <2>2, RoleKept DEF PollNotAllowed
  <2>3. CASE \E r \in Reports : PollAnswered(u, r)
    BY <1>1, <2>3, RoleKept DEF PollAnswered, SameRole
  <2>4. CASE \E lost \in BOOLEAN : PollFailed(u, lost)
    <3>1. /\ SameRole(ups_is_gone(Reached(u)), ups[u])
          /\ SameRole(drop_connection(ups_is_gone(Reached(u))), ups[u])
      BY <1>1, ConnectionType, RoleKept DEF SameRole
    <3> QED BY <2>4, <3>1 DEF PollFailed
  <2> QED BY <2>1, <2>2, <2>3, <2>4
<1>3. \A w \in monitored : SameRole(ups'[w], ups[w])
  BY <1>0, <1>2 DEF TypeOK, SameRole
<1> QED BY <1>0, <1>3, RolesStay

LEMMA RolesStep ==
  ASSUME TypeOK, WakeUpsReload, NeverSlept, RoleAsConfigured, [Next]_vars
  PROVE  RoleAsConfigured'
<1>0. ups \in [UPS -> utype_t] /\ monitored \subseteq UPS
  BY DEF TypeOK
<1>1. CASE OsWakesUp \/ Tick \/ Quit \/ recalc
  <2>1. \A u \in UPS : ups'[u] \in {ups[u], Jumped(ups[u]), Aged(ups[u]),
                                   drop_connection(ups[u]),
                                   Judged(Promoted(ups[u]))}
    BY <1>0, <1>1 DEF OsWakesUp, Tick, Quit, recalc, OnList
  <2>2. UNCHANGED <<monitored, conf>>
    BY <1>1 DEF OsWakesUp, Tick, Quit, recalc, history
  <2>3. \A u \in monitored : SameRole(ups'[u], ups[u])
    BY <1>0, <2>1, RoleKept DEF SameRole
  <2> QED BY <2>2, <2>3, RolesStay
<1>2. CASE Top \/ EndDoze
  <2>1. UNCHANGED <<monitored, ups, conf>> \/ \E then : reload_conf(ups, said, then)
    BY <1>2 DEF Top, EndDoze, StayLoaded
  <2>2. UNCHANGED <<monitored, ups, conf>> \/ RoleAsConfigured'
    BY <1>0, <2>1, RolesReload
  <2> QED BY <2>2 DEF RoleAsConfigured
<1>3. CASE Wake
  <2> PICK list : list = OnList(Awakened)
    OBVIOUS
  <2>1. list \in [UPS -> utype_t]
    BY OnListType
  <2>2. \E told : reload_conf(list, told, "begin")
    BY <1>3 DEF Wake
  <2>3. "unreadable" \notin Faults
    BY <1>3 DEF Wake, NeverSlept, WakeUpsReload
  <2> QED BY <2>1, <2>2, <2>3, RolesReload
<1>4. CASE Start
  <2>1. PICK c \in Configs :
          monitored' = DOMAIN c.pv /\ ups' = FirstList(c) /\ conf' = c
    BY <1>4 DEF Start
  <2>2. \A u \in DOMAIN c.pv : Primary(FirstList(c)[u]) <=> u \in c.primary
    BY <1>0, RolesListed
  <2> QED BY <2>1, <2>2 DEF RoleAsConfigured, Primary
<1>5. CASE UNCHANGED <<monitored, ups, conf>>
  BY <1>5 DEF RoleAsConfigured
<1>6. CASE \/ OsGoesToSleep \/ UserShutdown \/ CheckSleep \/ Begin \/ AbortCycle
           \/ EndNap \/ Shutdown \/ Parent \/ SecondariesGone \/ Crash
           \/ ParentDies \/ \E flag \in {"fsd", "reload", "exit"} : Signal(flag)
  BY <1>5, <1>6
  DEF OsGoesToSleep, UserShutdown, CheckSleep, Begin, AbortCycle, EndNap, Shutdown,
      forceshutdown, SyncExpired, EndFinalDelay, CallParent, RunShutdown, Linger,
      Parent, ParentRuns, ParentSeesExit, SecondariesGone, Crash, ParentDies, Signal,
      history
<1> QED
  BY <1>1, <1>2, <1>3, <1>4, <1>5, <1>6, RolesPoll
  DEF Next, Child, Environment, vars, history

\* addups() and redefine_ups(), upsmon.c:1904 and 1790: whatever reloads, signals
\* and faults come, upsmon is the primary of exactly the UPSes it is configured to
\* be, if no wake-up meets a file it cannot read: that alone forgets the role.
THEOREM RolesAreConfigured ==
  ASSUME WakeUpsReload
  PROVE  Spec => []RoleAsConfigured
<1>1. Init => NeverSlept /\ RoleAsConfigured
  <2> SUFFICES ASSUME NEW c \in Configs, Started(c)
               PROVE  NeverSlept /\ RoleAsConfigured
    BY DEF Init
  <2>1. \A u \in DOMAIN c.pv : Primary(FirstList(c)[u]) <=> u \in c.primary
    <3>1. [u \in UPS |-> NoUps] \in [UPS -> utype_t]
      BY NoUpsType
    <3>2. IsConfig(c)
      OBVIOUS
    <3> QED BY <3>1, <3>2, RolesListed
  <2>2. RoleAsConfigured
    BY <2>1 DEF Started, RoleAsConfigured, Primary
  <2>3. NeverSlept
    BY DEF Started, NeverSlept
  <2> QED BY <2>2, <2>3
<1>2. TypeOK /\ NeverSlept /\ RoleAsConfigured /\ [Next]_vars
        => (NeverSlept /\ RoleAsConfigured)'
  BY NeverSleptStep, RolesStep
<1> QED BY <1>1, <1>2, TypeCorrect, PTL DEF Spec

-----------------------------------------------------------------------------
(* When upsmon shuts its host down, and when it does not. Both theorems     *)
(* rest on Honest: the flags of a record say what was last heard of the     *)
(* UPS, and nothing else, but for LB, which recalc() adds to a UPS silent   *)
(* on battery.                                                              *)

Mirrored == {"FSD", "CAL", "ALARM", "BYPASS", "OFF", "OVER"}

FlagsHonest(p, h) ==
  /\ h.stale => p.status \cap Words = {} /\ h.line = "none" /\ h.woke
  /\ \A w \in Mirrored : w \in p.status => w \in h.words
  /\ ~h.stale => \A w \in Mirrored : w \in h.words => w \in p.status
  /\ ~h.stale => ("OB" \in p.status <=> h.line = "OB")
  /\ ~h.stale /\ "LB" \in h.words => "LB" \in p.status
  /\ "LB" \in p.status => "LB" \in h.words \/ p.lastpoll > DEADTIME

StatesHonest(p, h) ==
  /\ p.bypassstate = 1 => "BYPASS" \in h.words
  /\ p.alarmstate = 1 => "ALARM" \in h.words
  /\ p.overstate = 1 => "OVER" \in h.words
  /\ "OVER" \in h.words => p.oversince # Unset
  /\ p.offstate = 1 => /\ "OFF" \in h.words /\ OFFDURATION >= 0
                       /\ p.offsince >= OFFDURATION \/ h.woke

Honest(p, h) == FlagsHonest(p, h) /\ StatesHonest(p, h)

-----------------------------------------------------------------------------

\* Time only makes what was heard older.
LEMMA HonestClock ==
  ASSUME NEW p \in utype_t, NEW h \in Heard, Honest(p, h)
  PROVE  Honest(Aged(p), h) /\ Honest(Jumped(p), h)
<1> USE DEF Honest, FlagsHonest, StatesHonest
<1>1. Honest(Aged(p), h)
  BY HorizonAssumption, TimesAssumption
  DEF Aged, utype_t, Older, Ages, Stamp, Unset
<1>2. Honest(Jumped(p), h)
  BY HorizonAssumption, TimesAssumption
  DEF Jumped, utype_t, Oldest, Ages, Stamp, Unset
<1> QED BY <1>1, <1>2

\* A record with the same flags of words, states and times is as honest.
LEMMA HonestSame ==
  ASSUME NEW p \in utype_t, NEW q \in utype_t, NEW h \in Heard, Honest(p, h),
         q.status \cap Words = p.status \cap Words, q.lastpoll = p.lastpoll,
         q.offstate = p.offstate, q.bypassstate = p.bypassstate,
         q.alarmstate = p.alarmstate, q.overstate = p.overstate,
         q.offsince = p.offsince, q.oversince = p.oversince
  PROVE  Honest(q, h)
<1>1. \A w \in Words : w \in q.status <=> w \in p.status
  OBVIOUS
<1>2. "OB" \in Words /\ "LB" \in Words /\ Mirrored \subseteq Words
  BY DEF Words, LineWords, Toggles, Mirrored
<1>3. FlagsHonest(q, h)
  BY <1>1, <1>2 DEF Honest, FlagsHonest
<1> QED BY <1>3 DEF Honest, StatesHonest

\* ups_is_gone(), drop_connection(), try_connect() and redefine_ups() leave what
\* a record says alone.
LEMMA HonestConnection ==
  ASSUME NEW p \in utype_t, NEW h \in Heard, Honest(p, h)
  PROVE  /\ Honest(ups_is_gone(p), h) /\ Honest(drop_connection(p), h)
         /\ \A granted : Honest(Connected(p, granted), h)
         /\ \A pv \in Nat, cred \in Creds : \A primary :
               Honest(redefine_ups(p, pv, cred, primary), h)
<1> DEFINE Alike(q) ==
      /\ q.status \cap Words = p.status \cap Words /\ q.lastpoll = p.lastpoll
      /\ q.offstate = p.offstate /\ q.bypassstate = p.bypassstate
      /\ q.alarmstate = p.alarmstate /\ q.overstate = p.overstate
      /\ q.offsince = p.offsince /\ q.oversince = p.oversince
<1>0. \A q \in utype_t : Alike(q) => Honest(q, h)
  BY HonestSame
<1>1. "LOGIN" \notin Words /\ "CLICONNECTED" \notin Words /\ "PRIMARY" \notin Words
  BY DEF Words, LineWords, Toggles
<1>2. Alike(ups_is_gone(p))
  BY DEF ups_is_gone, utype_t
<1>3. \A q \in utype_t : Alike(q) => Alike(drop_connection(q))
  BY <1>1 DEF drop_connection, utype_t
<1>4. ASSUME NEW granted PROVE Alike(Connected(p, granted))
  BY <1>1 DEF Connected, utype_t
<1>5. ASSUME NEW pv \in Nat, NEW cred \in Creds, NEW primary
      PROVE  Alike(redefine_ups(p, pv, cred, primary))
  <2> DEFINE told == [p EXCEPT !.pv = pv, !.cred = cred]
             again == IF cred # p.cred /\ "LOGIN" \notin p.status
                      THEN drop_connection(told) ELSE told
  <2>1. told \in utype_t /\ Alike(told)
    BY DEF utype_t
  <2>2. again \in utype_t /\ Alike(again)
    BY <2>1, <1>3, ConnectionType
  <2> HIDE DEF again
  <2>3. /\ [again EXCEPT !.status = @ \cup {"PRIMARY"}] \in utype_t
        /\ Alike([again EXCEPT !.status = @ \cup {"PRIMARY"}])
    BY <2>2, <1>1 DEF utype_t, Flags
  <2>4. Alike([again EXCEPT !.status = @ \ {"PRIMARY"}])
    BY <2>2, <1>1 DEF utype_t
  <2> USE DEF again
  <2> HIDE DEF Alike
  <2> QED BY <2>2, <2>3, <2>4, <1>3 DEF redefine_ups
<1> HIDE DEF Alike
<1>6. Alike(p)
  BY DEF Alike
<1> QED BY <1>0, <1>2, <1>3, <1>4, <1>5, <1>6, ConnectionType, RedefineType

\* A new record, and one that was woken up, claim nothing.
LEMMA HonestNew ==
  /\ Honest(NoUps, Nothing)
  /\ \A pv, cred, primary : Honest(addups(pv, cred, primary), Nothing)
<1> SUFFICES ASSUME NEW pv, NEW cred, NEW primary
             PROVE  Honest(addups(pv, cred, primary), Nothing)
  BY DEF NoUps
<1> QED
  BY DEF addups, Nothing, Honest, FlagsHonest, StatesHonest, Mirrored

LEMMA HonestAwakened ==
  ASSUME NEW p \in utype_t, NEW h \in Heard, Honest(p, h)
  PROVE  Honest(Awakened(p), Outdated(h))
BY DEF Awakened, Outdated, utype_t, Heard, Honest, FlagsHonest, StatesHonest

\* At most one word is the last of OL and OB.
LEMMA LastLineUnique ==
  ASSUME NEW ws \in Seq(Words), NEW v \in LastLine(ws), NEW w \in LastLine(ws)
  PROVE  v = w
<1>1. PICK i \in DOMAIN ws : ws[i] = v /\ \A j \in DOMAIN ws : j > i => ws[j] \notin LineWords
  BY DEF LastLine
<1>2. PICK k \in DOMAIN ws : ws[k] = w /\ \A j \in DOMAIN ws : j > k => ws[j] \notin LineWords
  BY DEF LastLine
<1>3. v \in LineWords /\ w \in LineWords
  BY DEF LastLine
<1>4. i \in Nat /\ k \in Nat
  OBVIOUS
<1> QED BY <1>1, <1>2, <1>3, <1>4

\* parse_status(), upsmon.c:2729: after a report the record says what it says.
LEMMA HonestAnswer ==
  ASSUME NEW p \in utype_t, NEW h \in Heard, Honest(p, h), NEW r, IsReport(r),
         r.words # << >>
  PROVE  Honest(parse_status(p, r), Hears(h, r))
<1> DEFINE S == Seen(r.words)
           s == StatusAfter(Kept(p.status, r), r.words)
<1>q. PICK q : q = parse_status(p, r)
  OBVIOUS
<1>g. PICK g : g = Hears(h, r)
  OBVIOUS
<1>1. /\ q.status = s /\ q.lastpoll = 0
      /\ q.offstate = OffState(p, r) /\ q.offsince = Since("OFF", p, p.offsince, r)
      /\ q.bypassstate = Raised("BYPASS", p, p.bypassstate, r)
      /\ q.alarmstate = Raised("ALARM", p, p.alarmstate, r)
      /\ q.overstate = Raised("OVER", p, p.overstate, r)
      /\ q.oversince = Since("OVER", p, p.oversince, r)
  BY <1>q DEF parse_status, ups_is_alive, utype_t
<1>2. /\ g.words = S /\ g.line = LineSaid(r.words, h.line) /\ g.stale = FALSE
      /\ g.woke = (h.woke /\ "OFF" \in S)
  BY <1>g DEF Hears
<1>3. \A w \in Mirrored \cup {"LB"} : w \in s <=> w \in S
  BY DEF StatusAfter, Kept, LastLine, LineWords, Toggles, Mirrored
<1>4. "OB" \in s <=> g.line = "OB"
  <2>1. CASE LastLine(r.words) = {}
    <3>1. "OB" \in s <=> "OB" \in p.status
      BY <2>1 DEF StatusAfter, Kept, Toggles
    <3>2. "OB" \in p.status <=> h.line = "OB"
      BY DEF Honest, FlagsHonest, Words, LineWords, Heard
    <3> QED BY <1>2, <2>1, <3>1, <3>2 DEF LineSaid
  <2>2. CASE LastLine(r.words) # {}
    <3>1. g.line \in LastLine(r.words)
      BY <1>2, <2>2 DEF LineSaid
    <3>2. "OB" \in s <=> "OB" \in LastLine(r.words)
      BY <2>2 DEF StatusAfter, LineWords, Toggles
    <3> QED BY <3>1, <3>2, LastLineUnique DEF IsReport
  <2> QED BY <2>1, <2>2
<1>5. FlagsHonest(q, g)
  BY <1>1, <1>2, <1>3, <1>4 DEF FlagsHonest
<1>6. /\ q.bypassstate = 1 => "BYPASS" \in S
      /\ q.alarmstate = 1 => "ALARM" \in S
      /\ q.overstate = 1 => "OVER" \in S
  BY <1>1 DEF Raised
<1>7. "OVER" \in S => q.oversince # Unset
  BY <1>1 DEF Since, Unset
<1>8. q.offstate = 1 => /\ "OFF" \in S /\ OFFDURATION >= 0
                        /\ q.offsince >= OFFDURATION \/ g.woke
  <2> SUFFICES ASSUME q.offstate = 1
               PROVE  /\ "OFF" \in S /\ OFFDURATION >= 0
                      /\ q.offsince >= OFFDURATION \/ g.woke
    OBVIOUS
  <2>1. "OFF" \in S
    BY <1>1 DEF OffState
  <2>2. CASE "OFF" \notin p.status /\ OFFDURATION = 0
    BY <1>1, <2>1, <2>2 DEF Since, Unset
  <2>3. CASE "OFF" \notin p.status /\ OFFDURATION # 0
    <3>1. p.offstate = 1
      BY <1>1, <2>1, <2>3 DEF OffState
    <3>2. "OFF" \in h.words /\ OFFDURATION >= 0 /\ (p.offsince >= OFFDURATION \/ h.woke)
      BY <3>1 DEF Honest, StatesHonest
    <3>3. h.stale /\ h.woke
      BY <2>3, <3>2 DEF Honest, FlagsHonest, Mirrored, Heard
    <3>4. g.woke
      BY <1>2, <2>1, <3>3
    <3> QED BY <2>1, <3>2, <3>4
  <2>4. CASE "OFF" \in p.status
    <3>1. CASE OFFDURATION > 0 /\ p.offsince # Unset /\ p.offsince > OFFDURATION
      BY <1>1, <2>1, <2>4, <3>1, TimesAssumption DEF Since, utype_t, Stamp, Ages, Unset
    <3>2. CASE ~(OFFDURATION > 0 /\ p.offsince # Unset /\ p.offsince > OFFDURATION)
      <4>1. p.offstate = 1
        BY <1>1, <2>1, <2>4, <3>2 DEF OffState
      <4>2. OFFDURATION >= 0 /\ (p.offsince >= OFFDURATION \/ h.woke)
        BY <4>1 DEF Honest, StatesHonest
      <4>3. p.offsince >= OFFDURATION => q.offsince >= OFFDURATION
        BY <1>1, <2>1, <2>4, <4>2, TimesAssumption
        DEF Since, utype_t, Stamp, Ages, Unset
      <4> QED BY <1>2, <2>1, <4>2, <4>3
    <3> QED BY <3>1, <3>2
  <2> QED BY <2>2, <2>3, <2>4
<1>9. StatesHonest(q, g)
  <2>1. g.words = S
    BY <1>2
  <2> QED BY <1>6, <1>7, <1>8, <2>1 DEF StatesHonest
<1> QED BY <1>5, <1>9, <1>q, <1>g DEF Honest

-----------------------------------------------------------------------------
(* What recalc() makes of an honest record.                                *)

\* A UPS taken to be low has been silent for DEADTIME.
LEMMA HonestJudged ==
  ASSUME NEW p \in utype_t, NEW h \in Heard, Honest(p, h)
  PROVE  Honest(Promoted(p), h) /\ Honest(Judged(Promoted(p)), h)
<1>1. Honest(Promoted(p), h)
  <2>1. CASE p.lastpoll > DEADTIME /\ "OB" \in p.status
    <3>1. ~h.stale
      BY <2>1 DEF Honest, FlagsHonest, Words, LineWords
    <3>2. FlagsHonest(Promoted(p), h)
      BY <2>1, <3>1 DEF Promoted, utype_t, Honest, FlagsHonest, Mirrored
    <3> QED BY <3>2 DEF Promoted, utype_t, Honest, StatesHonest
  <2>2. CASE ~(p.lastpoll > DEADTIME /\ "OB" \in p.status)
    BY <2>2 DEF Promoted
  <2> QED BY <2>1, <2>2
<1>2. \A q \in utype_t : Honest(q, h) => Honest(Judged(q), h)
  BY JudgedType, HonestSame DEF Judged, utype_t
<1> QED BY <1>1, <1>2, JudgedType

\* is_ups_critical(), upsmon.c:1274: it finds nothing critical without evidence.
LEMMA CriticalHasEvidence ==
  ASSUME NEW p \in utype_t, NEW h \in Heard, Honest(p, h), is_ups_critical(p)
  PROVE  Evidence(Judged(p), h)
<1> PICK q : q = Judged(p)
  OBVIOUS
<1>1. q \in utype_t
  BY JudgedType
<1>2. /\ q.status = p.status /\ q.commstate = p.commstate
      /\ q.lastpoll = p.lastpoll /\ q.lastnoncrit = p.lastnoncrit
      /\ q.offsince = p.offsince /\ q.oversince = p.oversince
  BY DEF Judged, utype_t
<1>3. CASE "FSD" \in p.status
  BY <1>3 DEF Evidence, Honest, FlagsHonest, Mirrored, Words, Toggles
<1>4. CASE LostAtRisk(p)
  <2>1. AtRiskWhenLost(q, h)
    BY <1>1, <1>2, <1>4, TimesAssumption
    DEF LostAtRisk, AtRiskWhenLost, Honest, FlagsHonest, StatesHonest, Mirrored,
        Words, Toggles, utype_t, Stamp, Ages
  <2> QED BY <1>2, <1>4, <2>1 DEF LostAtRisk, Evidence, Silent
<1>5. CASE OffTooLong(p)
  BY <1>2, <1>5 DEF OffTooLong, Evidence, Honest, StatesHonest
<1>6. CASE ~CriticalAnyway(p)
  <2>1. /\ "OB" \in p.status /\ "LB" \in p.status /\ "CAL" \notin p.status
        /\ OBLBDURATION > 0 => p.oblbsince # Unset /\ p.oblbsince >= OBLBDURATION
        /\ "PRIMARY" \in p.status \/ p.lastnoncrit > HOSTSYNC
    BY <1>6 DEF is_ups_critical, LowOnBattery
  <2>2. ~h.stale
    BY <2>1 DEF Honest, FlagsHonest, Words, LineWords
  <2>3. Failing(q, h)
    BY <1>2, <2>1, <2>2 DEF Failing, Primary, Honest, FlagsHonest, Mirrored
  <2>4. q.oblbsince = p.oblbsince \/ OBLBDURATION <= 0
    BY <2>1, TimesAssumption DEF Judged, StartsOblb, LeavesOblb, LowOnBattery, utype_t
  <2> QED BY <2>1, <2>3, <2>4, TimesAssumption DEF Evidence
<1> QED BY <1>3, <1>4, <1>5, <1>6 DEF CriticalAnyway

\* Evidence does not fade while the host shuts down.
LEMMA EvidenceStays ==
  ASSUME NEW p \in utype_t, NEW h, Evidence(p, h)
  PROVE  Evidence(Aged(p), h) /\ Evidence(Jumped(p), h)
<1> USE TimesAssumption, HorizonAssumption
<1> SUFFICES ASSUME NEW q \in {Aged(p), Jumped(p)} PROVE Evidence(q, h)
  OBVIOUS
<1>1. /\ q.status = p.status /\ q.commstate = p.commstate
      /\ q.lastpoll >= p.lastpoll /\ q.lastnoncrit >= p.lastnoncrit
      /\ q.offsince >= p.offsince /\ q.oversince >= p.oversince
      /\ q.oblbsince >= p.oblbsince
  <2>1. \A t \in Stamp : Older(t) >= t /\ Oldest(t) >= t
    BY DEF Older, Oldest, Stamp, Ages, Unset
  <2>2. \A t \in Ages : t \in Stamp /\ Horizon >= t
    BY DEF Stamp, Ages
  <2>3. CASE q = Aged(p)
    BY <2>1, <2>2, <2>3 DEF Aged, utype_t
  <2>4. CASE q = Jumped(p)
    BY <2>1, <2>2, <2>4 DEF Jumped, utype_t
  <2> QED BY <2>3, <2>4
<1>2. q \in utype_t
  BY ClockType
<1>3. Failing(p, h) => Failing(q, h)
  BY <1>1, <1>2 DEF Failing, Primary, utype_t, Ages
<1>4. Silent(p) /\ AtRiskWhenLost(p, h) => Silent(q) /\ AtRiskWhenLost(q, h)
  BY <1>1, <1>2 DEF AtRiskWhenLost, Silent, utype_t, Stamp, Ages, Unset
<1>5. p.offsince >= OFFDURATION => q.offsince >= OFFDURATION
  BY <1>1, <1>2 DEF utype_t, Stamp, Ages, Unset
<1>6. p.oblbsince >= OBLBDURATION => q.oblbsince >= OBLBDURATION
  BY <1>1, <1>2 DEF utype_t, Stamp, Ages, Unset
<1> QED BY <1>3, <1>4, <1>5, <1>6 DEF Evidence

\* is_ups_critical(), upsmon.c:1274: what is doomed is found critical.
LEMMA DoomedIsCritical ==
  ASSUME NEW p \in utype_t, NEW h \in Heard, Honest(p, h),
         Doomed(Judged(Promoted(p)), h, 0)
  PROVE  is_ups_critical(Promoted(p))
<1> USE TimesAssumption
<1> PICK v : v = Promoted(p)
  OBVIOUS
<1> PICK q : q = Judged(v)
  OBVIOUS
<1>1. v \in utype_t /\ Honest(v, h)
  BY JudgedType, HonestJudged
<1>2. /\ q.status = v.status /\ q.commstate = v.commstate
      /\ q.lastpoll = v.lastpoll /\ q.lastnoncrit = v.lastnoncrit
  BY <1>1 DEF Judged, utype_t
<1>3. ~h.stale
  BY DEF Doomed
<1>4. \A w \in Mirrored : w \in v.status <=> w \in h.words
  BY <1>1, <1>3 DEF Honest, FlagsHonest
<1>5. CASE "FSD" \in h.words
  BY <1>4, <1>5 DEF Mirrored, is_ups_critical, CriticalAnyway
<1>6. CASE Silent(q) /\ "BYPASS" \in h.words
  BY <1>2, <1>4, <1>6
  DEF Mirrored, is_ups_critical, CriticalAnyway, LostAtRisk, Silent
<1>7. CASE Silent(q) /\ "OFF" \in h.words /\ OFFDURATION >= 0
  BY <1>2, <1>4, <1>7
  DEF Mirrored, is_ups_critical, CriticalAnyway, LostAtRisk, Silent
<1>8. CASE /\ h.line = "OB" /\ "CAL" \notin h.words
           /\ "LB" \in h.words \/ q.lastpoll > DEADTIME + 0
           /\ OBLBDURATION <= 0
           /\ Primary(q) \/ q.lastnoncrit > HOSTSYNC + 0
  <2>1. "OB" \in v.status /\ "CAL" \notin v.status
    BY <1>1, <1>3, <1>4, <1>8 DEF Honest, FlagsHonest, Mirrored
  <2>2. "LB" \in v.status
    <3>1. CASE "LB" \in h.words
      BY <1>1, <1>3, <3>1 DEF Honest, FlagsHonest
    <3>2. CASE v.lastpoll > DEADTIME
      <4>1. v.lastpoll = p.lastpoll /\ ("OB" \in p.status <=> "OB" \in v.status)
        BY DEF Promoted, utype_t
      <4> QED BY <2>1, <3>2, <4>1 DEF Promoted, utype_t
    <3> QED BY <1>2, <1>8, <3>1, <3>2
  <2>3. "PRIMARY" \in v.status \/ v.lastnoncrit > HOSTSYNC
    BY <1>2, <1>8 DEF Primary
  <2> QED BY <1>8, <2>1, <2>2, <2>3 DEF is_ups_critical, LowOnBattery
<1> QED BY <1>5, <1>6, <1>7, <1>8 DEF Doomed

\* What was not doomed does not become so by waiting n seconds.
LEMMA DoomIsKnown ==
  ASSUME NEW p \in utype_t, NEW h, NEW n \in Ages
  PROVE  /\ Doomed(Aged(p), h, Older(n)) => Doomed(p, h, n)
         /\ Doomed(Jumped(p), h, Horizon) => Doomed(p, h, n)
<1> USE TimesAssumption, HorizonAssumption
<1>1. Doomed(Aged(p), h, Older(n)) => Doomed(p, h, n)
  <2>1. /\ Aged(p).status = p.status /\ Aged(p).commstate = p.commstate
        /\ Aged(p).lastpoll = Older(p.lastpoll)
        /\ Aged(p).lastnoncrit = Older(p.lastnoncrit)
    BY DEF Aged, utype_t
  <2>2. ASSUME NEW t \in Ages, NEW d \in Nat, Older(t) > d + Older(n)
        PROVE  t > d + n
    BY <2>2 DEF Older, Ages, Unset
  <2>3. p.lastpoll \in Ages /\ p.lastnoncrit \in Ages
    BY DEF utype_t
  <2> QED BY <2>1, <2>2, <2>3 DEF Doomed, Silent, Primary
<1>2. Doomed(Jumped(p), h, Horizon) => Doomed(p, h, n)
  <2>1. /\ Jumped(p).status = p.status /\ Jumped(p).commstate = p.commstate
        /\ Jumped(p).lastpoll = Horizon /\ Jumped(p).lastnoncrit = Horizon
    BY DEF Jumped, utype_t
  <2>2. ~(Horizon > DEADTIME + Horizon) /\ ~(Horizon > HOSTSYNC + Horizon)
    OBVIOUS
  <2>3. CASE "PRIMARY" \in p.status
    BY <2>1, <2>2, <2>3 DEF Doomed, Silent, Primary
  <2>4. CASE "PRIMARY" \notin p.status
    BY <2>1, <2>2, <2>4 DEF Doomed, Silent, Primary
  <2> QED BY <2>3, <2>4
<1> QED BY <1>1, <1>2

-----------------------------------------------------------------------------
(* The whole process.                                                      *)

AllHonest == \A u \in monitored : Honest(ups[u], said[u])

\* reload_conf(), upsmon.c:3413.
LEMMA HonestReload ==
  ASSUME TypeOK, NEW list \in [UPS -> utype_t], NEW told \in [UPS -> Heard],
         NEW then \in Places, reload_conf(list, told, then),
         \A u \in monitored : Honest(list[u], told[u])
  PROVE  AllHonest'
<1>1. CASE ups' = list /\ said' = told /\ UNCHANGED monitored
  BY <1>1 DEF AllHonest
<1>2. ASSUME NEW c \in Configs \cup {NoConfig},
             monitored' = Retained(c), ups' = Reloaded(list, c),
             said' = [u \in UPS |-> IF u \in monitored \cap DOMAIN c.pv
                                     THEN told[u] ELSE Nothing]
      PROVE  AllHonest'
  <2>1. IsConfig(NoConfig)
    BY DEF NoConfig, IsConfig
  <2>2. IsConfig(c)
    BY <2>1, UpsmonAssumption
  <2> SUFFICES ASSUME NEW u \in DOMAIN c.pv PROVE Honest(ups'[u], said'[u])
    BY <1>2 DEF AllHonest, Retained
  <2>3. u \in UPS /\ c.pv[u] \in Nat /\ c.cred[u] \in Creds
    BY <2>2 DEF IsConfig
  <2>4. CASE u \in monitored
    <3>1. ups'[u] = redefine_ups(list[u], c.pv[u], c.cred[u], u \in c.primary)
      BY <1>2, <2>3, <2>4 DEF Reloaded
    <3>2. said'[u] = told[u]
      BY <1>2, <2>3, <2>4
    <3> QED BY <2>3, <2>4, <3>1, <3>2, HonestConnection
  <2>5. CASE u \notin monitored
    <3>1. ups'[u] = addups(c.pv[u], c.cred[u], u \in c.primary)
      BY <1>2, <2>3, <2>5 DEF Reloaded
    <3>2. said'[u] = Nothing
      BY <1>2, <2>3, <2>5
    <3> QED BY <3>1, <3>2, HonestNew
  <2> QED BY <2>4, <2>5
<1> QED BY <1>1, <1>2 DEF reload_conf

LEMMA HonestPoll ==
  ASSUME TypeOK, AllHonest, Poll
  PROVE  AllHonest'
<1> PICK u \in UPS :
       \/ PollNotConnected(u)
       \/ \E granted \in {"none", "login"} : PollNotAllowed(u, granted)
       \/ \E r \in Reports : PollAnswered(u, r)
       \/ \E lost \in BOOLEAN : PollFailed(u, lost)
  BY DEF Poll
<1>0. u \in monitored /\ monitored' = monitored
  BY DEF PollNotConnected, PollNotAllowed, PollAnswered, PollFailed, Polls,
         PollKeeps, TypeOK
<1>1. /\ ups[u] \in utype_t /\ said[u] \in Heard /\ Honest(ups[u], said[u])
      /\ Reached(u) \in utype_t /\ Honest(Reached(u), said[u])
  BY <1>0, ConnectionType, HonestConnection DEF TypeOK, AllHonest, Reached
<1>2. ASSUME NEW v, Honest(v, said[u]), ups' = [ups EXCEPT ![u] = v],
             UNCHANGED said
      PROVE  AllHonest'
  BY <1>0, <1>2 DEF TypeOK, AllHonest
<1>3. CASE PollNotConnected(u)
  BY <1>1, <1>2, <1>3, HonestConnection DEF PollNotConnected
<1>4. CASE \E granted \in {"none", "login"} : PollNotAllowed(u, granted)
  BY <1>1, <1>2, <1>4, HonestConnection DEF PollNotAllowed
<1>5. CASE \E lost \in BOOLEAN : PollFailed(u, lost)
  <2>1. /\ Honest(ups_is_gone(Reached(u)), said[u])
        /\ Honest(drop_connection(ups_is_gone(Reached(u))), said[u])
    BY <1>1, ConnectionType, HonestConnection
  <2> QED BY <1>2, <1>5, <2>1 DEF PollFailed
<1>6. ASSUME NEW r \in Reports, PollAnswered(u, r)
      PROVE  AllHonest'
  <2>1. Honest(parse_status(Reached(u), r), Hears(said[u], r))
    <3>1. CASE r.words = << >>
      BY <1>1, <3>1, HonestConnection DEF parse_status, Hears
    <3>2. CASE r.words # << >>
      BY <1>1, <3>2, HonestAnswer, UpsmonAssumption
    <3> QED BY <3>1, <3>2
  <2>2. /\ ups' = [ups EXCEPT ![u] = parse_status(Reached(u), r)]
        /\ said' = [said EXCEPT ![u] = Hears(said[u], r)]
    BY <1>6 DEF PollAnswered
  <2> QED BY <1>0, <2>1, <2>2 DEF TypeOK, AllHonest
<1> QED BY <1>3, <1>4, <1>5, <1>6

\* No step of the process makes a record lie.
LEMMA HonestStep ==
  ASSUME TypeOK, AllHonest, [Next]_vars
  PROVE  AllHonest'
<1>0. /\ ups \in [UPS -> utype_t] /\ said \in [UPS -> Heard]
      /\ monitored \subseteq UPS
  BY DEF TypeOK
<1>1. CASE UNCHANGED <<monitored, ups, said>>
  BY <1>1 DEF AllHonest
<1>2. CASE OsWakesUp \/ Tick
  <2>1. /\ ups' = OnList(Jumped) \/ ups' = OnList(Aged)
        /\ UNCHANGED <<monitored, said>>
    BY <1>2 DEF OsWakesUp, Tick, history
  <2>2. \A u \in monitored : ups'[u] \in {Jumped(ups[u]), Aged(ups[u])}
    BY <1>0, <2>1 DEF OnList
  <2> QED BY <1>0, <2>1, <2>2, HonestClock DEF AllHonest
<1>3. CASE Quit
  <2>1. \A u \in monitored : ups'[u] = drop_connection(ups[u])
    BY <1>0, <1>3 DEF Quit, OnList
  <2>2. UNCHANGED <<monitored, said>>
    BY <1>3 DEF Quit, history
  <2> QED BY <1>0, <2>1, <2>2, HonestConnection DEF AllHonest
<1>4. CASE Top \/ EndDoze
  <2>1. CASE \E then \in {"os", "begin"} : reload_conf(ups, said, then)
    BY <1>0, <2>1, HonestReload DEF AllHonest, Places
  <2>2. CASE StayLoaded
    BY <1>1, <2>2 DEF StayLoaded
  <2> QED BY <1>4, <2>1, <2>2 DEF Top, EndDoze
<1>5. CASE Wake
  <2> PICK list : list = OnList(Awakened)
    OBVIOUS
  <2> PICK told : told = [u \in UPS |-> Outdated(said[u])]
    OBVIOUS
  <2>1. told \in [UPS -> Heard]
    BY <1>0 DEF Heard, Outdated
  <2>2. list \in [UPS -> utype_t] /\ "begin" \in Places
    BY OnListType DEF Places
  <2>3. reload_conf(list, told, "begin")
    BY <1>5 DEF Wake
  <2>4. ASSUME NEW u \in monitored PROVE Honest(list[u], told[u])
    <3>1. list[u] = Awakened(ups[u]) /\ told[u] = Outdated(said[u])
      BY <1>0 DEF OnList
    <3> QED BY <1>0, <3>1, HonestAwakened DEF AllHonest
  <2> QED BY <2>1, <2>2, <2>3, <2>4, HonestReload
<1>6. CASE recalc
  <2>1. ASSUME NEW u \in monitored PROVE ups'[u] = Judged(Promoted(ups[u]))
    BY <1>0, <1>6 DEF recalc, OnList
  <2>2. UNCHANGED <<monitored, said>>
    BY <1>6 DEF recalc
  <2> QED BY <1>0, <2>1, <2>2, HonestJudged DEF AllHonest
<1>7. CASE Start
  <2>1. PICK c \in Configs :
          monitored' = DOMAIN c.pv /\ ups' = FirstList(c)
    BY <1>7 DEF Start
  <2>2. monitored' \subseteq UPS
    BY <2>1, UpsmonAssumption DEF IsConfig
  <2>3. \A u \in monitored' :
          ups'[u] = addups(c.pv[u], c.cred[u], u \in c.primary)
    BY <2>1, <2>2 DEF FirstList
  <2>4. \A u \in monitored' : said'[u] = Nothing
    BY <1>7, <2>2 DEF Start
  <2> QED BY <2>3, <2>4, HonestNew DEF AllHonest
<1>8. CASE UNCHANGED vars
  BY <1>1, <1>8 DEF vars, history
<1>9. CASE \/ OsGoesToSleep \/ UserShutdown \/ CheckSleep \/ Begin \/ AbortCycle
           \/ EndNap \/ Shutdown \/ Parent \/ SecondariesGone \/ Crash
           \/ ParentDies \/ \E flag \in {"fsd", "reload", "exit"} : Signal(flag)
  BY <1>1, <1>9
  DEF OsGoesToSleep, UserShutdown, CheckSleep, Begin, AbortCycle, EndNap, Shutdown,
      forceshutdown, SyncExpired, EndFinalDelay, CallParent, RunShutdown, Linger,
      Parent, ParentRuns, ParentSeesExit, SecondariesGone, Crash, ParentDies,
      Signal, history
<1> QED
  BY <1>2, <1>3, <1>4, <1>5, <1>6, <1>7, <1>8, <1>9, HonestPoll
  DEF Next, Child, Environment

\* What a shutdown under way still changes: the clocks.
LEMMA ShutdownKeeps ==
  ASSUME TypeOK, [Next]_vars, ShuttingDown, ShuttingDown'
  PROVE  /\ UNCHANGED <<monitored, said, critical, cause>>
         /\ \A u \in UPS : ups'[u] \in {ups[u], Jumped(ups[u]), Aged(ups[u])}
<1>1. CASE OsWakesUp \/ Tick
  <2>1. ups' = OnList(Jumped) \/ ups' = OnList(Aged)
    BY <1>1 DEF OsWakesUp, Tick
  <2> QED BY <1>1, <2>1 DEF OsWakesUp, Tick, history, OnList, TypeOK
<1>2. CASE \/ OsGoesToSleep \/ Shutdown \/ Parent \/ SecondariesGone \/ Crash
           \/ ParentDies \/ \E flag \in {"fsd", "reload", "exit"} : Signal(flag)
  BY <1>2
  DEF OsGoesToSleep, Shutdown, forceshutdown, SyncExpired, EndFinalDelay,
      CallParent, RunShutdown, Linger, Parent, ParentRuns, ParentSeesExit,
      SecondariesGone, Crash, ParentDies, Signal, history
<1>3. CASE Quit \/ UserShutdown \/ Top \/ CheckSleep \/ EndDoze \/ Wake \/ Begin
  BY <1>3
  DEF Quit, UserShutdown, Top, CheckSleep, EndDoze, Wake, Begin, ShuttingDown
<1>4. CASE AbortCycle \/ Poll \/ recalc \/ EndNap \/ Start
  BY <1>4
  DEF AbortCycle, Poll, PollNotConnected, PollNotAllowed, PollAnswered,
      PollFailed, Polls, recalc, EndNap, Start, ShuttingDown
<1>5. CASE UNCHANGED vars
  BY <1>5 DEF vars, history
<1> QED BY <1>1, <1>2, <1>3, <1>4, <1>5 DEF Next, Child, Environment

\* A shutdown begins with recalc() or at the user's command.
LEMMA ShutdownBegins ==
  ASSUME [Next]_vars, ~ShuttingDown, ShuttingDown'
  PROVE  recalc \/ UserShutdown
<1> USE DEF ShuttingDown
<1>1. ~(OsGoesToSleep \/ OsWakesUp \/ Tick \/ Parent \/ ParentDies \/ UNCHANGED vars)
  BY DEF OsGoesToSleep, OsWakesUp, Tick, Parent, ParentRuns, ParentSeesExit,
         ParentDies, process, vars
<1>2. ~\E flag \in {"fsd", "reload", "exit"} : Signal(flag)
  BY DEF Signal, Interrupted
<1>3. ~(Quit \/ CheckSleep \/ Begin \/ AbortCycle \/ EndNap \/ Crash \/ Start)
  BY DEF Quit, CheckSleep, Begin, AbortCycle, EndNap, Crash, Start
<1>4. ~(Top \/ EndDoze \/ Wake)
  BY DEF Top, EndDoze, Wake, reload_conf
<1>5. ~Poll
  BY DEF Poll, PollNotConnected, PollNotAllowed, PollAnswered, PollFailed,
         PollKeeps, Polls
<1>6. ~(Shutdown \/ SecondariesGone)
  BY DEF Shutdown, forceshutdown, SecondariesGone, SyncExpired, EndFinalDelay,
         CallParent, RunShutdown, Linger
<1> QED BY <1>1, <1>2, <1>3, <1>4, <1>5, <1>6 DEF Next, Child, Environment

\* The clocks and the judging do not change what a UPS feeds.
LEMMA PowerStays ==
  ASSUME TypeOK,
         \A u \in UPS : ups'[u] \in {ups[u], Jumped(ups[u]), Aged(ups[u]),
                                     Judged(Promoted(ups[u]))}
  PROVE  Power' = Power
<1> SUFFICES ASSUME NEW u \in UPS PROVE ups'[u].pv = ups[u].pv
  BY DEF Power
<1>1. ups[u] \in utype_t
  BY DEF TypeOK
<1>2. Jumped(ups[u]).pv = ups[u].pv /\ Aged(ups[u]).pv = ups[u].pv
  BY <1>1 DEF Jumped, Aged, utype_t
<1>3. Judged(Promoted(ups[u])).pv = ups[u].pv
  <2>1. Promoted(ups[u]).pv = ups[u].pv
    BY <1>1 DEF Promoted, utype_t
  <2> QED BY <1>1, <2>1, JudgedType DEF Judged, utype_t
<1> QED BY <1>2, <1>3

\* What recalc() decides on.
LEMMA RecalcDecides ==
  ASSUME TypeOK, recalc
  PROVE  /\ UNCHANGED <<monitored, said>> /\ Power' = Power
         /\ \A u \in monitored : ups'[u] = Judged(Promoted(ups[u]))
         /\ critical' = {u \in monitored : is_ups_critical(Promoted(ups[u]))}
         /\ \/ /\ pc' = "force"
               /\ Supply(Power', monitored' \ critical') < MINSUPPLIES
            \/ /\ pc' = "nap" /\ slept' = 0
               /\ ~(Supply(Power', monitored' \ critical') < MINSUPPLIES)
<1> DEFINE crit == {u \in monitored : is_ups_critical(OnList(Promoted)[u])}
<1>0. monitored \subseteq UPS /\ ups \in [UPS -> utype_t]
  BY DEF TypeOK
<1>1. UNCHANGED <<monitored, said>> /\ slept' = 0 /\ critical' = crit
  BY DEF recalc
<1>2. \A u \in UPS : ups'[u] = IF u \in monitored THEN Judged(Promoted(ups[u])) ELSE ups[u]
  BY <1>0 DEF recalc, OnList
<1>3. Power' = Power
  BY <1>2, PowerStays
<1>4. crit = {u \in monitored : is_ups_critical(Promoted(ups[u]))}
  BY <1>0 DEF OnList
<1>5. IF Supply(Power, monitored \ crit) < MINSUPPLIES
      THEN pc' = "force" ELSE pc' = "nap"
  BY DEF recalc, Power
<1> HIDE DEF crit
<1> QED BY <1>0, <1>1, <1>2, <1>3, <1>4, <1>5

LEMMA HonestInit == Init => AllHonest
<1> SUFFICES ASSUME NEW c \in Configs, Started(c), NEW u \in monitored
             PROVE  Honest(ups[u], said[u])
  BY DEF Init, AllHonest
<1>1. u \in DOMAIN c.pv /\ u \in UPS
  BY UpsmonAssumption DEF Started, IsConfig
<1>2. /\ ups[u] = addups(c.pv[u], c.cred[u], u \in c.primary)
      /\ said[u] = Nothing
  BY <1>1 DEF Started, FirstList
<1> QED BY <1>2, HonestNew

\* What a nap still changes.
LEMMA NapKeeps ==
  ASSUME TypeOK, [Next]_vars, pc' = "nap", ~recalc
  PROVE  /\ pc = "nap" /\ UNCHANGED <<monitored, said, critical>>
         /\ \/ UNCHANGED <<ups, slept>>
            \/ ups' = OnList(Jumped) /\ slept' = Horizon
            \/ ups' = OnList(Aged) /\ slept' = Older(slept)
<1>1. CASE OsWakesUp
  BY <1>1 DEF OsWakesUp, Waits, history
<1>2. CASE Tick
  BY <1>2 DEF Tick, history
<1>3. CASE \E flag \in {"fsd", "reload", "exit"} : Signal(flag)
  BY <1>3 DEF Signal, Interrupted, history
<1>4. CASE OsGoesToSleep \/ Parent \/ ParentDies
  BY <1>4
  DEF OsGoesToSleep, Parent, ParentRuns, ParentSeesExit, ParentDies, process, history
<1>5. ~(Quit \/ UserShutdown \/ CheckSleep \/ Begin \/ AbortCycle \/ EndNap \/ Crash \/ Start)
  BY DEF Quit, UserShutdown, CheckSleep, Begin, AbortCycle, EndNap, Crash, Start
<1>6. ~(Top \/ EndDoze \/ Wake)
  BY DEF Top, EndDoze, Wake, reload_conf
<1>7. ~Poll
  BY DEF Poll, PollNotConnected, PollNotAllowed, PollAnswered, PollFailed,
         PollKeeps, Polls
<1>8. ~(Shutdown \/ SecondariesGone)
  BY DEF Shutdown, forceshutdown, SecondariesGone, SyncExpired, EndFinalDelay,
         CallParent, RunShutdown, Linger
<1>9. CASE UNCHANGED vars
  BY <1>9 DEF vars, process, history
<1> QED
  BY <1>1, <1>2, <1>3, <1>4, <1>5, <1>6, <1>7, <1>8, <1>9
  DEF Next, Child, Environment

LEMMA JustifiedStep ==
  ASSUME TypeOK, AllHonest, ShutdownIsJustified, [Next]_vars
  PROVE  ShutdownIsJustified'
<1> SUFFICES ASSUME ShuttingDown', cause' = "power"
             PROVE  /\ \A u \in critical' : Evidence(ups'[u], said'[u])
                    /\ Supply(Power', monitored' \ critical') < MINSUPPLIES
  BY DEF ShutdownIsJustified
<1>0. ups \in [UPS -> utype_t] /\ monitored \subseteq UPS /\ critical \subseteq UPS
  BY DEF TypeOK
<1>1. CASE ShuttingDown
  <2>1. /\ UNCHANGED <<monitored, said, critical, cause>>
        /\ \A u \in UPS : ups'[u] \in {ups[u], Jumped(ups[u]), Aged(ups[u])}
    BY <1>1, ShutdownKeeps
  <2>2. /\ \A u \in critical : Evidence(ups[u], said[u])
        /\ Supply(Power, monitored \ critical) < MINSUPPLIES
    BY <1>1, <2>1 DEF ShutdownIsJustified
  <2>3. Power' = Power
    BY <2>1, PowerStays
  <2>4. \A u \in critical : Evidence(ups'[u], said[u])
    BY <1>0, <2>1, <2>2, EvidenceStays
  <2> QED BY <2>1, <2>2, <2>3, <2>4
<1>2. CASE ~ShuttingDown
  <2>1. recalc
    BY <1>2, ShutdownBegins DEF UserShutdown
  <2>2. pc' # "nap"
    BY DEF ShuttingDown
  <2>3. \A u \in critical' : Evidence(ups'[u], said'[u])
    <3> SUFFICES ASSUME NEW u \in critical' PROVE Evidence(ups'[u], said'[u])
      OBVIOUS
    <3>1. /\ u \in monitored /\ is_ups_critical(Promoted(ups[u]))
          /\ ups'[u] = Judged(Promoted(ups[u])) /\ said' = said
      BY <2>1, RecalcDecides
    <3>2. /\ Promoted(ups[u]) \in utype_t /\ said[u] \in Heard
          /\ Honest(Promoted(ups[u]), said[u])
      BY <1>0, <3>1, JudgedType, HonestJudged DEF TypeOK, AllHonest
    <3> QED BY <3>1, <3>2, CriticalHasEvidence
  <2> QED BY <2>1, <2>2, <2>3, RecalcDecides
<1> QED BY <1>1, <1>2

\* recalc(), upsmon.c:1542: whatever the UPSes answer and the operating system
\* does, a shutdown not asked for by a user follows from what the UPSes it
\* counts out last said and for how long, and from nothing else.
THEOREM Justified == Spec => []ShutdownIsJustified
<1> DEFINE Inv == AllHonest /\ ShutdownIsJustified
<1>1. Init => Inv
  <2>1. Init => ShutdownIsJustified
    BY DEF Init, Started, ShutdownIsJustified, ShuttingDown
  <2> QED BY <2>1, HonestInit
<1>2. TypeOK /\ Inv /\ [Next]_vars => Inv'
  BY HonestStep, JustifiedStep
<1> QED BY TypeCorrect, <1>1, <1>2, PTL DEF Spec

LEMMA NapStep ==
  ASSUME TypeOK, AllHonest, NapIsSafe, [Next]_vars
  PROVE  NapIsSafe'
<1> SUFFICES ASSUME pc' = "nap"
      PROVE  /\ \A u \in monitored' :
                   Doomed(ups'[u], said'[u], slept') => u \in critical'
             /\ ~(Supply(Power', monitored' \ critical') < MINSUPPLIES)
  BY DEF NapIsSafe
<1>0. /\ ups \in [UPS -> utype_t] /\ said \in [UPS -> Heard]
      /\ monitored \subseteq UPS /\ slept \in Ages
  BY DEF TypeOK
<1>1. CASE recalc
  <2>1. ASSUME NEW u \in monitored', Doomed(ups'[u], said'[u], slept')
        PROVE  u \in critical'
    <3>1. /\ u \in monitored /\ ups'[u] = Judged(Promoted(ups[u]))
          /\ said' = said /\ slept' = 0
      BY <1>1, RecalcDecides
    <3>2. is_ups_critical(Promoted(ups[u]))
      BY <1>0, <2>1, <3>1, DoomedIsCritical DEF AllHonest
    <3> QED BY <1>1, <3>1, <3>2, RecalcDecides
  <2> QED BY <1>1, <2>1, RecalcDecides
<1>2. CASE ~recalc
  <2>1. /\ pc = "nap" /\ UNCHANGED <<monitored, said, critical>>
        /\ \/ UNCHANGED <<ups, slept>>
           \/ ups' = OnList(Jumped) /\ slept' = Horizon
           \/ ups' = OnList(Aged) /\ slept' = Older(slept)
    BY <1>2, NapKeeps
  <2>2. /\ \A u \in monitored : Doomed(ups[u], said[u], slept) => u \in critical
        /\ ~(Supply(Power, monitored \ critical) < MINSUPPLIES)
    BY <2>1 DEF NapIsSafe
  <2>3. \A u \in UPS : ups'[u] \in {ups[u], Jumped(ups[u]), Aged(ups[u])}
    BY <1>0, <2>1 DEF OnList
  <2>4. Power' = Power
    BY <2>3, PowerStays
  <2>5. ASSUME NEW u \in monitored, Doomed(ups'[u], said[u], slept')
        PROVE  Doomed(ups[u], said[u], slept)
    <3>1. CASE ups' = OnList(Jumped) /\ slept' = Horizon
      BY <1>0, <2>5, <3>1, DoomIsKnown DEF OnList
    <3>2. CASE ups' = OnList(Aged) /\ slept' = Older(slept)
      BY <1>0, <2>5, <3>2, DoomIsKnown DEF OnList
    <3>3. CASE UNCHANGED <<ups, slept>>
      BY <2>5, <3>3
    <3> QED BY <2>1, <3>1, <3>2, <3>3
  <2> QED BY <2>1, <2>2, <2>4, <2>5
<1> QED BY <1>1, <1>2

\* recalc(), upsmon.c:1542: upsmon never sleeps on a UPS that said it was
\* failing, counting on its power.
THEOREM NapsAreSafe == Spec => []NapIsSafe
<1> DEFINE Inv == AllHonest /\ NapIsSafe
<1>1. Init => Inv
  <2>1. Init => NapIsSafe
    BY DEF Init, Started, NapIsSafe
  <2> QED BY <2>1, HonestInit
<1>2. TypeOK /\ Inv /\ [Next]_vars => Inv'
  BY HonestStep, NapStep
<1> QED BY TypeCorrect, <1>1, <1>2, PTL DEF Spec

===============================================================================
