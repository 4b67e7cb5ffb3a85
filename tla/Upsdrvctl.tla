------------------------------ MODULE Upsdrvctl ------------------------------
(***************************************************************************)
(* upsdrvctl (drivers/upsdrvctl.c), the tool that starts drivers, stops    *)
(* them and has the UPSes cut their power, together with the driver        *)
(* processes of DriverLife.  One action is what the tool does between two  *)
(* system calls the drivers can notice; they run on in between.            *)
(*                                                                         *)
(* Drivers go to the background, upsdrvctl waits for them to do so, the    *)
(* tools are run one after the other; any of them may be interrupted.      *)
(***************************************************************************)
EXTENDS DriverLife, FiniteSetsExt, Sequences

CONSTANTS
  Table,          \* upstable: the UPSes in the order of ups.conf
  sdorder,        \* of each UPS, -1 for "never"
  maxretry,       \* of each UPS: attempts to start it; with 0 it is not started
  maxstartdelay,  \* of each UPS: an alarm interrupts the wait if positive
  Polls,          \* how often it is looked whether a driver has gone: 5
  MaxRuns         \* bound: commands given

ASSUME UpsdrvctlAssumption ==
  /\ Table \in Seq(UPS) /\ UPS = {Table[i] : i \in DOMAIN Table}
  /\ \A i, j \in DOMAIN Table : Table[i] = Table[j] => i = j
  /\ sdorder \in [UPS -> Int] /\ maxretry \in [UPS -> Nat]
  /\ maxstartdelay \in [UPS -> Int] /\ Polls \in Nat \ {0} /\ MaxRuns \in Nat

VARIABLES
  place,      \* what the tool is about to do
  command,    \* "start", "stop" or "shutdown"
  one,        \* the UPS of the command line, or None for all of them
  ups, pass,  \* the pointer into the table and the sdorder it is walked for
  left,       \* attempts or looks that are left
  pid,        \* ups->pid: the process started for it
  exceeded,   \* the UPSes with exceeded_timeout
  exec_error, exec_timeout,
  initial,    \* start_driver()'s copy of both
  runs,       \* commands given so far
  held        \* History: the processes that served when a stop was asked for

tool == <<place, command, one, ups, pass, left, pid, exceeded, exec_error,
          exec_timeout, initial, runs, held>>
vars == <<drivers, tool>>

Resting == {"idle", "done"}
U       == Table[ups]
NULL    == Len(Table) + 1     \* the pointer at the end of the list

Free == {p \in Procs : ~Alive(p) /\ exits[p] = "nobody"}

Targets(c, u) == IF u # None THEN {u}
                 ELSE {v \in UPS : c = "shutdown" => sdorder[v] = 0}
Forks(c, u) == CASE c = "stop"     -> 0
                 [] c = "start"    -> MapThenSumSet(LAMBDA v : maxretry[v], Targets(c, u))
                 [] c = "shutdown" -> Cardinality(Targets(c, u))

Init ==
  /\ InitDrivers
  /\ place = "idle" /\ command = "start" /\ one = None
  /\ ups = NULL /\ pass = 0 /\ left = 0
  /\ pid = [u \in UPS |-> None] /\ exceeded = {}
  /\ exec_error = 0 /\ exec_timeout = 0 /\ initial = <<0, 0>>
  /\ runs = 0 /\ held = {}

\* "upsdrvctl c [u]"; the guard on free processes is a bound of the model.
Run(c, u) ==
  /\ place \in Resting /\ runs < MaxRuns
  /\ Cardinality(Free) >= Forks(c, u)
  /\ command' = c /\ one' = u /\ runs' = runs + 1
  /\ place' = "next" /\ pass' = 0
  /\ ups' = IF u = None THEN 1 ELSE CHOOSE i \in DOMAIN Table : Table[i] = u
  /\ exec_error' = 0 /\ exec_timeout' = 0 /\ exceeded' = {}
  /\ held' = IF c # "stop" THEN {}
             ELSE {p \in Procs : proc[p].at = "run" /\ proc[p].mode = "start"
                                   /\ proc[p].ups \in Targets(c, u) \ overlapped}
  /\ told' = {} /\ came_up' = {}
  /\ UNCHANGED <<left, pid, initial, proc, files, exits, faults, overlapped>>

\* The tool's children are init's once it has ended.
Leaves ==
  /\ exits' = [p \in Procs |-> "nobody"]
  /\ pid' = [u \in UPS |-> None] /\ left' = 0 /\ initial' = <<0, 0>>
  /\ UNCHANGED <<command, one, runs, files, hist>>

-----------------------------------------------------------------------------
(* Walking the table.                                                      *)

\* send_one_driver() returns after the one it was asked for.
Advance ==
  /\ place' = "next" /\ ups' = IF one # None THEN NULL ELSE ups + 1
  /\ left' = 0 /\ initial' = <<0, 0>>
  /\ UNCHANGED <<command, one, pass, runs, held>>

\* Stays with this UPS.
At(p, n) ==
  /\ place' = p /\ left' = n
  /\ UNCHANGED <<command, one, ups, pass, runs, held>>

counts == <<exec_error, exec_timeout>>

\* Of maxretry only negative values are refused.
Meant == /\ place = "next" /\ ups # NULL
         /\ one = None /\ command = "shutdown" => sdorder[U] = pass
         /\ command = "start" => maxretry[U] > 0

\* It is not its turn in this walk, or no attempt is to be made.
Skip ==
  /\ place = "next" /\ ups # NULL /\ ~Meant
  /\ Advance /\ UNCHANGED <<pid, exceeded, counts, drivers>>

maxsdorder == Max({0} \cup {sdorder[u] : u \in UPS})
LastOrder == one = None /\ command = "shutdown" => pass = maxsdorder

\* The walk for the next sdorder begins where the last one ended.
NextOrder ==
  /\ place = "next" /\ ups = NULL /\ ~LastOrder
  /\ pass' = pass + 1
  /\ UNCHANGED <<place, command, one, ups, left, pid, exceeded, counts,
                 initial, runs, held, drivers>>

\* main(): those that exceeded the time are asked for again.  Whoever has ended
\* since is no error, however it ended.
Done ==
  /\ place = "next" /\ ups = NULL /\ LastOrder
  /\ place' = "done"
  /\ LET starting == {u \in exceeded : exits[pid[u]] = "running"} IN
       /\ exec_error' = exec_error + Cardinality(starting)
       /\ exceeded' = starting
  /\ Leaves /\ UNCHANGED <<ups, pass, exec_timeout, held, proc, faults>>

-----------------------------------------------------------------------------
(* start_driver() and shutdown_driver() by forkexec().                     *)

Attempts == IF command = "start" THEN maxretry[U] ELSE 1

forkexec ==
  /\ \/ Meant /\ command \in {"start", "shutdown"}
        /\ At("wait", Attempts - 1) /\ initial' = counts
     \/ place = "exec" /\ At("wait", left - 1) /\ UNCHANGED initial
  /\ \E p \in Free :
       /\ \A q \in Free : p <= q
       /\ Forked(p, U, IF command = "start" THEN "start" ELSE "kill")
       /\ exits' = [q \in Procs |-> IF q = p THEN "running"
                                    ELSE IF q = pid[U] THEN "nobody" ELSE exits[q]]
       /\ pid' = [pid EXCEPT ![U] = p]
  /\ exceeded' = exceeded \ {U}
  /\ UNCHANGED <<counts, files, faults, told, came_up>>

\* waitpid() returns and the child is no more the tool's.
Waited(rc) ==
  /\ place = "wait" /\ exits[pid[U]] = rc
  /\ exits' = [exits EXCEPT ![pid[U]] = "nobody"]
  /\ pid' = [pid EXCEPT ![U] = None]
  /\ UNCHANGED <<exceeded, proc, files, faults, hist>>
Again == IF left > 0 THEN At("exec", left) /\ UNCHANGED initial ELSE Advance

\* Mutations: errors of the UPSes before are forgotten too; any exit is a success;
\* there is no alarm.
ForgetsErrors ==
  /\ Waited("ok") /\ exec_error' = 0 /\ exec_timeout' = 0 /\ Advance
AnyExitIsSuccess ==
  /\ \E rc \in {"ok", "failed"} : Waited(rc)
  /\ exec_error' = initial[1] /\ exec_timeout' = initial[2] /\ Advance
WithoutAlarm == FALSE

\* Status 0: as if the earlier attempts had not been made.
Succeeds ==
  /\ Waited("ok")
  /\ exec_error' = initial[1] /\ exec_timeout' = initial[2] /\ Advance

Fails ==
  /\ Waited("failed")
  /\ exec_error' = exec_error + 1 /\ UNCHANGED exec_timeout /\ Again

\* SIGALRM interrupts waitpid().
waitpid_timeout ==
  /\ place = "wait" /\ maxstartdelay[U] > 0 /\ exits[pid[U]] = "running"
  /\ exec_timeout' = exec_timeout + 1 /\ exceeded' = exceeded \cup {U}
  /\ Again /\ UNCHANGED <<pid, exec_error, drivers>>

-----------------------------------------------------------------------------
(* stop_driver().                                                          *)

\* sendsignalfn() finds a process by the file.
Signals == pidfile[U] \in Procs

Stays == UNCHANGED <<pid, exceeded, initial>>

NoPidFile ==
  /\ Meant /\ command = "stop" /\ pidfile[U] = None
  /\ exec_error' = exec_error + 1
  /\ Advance /\ UNCHANGED <<pid, exceeded, exec_timeout, drivers>>

stop_driver ==
  /\ Meant /\ command = "stop" /\ pidfile[U] # None
  /\ At("term", 0) /\ Stays /\ UNCHANGED <<counts, drivers>>

\* SIGTERM; if that fails, SIGKILL.
Term ==
  /\ place = "term"
  /\ IF Signals
     THEN /\ proc' = [proc EXCEPT ![pidfile[U]].exit_flag = TRUE]
          /\ At("poll", Polls)
     ELSE At("kill", 0) /\ UNCHANGED proc
  /\ Stays /\ UNCHANGED <<counts, files, exits, faults, hist>>

\* The file may name a process again by now; otherwise it is an error.
Kill ==
  /\ place = "kill" /\ Signals
  /\ Killed(pidfile[U], proc) /\ At("poll", Polls)
  /\ Stays /\ UNCHANGED <<counts, faults, hist>>
KillFails ==
  /\ place \in {"kill", "harder"} /\ ~Signals
  /\ exec_error' = exec_error + 1
  /\ Advance /\ UNCHANGED <<pid, exceeded, exec_timeout, drivers>>

HasGone ==
  /\ place = "poll" /\ ~Signals
  /\ Advance /\ UNCHANGED <<pid, exceeded, counts, drivers>>

\* Mutation: one look too many.
LooksOnceMore ==
  /\ place = "poll" /\ Signals
  /\ IF left >= 0 THEN At("poll", left - 1) ELSE At("harder", 0)
  /\ Stays /\ UNCHANGED <<counts, drivers>>

StillThere ==
  /\ place = "poll" /\ Signals
  /\ IF left > 1 THEN At("poll", left - 1) ELSE At("harder", 0)
  /\ Stays /\ UNCHANGED <<counts, drivers>>

\* Mutation: a driver that does not go is left alone.
GivesUp ==
  /\ place = "harder" /\ Signals
  /\ Advance /\ UNCHANGED <<pid, exceeded, counts, drivers>>

\* SIGKILL, and its file is removed for it once it is gone.
KillHarder ==
  /\ place = "harder" /\ Signals
  /\ Killed(pidfile[U], proc) /\ At("gone", 0)
  /\ Stays /\ UNCHANGED <<counts, faults, hist>>
RemoveFile ==
  /\ place = "gone"
  /\ IF Signals
     THEN exec_error' = exec_error + 1 /\ UNCHANGED pidfile
     ELSE pidfile' = [pidfile EXCEPT ![U] = None] /\ UNCHANGED exec_error
  /\ Advance /\ UNCHANGED <<pid, exceeded, exec_timeout, proc, sockfile, exits,
                            faults, hist>>

-----------------------------------------------------------------------------

\* The tool is killed and what it had started goes on; or it is interrupted from the
\* terminal, which tells its drivers too: "-k" has no handler for it.
Interrupted ==
  /\ Fault("interrupt") /\ place \notin Resting
  /\ \E told_too \in {{}, Foreground} :
       proc' = [p \in Procs |->
         CASE p \in told_too /\ proc[p].mode = "kill"  -> Blank
           [] p \in told_too /\ proc[p].mode = "start" -> [proc[p] EXCEPT !.exit_flag = TRUE]
           [] OTHER                                    -> proc[p]]
  /\ place' = "idle" /\ ups' = NULL /\ pass' = 0
  /\ exec_error' = 0 /\ exec_timeout' = 0 /\ exceeded' = {} /\ held' = {}
  /\ Leaves

Tool ==
  \/ Skip \/ NextOrder \/ Done \/ forkexec
  \/ Succeeds \/ Fails \/ waitpid_timeout \/ NoPidFile \/ stop_driver \/ Term
  \/ Kill \/ KillFails \/ HasGone \/ StillThere \/ KillHarder \/ RemoveFile

Command == \E c \in {"start", "stop", "shutdown"}, u \in UPS \cup {None} : Run(c, u)

DriverStep == \E p \in Procs : (Driver(p) \/ Hang(p) \/ Crash(p)) /\ UNCHANGED tool

Next == Tool \/ Command \/ DriverStep \/ Interrupted

Spec == Init /\ [][Next]_vars /\ WF_vars(Tool)

-----------------------------------------------------------------------------
(* What it promises.                                                       *)

Places == {"idle", "next", "exec", "wait", "term", "kill", "poll", "harder", "gone", "done"}
Stations == {"gone", "set", "power", "ask", "pid", "write", "init", "info", "listen",
             "forked", "run", "close", "unlink", "free"}

process_t ==
  [at : Stations, ups : UPS \cup {None}, mode : {"start", "kill"}, tries : Nat,
   exit_flag : BOOLEAN, hung : BOOLEAN, rc : {"ok", "failed"}]

\* The processes and the tool have the shapes main.c and upsdrvctl.c give them.
TypeOK ==
  /\ proc \in [Procs -> process_t]
  /\ pidfile \in [UPS -> {p \in Procs : Alive(p)} \cup {None, Stale}]
  /\ sockfile \in [UPS -> {p \in Procs : Alive(p)} \cup {None, Stale}]
  /\ exits \in [Procs -> {"nobody", "running", "ok", "failed"}]
  /\ told \subseteq UPS /\ came_up \subseteq UPS /\ overlapped \subseteq UPS
  /\ place \in Places /\ command \in {"start", "stop", "shutdown"}
  /\ one \in UPS \cup {None} /\ ups \in 1 .. NULL /\ pass \in Nat /\ left \in Nat
  /\ pid \in [UPS -> Procs \cup {None}] /\ exceeded \subseteq UPS
  /\ exec_error \in Nat /\ exec_timeout \in Nat /\ initial \in Nat \X Nat
  /\ runs \in Nat /\ held \subseteq Procs

Asked == IF one # None THEN {one} ELSE {u \in UPS : command = "shutdown" => sdorder[u] = 0}
Succeeded(c) == place = "done" /\ command = c /\ exec_error = 0

\* Two processes never drive one UPS, however the old instance is displaced, hangs or
\* dies; but for instances that were starting at the same time (main.c: the socket,
\* the PID file).
OneOwner == \A u \in UPS \ overlapped : Cardinality({p \in Of(u) : Owns(p)}) <= 1

\* Once "upsdrvctl stop" has succeeded no driver that served when it was run still
\* has its device: the serial port is free (stop_driver()).
StopReleases ==
  Succeeded("stop") => \A p \in held : Owns(p) => proc[p].ups \in overlapped

\* A shutdown that succeeds in time has had every UPS of the first order cut its
\* power, by the running driver or by a new one (shutdown_driver(), main.c -k).
ShutdownTold == Succeeded("shutdown") /\ exec_timeout = 0 => Asked \subseteq told

\* A start that succeeds in time has brought up every driver it was to try, which a
\* maxretry of 0 excludes: a retry that works forgives that UPS's failures and nobody
\* else's (start_driver()).
Tried == {u \in Asked : maxretry[u] > 0}
StartMeansUp ==
  Succeeded("start") /\ exec_timeout = 0 => Tried \subseteq came_up

\* No command waits for ever for a driver, whatever becomes of the drivers.
Ends == place \notin Resting ~> place \in Resting

\* docs/man/ups.conf.txt: "upsdrvctl shuts down all the 0s, then the 1s, 2s, and so on."
ShutdownReachesAll ==
  Succeeded("shutdown") /\ exec_timeout = 0 /\ one = None =>
    {u \in UPS : sdorder[u] >= 0} \subseteq told

===============================================================================
