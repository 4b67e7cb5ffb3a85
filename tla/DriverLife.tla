------------------------------ MODULE DriverLife ------------------------------
(***************************************************************************)
(* The life of driver processes (main() of drivers/main.c): a new one asks *)
(* the instance it finds on the socket to exit, then signals the one named *)
(* in the PID file, opens the device, forks into the background, serves    *)
(* until it is told to exit and takes its files with it.  "driver -k" asks *)
(* the running instance to cut the power or does it itself.                *)
(*                                                                         *)
(* Abstractions: no clock, every wait may end early or late; a name stands *)
(* for a process, for its PID and, once it is in the background, for the   *)
(* child that goes on; drivers stay neither in the foreground nor          *)
(* synchronous; options and reloading are left out.                        *)
(***************************************************************************)
EXTENDS Integers, FiniteSets

CONSTANTS
  UPS,        \* the sections of ups.conf
  Procs,      \* numbers from 1 for processes; a dead one's is used again
  Asks,       \* how often driver.exit is repeated to an instance that answers
  Terms,      \* how often SIGTERM is sent to the process of the PID file
  Faults,     \* what may go wrong: "crash", "hang", "interrupt" (of upsdrvctl)
  MaxFaults   \* bound: how often it does

None  == 0
Stale == -1

\* A process for each UPS to begin with.
Homes == {h \in [UPS -> Procs] : \A u, v \in UPS : h[u] = h[v] => u = v}

ASSUME DriverLifeAssumption ==
  /\ IsFiniteSet(UPS) /\ None \notin UPS /\ Procs \subseteq Nat \ {0} /\ Homes # {}
  /\ Asks \in Nat /\ Terms \in Nat \ {0} /\ Faults \subseteq {"crash", "hang", "interrupt"}
  /\ MaxFaults \in Nat

VARIABLES
  proc,       \* the processes
  pidfile,    \* of each UPS: the process it names, None, or Stale: a dead one
  sockfile,   \* of each UPS: the process bound to it, None or Stale
  exits,      \* of each process: what waitpid() tells its parent of it: "running",
              \* "ok", "failed"; or "nobody" waits for it
  faults,     \* so many so far
  \* History: the UPSes told to cut the power and those whose driver came up
  \* since upsdrvctl was run; those with two instances starting at once.
  told, came_up, overlapped

drivers == <<proc, pidfile, sockfile, exits, faults, told, came_up, overlapped>>

Blank == [at |-> "gone", ups |-> None, mode |-> "start", tries |-> 0,
          exit_flag |-> FALSE, hung |-> FALSE, rc |-> "ok"]

Alive(p)   == proc[p].at # "gone"
Of(u)      == {p \in Procs : Alive(p) /\ proc[p].ups = u}
Leaving    == {"close", "unlink", "free"}
Starting(p) == Alive(p) /\ (proc[p].mode = "start" => proc[p].at \notin {"run"} \cup Leaving)

\* From upsdrv_initups() to the end of upsdrv_cleanup().
Owns(p) == proc[p].at \in {"info", "listen", "forked", "run", "close"}

Here(p, u, file) == IF file[u] = p THEN Stale ELSE file[u]
Outlived(p, file) == [u \in UPS |-> Here(p, u, file)]

\* Each UPS is served, has a driver that has just gone to the background, a dead
\* driver's files, or nothing.
InitDrivers ==
  LET home == CHOOSE h \in Homes : TRUE IN
  \E found \in [UPS -> {"run", "forked", "dead", "gone"}] :
    LET File(served, dead) == [u \in UPS |-> CASE found[u] \in served -> home[u]
                                               [] found[u] \in dead   -> Stale
                                               [] OTHER               -> None] IN
    /\ pidfile = File({"run"}, {"forked", "dead"})
    /\ sockfile = File({"run", "forked"}, {"dead"})
    /\ proc = [p \in Procs |->
         IF \E u \in UPS : sockfile[u] = p
         THEN LET u == CHOOSE v \in UPS : sockfile[v] = p
              IN  [Blank EXCEPT !.at = found[u], !.ups = u]
         ELSE Blank]
    /\ exits = [p \in Procs |-> "nobody"] /\ faults = 0
    /\ told = {} /\ came_up = {} /\ overlapped = {}

\* "driver -a u", with -k for the mode "kill".
Forked(p, u, mode) ==
  /\ proc' = [proc EXCEPT ![p] = [Blank EXCEPT !.ups = u, !.mode = mode,
                !.at = IF mode = "kill" THEN "set" ELSE "ask"]]
  /\ overlapped' = CASE Of(u) = {}                 -> overlapped \ {u}
                     [] \E q \in Of(u) : Starting(q) -> overlapped \cup {u}
                     [] OTHER                      -> overlapped

\* The process "p" is no more, as "others" has the processes.
Ended(p, others, rc) ==
  /\ proc' = [others EXCEPT ![p] = Blank]
  /\ exits' = [exits EXCEPT ![p] = IF @ = "running" THEN rc ELSE @]

\* It leaves its files behind.
Killed(p, others) ==
  /\ Ended(p, others, "failed")
  /\ pidfile' = Outlived(p, pidfile) /\ sockfile' = Outlived(p, sockfile)

Goes(p, place) == [proc EXCEPT ![p].at = place, ![p].tries = 0]

files   == <<pidfile, sockfile>>
hist    == <<told, came_up, overlapped>>

-----------------------------------------------------------------------------
(* The dialogue with the instance on the socket.                           *)

Server(p)   == sockfile[proc[p].ups]
Connects(p) == Server(p) \in Procs
Answers(q)  == proc[q].at = "run" /\ ~proc[q].hung

\* -k: SET driver.flag.allow_killpower 1.
AllowKillpower(p) ==
  /\ proc[p].at = "set"
  /\ \/ Connects(p) /\ Answers(Server(p)) /\ proc' = Goes(p, "power")
     \/ proc' = Goes(p, "ask")
  /\ UNCHANGED <<files, exits, hist>>

\* -k: INSTCMD driver.killpower.  The answer is waited for without limit and says
\* "handled" whatever the device does; an instance that has come up since refuses.
Killpower(p) ==
  /\ proc[p].at = "power"
  /\ \/ /\ Connects(p) /\ Answers(Server(p))
        /\ told' = told \cup {proc[p].ups}
        /\ Ended(p, [proc EXCEPT ![Server(p)].exit_flag = TRUE], "ok")
        /\ UNCHANGED <<files, came_up, overlapped>>
     \/ /\ Connects(p) => Answers(Server(p))
        /\ proc' = Goes(p, "ask") /\ UNCHANGED <<files, exits, hist>>

\* After each sleep a new instance looks at the flag of its own.
Broken(p) == proc[p].mode = "start" /\ proc[p].exit_flag /\ proc[p].tries > 0

\* INSTCMD driver.exit, answered: repeated until it is not.
AskToExit(p) ==
  /\ proc[p].at = "ask" /\ ~Broken(p)
  /\ Connects(p) /\ Answers(Server(p))
  /\ proc' = [proc EXCEPT
       ![Server(p)].exit_flag = TRUE,
       ![p].tries = IF @ < Asks THEN @ + 1 ELSE 0,
       ![p].at    = IF proc[p].tries < Asks THEN @ ELSE "pid"]
  /\ UNCHANGED <<files, exits, hist>>

\* Nobody there, or no answer in time: it may be read later all the same.
NoAnswer(p) ==
  /\ proc[p].at = "ask" /\ ~Broken(p)
  /\ \/ proc' = Goes(p, "pid")
     \/ /\ Connects(p)
        /\ proc' = [Goes(p, "pid") EXCEPT ![Server(p)].exit_flag = TRUE]
  /\ UNCHANGED <<files, exits, hist>>

\* fatalx(): "Got a break signal"; it has no files yet.
BreakSignal(p) ==
  /\ proc[p].at \in {"ask", "pid"} /\ Broken(p)
  /\ Ended(p, proc, "failed") /\ UNCHANGED <<files, hist>>

-----------------------------------------------------------------------------
(* The PID file of a competing instance, and one's own.                    *)

Named(p) == pidfile[proc[p].ups]

TermDuplicate(p) ==
  /\ proc[p].at = "pid" /\ ~Broken(p) /\ Named(p) \in Procs /\ proc[p].tries < Terms
  /\ proc' = [proc EXCEPT ![Named(p)].exit_flag = TRUE, ![p].tries = @ + 1]
  /\ UNCHANGED <<files, exits, hist>>

\* No file, or a process that cannot be signalled.
NoDuplicate(p) ==
  /\ proc[p].at = "pid" /\ ~Broken(p) /\ Named(p) \notin Procs
  /\ proc' = Goes(p, "write") /\ UNCHANGED <<files, exits, hist>>

\* Mutation: the last resort is left out.
NotKilled(p) ==
  /\ proc[p].at = "pid" /\ ~Broken(p) /\ Named(p) \in Procs /\ proc[p].tries = Terms
  /\ proc' = Goes(p, "write") /\ UNCHANGED <<files, exits, hist>>

\* After the sleep and the look at the flag that the last SIGTERM is followed by.
KillDuplicate(p) ==
  /\ proc[p].at = "pid" /\ ~Broken(p) /\ Named(p) \in Procs /\ proc[p].tries = Terms
  /\ Killed(Named(p), Goes(p, "write")) /\ UNCHANGED hist

\* -k writes no PID file.
writepid(p) ==
  /\ proc[p].at = "write" /\ proc' = Goes(p, "init")
  /\ pidfile' = IF proc[p].mode = "kill" THEN pidfile
                ELSE [pidfile EXCEPT ![proc[p].ups] = p]
  /\ UNCHANGED <<sockfile, exits, hist>>

-----------------------------------------------------------------------------
(* The device, the background and the main loop.                           *)

Works(p) == ~proc[p].hung

upsdrv_initups(p) ==
  /\ proc[p].at = "init" /\ Works(p)
  /\ \/ proc' = Goes(p, "info")
     \/ proc' = [Goes(p, "unlink") EXCEPT ![p].rc = "failed"]
  /\ UNCHANGED <<files, exits, hist>>

\* upsdrv_initinfo() or upsdrv_updateinfo() give up.
InitFails(p) ==
  /\ proc[p].at = "info" /\ Works(p)
  /\ proc' = [Goes(p, "close") EXCEPT ![p].rc = "failed"]
  /\ UNCHANGED <<files, exits, hist>>

\* It takes the socket's name from whoever has it.
dstate_init(p) ==
  /\ proc[p].at = "info" /\ Works(p) /\ proc[p].mode = "start"
  /\ proc' = Goes(p, "listen")
  /\ sockfile' = [sockfile EXCEPT ![proc[p].ups] = p]
  /\ UNCHANGED <<pidfile, exits, hist>>

\* -k: the device is told, with or without success.
forceshutdown(p) ==
  /\ proc[p].at = "info" /\ Works(p) /\ proc[p].mode = "kill"
  /\ \E rc \in {"ok", "failed"} : proc' = [Goes(p, "close") EXCEPT ![p].rc = rc]
  /\ told' = told \cup {proc[p].ups}
  /\ UNCHANGED <<files, exits, came_up, overlapped>>

\* The parent exits; the PID in the file is that of the parent.
background(p) ==
  /\ proc[p].at = "listen" /\ proc' = Goes(p, "forked")
  /\ exits' = [exits EXCEPT ![p] = IF @ = "running" THEN "ok" ELSE @]
  /\ pidfile' = Outlived(p, pidfile)
  /\ came_up' = came_up \cup {proc[p].ups}
  /\ UNCHANGED <<sockfile, told, overlapped>>

writepid_again(p) ==
  /\ proc[p].at = "forked" /\ proc' = Goes(p, "run")
  /\ pidfile' = [pidfile EXCEPT ![proc[p].ups] = p]
  /\ UNCHANGED <<sockfile, exits, hist>>

LeaveLoop(p) ==
  /\ proc[p].at = "run" /\ Works(p) /\ proc[p].exit_flag
  /\ proc' = Goes(p, "close") /\ UNCHANGED <<files, exits, hist>>

exit_upsdrv_cleanup(p) ==
  /\ proc[p].at = "close" /\ Works(p)
  /\ proc' = Goes(p, "unlink") /\ UNCHANGED <<files, exits, hist>>

\* Whoever the PID file names by now.
exit_cleanup(p) ==
  /\ proc[p].at = "unlink" /\ proc' = Goes(p, "free")
  /\ pidfile' = IF proc[p].mode = "kill" THEN pidfile
                ELSE [pidfile EXCEPT ![proc[p].ups] = None]
  /\ UNCHANGED <<sockfile, exits, hist>>

\* Whoever is bound to the socket file by now; a driver that never came up has none.
HasSocket(p) == proc[p].mode = "start" /\ proc[p].rc = "ok"
sock_close(p) ==
  /\ proc[p].at = "free" /\ Ended(p, proc, proc[p].rc)
  /\ sockfile' = IF HasSocket(p) THEN [sockfile EXCEPT ![proc[p].ups] = None]
                                 ELSE sockfile
  /\ UNCHANGED <<pidfile, hist>>

-----------------------------------------------------------------------------

Fault(f) == f \in Faults /\ faults < MaxFaults /\ faults' = faults + 1

\* The device does not let go: only SIGKILL helps.
Hang(p) ==
  /\ Fault("hang") /\ proc[p].at \in {"init", "info", "run", "close"}
  /\ Works(p) /\ proc' = [proc EXCEPT ![p].hung = TRUE]
  /\ UNCHANGED <<files, exits, hist>>

Crash(p) ==
  /\ Fault("crash") /\ Alive(p) /\ Killed(p, proc) /\ UNCHANGED hist

\* The processes of the terminal's foreground job: background() leaves it.
Foreground == {p \in Procs : Alive(p) /\ exits[p] = "running"}

Driver(p) ==
  /\ UNCHANGED faults
  /\ \/ AllowKillpower(p) \/ Killpower(p) \/ AskToExit(p) \/ NoAnswer(p)
     \/ BreakSignal(p) \/ TermDuplicate(p) \/ NoDuplicate(p) \/ KillDuplicate(p)
     \/ writepid(p) \/ upsdrv_initups(p) \/ InitFails(p) \/ dstate_init(p)
     \/ forceshutdown(p) \/ background(p) \/ writepid_again(p) \/ LeaveLoop(p)
     \/ exit_upsdrv_cleanup(p) \/ exit_cleanup(p) \/ sock_close(p)

===============================================================================
