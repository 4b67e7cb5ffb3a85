---------------------------- MODULE UpsdrvctlProofs ----------------------------
(* Theorems about upsdrvctl and the drivers it starts and stops. *)
EXTENDS Upsdrvctl, FiniteSetTheorems, TLAPS

(* The inductive invariants: of the drivers. *)

Settled == {"run"} \cup Leaving

\* A new instance has not yet looked at the PID file...
Early == {"set", "power", "ask", "pid"}

\* ... and counts as an owner from then on until it has removed it.
Past(p) == Alive(p) /\ proc[p].at \notin Early \cup {"free"}

Signed == {"init", "info", "listen", "run", "close", "unlink"}
Bound  == {"listen", "forked", "run", "close", "unlink", "free"}

Lives == \A p \in Procs : Alive(p) =>
  /\ proc[p].ups \in UPS
  /\ proc[p].mode = "kill" => proc[p].at \notin {"listen", "forked", "run"}
  /\ proc[p].rc = "failed" => proc[p].at \in Leaving
  /\ proc[p].at \in {"set", "power"} => proc[p].mode = "kill"

\* A file names a process that will take care of it.
FilesNamed ==
  \A u \in UPS :
    /\ pidfile[u] \in Procs =>
         LET r == proc[pidfile[u]]
         IN r.ups = u /\ r.mode = "start" /\ r.at \in Signed
    /\ sockfile[u] \in Procs =>
         LET r == proc[sockfile[u]]
         IN r.ups = u /\ r.mode = "start" /\ r.rc = "ok" /\ r.at \in Bound

\* One instance starts, one owns the device, and the owner can be found by its file.
Apart ==
  \A u \in UPS \ overlapped : \A p \in Of(u) :
    /\ \A q \in Of(u) \ {p} : ~(Starting(p) /\ Starting(q)) /\ ~(Past(p) /\ Past(q))
    /\ proc[p].mode = "start" /\ proc[p].at \in Signed => pidfile[u] = p

\* What a driver that its parent waits for has done so far.
Child == \A p \in Procs : exits[p] = "running" =>
  /\ Alive(p) /\ proc[p].at \notin {"forked", "run"}
  /\ proc[p].at \in Leaving /\ proc[p].rc = "ok" =>
       proc[p].mode = "kill" /\ proc[p].ups \in told

DriverType ==
  /\ proc \in [Procs -> process_t]
  /\ pidfile \in [UPS -> Procs \cup {None, Stale}]
  /\ sockfile \in [UPS -> Procs \cup {None, Stale}]
  /\ exits \in [Procs -> {"nobody", "running", "ok", "failed"}]
  /\ told \subseteq UPS /\ came_up \subseteq UPS /\ overlapped \subseteq UPS

DInv == DriverType /\ Lives /\ FilesNamed /\ Apart /\ Child

-----------------------------------------------------------------------------
(* What a step does to a process.                                          *)

Same(q) == /\ proc'[q].at = proc[q].at /\ proc'[q].ups = proc[q].ups
           /\ proc'[q].mode = proc[q].mode /\ proc'[q].rc = proc[q].rc

Lasts(q) == Same(q) /\ exits'[q] \in {exits[q], "nobody"}

Dies(q) == proc'[q].at = "gone" /\ exits'[q] # "running"
           /\ \A u \in UPS : pidfile'[u] # q /\ sockfile'[u] # q

Moves(p) ==
  /\ proc[p].at # "gone" /\ proc'[p].at # "gone"
  /\ proc'[p].ups = proc[p].ups /\ proc'[p].mode = proc[p].mode
  /\ proc[p].mode = "kill" => proc'[p].at \notin {"listen", "forked", "run"}
  /\ proc'[p].rc = "failed" => proc'[p].at \in Leaving
  /\ proc'[p].at \in {"set", "power"} => proc[p].mode = "kill"
  /\ Starting(p)' => Starting(p)
  /\ proc[p].at \in Settled =>
       proc'[p].at \in Settled /\ (Owns(p)' => Owns(p))
  /\ proc[p].mode = "start" /\ proc'[p].at \in Signed =>
       pidfile'[proc[p].ups] = p \/ proc[p].ups \in overlapped
  /\ exits'[p] = "running" =>
       /\ exits[p] = "running" /\ proc'[p].at \notin {"forked", "run"}
       /\ proc'[p].at \in Leaving /\ proc'[p].rc = "ok" =>
            proc[p].mode = "kill" /\ proc[p].ups \in told'
  /\ \A u \in UPS :
       /\ pidfile'[u] = p => u = proc[p].ups /\ proc[p].mode = "start" /\ proc'[p].at \in Signed
       /\ sockfile'[u] = p => /\ u = proc[p].ups /\ proc[p].mode = "start"
                              /\ proc'[p].rc = "ok" /\ proc'[p].at \in Bound

\* Who becomes an owner has displaced the other one.
Displaces(p) == Past(p)' => Past(p) \/ proc[p].ups \in overlapped
                  \/ \A q \in Of(proc[p].ups) \ {p} : Past(q) => Dies(q)

\* What happens to the files in a step of p.
FilesKept(p) ==
  \A u \in UPS :
    /\ \/ pidfile'[u] = pidfile[u]
       \/ pidfile'[u] \notin Procs /\ (pidfile[u] \in Procs => Dies(pidfile[u]))
       \/ /\ Moves(p) /\ Past(p) /\ u = proc[p].ups
          /\ pidfile'[u] \in Procs => pidfile'[u] = p
    /\ \/ sockfile'[u] = sockfile[u] \/ sockfile'[u] \notin Procs
       \/ Moves(p) /\ sockfile'[u] = p

GoesOn(p) ==
  /\ \A q \in Procs : Lasts(q) \/ Dies(q) \/ (q = p /\ Moves(p) /\ Displaces(p))
  /\ FilesKept(p) /\ told \subseteq told' /\ UNCHANGED overlapped

LEMMA Drivers ==
  ASSUME DInv, NEW p \in Procs, DriverType', GoesOn(p)
  PROVE  DInv'
<1>1. \A q \in Procs : Lasts(q) \/ Dies(q) \/ (q = p /\ Moves(p) /\ Displaces(p))
  BY DEF GoesOn
<1>2. FilesKept(p) /\ told \subseteq told' /\ UNCHANGED overlapped
  BY DEF GoesOn
<1>3. Lives'
  BY <1>1 DEF Lives, DInv, Lasts, Same, Dies, Moves, Alive
<1>4. FilesNamed'
  <2> SUFFICES ASSUME NEW u \in UPS PROVE
        /\ pidfile'[u] \in Procs =>
             LET r == proc'[pidfile'[u]]
             IN r.ups = u /\ r.mode = "start" /\ r.at \in Signed
        /\ sockfile'[u] \in Procs =>
             LET r == proc'[sockfile'[u]]
             IN r.ups = u /\ r.mode = "start" /\ r.rc = "ok" /\ r.at \in Bound
    BY DEF FilesNamed
  <2>1. ASSUME pidfile'[u] \in Procs
        PROVE  LET r == proc'[pidfile'[u]]
               IN r.ups = u /\ r.mode = "start" /\ r.at \in Signed
    <3> DEFINE q == pidfile'[u]
    <3>1. pidfile[u] = q \/ (q = p /\ Moves(p))
      BY <1>2, <2>1 DEF FilesKept
    <3>2. Lasts(q) \/ (q = p /\ Moves(p))
      BY <1>1, <2>1 DEF Dies
    <3>3. CASE Lasts(q) /\ pidfile[u] = q
      BY <2>1, <3>3 DEF Lasts, Same, DInv, FilesNamed
    <3>4. CASE q = p /\ Moves(p)
      BY <3>4 DEF Moves
    <3> QED BY <3>1, <3>2, <3>3, <3>4
  <2>2. ASSUME sockfile'[u] \in Procs
        PROVE  LET r == proc'[sockfile'[u]]
               IN r.ups = u /\ r.mode = "start" /\ r.rc = "ok" /\ r.at \in Bound
    <3> DEFINE q == sockfile'[u]
    <3>1. sockfile[u] = q \/ (q = p /\ Moves(p))
      BY <1>2, <2>2 DEF FilesKept
    <3>2. Lasts(q) \/ (q = p /\ Moves(p))
      BY <1>1, <2>2 DEF Dies
    <3>3. CASE Lasts(q) /\ sockfile[u] = q
      BY <2>2, <3>3 DEF Lasts, Same, DInv, FilesNamed
    <3>4. CASE q = p /\ Moves(p)
      BY <3>4 DEF Moves
    <3> QED BY <3>1, <3>2, <3>3, <3>4
  <2> QED BY <2>1, <2>2
<1>5. Apart'
  <2> SUFFICES ASSUME NEW u \in UPS \ overlapped, NEW q \in Procs, Alive(q)', proc'[q].ups = u
               PROVE  /\ \A r \in Of(u)' \ {q} : /\ ~(Starting(q)' /\ Starting(r)')
                                                /\ ~(Past(q)' /\ Past(r)')
                      /\ proc'[q].mode = "start" /\ proc'[q].at \in Signed => pidfile'[u] = q
    BY <1>2 DEF Apart, Of
  <2>1. \A r \in Procs : Alive(r)' => Lasts(r) \/ (r = p /\ Moves(p) /\ Displaces(p))
    BY <1>1 DEF Dies, Alive
  <2>2. \A r \in Procs : Alive(r)' =>
          /\ Alive(r) /\ proc'[r].ups = proc[r].ups /\ proc'[r].mode = proc[r].mode
          /\ Starting(r)' => Starting(r)
          /\ Past(r)' /\ ~Past(r) => r = p /\ Displaces(p)
    BY <2>1 DEF Lasts, Same, Moves, Alive, Starting, Past
  <2>3. ASSUME NEW r \in Of(u)', r # q
        PROVE  ~(Starting(q)' /\ Starting(r)') /\ ~(Past(q)' /\ Past(r)')
    <3>1. r \in Procs /\ Alive(r)' /\ r \in Of(u) /\ q \in Of(u)
      BY <2>2, <2>3 DEF Of
    <3>2. ~(Starting(q) /\ Starting(r)) /\ ~(Past(q) /\ Past(r))
      BY <3>1, <2>3 DEF DInv, Apart
    <3>3. ASSUME Past(q)', Past(r)' PROVE FALSE
      <4>1. CASE r = p
        <5>1. ~Dies(q) /\ Past(q) /\ ~Past(p) /\ Displaces(p)
          BY <2>2, <2>3, <3>1, <3>2, <3>3, <4>1 DEF Dies, Alive
        <5> QED BY <2>3, <3>1, <3>3, <4>1, <5>1 DEF Displaces, Of
      <4>2. CASE q = p
        <5>1. ~Dies(r) /\ Past(r) /\ ~Past(p) /\ Displaces(p)
          BY <2>2, <2>3, <3>1, <3>2, <3>3, <4>2 DEF Dies, Alive
        <5> QED BY <2>3, <3>1, <3>3, <4>2, <5>1 DEF Displaces, Of
      <4> QED BY <2>2, <3>1, <3>2, <3>3, <4>1, <4>2
    <3> QED BY <2>2, <3>1, <3>2, <3>3
  <2>4. ASSUME proc'[q].mode = "start", proc'[q].at \in Signed PROVE pidfile'[u] = q
    <3>1. q \in Of(u)
      BY <2>2 DEF Of
    <3>2. CASE Lasts(q)
      <4>1. pidfile[u] = q /\ Past(q)
        BY <3>1, <3>2, <2>4 DEF DInv, Apart, Lasts, Same, Past, Signed, Early, Alive
      <4>2. ~Dies(q)
        BY DEF Dies, Alive
      <4>3. CASE Moves(p) /\ Past(p) /\ u = proc[p].ups
        <5>1. p \in Of(u)
          BY <4>3 DEF Of, Past
        <5>2. p = q
          BY <3>1, <4>1, <4>3, <5>1 DEF DInv, Apart
        <5> QED BY <2>4, <4>3, <5>2 DEF Moves
      <4> QED BY <1>2, <4>1, <4>2, <4>3 DEF FilesKept
    <3>3. CASE q = p /\ Moves(p)
      BY <2>4, <3>3 DEF Moves
    <3> QED BY <2>1, <3>2, <3>3
  <2> QED BY <2>3, <2>4
<1>6. Child'
  <2> SUFFICES ASSUME NEW q \in Procs, exits'[q] = "running"
               PROVE  /\ Alive(q)' /\ proc'[q].at \notin {"forked", "run"}
                      /\ proc'[q].at \in Leaving /\ proc'[q].rc = "ok" =>
                           proc'[q].mode = "kill" /\ proc'[q].ups \in told'
    BY DEF Child
  <2>1. Lasts(q) \/ (q = p /\ Moves(p))
    BY <1>1 DEF Dies
  <2>2. CASE Lasts(q)
    BY <1>2, <2>2 DEF Lasts, Same, DInv, Child, Alive
  <2>3. CASE q = p /\ Moves(p)
    BY <2>3 DEF Moves, Alive
  <2> QED BY <2>1, <2>2, <2>3
<1> QED BY <1>3, <1>4, <1>5, <1>6 DEF DInv

-----------------------------------------------------------------------------
(* The steps of a driver.                                                  *)

\* What waitpid() tells of a driver that has ended or gone to the background.
Answered ==
  \A q \in Procs :
    \/ exits'[q] = exits[q]
    \/ /\ exits[q] = "running"
       /\ \/ exits'[q] = "failed"
          \/ exits'[q] = "ok" /\ proc[q].ups \in IF proc[q].mode = "start" THEN came_up' ELSE told'

DriverGoesOn(p) == DriverType' /\ GoesOn(p) /\ Answered /\ came_up \subseteq came_up'

\* p goes to the place y with the exit code c, and the other processes stay.
Shifts(p, y, c) ==
  /\ proc' \in [Procs -> process_t] /\ \A q \in Procs \ {p} : Same(q)
  /\ proc'[p].at = y /\ proc'[p].rc = c
  /\ proc'[p].ups = proc[p].ups /\ proc'[p].mode = proc[p].mode

\* It goes from one place to another, and the files stay.
LEMMA Passes ==
  ASSUME DInv, NEW p \in Procs, NEW y \in Stations \ {"gone"}, NEW c, Shifts(p, y, c),
         proc[p].at # "gone",
         UNCHANGED <<files, exits, came_up, overlapped>>, told \subseteq told', told' \subseteq UPS,
         proc[p].mode = "kill" => y \notin {"listen", "forked", "run"},
         c = "failed" => y \in Leaving,
         y \in {"set", "power"} => proc[p].mode = "kill",
         Starting(p)' => Starting(p),
         proc[p].at \in Settled => y \in Settled /\ (Owns(p)' => Owns(p)),
         proc[p].at \in Signed <=> y \in Signed,
         proc[p].at \in Bound => y \in Bound /\ c = proc[p].rc,
         exits[p] = "running" =>
           /\ y \notin {"forked", "run"}
           /\ y \in Leaving /\ c = "ok" => proc[p].mode = "kill" /\ proc[p].ups \in told',
         Displaces(p)
  PROVE  DriverGoesOn(p)
<1>1. DriverType' /\ Answered /\ came_up \subseteq came_up'
  BY DEF DInv, DriverType, Answered, files, Shifts
<1>2. \A q \in Procs \ {p} : Lasts(q)
  BY DEF Lasts, Shifts
<1>3. FilesKept(p)
  BY DEF FilesKept, files
<1>4. \A u \in UPS :
        /\ pidfile'[u] = p => u = proc[p].ups /\ proc[p].mode = "start" /\ proc'[p].at \in Signed
        /\ sockfile'[u] = p => /\ u = proc[p].ups /\ proc[p].mode = "start"
                               /\ proc'[p].rc = "ok" /\ proc'[p].at \in Bound
  BY DEF DInv, FilesNamed, files, Shifts
<1>5. proc[p].mode = "start" /\ proc'[p].at \in Signed =>
        pidfile'[proc[p].ups] = p \/ proc[p].ups \in overlapped
  <2>1. proc[p].ups \in UPS /\ p \in Of(proc[p].ups)
    BY DEF DInv, Lives, Of, Alive
  <2> QED BY <2>1 DEF DInv, Apart, files, Shifts
<1>6. Moves(p)
  BY <1>4, <1>5 DEF Moves, Shifts
<1> QED BY <1>1, <1>2, <1>3, <1>6 DEF DriverGoesOn, GoesOn

\* Between two places before the PID file is looked at.
LEMMA PassesEarly ==
  ASSUME DInv, NEW p \in Procs, NEW y \in Early, proc[p].at \in Early,
         Shifts(p, y, proc[p].rc), y \in {"set", "power"} => proc[p].mode = "kill",
         UNCHANGED <<files, exits, hist>>
  PROVE  DriverGoesOn(p)
<1>1. proc[p].rc # "failed" /\ y \in Stations \ {"gone"}
  BY DEF DInv, Lives, Alive, Early, Leaving, Stations
<1>2. Displaces(p) /\ UNCHANGED <<told, came_up, overlapped>> /\ told \subseteq UPS
  BY DEF Displaces, Past, hist, DInv, DriverType, Shifts, Early
<1> QED BY <1>1, <1>2, Passes
        DEF Early, Leaving, Starting, Settled, Signed, Bound, Owns, Alive, Shifts

\* Nobody goes anywhere.
LEMMA Remains ==
  ASSUME DInv, NEW p \in Procs, proc' \in [Procs -> process_t], \A q \in Procs : Same(q),
         UNCHANGED <<files, exits, hist>>
  PROVE  DriverGoesOn(p)
BY DEF DriverGoesOn, GoesOn, Lasts, FilesKept, Answered, DInv, DriverType, files, hist

-----------------------------------------------------------------------------
(* What becomes of the records of the processes.                           *)

Like(r, s) == r \in process_t /\ r.at = s.at /\ r.ups = s.ups /\ r.mode = s.mode /\ r.rc = s.rc

LEMMA FlagSet ==
  ASSUME NEW f \in [Procs -> process_t], NEW q \in Procs, NEW b \in BOOLEAN, NEW t \in Nat
  PROVE  /\ [f EXCEPT ![q].exit_flag = b] \in [Procs -> process_t]
         /\ [f EXCEPT ![q].hung = b] \in [Procs -> process_t]
         /\ [f EXCEPT ![q].tries = t] \in [Procs -> process_t]
         /\ \A r \in Procs :
              /\ Like([f EXCEPT ![q].exit_flag = b][r], f[r])
              /\ Like([f EXCEPT ![q].hung = b][r], f[r])
              /\ Like([f EXCEPT ![q].tries = t][r], f[r])
BY DEF process_t, Like

LEMMA PlaceSet ==
  ASSUME NEW f \in [Procs -> process_t], NEW q \in Procs, NEW y \in Stations
  PROVE  /\ [f EXCEPT ![q].at = y] \in [Procs -> process_t]
         /\ \A r \in Procs \ {q} : [f EXCEPT ![q].at = y][r] = f[r]
         /\ [f EXCEPT ![q].at = y][q].at = y
         /\ [f EXCEPT ![q].at = y][q].ups = f[q].ups
         /\ [f EXCEPT ![q].at = y][q].mode = f[q].mode
         /\ [f EXCEPT ![q].at = y][q].rc = f[q].rc
BY DEF process_t

LEMMA GoesTo ==
  ASSUME proc \in [Procs -> process_t], NEW p \in Procs, NEW y \in Stations
  PROVE  /\ Goes(p, y) \in [Procs -> process_t]
         /\ \A q \in Procs \ {p} : Goes(p, y)[q] = proc[q]
         /\ Goes(p, y)[p].at = y /\ Goes(p, y)[p].ups = proc[p].ups
         /\ Goes(p, y)[p].mode = proc[p].mode /\ Goes(p, y)[p].rc = proc[p].rc
BY DEF Goes, process_t

LEMMA Gone ==
  ASSUME proc \in [Procs -> process_t], NEW p \in Procs, NEW y \in Stations, proc' = Goes(p, y)
  PROVE  Shifts(p, y, proc[p].rc)
BY GoesTo DEF Shifts, Same

LEMMA GoneWith ==
  ASSUME proc \in [Procs -> process_t], NEW p \in Procs, NEW y \in Stations,
         NEW c \in {"ok", "failed"}
  PROVE  proc' = [Goes(p, y) EXCEPT ![p].rc = c] => Shifts(p, y, c)
<1> DEFINE f == Goes(p, y)
           g == [f EXCEPT ![p].rc = c]
<1>1. /\ f \in [Procs -> process_t] /\ \A q \in Procs \ {p} : f[q] = proc[q]
      /\ f[p].at = y /\ f[p].ups = proc[p].ups /\ f[p].mode = proc[p].mode
  BY GoesTo
<1>2. /\ g \in [Procs -> process_t] /\ \A q \in Procs \ {p} : g[q] = f[q]
      /\ g[p].rc = c /\ g[p].at = f[p].at /\ g[p].ups = f[p].ups /\ g[p].mode = f[p].mode
  <2> HIDE DEF f
  <2> QED BY <1>1 DEF process_t
<1>3. proc' = g => Shifts(p, y, c)
  <2> HIDE DEF f, g
  <2> QED BY <1>1, <1>2 DEF Shifts, Same
<1> QED BY <1>3

-----------------------------------------------------------------------------
(* The dialogue with the old instance.                                     *)

\* The flag of s is raised, and p counts it or goes to the place y.
Counts(p, s, b, y) ==
  proc' = [proc EXCEPT ![s].exit_flag = TRUE, ![p].tries = IF b THEN @ + 1 ELSE 0,
                       ![p].at = IF b THEN @ ELSE y]

LEMMA Asking ==
  ASSUME proc \in [Procs -> process_t], NEW p \in Procs, NEW s \in Procs \ {p},
         NEW b \in BOOLEAN, NEW z \in Stations, Counts(p, s, b, z)
  PROVE  Shifts(p, IF b THEN proc[p].at ELSE z, proc[p].rc)
<1> DEFINE t == IF b THEN proc[p].tries + 1 ELSE 0
           y == IF b THEN proc[p].at ELSE z
           f == [proc EXCEPT ![s].exit_flag = TRUE]
           g == [f EXCEPT ![p].tries = t]
<1>1. t \in Nat /\ y \in Stations
  BY DEF process_t
<1>2. f \in [Procs -> process_t] /\ (\A r \in Procs : Like(f[r], proc[r])) /\ f[p] = proc[p]
  BY FlagSet
<1>3. g \in [Procs -> process_t] /\ \A r \in Procs : Like(g[r], f[r])
  <2> HIDE DEF f, t
  <2> QED BY <1>1, <1>2, FlagSet
<1>4. proc' = [g EXCEPT ![p].at = y]
  <2>1. proc' = [[f EXCEPT ![p].tries = IF b THEN @ + 1 ELSE 0]
                  EXCEPT ![p].at = IF b THEN @ ELSE z]
    BY DEF Counts
  <2>2. [f EXCEPT ![p].tries = IF b THEN @ + 1 ELSE 0] = g
    BY <1>2
  <2>3. g[p].at = proc[p].at
    BY <1>2, <1>3 DEF Like
  <2>4. proc' = [g EXCEPT ![p].at = IF b THEN @ ELSE z]
    <3> HIDE DEF g
    <3> QED BY <2>1, <2>2
  <2> HIDE DEF g, f
  <2> QED BY <2>3, <2>4
<1> HIDE DEF f, g, t, y
<1>5. proc' \in [Procs -> process_t] /\ \A q \in Procs \ {p} : proc'[q] = g[q]
  BY <1>1, <1>3, <1>4, PlaceSet
<1>6. /\ proc'[p].at = y /\ proc'[p].ups = g[p].ups /\ proc'[p].mode = g[p].mode
      /\ proc'[p].rc = g[p].rc
  BY <1>1, <1>3, <1>4, PlaceSet
<1>7. Shifts(p, y, proc[p].rc)
  BY <1>2, <1>3, <1>5, <1>6 DEF Shifts, Same, Like
<1> QED BY <1>7 DEF y

LEMMA GoesEarly ==
  ASSUME DInv, NEW p \in Procs,
         AllowKillpower(p) \/ AskToExit(p) \/ NoAnswer(p) \/ TermDuplicate(p)
  PROVE  DriverGoesOn(p)
<1>0. /\ proc \in [Procs -> process_t] /\ {"power", "ask", "pid"} \subseteq Stations \cap Early
      /\ Asks \in Nat
  BY DriverLifeAssumption DEF DInv, DriverType, Stations, Early
<1>1. CASE AllowKillpower(p)
  <2>1. proc[p].at = "set" /\ proc[p].mode = "kill" /\ UNCHANGED <<files, exits, hist>>
    BY <1>1 DEF AllowKillpower, DInv, Lives, Alive
  <2>2. PICK y \in {"power", "ask"} : proc' = Goes(p, y)
    BY <1>1 DEF AllowKillpower
  <2>3. Shifts(p, y, proc[p].rc)
    BY <1>0, <2>2, Gone
  <2> QED BY <1>0, <2>1, <2>3, PassesEarly DEF Early
<1>2. CASE AskToExit(p)
  <2>1. Server(p) \in Procs \ {p} /\ proc[p].at = "ask" /\ UNCHANGED <<files, exits, hist>>
    BY <1>2 DEF AskToExit, Connects, Answers
  <2>2. Counts(p, Server(p), proc[p].tries < Asks, "pid")
    BY <1>2 DEF AskToExit, Counts
  <2>3. \A b \in BOOLEAN : Counts(p, Server(p), b, "pid") =>
          Shifts(p, "ask", proc[p].rc) \/ Shifts(p, "pid", proc[p].rc)
    BY <1>0, <2>1, Asking
  <2>4. Shifts(p, "ask", proc[p].rc) \/ Shifts(p, "pid", proc[p].rc)
    <3> DEFINE b == proc[p].tries < Asks
    <3>1. b \in BOOLEAN
      OBVIOUS
    <3> HIDE DEF b
    <3> QED BY <2>2, <2>3, <3>1, Zenon DEF b
  <2> QED BY <1>0, <2>1, <2>4, PassesEarly
<1>3. CASE NoAnswer(p)
  <2>1. proc[p].at = "ask" /\ UNCHANGED <<files, exits, hist>>
    BY <1>3 DEF NoAnswer
  <2>2. CASE proc' = Goes(p, "pid")
    BY <1>0, <2>1, <2>2, Gone, PassesEarly
  <2>3. CASE Connects(p) /\ proc' = [Goes(p, "pid") EXCEPT ![Server(p)].exit_flag = TRUE]
    <3> DEFINE f == Goes(p, "pid")
               s == Server(p)
    <3>1. s \in Procs
      BY <2>3 DEF Connects
    <3>2. /\ f \in [Procs -> process_t] /\ f[p].at = "pid" /\ f[p].ups = proc[p].ups
          /\ f[p].mode = proc[p].mode /\ f[p].rc = proc[p].rc
          /\ \A q \in Procs \ {p} : f[q] = proc[q]
      BY <1>0, GoesTo
    <3>3. proc' = [f EXCEPT ![s].exit_flag = TRUE]
      BY <2>3
    <3> HIDE DEF f, s
    <3>4. proc' \in [Procs -> process_t] /\ \A r \in Procs : Like(proc'[r], f[r])
      BY <3>1, <3>2, <3>3, FlagSet
    <3>5. Shifts(p, "pid", proc[p].rc)
      BY <3>2, <3>4 DEF Shifts, Same, Like
    <3> QED BY <1>0, <2>1, <3>5, PassesEarly
  <2> QED BY <1>3, <2>2, <2>3 DEF NoAnswer
<1>4. CASE TermDuplicate(p)
  <2>1. Named(p) \in Procs \ {p} /\ proc[p].at = "pid" /\ UNCHANGED <<files, exits, hist>>
    BY <1>4 DEF TermDuplicate, Named, DInv, FilesNamed, Lives, Alive, Signed
  <2> DEFINE s == Named(p)
             t == proc[p].tries + 1
             f == [proc EXCEPT ![s].exit_flag = TRUE]
  <2>2. proc' = [f EXCEPT ![p].tries = @ + 1]
    BY <1>4 DEF TermDuplicate
  <2>3. s \in Procs \ {p} /\ t \in Nat
    BY <1>0, <2>1 DEF process_t
  <2>4. f[p] = proc[p]
    BY <2>3
  <2>5. proc' = [f EXCEPT ![p].tries = t]
    BY <2>2, <2>4
  <2> HIDE DEF s, t
  <2>6. f \in [Procs -> process_t] /\ \A r \in Procs : Like(f[r], proc[r])
    BY <1>0, <2>3, FlagSet
  <2> HIDE DEF f
  <2>7. proc' \in [Procs -> process_t] /\ \A r \in Procs : Like(proc'[r], f[r])
    BY <2>3, <2>5, <2>6, FlagSet
  <2>8. \A q \in Procs : Same(q)
    BY <2>6, <2>7 DEF Like, Same
  <2> QED BY <2>1, <2>7, <2>8, Remains
<1> QED BY <1>1, <1>2, <1>3, <1>4

-----------------------------------------------------------------------------
(* A driver takes over.                                                    *)

\* Whoever else is past the PID file is the one it names.
LEMMA OldOwner ==
  ASSUME DInv, NEW p \in Procs, proc[p].at = "pid",
         proc[p].ups \notin overlapped, NEW q \in Of(proc[p].ups) \ {p}, Past(q)
  PROVE  Named(p) = q
<1>1. proc[p].ups \in UPS \ overlapped /\ p \in Of(proc[p].ups) /\ Starting(p)
  BY DEF DInv, Lives, Of, Alive, Starting, Leaving
<1>2. ~Starting(q) /\ Alive(q)
  BY <1>1 DEF DInv, Apart, Of
<1>3. proc[q].mode = "start" /\ proc[q].at \in {"run"} \cup Leaving
  BY <1>2 DEF Starting, DInv, DriverType, process_t
<1>4. proc[q].at \in Signed
  BY <1>3 DEF Past, Leaving, Signed
<1> QED BY <1>1, <1>3, <1>4 DEF DInv, Apart, Named

LEMMA Unopposed ==
  ASSUME DInv, NEW p \in Procs, NoDuplicate(p)
  PROVE  DriverGoesOn(p)
<1>1. /\ proc[p].at = "pid" /\ Named(p) \notin Procs
      /\ proc' = Goes(p, "write") /\ UNCHANGED <<files, exits, hist>>
  BY DEF NoDuplicate
<1>2. proc[p].rc # "failed" /\ proc \in [Procs -> process_t] /\ "write" \in Stations \ {"gone"}
  BY <1>1 DEF DInv, DriverType, Lives, Alive, Leaving, Stations
<1>3. Shifts(p, "write", proc[p].rc)
  BY <1>1, <1>2, Gone
<1>4. Displaces(p)
  BY <1>1, OldOwner DEF Displaces, Of
<1>5. UNCHANGED <<told, came_up, overlapped>> /\ told \subseteq UPS
  BY <1>1 DEF hist, DInv, DriverType
<1> QED BY <1>1, <1>2, <1>3, <1>4, <1>5, Passes
        DEF Leaving, Starting, Settled, Signed, Bound, Owns, Alive, Shifts

\* A process that ends, the others being as f has them.
LEMMA Ending ==
  ASSUME NEW f \in [Procs -> process_t], NEW d \in Procs, NEW c \in {"ok", "failed"},
         exits \in [Procs -> {"nobody", "running", "ok", "failed"}], Ended(d, f, c)
  PROVE  /\ proc' \in [Procs -> process_t] /\ proc'[d].at = "gone"
         /\ \A q \in Procs \ {d} : proc'[q] = f[q] /\ exits'[q] = exits[q]
         /\ exits' \in [Procs -> {"nobody", "running", "ok", "failed"}]
         /\ exits'[d] = IF exits[d] = "running" THEN c ELSE exits[d]
<1>1. Blank \in process_t /\ Blank.at = "gone"
  BY DEF Blank, process_t, Stations
<1> QED BY <1>1 DEF Ended

LEMMA FilesOutlive ==
  ASSUME DriverType, NEW d \in Procs, NEW f, Killed(d, f)
  PROVE  /\ pidfile' \in [UPS -> Procs \cup {None, Stale}]
         /\ sockfile' \in [UPS -> Procs \cup {None, Stale}]
         /\ \A u \in UPS :
              /\ pidfile'[u] # d /\ (pidfile'[u] = pidfile[u] \/ (pidfile[u] = d /\ pidfile'[u] = Stale))
              /\ sockfile'[u] # d /\ (sockfile'[u] = sockfile[u] \/ (sockfile[u] = d /\ sockfile'[u] = Stale))
<1>1. Stale \notin Procs
  BY DriverLifeAssumption DEF Stale
<1> QED BY <1>1 DEF Killed, Outlived, Here, DriverType

\* A process that is killed, while p may become an owner for it.
LEMMA Kills ==
  ASSUME DInv, NEW p \in Procs, NEW d \in Procs, NEW f \in [Procs -> process_t],
         Killed(d, f), \A q \in Procs \ {p, d} :
           /\ f[q].at = proc[q].at /\ f[q].ups = proc[q].ups
           /\ f[q].mode = proc[q].mode /\ f[q].rc = proc[q].rc
  PROVE  /\ DriverType /\ UNCHANGED hist => DriverType'
         /\ Dies(d) /\ Answered /\ FilesKept(p)
         /\ \A q \in Procs \ {p, d} : Lasts(q)
<1>1. /\ proc' \in [Procs -> process_t] /\ proc'[d].at = "gone"
      /\ \A q \in Procs \ {d} : proc'[q] = f[q] /\ exits'[q] = exits[q]
      /\ exits' \in [Procs -> {"nobody", "running", "ok", "failed"}]
      /\ exits'[d] = IF exits[d] = "running" THEN "failed" ELSE exits[d]
  BY Ending DEF Killed, DInv, DriverType
<1>2. /\ pidfile' \in [UPS -> Procs \cup {None, Stale}]
      /\ sockfile' \in [UPS -> Procs \cup {None, Stale}]
      /\ \A u \in UPS :
           /\ pidfile'[u] # d /\ (pidfile'[u] = pidfile[u] \/ (pidfile[u] = d /\ pidfile'[u] = Stale))
           /\ sockfile'[u] # d /\ (sockfile'[u] = sockfile[u] \/ (sockfile[u] = d /\ sockfile'[u] = Stale))
  BY FilesOutlive DEF DInv
<1>3. Stale \notin Procs
  BY DriverLifeAssumption DEF Stale
<1>4. Dies(d)
  BY <1>1, <1>2 DEF Dies
<1>5. FilesKept(p)
  BY <1>2, <1>3, <1>4 DEF FilesKept
<1>6. Answered
  BY <1>1 DEF Answered
<1> QED BY <1>1, <1>2, <1>4, <1>5, <1>6 DEF hist, DriverType, Lasts, Same

LEMMA Displacing ==
  ASSUME DInv, NEW p \in Procs, KillDuplicate(p)
  PROVE  DriverGoesOn(p)
<1> DEFINE d == Named(p)
           f == Goes(p, "write")
<1>1. proc[p].at = "pid" /\ d \in Procs /\ Killed(d, f) /\ UNCHANGED hist
  BY DEF KillDuplicate
<1>2. d # p /\ proc[p].rc # "failed" /\ proc[p].ups \in UPS
  BY <1>1 DEF Named, DInv, FilesNamed, Lives, Alive, Leaving, Signed
<1>3. /\ proc \in [Procs -> process_t] /\ "write" \in Stations
      /\ exits \in [Procs -> {"nobody", "running", "ok", "failed"}]
  BY DEF DInv, DriverType, Stations
<1>4. /\ f \in [Procs -> process_t] /\ \A q \in Procs \ {p} : f[q] = proc[q]
      /\ f[p].at = "write" /\ f[p].ups = proc[p].ups /\ f[p].mode = proc[p].mode
      /\ f[p].rc = proc[p].rc
  BY <1>3, GoesTo
<1>5. \A q \in Procs : Past(q) /\ q \in Of(proc[p].ups) \ {p} =>
        q = d \/ proc[p].ups \in overlapped
  BY <1>1, OldOwner
<1> HIDE DEF f, d
<1>6. /\ DriverType' /\ Dies(d) /\ Answered /\ FilesKept(p)
      /\ \A q \in Procs \ {p, d} : Lasts(q)
  <2>1. Killed(d, f) /\ UNCHANGED hist /\ DriverType
    BY <1>1 DEF DInv
  <2>2. \A q \in Procs \ {p, d} : f[q] = proc[q]
    BY <1>4
  <2> QED BY <1>1, <1>4, <2>1, <2>2, Kills
<1>7. proc'[p] = f[p] /\ exits'[p] = exits[p]
  BY <1>1, <1>2, <1>3, <1>4, Ending DEF Killed
<1>8. \A u \in UPS : pidfile'[u] # p /\ sockfile'[u] # p
  <2>1. \A u \in UPS : pidfile[u] # p /\ sockfile[u] # p
    BY <1>1 DEF DInv, FilesNamed, Signed, Bound
  <2>2. Stale \notin Procs
    BY DriverLifeAssumption DEF Stale
  <2> QED BY <1>1, <2>1, <2>2, FilesOutlive DEF DInv
<1>9. Moves(p)
  BY <1>1, <1>2, <1>4, <1>7, <1>8 DEF Moves, Starting, Settled, Leaving, Signed, Alive
<1>10. Displaces(p)
  BY <1>2, <1>5, <1>6 DEF Displaces, Of
<1>11. UNCHANGED <<told, came_up, overlapped>>
  BY <1>1 DEF hist
<1> QED BY <1>6, <1>9, <1>10, <1>11 DEF DriverGoesOn, GoesOn

LEMMA Crashing ==
  ASSUME DInv, NEW p \in Procs, NEW d \in Procs, Killed(d, proc), UNCHANGED hist
  PROVE  DriverGoesOn(p)
<1>1. \A q \in Procs \ {d} : Lasts(q)
  <2>1. /\ proc \in [Procs -> process_t]
        /\ exits \in [Procs -> {"nobody", "running", "ok", "failed"}]
    BY DEF DInv, DriverType
  <2> QED BY <2>1, Ending DEF Killed, Lasts, Same
<1>2. DriverType' /\ Dies(d) /\ Answered /\ FilesKept(p)
  <2>1. proc \in [Procs -> process_t] /\ DriverType
    BY DEF DInv, DriverType
  <2> QED BY <2>1, Kills
<1>3. UNCHANGED <<told, came_up, overlapped>>
  BY DEF hist
<1> QED BY <1>1, <1>2, <1>3 DEF DriverGoesOn, GoesOn

-----------------------------------------------------------------------------
(* A driver ends.                                                          *)

LEMMA EndsItself ==
  ASSUME DInv, NEW p \in Procs, NEW f \in [Procs -> process_t], NEW c \in {"ok", "failed"},
         Ended(p, f, c),
         \A q \in Procs \ {p} : /\ f[q].at = proc[q].at /\ f[q].ups = proc[q].ups
                                /\ f[q].mode = proc[q].mode /\ f[q].rc = proc[q].rc,
         UNCHANGED <<pidfile, came_up, overlapped>>, told \subseteq told', told' \subseteq UPS,
         sockfile' \in [UPS -> Procs \cup {None, Stale}],
         \A u \in UPS : /\ pidfile[u] # p /\ sockfile'[u] # p
                        /\ sockfile'[u] = sockfile[u] \/ sockfile'[u] \notin Procs,
         exits[p] = "running" /\ c = "ok" => proc[p].mode = "kill" /\ proc[p].ups \in told'
  PROVE  DriverGoesOn(p)
<1>1. /\ proc' \in [Procs -> process_t] /\ proc'[p].at = "gone"
      /\ \A q \in Procs \ {p} : proc'[q] = f[q] /\ exits'[q] = exits[q]
      /\ exits' \in [Procs -> {"nobody", "running", "ok", "failed"}]
      /\ exits'[p] = IF exits[p] = "running" THEN c ELSE exits[p]
  BY Ending DEF DInv, DriverType
<1>2. DriverType'
  BY <1>1 DEF DInv, DriverType
<1>3. Dies(p)
  BY <1>1 DEF Dies
<1>4. \A q \in Procs \ {p} : Lasts(q)
  BY <1>1 DEF Lasts, Same
<1>5. FilesKept(p)
  BY DEF FilesKept
<1>6. Answered
  BY <1>1 DEF Answered
<1> QED BY <1>2, <1>3, <1>4, <1>5, <1>6 DEF DriverGoesOn, GoesOn

LEMMA Powers ==
  ASSUME DInv, NEW p \in Procs, Killpower(p)
  PROVE  DriverGoesOn(p)
<1>1. /\ proc[p].at = "power" /\ proc[p].mode = "kill" /\ proc[p].ups \in UPS
      /\ proc \in [Procs -> process_t] /\ "ask" \in Stations \cap Early
  BY DEF Killpower, DInv, DriverType, Lives, Alive, Stations, Early
<1>2. CASE /\ Connects(p) /\ Answers(Server(p))
           /\ told' = told \cup {proc[p].ups}
           /\ Ended(p, [proc EXCEPT ![Server(p)].exit_flag = TRUE], "ok")
           /\ UNCHANGED <<files, came_up, overlapped>>
  <2> DEFINE f == [proc EXCEPT ![Server(p)].exit_flag = TRUE]
  <2>1. Server(p) \in Procs
    BY <1>2 DEF Connects
  <2>2. f \in [Procs -> process_t] /\ \A q \in Procs : Like(f[q], proc[q])
    BY <1>1, <2>1, FlagSet
  <2>3. Ended(p, f, "ok")
    BY <1>2
  <2> HIDE DEF f
  <2>4. \A u \in UPS : pidfile[u] # p /\ sockfile[u] # p
    BY <1>1 DEF DInv, FilesNamed, Signed, Bound
  <2>5. UNCHANGED <<pidfile, sockfile, came_up, overlapped>> /\ told' = told \cup {proc[p].ups}
    BY <1>2 DEF files
  <2>6. sockfile \in [UPS -> Procs \cup {None, Stale}] /\ told \subseteq UPS
    BY DEF DInv, DriverType
  <2> QED BY <1>1, <2>2, <2>3, <2>4, <2>5, <2>6, EndsItself DEF Like
<1>3. CASE proc' = Goes(p, "ask") /\ UNCHANGED <<files, exits, hist>>
  <2>1. Shifts(p, "ask", proc[p].rc)
    BY <1>1, <1>3, Gone
  <2> QED BY <1>1, <1>3, <2>1, PassesEarly DEF Early
<1> QED BY <1>2, <1>3 DEF Killpower

LEMMA Breaks ==
  ASSUME DInv, NEW p \in Procs, BreakSignal(p)
  PROVE  DriverGoesOn(p)
<1>1. /\ proc[p].at \in {"ask", "pid"} /\ Ended(p, proc, "failed")
      /\ UNCHANGED <<pidfile, sockfile, told, came_up, overlapped>>
  BY DEF BreakSignal, files, hist
<1>2. \A u \in UPS : pidfile[u] # p /\ sockfile[u] # p
  BY <1>1 DEF DInv, FilesNamed, Signed, Bound
<1>3. /\ sockfile \in [UPS -> Procs \cup {None, Stale}] /\ told \subseteq UPS
      /\ proc \in [Procs -> process_t]
  BY DEF DInv, DriverType
<1> QED BY <1>1, <1>2, <1>3, EndsItself

LEMMA Closes ==
  ASSUME DInv, NEW p \in Procs, sock_close(p)
  PROVE  DriverGoesOn(p)
<1>1. /\ proc[p].at = "free" /\ Ended(p, proc, proc[p].rc)
      /\ UNCHANGED <<pidfile, told, came_up, overlapped>>
      /\ sockfile' = IF HasSocket(p) THEN [sockfile EXCEPT ![proc[p].ups] = None] ELSE sockfile
  BY DEF sock_close, hist
<1>2. /\ sockfile \in [UPS -> Procs \cup {None, Stale}] /\ told \subseteq UPS
      /\ proc \in [Procs -> process_t] /\ proc[p].rc \in {"ok", "failed"} /\ proc[p].ups \in UPS
  BY <1>1 DEF DInv, DriverType, process_t, Lives, Alive
<1>3. \A u \in UPS : /\ pidfile[u] # p
                     /\ sockfile[u] = p => HasSocket(p) /\ u = proc[p].ups
  BY <1>1 DEF DInv, FilesNamed, Signed, HasSocket
<1>4. None \notin Procs
  BY DriverLifeAssumption DEF None
<1>5. /\ sockfile' \in [UPS -> Procs \cup {None, Stale}]
      /\ \A u \in UPS : /\ sockfile'[u] # p
                        /\ sockfile'[u] = sockfile[u] \/ sockfile'[u] \notin Procs
  BY <1>1, <1>2, <1>3, <1>4
<1>6. exits[p] = "running" /\ proc[p].rc = "ok" => proc[p].mode = "kill" /\ proc[p].ups \in told
  BY <1>1 DEF DInv, Child, Leaving
<1> QED BY <1>1, <1>2, <1>3, <1>5, <1>6, EndsItself

-----------------------------------------------------------------------------
(* The device and the files of one's own.                                  *)

\* Between the places where the PID file names the driver.
LEMMA PassesSigned ==
  ASSUME DInv, NEW p \in Procs, NEW y \in Signed, NEW c \in {"ok", "failed"}, Shifts(p, y, c),
         proc[p].at \in Signed, y \notin {"listen", "run"},
         c = "failed" => y \in Leaving,
         proc[p].at \in Leaving => c = proc[p].rc /\ y # "close",
         proc[p].at = "run" => y \in Leaving /\ c = proc[p].rc,
         proc[p].at \in {"init", "info"} \/ y \in Leaving, proc[p].at # "listen",
         y \in Leaving /\ c = "ok" => proc[p].at \in Settled \/ proc[p].mode = "kill",
         y \in Leaving /\ c = "ok" /\ exits[p] = "running" => proc[p].ups \in told',
         UNCHANGED <<files, exits, came_up, overlapped>>, told \subseteq told', told' \subseteq UPS
  PROVE  DriverGoesOn(p)
<1>1. y \in Stations \ {"gone"} /\ y # "forked" /\ y \notin {"set", "power"} /\ proc[p].at # "gone"
  BY DEF Signed, Stations
<1>2. Displaces(p)
  BY DEF Displaces, Past, Signed, Early, Alive
<1>3. Starting(p)' => Starting(p)
  BY <1>1 DEF Starting, Alive, Shifts, Signed, Settled, Leaving
<1>4. /\ proc[p].at \in Settled => y \in Settled /\ (Owns(p)' => Owns(p))
      /\ proc[p].at \in Bound => y \in Bound /\ c = proc[p].rc
  BY DEF Settled, Leaving, Owns, Signed, Bound, Shifts
<1>5. exits[p] = "running" =>
        /\ y \notin {"forked", "run"}
        /\ y \in Leaving /\ c = "ok" => proc[p].mode = "kill" /\ proc[p].ups \in told'
  BY <1>1 DEF DInv, Child, Settled
<1> QED BY <1>1, <1>2, <1>3, <1>4, <1>5, Passes

LEMMA Serving ==
  ASSUME DInv, NEW p \in Procs,
         \/ upsdrv_initups(p) \/ InitFails(p) \/ forceshutdown(p) \/ LeaveLoop(p)
         \/ exit_upsdrv_cleanup(p)
  PROVE  DriverGoesOn(p)
<1>0. /\ proc \in [Procs -> process_t] /\ told \subseteq UPS
      /\ {"init", "info", "run", "close", "unlink"} \subseteq Stations \cap Signed
      /\ Leaving = {"close", "unlink", "free"} /\ Settled = {"run", "close", "unlink", "free"}
  BY DEF DInv, DriverType, Stations, Signed, Settled, Leaving
<1>00. /\ proc[p].at # "gone" => proc[p].ups \in UPS
       /\ proc[p].rc \in {"ok", "failed"}
       /\ proc[p].rc = "failed" => proc[p].at \in {"gone", "close", "unlink", "free"}
  BY <1>0 DEF DInv, Lives, Alive, process_t
<1>1. CASE upsdrv_initups(p)
  <2>1. proc[p].at = "init" /\ UNCHANGED <<files, exits, told, came_up, overlapped>>
    BY <1>1 DEF upsdrv_initups, hist
  <2>2. Shifts(p, "info", proc[p].rc) \/ Shifts(p, "unlink", "failed")
    BY <1>0, <1>1, Gone, GoneWith DEF upsdrv_initups
  <2> QED BY <1>0, <1>00, <2>1, <2>2, PassesSigned
<1>2. CASE InitFails(p)
  <2>1. proc[p].at = "info" /\ UNCHANGED <<files, exits, told, came_up, overlapped>>
    BY <1>2 DEF InitFails, hist
  <2>2. Shifts(p, "close", "failed")
    BY <1>0, <1>2, GoneWith DEF InitFails
  <2> QED BY <1>0, <2>1, <2>2, PassesSigned
<1>3. CASE forceshutdown(p)
  <2>1. /\ proc[p].at = "info" /\ proc[p].mode = "kill" /\ told' = told \cup {proc[p].ups}
        /\ UNCHANGED <<files, exits, came_up, overlapped>>
    BY <1>3 DEF forceshutdown
  <2>2. \E c \in {"ok", "failed"} : Shifts(p, "close", c)
    BY <1>0, <1>3, GoneWith DEF forceshutdown
  <2>3. proc[p].ups \in told' /\ told \subseteq told' /\ told' \subseteq UPS
    BY <1>0, <1>00, <2>1
  <2> QED BY <1>0, <1>00, <2>1, <2>2, <2>3, PassesSigned
<1>4. CASE LeaveLoop(p)
  <2>1. proc[p].at = "run" /\ UNCHANGED <<files, exits, told, came_up, overlapped>>
    BY <1>4 DEF LeaveLoop, hist
  <2>2. Shifts(p, "close", proc[p].rc) /\ exits[p] # "running"
    BY <1>0, <1>4, <2>1, Gone DEF LeaveLoop, DInv, Child
  <2> QED BY <1>0, <1>00, <2>1, <2>2, PassesSigned
<1>5. CASE exit_upsdrv_cleanup(p)
  <2>1. proc[p].at = "close" /\ UNCHANGED <<files, exits, told, came_up, overlapped>>
    BY <1>5 DEF exit_upsdrv_cleanup, hist
  <2>2. Shifts(p, "unlink", proc[p].rc)
    BY <1>0, <1>5, Gone DEF exit_upsdrv_cleanup
  <2>3. exits[p] = "running" /\ proc[p].rc = "ok" => proc[p].ups \in told
    BY <1>0, <2>1 DEF DInv, Child
  <2> QED BY <1>0, <1>00, <2>1, <2>2, <2>3, PassesSigned
<1> QED BY <1>1, <1>2, <1>3, <1>4, <1>5

\* A step of p that writes its files.
LEMMA Writes ==
  ASSUME DInv, NEW p \in Procs, NEW y \in Stations, Shifts(p, y, proc[p].rc), Moves(p),
         Past(p), FilesKept(p), Answered,
         \A q \in Procs \ {p} : exits'[q] = exits[q],
         exits' \in [Procs -> {"nobody", "running", "ok", "failed"}],
         pidfile' \in [UPS -> Procs \cup {None, Stale}],
         sockfile' \in [UPS -> Procs \cup {None, Stale}],
         UNCHANGED <<told, overlapped>>, came_up \subseteq came_up', came_up' \subseteq UPS
  PROVE  DriverGoesOn(p)
<1>1. \A q \in Procs \ {p} : Lasts(q)
  BY DEF Shifts, Lasts
<1>2. Displaces(p)
  BY DEF Displaces
<1>3. DriverType'
  BY DEF Shifts, DInv, DriverType
<1> QED BY <1>1, <1>2, <1>3 DEF DriverGoesOn, GoesOn

LEMMA Writing ==
  ASSUME DInv, NEW p \in Procs, proc[p].at # "gone",
         writepid(p) \/ dstate_init(p) \/ background(p) \/ writepid_again(p) \/ exit_cleanup(p)
  PROVE  DriverGoesOn(p)
<1> DEFINE u == proc[p].ups
<1>0. /\ proc \in [Procs -> process_t] /\ told \subseteq UPS /\ came_up \subseteq UPS
      /\ exits \in [Procs -> {"nobody", "running", "ok", "failed"}]
      /\ pidfile \in [UPS -> Procs \cup {None, Stale}]
      /\ sockfile \in [UPS -> Procs \cup {None, Stale}]
      /\ {"init", "listen", "forked", "run", "free"} \subseteq Stations
      /\ u \in UPS /\ None \notin Procs /\ Stale \notin Procs
  BY DriverLifeAssumption DEF DInv, DriverType, Lives, Alive, Stations, None, Stale
<1>00. /\ proc[p].mode \in {"start", "kill"} /\ proc[p].rc \in {"ok", "failed"}
       /\ proc[p].mode = "kill" => proc[p].at \notin {"listen", "forked", "run"}
       /\ proc[p].rc = "failed" => proc[p].at \in {"close", "unlink", "free"}
  BY <1>0 DEF DInv, Lives, Alive, process_t, Leaving
<1>000. \A v \in UPS :
          /\ pidfile[v] = p => u = v /\ proc[p].mode = "start" /\ proc[p].at \in Signed
          /\ sockfile[v] = p => /\ u = v /\ proc[p].mode = "start" /\ proc[p].rc = "ok"
                                /\ proc[p].at \in Bound
  BY DEF DInv, FilesNamed
<1>1. CASE writepid(p)
  <2>1. /\ proc[p].at = "write" /\ UNCHANGED <<sockfile, exits, told, came_up, overlapped>>
        /\ pidfile' = IF proc[p].mode = "kill" THEN pidfile ELSE [pidfile EXCEPT ![u] = p]
    BY <1>1 DEF writepid, hist
  <2>2. Shifts(p, "init", proc[p].rc)
    BY <1>0, <1>1, Gone DEF writepid
  <2>3. Past(p)
    BY <2>1 DEF Past, Early, Alive
  <2>4. pidfile' \in [UPS -> Procs \cup {None, Stale}]
    BY <1>0, <2>1
  <2>5. Moves(p)
    BY <1>0, <1>00, <1>000, <2>1, <2>2
       DEF Moves, Shifts, Starting, Alive, Settled, Leaving, Signed, Bound
  <2>6. FilesKept(p)
    BY <1>0, <2>1, <2>3, <2>5 DEF FilesKept
  <2> QED BY <1>0, <2>1, <2>2, <2>3, <2>4, <2>5, <2>6, Writes DEF Answered
<1>2. CASE dstate_init(p)
  <2>1. /\ proc[p].at = "info" /\ proc[p].mode = "start"
        /\ UNCHANGED <<pidfile, exits, told, came_up, overlapped>>
        /\ sockfile' = [sockfile EXCEPT ![u] = p]
    BY <1>2 DEF dstate_init, hist
  <2>2. Shifts(p, "listen", proc[p].rc)
    BY <1>0, <1>2, Gone DEF dstate_init
  <2>3. Past(p)
    BY <2>1 DEF Past, Early, Alive
  <2>4. sockfile' \in [UPS -> Procs \cup {None, Stale}]
    BY <1>0, <2>1
  <2>5. pidfile[u] = p \/ u \in overlapped
    BY <1>0, <2>1 DEF DInv, Apart, Of, Alive, Signed
  <2>6. Moves(p)
    BY <1>0, <1>00, <1>000, <2>1, <2>2, <2>5
       DEF Moves, Shifts, Starting, Alive, Settled, Leaving, Signed, Bound
  <2>7. FilesKept(p)
    BY <1>0, <2>1, <2>3, <2>6 DEF FilesKept
  <2> QED BY <1>0, <2>1, <2>2, <2>3, <2>4, <2>6, <2>7, Writes DEF Answered
<1>3. CASE background(p)
  <2>1. /\ proc[p].at = "listen" /\ UNCHANGED <<sockfile, told, overlapped>>
        /\ exits' = [exits EXCEPT ![p] = IF @ = "running" THEN "ok" ELSE @]
        /\ pidfile' = Outlived(p, pidfile) /\ came_up' = came_up \cup {u}
    BY <1>3 DEF background
  <2>2. Shifts(p, "forked", proc[p].rc)
    BY <1>0, <1>3, Gone DEF background
  <2>3. Past(p)
    BY <2>1 DEF Past, Early, Alive
  <2>4. /\ pidfile' \in [UPS -> Procs \cup {None, Stale}]
        /\ \A v \in UPS : \/ pidfile[v] # p /\ pidfile'[v] = pidfile[v]
                          \/ pidfile[v] = p /\ pidfile'[v] = Stale
    BY <1>0, <2>1 DEF Outlived, Here
  <2>5. /\ exits' \in [Procs -> {"nobody", "running", "ok", "failed"}]
        /\ \A q \in Procs \ {p} : exits'[q] = exits[q]
        /\ exits'[p] = IF exits[p] = "running" THEN "ok" ELSE exits[p]
    BY <1>0, <2>1
  <2>6. Moves(p)
    BY <1>0, <1>00, <1>000, <2>1, <2>2, <2>4, <2>5
       DEF Moves, Shifts, Starting, Alive, Settled, Leaving, Signed, Bound
  <2>7. FilesKept(p)
    BY <1>0, <1>000, <2>1, <2>3, <2>4, <2>6 DEF FilesKept
  <2>8. Answered
    BY <1>00, <2>1, <2>5 DEF Answered
  <2> QED BY <1>0, <2>1, <2>2, <2>3, <2>4, <2>5, <2>6, <2>7, <2>8, Writes
<1>4. CASE writepid_again(p)
  <2>1. /\ proc[p].at = "forked" /\ UNCHANGED <<sockfile, exits, told, came_up, overlapped>>
        /\ pidfile' = [pidfile EXCEPT ![u] = p]
    BY <1>4 DEF writepid_again, hist
  <2>2. Shifts(p, "run", proc[p].rc)
    BY <1>0, <1>4, Gone DEF writepid_again
  <2>3. Past(p) /\ exits[p] # "running"
    BY <2>1 DEF Past, Early, Alive, DInv, Child
  <2>4. pidfile' \in [UPS -> Procs \cup {None, Stale}]
    BY <1>0, <2>1
  <2>5. Moves(p)
    BY <1>0, <1>00, <1>000, <2>1, <2>2, <2>3
       DEF Moves, Shifts, Starting, Alive, Settled, Leaving, Signed, Bound
  <2>6. FilesKept(p)
    BY <1>0, <2>1, <2>3, <2>5 DEF FilesKept
  <2> QED BY <1>0, <2>1, <2>2, <2>3, <2>4, <2>5, <2>6, Writes DEF Answered
<1>5. CASE exit_cleanup(p)
  <2>1. /\ proc[p].at = "unlink" /\ UNCHANGED <<sockfile, exits, told, came_up, overlapped>>
        /\ pidfile' = IF proc[p].mode = "kill" THEN pidfile ELSE [pidfile EXCEPT ![u] = None]
    BY <1>5 DEF exit_cleanup, hist
  <2>2. Shifts(p, "free", proc[p].rc)
    BY <1>0, <1>5, Gone DEF exit_cleanup
  <2>3. Past(p)
    BY <2>1 DEF Past, Early, Alive
  <2>4. pidfile' \in [UPS -> Procs \cup {None, Stale}] /\ \A v \in UPS : pidfile'[v] # p
    BY <1>0, <1>000, <2>1
  <2>5. exits[p] = "running" /\ proc[p].rc = "ok" => proc[p].mode = "kill" /\ u \in told
    BY <2>1 DEF DInv, Child, Leaving
  <2>6. Moves(p)
    BY <1>0, <1>00, <1>000, <2>1, <2>2, <2>4, <2>5
       DEF Moves, Shifts, Starting, Alive, Settled, Leaving, Signed, Bound, Owns
  <2>7. FilesKept(p)
    BY <1>0, <2>1, <2>3, <2>6 DEF FilesKept
  <2> QED BY <1>0, <2>1, <2>2, <2>3, <2>4, <2>6, <2>7, Writes DEF Answered
<1> QED BY <1>1, <1>2, <1>3, <1>4, <1>5

LEMMA Hangs ==
  ASSUME DInv, NEW p \in Procs, Hang(p)
  PROVE  DriverGoesOn(p)
<1>1. proc \in [Procs -> process_t]
  BY DEF DInv, DriverType
<1>2. proc' = [proc EXCEPT ![p].hung = TRUE] /\ UNCHANGED <<files, exits, hist>>
  BY DEF Hang
<1>3. proc' \in [Procs -> process_t] /\ \A q \in Procs : Like(proc'[q], proc[q])
  BY <1>1, <1>2, FlagSet
<1> QED BY <1>2, <1>3, Remains DEF Like, Same

LEMMA DriverSteps ==
  ASSUME DInv, NEW p \in Procs, Driver(p) \/ Hang(p) \/ Crash(p)
  PROVE  DriverGoesOn(p)
<1>1. CASE Hang(p)
  BY <1>1, Hangs
<1>2. CASE Crash(p)
  BY <1>2, Crashing DEF Crash
<1>3. CASE Driver(p)
  <2>1. CASE writepid(p) \/ dstate_init(p) \/ background(p) \/ writepid_again(p) \/ exit_cleanup(p)
    BY <2>1, Writing DEF writepid, dstate_init, background, writepid_again, exit_cleanup
  <2> QED BY <1>3, <2>1, GoesEarly, Powers, Breaks, Unopposed, Displacing, Serving, Closes DEF Driver
<1> QED BY <1>1, <1>2, <1>3

-----------------------------------------------------------------------------
(* What upsdrvctl does to the drivers.                                     *)

\* Nobody moves, though some may die.
LEMMA Quiet ==
  ASSUME DInv, DriverType', \A q \in Procs : Lasts(q) \/ Dies(q),
         \A u \in UPS :
           /\ \/ pidfile'[u] = pidfile[u]
              \/ pidfile'[u] \notin Procs /\ (pidfile[u] \in Procs => Dies(pidfile[u]))
           /\ sockfile'[u] = sockfile[u] \/ sockfile'[u] \notin Procs,
         told \subseteq told', UNCHANGED overlapped
  PROVE  DInv'
<1>1. CASE Procs = {}
  <2>1. Lives' /\ FilesNamed' /\ Child' /\ Apart'
    BY <1>1 DEF Lives, FilesNamed, Child, Apart, Of
  <2> QED BY <2>1 DEF DInv
<1>2. ASSUME NEW p \in Procs PROVE DInv'
  <2>1. GoesOn(p)
    BY DEF GoesOn, FilesKept
  <2> QED BY <2>1, Drivers
<1> QED BY <1>1, <1>2

\* "u" is a new driver's UPS, and "e" what is left of its parent's older children.
LEMMA Forking ==
  ASSUME DInv, NEW p \in Procs, NEW u \in UPS, NEW mode \in {"start", "kill"},
         proc[p].at = "gone", Forked(p, u, mode), exits'[p] = "running",
         exits' \in [Procs -> {"nobody", "running", "ok", "failed"}],
         \A q \in Procs \ {p} : exits'[q] \in {exits[q], "nobody"},
         UNCHANGED <<files, told, came_up>>
  PROVE  /\ DInv' /\ proc'[p].ups = u /\ proc'[p].mode = mode
         /\ \A q \in Procs \ {p} : proc'[q] = proc[q]
<1> DEFINE new == [Blank EXCEPT !.ups = u, !.mode = mode,
                     !.at = IF mode = "kill" THEN "set" ELSE "ask"]
<1>1. /\ new \in process_t /\ new.at \in {"set", "ask"} /\ new.ups = u /\ new.mode = mode
      /\ new.rc = "ok" /\ (new.at = "set" => mode = "kill")
  BY DEF Blank, process_t, Stations
<1>2. proc \in [Procs -> process_t] /\ proc' = [proc EXCEPT ![p] = new]
  BY DEF Forked, DInv, DriverType
<1> HIDE DEF new
<1>3. proc' \in [Procs -> process_t] /\ proc'[p] = new /\ \A q \in Procs \ {p} : proc'[q] = proc[q]
  BY <1>1, <1>2
<1>4. overlapped' = CASE Of(u) = {}                   -> overlapped \ {u}
                      [] \E q \in Of(u) : Starting(q) -> overlapped \cup {u}
                      [] OTHER                        -> overlapped
  BY DEF Forked
<1>5. /\ \A v \in UPS \ {u} : v \in overlapped' <=> v \in overlapped
      /\ overlapped' \subseteq UPS
      /\ u \in overlapped' \/ Of(u) = {}
           \/ (u \notin overlapped /\ \A q \in Of(u) : ~Starting(q))
  BY <1>4 DEF DInv, DriverType
<1>6. \A v \in UPS : pidfile'[v] = pidfile[v] /\ sockfile'[v] = sockfile[v]
                     /\ pidfile[v] # p /\ sockfile[v] # p
  BY DEF files, DInv, FilesNamed, Signed, Bound
<1>7. DriverType'
  BY <1>3, <1>5 DEF DInv, DriverType, files
<1>8. Lives'
  BY <1>1, <1>3 DEF DInv, Lives, Alive, Leaving
<1>9. FilesNamed'
  BY <1>3, <1>6 DEF DInv, FilesNamed
<1>10. Child'
  BY <1>1, <1>3 DEF DInv, Child, Alive, Leaving
<1>11. Apart'
  <2> SUFFICES ASSUME NEW v \in UPS \ overlapped', NEW q \in Procs, Alive(q)', proc'[q].ups = v
               PROVE  /\ \A r \in Of(v)' \ {q} : /\ ~(Starting(q)' /\ Starting(r)')
                                                 /\ ~(Past(q)' /\ Past(r)')
                      /\ proc'[q].mode = "start" /\ proc'[q].at \in Signed => pidfile'[v] = q
    BY DEF Apart, Of
  <2>1. \A r \in Procs \ {p} : /\ Alive(r)' <=> Alive(r)
                               /\ Starting(r)' <=> Starting(r)
                               /\ Past(r)' <=> Past(r)
    BY <1>3 DEF Alive, Starting, Past
  <2>2. ~Past(p)' /\ proc'[p].at \notin Signed
    BY <1>1, <1>3 DEF Past, Early, Signed
  <2>3. CASE v # u
    <3>1. v \notin overlapped /\ q # p
      BY <1>1, <1>3, <1>5, <2>3
    <3>2. \A r \in Of(v)' : r \in Of(v) /\ r # p
      BY <1>1, <1>3, <2>1, <2>3 DEF Of
    <3>3. q \in Of(v)
      BY <1>3, <2>1, <3>1 DEF Of
    <3>4. /\ \A r \in Of(v) \ {q} : ~(Starting(q) /\ Starting(r)) /\ ~(Past(q) /\ Past(r))
          /\ proc[q].mode = "start" /\ proc[q].at \in Signed => pidfile[v] = q
      BY <3>1, <3>3 DEF DInv, Apart
    <3>5. \A r \in Of(v)' \ {q} : ~(Starting(q)' /\ Starting(r)') /\ ~(Past(q)' /\ Past(r)')
      <4> SUFFICES ASSUME NEW r \in Of(v)', r # q
                   PROVE  ~(Starting(q)' /\ Starting(r)') /\ ~(Past(q)' /\ Past(r)')
        OBVIOUS
      <4>1. r \in Of(v) \ {q} /\ r \in Procs \ {p}
        BY <3>2 DEF Of
      <4> QED BY <2>1, <3>1, <3>4, <4>1
    <3> QED BY <1>3, <1>6, <3>1, <3>4, <3>5
  <2>4. CASE v = u
    <3>1. \A r \in Procs \ {p} : Alive(r)' /\ proc'[r].ups = u =>
            r \in Of(u) /\ u \notin overlapped /\ ~Starting(r)
      BY <1>3, <1>5, <2>1, <2>4 DEF Of
    <3>2. ASSUME NEW r \in Of(v)' \ {q}
          PROVE  ~(Starting(q)' /\ Starting(r)') /\ ~(Past(q)' /\ Past(r)')
      <4>1. r \in Procs /\ Alive(r)' /\ proc'[r].ups = u
        BY <2>4 DEF Of
      <4>2. CASE q = p \/ r = p
        BY <2>1, <2>2, <2>4, <3>1, <4>1, <4>2
      <4>3. CASE q # p /\ r # p
        <5>1. q \in Of(u) /\ r \in Of(u) /\ u \in UPS \ overlapped
          BY <2>4, <3>1, <4>1, <4>3
        <5> QED BY <2>1, <3>2, <4>3, <5>1 DEF DInv, Apart, Of
      <4> QED BY <4>2, <4>3
    <3>3. ASSUME proc'[q].mode = "start", proc'[q].at \in Signed PROVE pidfile'[v] = q
      <4>1. q # p /\ q \in Of(u) /\ u \in UPS \ overlapped
        BY <2>2, <2>4, <3>1, <3>3
      <4> QED BY <1>3, <1>6, <2>4, <3>3, <4>1 DEF DInv, Apart
    <3> QED BY <3>2, <3>3
  <2> QED BY <2>3, <2>4
<1> QED BY <1>1, <1>3, <1>7, <1>8, <1>9, <1>10, <1>11 DEF DInv

LEMMA InitiallyDriven == InitDrivers => DInv
<1> SUFFICES ASSUME InitDrivers PROVE DInv
  OBVIOUS
<1> DEFINE home == CHOOSE h \in Homes : TRUE
<1>1. /\ home \in [UPS -> Procs] /\ \A u, v \in UPS : home[u] = home[v] => u = v
      /\ None \notin Procs /\ Stale \notin Procs
  <2>1. home \in Homes
    BY DriverLifeAssumption
  <2> HIDE DEF home
  <2> QED BY <2>1, DriverLifeAssumption DEF Homes, None, Stale
<1> HIDE DEF home
<1>2. PICK found \in [UPS -> {"run", "forked", "dead", "gone"}] :
        /\ pidfile = [u \in UPS |-> CASE found[u] \in {"run"} -> home[u]
                                      [] found[u] \in {"forked", "dead"} -> Stale
                                      [] OTHER -> None]
        /\ sockfile = [u \in UPS |-> CASE found[u] \in {"run", "forked"} -> home[u]
                                       [] found[u] \in {"dead"} -> Stale
                                       [] OTHER -> None]
        /\ proc = [p \in Procs |->
             IF \E u \in UPS : sockfile[u] = p
             THEN LET u == CHOOSE v \in UPS : sockfile[v] = p
                  IN  [Blank EXCEPT !.at = found[u], !.ups = u]
             ELSE Blank]
        /\ exits = [p \in Procs |-> "nobody"] /\ faults = 0
        /\ told = {} /\ came_up = {} /\ overlapped = {}
  BY DEF InitDrivers, home
<1>3. \A u \in UPS :
        /\ pidfile[u] \in Procs \cup {None, Stale} /\ sockfile[u] \in Procs \cup {None, Stale}
        /\ pidfile[u] \in Procs <=> found[u] = "run"
        /\ sockfile[u] \in Procs <=> found[u] \in {"run", "forked"}
        /\ pidfile[u] \in Procs => pidfile[u] = home[u] /\ sockfile[u] = home[u]
        /\ sockfile[u] \in Procs => sockfile[u] = home[u]
  BY <1>1, <1>2
<1>4. \A u, v \in UPS : sockfile[u] \in Procs /\ sockfile[u] = sockfile[v] => u = v
  BY <1>1, <1>3
<1>5. \A u \in UPS : sockfile[u] \in Procs => (CHOOSE v \in UPS : sockfile[v] = sockfile[u]) = u
  BY <1>4
<1>6. \A u \in UPS : sockfile[u] \in Procs =>
        proc[sockfile[u]] = [Blank EXCEPT !.at = found[u], !.ups = u]
  BY <1>2, <1>5
<1>7. \A p \in Procs : (\A u \in UPS : sockfile[u] # p) => proc[p] = Blank
  BY <1>2
<1>8. Blank \in process_t /\ Blank.at = "gone"
  BY DEF Blank, process_t, Stations
<1>9. ASSUME NEW u \in UPS, sockfile[u] \in Procs
      PROVE  /\ proc[sockfile[u]] \in process_t /\ proc[sockfile[u]].at = found[u]
             /\ proc[sockfile[u]].at \in {"run", "forked"} /\ proc[sockfile[u]].ups = u
             /\ proc[sockfile[u]].mode = "start" /\ proc[sockfile[u]].rc = "ok"
  <2> DEFINE r == [Blank EXCEPT !.at = found[u], !.ups = u]
  <2>1. found[u] \in {"run", "forked"}
    BY <1>3, <1>9
  <2>2. /\ r \in process_t /\ r.at = found[u] /\ r.ups = u /\ r.mode = "start" /\ r.rc = "ok"
    BY <2>1 DEF Blank, process_t, Stations
  <2>3. proc[sockfile[u]] = r
    BY <1>6, <1>9
  <2> HIDE DEF r
  <2> QED BY <2>1, <2>2, <2>3
<1>10. \A p \in Procs : proc[p] = Blank \/ \E u \in UPS : sockfile[u] = p
  BY <1>7
<1>11. DriverType
  <2>1. \A p \in Procs : proc[p] \in process_t
    BY <1>8, <1>9, <1>10
  <2>2. proc \in [Procs -> process_t]
    BY <1>2, <2>1
  <2>3. pidfile \in [UPS -> Procs \cup {None, Stale}] /\ sockfile \in [UPS -> Procs \cup {None, Stale}]
    <3>1. pidfile = [u \in UPS |-> pidfile[u]] /\ sockfile = [u \in UPS |-> sockfile[u]]
      BY <1>2
    <3> QED BY <1>3, <3>1
  <2> QED BY <1>2, <2>2, <2>3 DEF DriverType
<1>12. Lives
  BY <1>8, <1>9, <1>10 DEF Lives, Alive
<1>13. FilesNamed
  BY <1>3, <1>9 DEF FilesNamed, Signed, Bound
<1>14. Apart
  BY <1>3, <1>8, <1>9, <1>10 DEF Apart, Of, Alive, Signed
<1>15. Child
  BY <1>2 DEF Child
<1> QED BY <1>11, <1>12, <1>13, <1>14, <1>15 DEF DInv

-----------------------------------------------------------------------------
(* The inductive invariants: of upsdrvctl.                                 *)

ToolType ==
  /\ place \in Places /\ command \in {"start", "stop", "shutdown"}
  /\ one \in UPS \cup {None} /\ ups \in 1 .. NULL /\ pass \in Nat /\ left \in Nat
  /\ pid \in [UPS -> Procs \cup {None}] /\ exceeded \subseteq UPS
  /\ exec_error \in Nat /\ exec_timeout \in Nat /\ initial \in Nat \X Nat
  /\ runs \in Nat /\ held \subseteq Procs

\* What the tool is told of the processes it waits for is about the right UPS.
Children ==
  \A u \in UPS : pid[u] # None =>
    /\ exits[pid[u]] # "nobody"
    /\ \A v \in UPS : pid[v] = pid[u] => v = u
    /\ exits[pid[u]] = "running" =>
         /\ proc[pid[u]].ups = u
         /\ proc[pid[u]].mode = IF command = "start" THEN "start" ELSE "kill"
    /\ exits[pid[u]] = "ok" => u \in IF command = "start" THEN came_up ELSE told

Placed ==
  /\ place = "exec" => left > 0
  /\ place \notin {"idle", "done", "next"} => ups # NULL
  /\ place = "wait" => pid[U] # None
  /\ place \in {"idle", "done"} =>
       (\A u \in UPS : pid[u] = None) /\ \A p \in Procs : exits[p] = "nobody"
  /\ place = "idle" => held = {}
  /\ place = "done" => ups = NULL
  /\ place \in {"exec", "wait"} => command \in {"start", "shutdown"}
  /\ place \in {"term", "kill", "poll", "harder", "gone"} => command = "stop"
  /\ ups # NULL => pass = 0
  /\ one # None => ups = NULL \/ U = one
  /\ command = "stop" => exec_timeout = 0 /\ exceeded = {}

\* While drivers are stopped none comes back.
Held == \A p \in held :
  /\ command = "stop"
  /\ Alive(p) => /\ proc[p].mode = "start" /\ proc[p].at \in Settled
                 /\ proc[p].ups \in Asked \ overlapped

\* What the command was to do about u is done.
Serves(u) ==
  /\ command = "start"    => maxretry[u] = 0 \/ u \in came_up
  /\ command = "shutdown" => u \in told
  /\ command = "stop"     => \A p \in held : Owns(p) => proc[p].ups # u

Walked == \A i \in DOMAIN Table : i < ups /\ Table[i] \in Asked => Serves(Table[i])

\* As long as no error is counted, and none is to be forgiven, the UPSes so far are
\* served.
Honest ==
  place # "idle" =>
     /\ exec_error = 0 /\ exec_timeout = 0 => Walked
     /\ place \in {"exec", "wait"} /\ initial = <<0, 0>> => Walked

IInv == DInv /\ ToolType /\ Children /\ Placed /\ Held /\ Honest

-----------------------------------------------------------------------------
(* The tool and the steps of the drivers.                                  *)

LEMMA TableType ==
  /\ NULL \in Nat /\ NULL = Len(Table) + 1 /\ DOMAIN Table = 1 .. Len(Table)
  /\ \A i \in 1 .. NULL : i # NULL => i \in DOMAIN Table
  /\ \A i \in DOMAIN Table : Table[i] \in UPS /\ i < NULL /\ i \in Nat \ {0}
  /\ \A i, j \in DOMAIN Table : Table[i] = Table[j] => i = j
  /\ \A u \in UPS : \E i \in DOMAIN Table : Table[i] = u
  /\ None \notin UPS /\ None \notin Procs
<1>1. Table \in Seq(UPS) /\ Len(Table) \in Nat /\ DOMAIN Table = 1 .. Len(Table)
  BY UpsdrvctlAssumption
<1>2. \A i \in DOMAIN Table : Table[i] \in UPS
  BY <1>1
<1> QED BY <1>1, <1>2, UpsdrvctlAssumption, DriverLifeAssumption DEF NULL, None

\* The driver the tool is busy with.
LEMMA Current ==
  ASSUME ToolType, ups # NULL
  PROVE  ups \in DOMAIN Table /\ U \in UPS
BY TableType DEF ToolType, U

LEMMA DriverEffect ==
  ASSUME DInv, ToolType, Children, Held, NEW p \in Procs, DriverGoesOn(p),
         UNCHANGED <<command, one, held, pid>>
  PROVE  /\ DInv' /\ Children' /\ Held' /\ \A u \in UPS : Serves(u) => Serves(u)'
         /\ (\A q \in Procs : exits[q] = "nobody") => \A q \in Procs : exits'[q] = "nobody"
<1>1. DInv'
  BY Drivers DEF DriverGoesOn
<1>2. /\ \A q \in Procs : Lasts(q) \/ Dies(q) \/ (q = p /\ Moves(p))
      /\ told \subseteq told' /\ came_up \subseteq came_up' /\ UNCHANGED overlapped
      /\ Answered
  BY DEF DriverGoesOn, GoesOn
<1>3. \A q \in Procs : exits'[q] = "running" =>
        /\ exits[q] = "running" /\ proc'[q].ups = proc[q].ups /\ proc'[q].mode = proc[q].mode
  BY <1>2 DEF Answered, Lasts, Dies, Moves, Same
<1>4. Children'
  <2> SUFFICES ASSUME NEW u \in UPS, pid[u] # None
      PROVE  /\ exits'[pid[u]] # "nobody"
             /\ exits'[pid[u]] = "running" =>
                  /\ proc'[pid[u]].ups = u
                  /\ proc'[pid[u]].mode = IF command = "start" THEN "start" ELSE "kill"
             /\ exits'[pid[u]] = "ok" => u \in IF command = "start" THEN came_up' ELSE told'
    BY DEF Children
  <2> DEFINE q == pid[u]
  <2>1. q \in Procs
    BY DEF ToolType
  <2>2. /\ exits[q] # "nobody"
        /\ exits[q] = "running" =>
             /\ proc[q].ups = u
             /\ proc[q].mode = IF command = "start" THEN "start" ELSE "kill"
        /\ exits[q] = "ok" => u \in IF command = "start" THEN came_up ELSE told
    BY DEF Children
  <2> HIDE DEF q
  <2>3. exits'[q] # "nobody"
    BY <1>2, <2>1, <2>2 DEF Answered
  <2>4. exits'[q] = "ok" => u \in IF command = "start" THEN came_up' ELSE told'
    BY <1>2, <2>1, <2>2 DEF Answered
  <2> QED BY <1>3, <2>1, <2>2, <2>3, <2>4 DEF q
<1>5. \A q \in held : q \in Procs /\ command = "stop" /\ (Alive(q)' =>
        /\ Alive(q) /\ proc'[q].mode = proc[q].mode /\ proc'[q].ups = proc[q].ups
        /\ proc'[q].at \in Settled /\ (Owns(q)' => Owns(q)))
  BY <1>2 DEF Held, ToolType, Lasts, Dies, Moves, Same, Alive, Owns
<1>6. Held'
  BY <1>2, <1>5 DEF Held, Asked
<1>7. ASSUME NEW u \in UPS, Serves(u) PROVE Serves(u)'
  <2>1. \A q \in held : Owns(q)' => Owns(q) /\ proc'[q].ups = proc[q].ups
    BY <1>5 DEF Owns, Alive
  <2> QED BY <1>2, <1>7, <2>1 DEF Serves
<1>8. (\A q \in Procs : exits[q] = "nobody") => \A q \in Procs : exits'[q] = "nobody"
  BY <1>2 DEF Answered
<1> QED BY <1>1, <1>4, <1>6, <1>7, <1>8

\* What the steps of the tool leave to show: the drivers are as they should be, and
\* what was served still is.
Kept == DInv' /\ Children' /\ Held' /\ \A u \in UPS : Serves(u) => Serves(u)'

LEMMA KeptUnmoved ==
  ASSUME DInv, Children, Held, UNCHANGED <<command, one, held, pid, drivers>>
  PROVE  Kept
<1>1. DInv'
  BY DEF DInv, drivers, DriverType, Lives, FilesNamed, Apart, Child, Of, Alive, Starting, Past
<1>2. Children' /\ Held'
  BY DEF drivers, Children, Held, Alive, Asked
<1>3. \A u \in UPS : Serves(u) => Serves(u)'
  BY DEF drivers, Serves, Owns
<1> QED BY <1>1, <1>2, <1>3 DEF Kept

LEMMA KeptMoved ==
  ASSUME DInv, ToolType, Children, Held, NEW p \in Procs, DriverGoesOn(p),
         UNCHANGED <<command, one, held, pid>>
  PROVE  Kept
BY DriverEffect DEF Kept

-----------------------------------------------------------------------------
(* Walking the table.                                                      *)

LEMMA WalkKept ==
  ASSUME Kept, UNCHANGED <<command, one, ups>>, Walked
  PROVE  Walked'
BY TableType DEF Kept, Walked, Asked

\* The tool is through with a UPS, without an error only if it is served.
LEMMA Advances ==
  ASSUME ToolType, Placed, Honest, Kept, Advance, ups # NULL, place # "idle",
         pid' \in [UPS -> Procs \cup {None}], exceeded' \subseteq UPS,
         exec_error' \in Nat, exec_timeout' \in Nat,
         command = "stop" => exec_timeout' = 0 /\ exceeded' = {},
         exec_error' = 0 /\ exec_timeout' = 0 =>
           Walked /\ \A u \in UPS \cap Asked : u = U => Serves(u)'
  PROVE  IInv'
<1>1. ups \in DOMAIN Table /\ U \in UPS /\ ups < NULL /\ ups \in Nat \ {0}
  BY Current, TableType
<1>2. /\ place' = "next" /\ ups' = IF one # None THEN NULL ELSE ups + 1
      /\ left' = 0 /\ initial' = <<0, 0>> /\ UNCHANGED <<command, one, pass, runs, held>>
  BY DEF Advance
<1>3. ups' \in 1 .. NULL
  BY <1>1, <1>2, TableType
<1>4. ToolType'
  BY <1>2, <1>3 DEF ToolType, Places
<1>5. Placed'
  BY <1>2 DEF Placed, U
<1>6. ASSUME exec_error' = 0, exec_timeout' = 0 PROVE Walked'
  <2> SUFFICES ASSUME NEW i \in DOMAIN Table, i < ups', Table[i] \in Asked'
               PROVE  Serves(Table[i])'
    BY DEF Walked
  <2>1. Asked' = Asked
    BY <1>2 DEF Asked
  <2>2. i < ups \/ Table[i] = U
    <3>1. CASE one = None
      <4>1. i < ups + 1
        BY <1>2, <3>1
      <4>2. i < ups \/ i = ups
        BY <1>1, <4>1, TableType
      <4> QED BY <4>2 DEF U
    <3>2. CASE one # None
      BY <2>1, <3>2 DEF Placed, Asked
    <3> QED BY <3>1, <3>2
  <2>3. CASE i < ups
    <3>1. Serves(Table[i]) /\ Table[i] \in UPS
      BY <1>6, <2>1, <2>3, TableType DEF Walked
    <3> QED BY <3>1 DEF Kept
  <2>4. CASE Table[i] = U
    BY <1>6, <2>1, <2>4, TableType
  <2> QED BY <2>2, <2>3, <2>4
<1>7. Honest'
  BY <1>2, <1>6 DEF Honest
<1> QED BY <1>4, <1>5, <1>7 DEF IInv, Kept

LEMMA Skipping ==
  ASSUME IInv, Skip
  PROVE  IInv'
<1>1. /\ place = "next" /\ ups # NULL /\ Advance
      /\ UNCHANGED <<pid, exceeded, exec_error, exec_timeout, drivers>>
  BY DEF Skip, counts
<1>2. Kept
  BY <1>1, KeptUnmoved DEF IInv, Advance
<1>3. U \notin Asked \/ Serves(U)
  <2>1. CASE one = None /\ command = "shutdown" /\ sdorder[U] # pass
    BY <1>1, <2>1 DEF IInv, Placed, Asked
  <2>2. CASE command = "start" /\ ~(maxretry[U] > 0)
    <3>1. maxretry[U] \in Nat
      BY <1>1, Current, UpsdrvctlAssumption DEF IInv
    <3> QED BY <2>2, <3>1 DEF Serves
  <2> QED BY <1>1, <2>1, <2>2 DEF Skip, Meant
<1>4. \A u \in UPS \cap Asked : u = U => Serves(u)'
  BY <1>2, <1>3 DEF Kept
<1> QED BY <1>1, <1>2, <1>4, Advances DEF IInv, ToolType, Placed, Honest

LEMMA NextOrders ==
  ASSUME IInv, NextOrder
  PROVE  IInv'
<1>1. /\ place = "next" /\ ups = NULL /\ pass' = pass + 1
      /\ UNCHANGED <<place, command, one, ups, left, pid, exceeded, exec_error, exec_timeout,
                     initial, runs, held, drivers>>
  BY DEF NextOrder, counts
<1>2. Kept
  BY <1>1, KeptUnmoved DEF IInv
<1>3. ToolType' /\ Placed'
  BY <1>1 DEF IInv, ToolType, Placed
<1>4. Walked => Walked'
  BY <1>1, <1>2, WalkKept
<1>5. Honest'
  BY <1>1, <1>4 DEF IInv, Honest
<1> QED BY <1>2, <1>3, <1>5 DEF IInv, Kept

\* The tool ends, and nobody waits for its children any more.
LEMMA Left ==
  ASSUME IInv, Leaves, proc' \in [Procs -> process_t],
         \A q \in Procs : Same(q) \/ (proc'[q].at = "gone" /\ proc[q].mode = "kill")
  PROVE  /\ DInv' /\ Children' /\ \A q \in Procs : exits'[q] = "nobody"
         /\ \A u \in UPS : pid'[u] = None
<1>1. /\ exits' = [q \in Procs |-> "nobody"] /\ pid' = [u \in UPS |-> None]
      /\ UNCHANGED <<pidfile, sockfile, told, came_up, overlapped>>
  BY DEF Leaves, files, hist
<1>2. DriverType' /\ Children'
  BY <1>1 DEF IInv, DInv, DriverType, Children
<1>3. \A q \in Procs : Lasts(q) \/ Dies(q)
  <2> SUFFICES ASSUME NEW q \in Procs, proc'[q].at = "gone", proc[q].mode = "kill"
               PROVE  Dies(q)
    BY <1>1 DEF Lasts
  <2>1. \A u \in UPS : pidfile[u] # q /\ sockfile[u] # q
    BY DEF IInv, DInv, FilesNamed
  <2> QED BY <1>1, <2>1 DEF Dies
<1>4. DInv'
  BY <1>1, <1>2, <1>3, Quiet DEF IInv
<1> QED BY <1>1, <1>2, <1>4

LEMMA Finishes ==
  ASSUME IInv, Done
  PROVE  IInv'
<1> DEFINE starting == {u \in exceeded : exits[pid[u]] = "running"}
<1>1. /\ place = "next" /\ ups = NULL /\ place' = "done" /\ Leaves
      /\ exec_error' = exec_error + Cardinality(starting) /\ exceeded' = starting
      /\ UNCHANGED <<ups, pass, exec_timeout, held, proc, faults>>
  BY DEF Done
<1>2. pid' = [u \in UPS |-> None] /\ left' = 0 /\ initial' = <<0, 0>>
      /\ UNCHANGED <<command, one, runs, pidfile, told, came_up, overlapped>>
  BY <1>1 DEF Leaves, files, hist
<1>3. Cardinality(starting) \in Nat /\ starting \subseteq exceeded
  <2>1. IsFiniteSet(UPS) /\ starting \subseteq UPS
    BY DriverLifeAssumption DEF IInv, ToolType
  <2> QED BY <2>1, FS_Subset, FS_CardinalityType
<1> HIDE DEF starting
<1>4. /\ DInv' /\ Children' /\ (\A q \in Procs : exits'[q] = "nobody")
      /\ \A u \in UPS : pid'[u] = None
  <2>1. proc \in [Procs -> process_t] /\ proc' = proc
    BY <1>1 DEF IInv, DInv, DriverType
  <2> QED BY <1>1, <2>1, Left DEF Same
<1>5. Held'
  BY <1>1, <1>2 DEF IInv, Held, Asked, Alive
<1>6. Walked => Walked'
  BY <1>1, <1>2 DEF Walked, Asked, Serves, Owns
<1>7. ToolType'
  BY <1>1, <1>2, <1>3 DEF IInv, ToolType, Places
<1>8. Placed'
  BY <1>1, <1>2, <1>3, <1>4 DEF IInv, Placed
<1>9. exec_error' = 0 => exec_error = 0
  BY <1>1, <1>3 DEF IInv, ToolType
<1>10. Honest'
  BY <1>1, <1>6, <1>9 DEF IInv, Honest
<1> QED BY <1>4, <1>5, <1>7, <1>8, <1>10 DEF IInv

-----------------------------------------------------------------------------
(* Starting drivers.                                                       *)

LEMMA StartsOne ==
  ASSUME IInv, forkexec
  PROVE  IInv'
<1>1. /\ ups # NULL /\ command \in {"start", "shutdown"} /\ place \in {"next", "exec"}
      /\ UNCHANGED <<exec_error, exec_timeout, pidfile, sockfile, faults, told, came_up>>
      /\ exceeded' = exceeded \ {U}
  BY DEF forkexec, Meant, IInv, Placed, counts, files
<1>2. U \in UPS
  BY <1>1, Current DEF IInv
<1>3. /\ place' = "wait" /\ left' \in Nat
      /\ UNCHANGED <<command, one, ups, pass, runs, held>>
      /\ \/ place = "next" /\ initial' = <<exec_error, exec_timeout>>
         \/ place = "exec" /\ initial' = initial
  <2>1. CASE Meant /\ At("wait", Attempts - 1) /\ initial' = counts
    <3>1. Attempts - 1 \in Nat
      BY <1>2, <2>1, UpsdrvctlAssumption DEF Attempts, Meant
    <3> QED BY <2>1, <3>1 DEF Meant, At, counts
  <2>2. CASE place = "exec" /\ At("wait", left - 1) /\ UNCHANGED initial
    <3>1. left - 1 \in Nat
      BY <2>2 DEF IInv, ToolType, Placed
    <3> QED BY <2>2, <3>1 DEF At
  <2> QED BY <2>1, <2>2 DEF forkexec
<1> DEFINE mode == IF command = "start" THEN "start" ELSE "kill"
<1>4. PICK p \in Free :
        /\ Forked(p, U, mode)
        /\ exits' = [q \in Procs |-> IF q = p THEN "running"
                                     ELSE IF q = pid[U] THEN "nobody" ELSE exits[q]]
        /\ pid' = [pid EXCEPT ![U] = p]
  BY DEF forkexec
<1>5. p \in Procs /\ proc[p].at = "gone" /\ exits[p] = "nobody" /\ mode \in {"start", "kill"}
  BY DEF Free, Alive
<1> HIDE DEF mode
<1>6. /\ exits \in [Procs -> {"nobody", "running", "ok", "failed"}]
      /\ pid \in [UPS -> Procs \cup {None}] /\ None \notin Procs
  BY TableType DEF IInv, DInv, DriverType, ToolType
<1>7. /\ exits' \in [Procs -> {"nobody", "running", "ok", "failed"}]
      /\ exits'[p] = "running" /\ \A q \in Procs \ {p} : exits'[q] \in {exits[q], "nobody"}
      /\ \A q \in Procs : q # p /\ q # pid[U] => exits'[q] = exits[q]
  BY <1>4, <1>5, <1>6
<1>8. /\ DInv' /\ proc'[p].ups = U /\ proc'[p].mode = mode
      /\ \A q \in Procs \ {p} : proc'[q] = proc[q]
  <2> DEFINE u == U
  <2>1. DInv /\ u \in UPS /\ Forked(p, u, mode) /\ UNCHANGED <<files, told, came_up>>
    BY <1>1, <1>2, <1>4 DEF IInv, files
  <2> HIDE DEF u
  <2>2. /\ DInv' /\ proc'[p].ups = u /\ proc'[p].mode = mode
        /\ \A q \in Procs \ {p} : proc'[q] = proc[q]
    BY <1>5, <1>7, <2>1, Forking
  <2> QED BY <2>2 DEF u
<1>9. /\ pid' \in [UPS -> Procs \cup {None}] /\ pid'[U] = p
      /\ \A u \in UPS \ {U} : pid'[u] = pid[u]
  BY <1>2, <1>4, <1>5, <1>6
<1>10. Children'
  <2> SUFFICES ASSUME NEW u \in UPS, pid'[u] # None
      PROVE  /\ exits'[pid'[u]] # "nobody"
             /\ \A v \in UPS : pid'[v] = pid'[u] => v = u
             /\ exits'[pid'[u]] = "running" =>
                  /\ proc'[pid'[u]].ups = u
                  /\ proc'[pid'[u]].mode = IF command' = "start" THEN "start" ELSE "kill"
             /\ exits'[pid'[u]] = "ok" => u \in IF command' = "start" THEN came_up' ELSE told'
    BY DEF Children
  <2>1. \A v \in UPS : pid[v] # None => pid[v] \in Procs /\ pid[v] # p
                          /\ \A w \in UPS : pid[w] = pid[v] => w = v
    BY <1>5, <1>6 DEF IInv, Children
  <2>2. CASE u = U
    <3>1. \A v \in UPS : pid'[v] = pid'[u] => v = u
      BY <1>2, <1>5, <1>6, <1>9, <2>1, <2>2
    <3> QED BY <1>3, <1>7, <1>8, <1>9, <2>2, <3>1 DEF mode
  <2>3. CASE u # U
    <3>1. /\ pid'[u] = pid[u] /\ pid[u] # None /\ pid[u] \in Procs /\ pid[u] # p
          /\ pid[u] # pid[U]
      BY <1>2, <1>9, <2>1, <2>3
    <3>2. exits'[pid[u]] = exits[pid[u]] /\ proc'[pid[u]] = proc[pid[u]]
      BY <1>7, <1>8, <3>1
    <3>3. \A v \in UPS : pid'[v] = pid'[u] => v = u
      BY <1>2, <1>9, <2>1, <3>1
    <3> QED BY <1>1, <1>3, <3>1, <3>2, <3>3 DEF IInv, Children
  <2> QED BY <2>2, <2>3
<1>11. ToolType'
  BY <1>1, <1>3, <1>6, <1>9 DEF IInv, ToolType, Places
<1>12. Placed'
  <2>1. U' = U
    BY <1>3 DEF U
  <2>2. pid'[U'] # None
    BY <1>5, <1>6, <1>9, <2>1
  <2> QED BY <1>1, <1>3, <2>1, <2>2 DEF IInv, Placed
<1>13. held = {} /\ Held'
  BY <1>1, <1>3 DEF IInv, Held
<1>14. Walked => Walked'
  BY <1>1, <1>3 DEF Walked, Asked, Serves
<1>15. Honest'
  BY <1>1, <1>3, <1>14 DEF IInv, Honest
<1> QED BY <1>8, <1>10, <1>11, <1>12, <1>13, <1>15 DEF IInv

LEMMA WaitedFor ==
  ASSUME IInv, NEW rc \in {"ok", "failed"}, Waited(rc), UNCHANGED <<command, one, held>>
  PROVE  /\ Kept /\ pid' \in [UPS -> Procs \cup {None}] /\ exceeded' \subseteq UPS
         /\ ups # NULL /\ command \in {"start", "shutdown"}
         /\ rc = "ok" => \A u \in UPS : u = U => Serves(u)'
         /\ place = "wait" /\ UNCHANGED <<exceeded, told, came_up>>
<1>1. /\ place = "wait" /\ exits[pid[U]] = rc
      /\ exits' = [exits EXCEPT ![pid[U]] = "nobody"] /\ pid' = [pid EXCEPT ![U] = None]
      /\ UNCHANGED <<exceeded, proc, pidfile, sockfile, faults, told, came_up, overlapped>>
  BY DEF Waited, files, hist
<1>2. ups # NULL /\ command \in {"start", "shutdown"} /\ pid[U] # None
  BY <1>1 DEF IInv, Placed
<1>3. U \in UPS
  BY <1>2, Current DEF IInv
<1>4. /\ exits \in [Procs -> {"nobody", "running", "ok", "failed"}]
      /\ pid \in [UPS -> Procs \cup {None}] /\ proc \in [Procs -> process_t] /\ exceeded \subseteq UPS
  BY DEF IInv, DInv, DriverType, ToolType
<1>5. pid[U] \in Procs
  BY <1>2, <1>3, <1>4
<1>6. /\ exits' \in [Procs -> {"nobody", "running", "ok", "failed"}]
      /\ exits'[pid[U]] = "nobody" /\ \A q \in Procs \ {pid[U]} : exits'[q] = exits[q]
  BY <1>1, <1>4, <1>5
<1>7. /\ pid' \in [UPS -> Procs \cup {None}] /\ pid'[U] = None
      /\ \A u \in UPS \ {U} : pid'[u] = pid[u]
  BY <1>1, <1>3, <1>4
<1>8. DInv'
  <2>1. DriverType'
    BY <1>1, <1>6 DEF IInv, DInv, DriverType
  <2>2. \A q \in Procs : Lasts(q)
    BY <1>1, <1>6 DEF Lasts, Same
  <2> QED BY <1>1, <2>1, <2>2, Quiet DEF IInv
<1>9. Children'
  <2> SUFFICES ASSUME NEW u \in UPS, pid'[u] # None
      PROVE  /\ exits'[pid'[u]] # "nobody"
             /\ \A v \in UPS : pid'[v] = pid'[u] => v = u
             /\ exits'[pid'[u]] = "running" =>
                  /\ proc[pid'[u]].ups = u
                  /\ proc[pid'[u]].mode = IF command = "start" THEN "start" ELSE "kill"
             /\ exits'[pid'[u]] = "ok" => u \in IF command = "start" THEN came_up ELSE told
    BY <1>1 DEF Children
  <2>1. u # U /\ pid'[u] = pid[u]
    BY <1>7
  <2>2. /\ exits[pid[u]] # "nobody"
        /\ \A v \in UPS : pid[v] = pid[u] => v = u
        /\ exits[pid[u]] = "running" =>
             /\ proc[pid[u]].ups = u
             /\ proc[pid[u]].mode = IF command = "start" THEN "start" ELSE "kill"
        /\ exits[pid[u]] = "ok" => u \in IF command = "start" THEN came_up ELSE told
    BY <2>1 DEF IInv, Children
  <2>3. pid[u] \in Procs /\ pid[u] # pid[U]
    BY <1>3, <1>4, <2>1, <2>2
  <2>4. exits'[pid[u]] = exits[pid[u]]
    BY <1>6, <2>3
  <2>5. \A v \in UPS : pid'[v] = pid'[u] => v = u
    BY <1>7, <2>1, <2>2
  <2> QED BY <2>1, <2>2, <2>4, <2>5
<1>10. held = {} /\ Held'
  BY <1>2 DEF IInv, Held
<1>11. \A u \in UPS : Serves(u) => Serves(u)'
  BY <1>1, <1>2 DEF Serves
<1>12. rc = "ok" => \A u \in UPS : u = U => Serves(u)'
  <2>1. rc = "ok" => U \in IF command = "start" THEN came_up ELSE told
    BY <1>1, <1>2, <1>3 DEF IInv, Children
  <2> QED BY <1>1, <1>2, <2>1 DEF Serves
<1> QED BY <1>1, <1>2, <1>4, <1>7, <1>8, <1>9, <1>10, <1>11, <1>12 DEF Kept

\* Another attempt, or the next UPS; the error counted forbids to call it a success.
LEMMA Retries ==
  ASSUME IInv, Kept, place = "wait", Again, pid' \in [UPS -> Procs \cup {None}],
         exceeded' \subseteq UPS, exec_error' \in Nat, exec_timeout' \in Nat,
         ~(exec_error' = 0 /\ exec_timeout' = 0),
         \A u \in UPS : Serves(u) => Serves(u)'
  PROVE  IInv'
<1>1. ups # NULL /\ command \in {"start", "shutdown"}
  BY DEF IInv, Placed
<1>2. CASE left > 0 /\ At("exec", left) /\ UNCHANGED initial
  <2>1. /\ place' = "exec" /\ left' = left
        /\ UNCHANGED <<command, one, ups, pass, runs, held, initial>>
    BY <1>2 DEF At
  <2>2. ToolType'
    BY <2>1 DEF IInv, ToolType, Places
  <2>3. Placed'
    <3>1. U' = U
      BY <2>1 DEF U
    <3> QED BY <1>1, <1>2, <2>1, <3>1 DEF IInv, Placed
  <2>4. Walked => Walked'
    BY <2>1, WalkKept
  <2>5. Honest'
    BY <2>1, <2>4 DEF IInv, Honest
  <2> QED BY <2>2, <2>3, <2>5 DEF IInv, Kept
<1>3. CASE Advance
  <2>1. command # "stop" /\ place # "idle"
    BY <1>1
  <2> QED BY <1>1, <1>3, <2>1, Advances DEF IInv
<1> QED BY <1>2, <1>3 DEF Again

LEMMA Waiting ==
  ASSUME IInv, Succeeds \/ Fails \/ waitpid_timeout
  PROVE  IInv'
<1>0. /\ exec_error \in Nat /\ exec_timeout \in Nat /\ initial \in Nat \X Nat
      /\ pid \in [UPS -> Procs \cup {None}] /\ exceeded \subseteq UPS
  BY DEF IInv, ToolType
<1>1. CASE Succeeds
  <2>1. /\ Waited("ok") /\ exec_error' = initial[1] /\ exec_timeout' = initial[2] /\ Advance
        /\ UNCHANGED <<command, one, held>>
    BY <1>1 DEF Succeeds, Advance
  <2>2. /\ Kept /\ pid' \in [UPS -> Procs \cup {None}] /\ exceeded' \subseteq UPS
        /\ ups # NULL /\ command \in {"start", "shutdown"}
        /\ \A u \in UPS : u = U => Serves(u)'
        /\ place = "wait"
    BY <2>1, WaitedFor
  <2>3. exec_error' \in Nat /\ exec_timeout' \in Nat
    BY <1>0, <2>1
  <2>4. exec_error' = 0 /\ exec_timeout' = 0 => Walked
    <3>1. exec_error' = 0 /\ exec_timeout' = 0 => initial = <<0, 0>>
      <4>1. initial = <<initial[1], initial[2]>>
        BY <1>0
      <4> QED BY <2>1, <4>1
    <3> QED BY <2>2, <3>1 DEF IInv, Honest
  <2> QED BY <2>1, <2>2, <2>3, <2>4, Advances DEF IInv
<1>2. CASE Fails
  <2>1. /\ Waited("failed") /\ exec_error' = exec_error + 1 /\ exec_timeout' = exec_timeout
        /\ Again
    BY <1>2 DEF Fails
  <2>2. UNCHANGED <<command, one, held>>
    BY <2>1 DEF Again, At, Advance
  <2>3. /\ Kept /\ pid' \in [UPS -> Procs \cup {None}] /\ exceeded' \subseteq UPS
        /\ place = "wait"
    BY <2>1, <2>2, WaitedFor
  <2>4. exec_error' \in Nat /\ exec_timeout' \in Nat /\ exec_error' # 0
    BY <1>0, <2>1
  <2> QED BY <2>1, <2>3, <2>4, Retries DEF Kept
<1>3. CASE waitpid_timeout
  <2>1. /\ place = "wait" /\ exec_timeout' = exec_timeout + 1 /\ exceeded' = exceeded \cup {U}
        /\ Again /\ UNCHANGED <<pid, exec_error, drivers>>
    BY <1>3 DEF waitpid_timeout
  <2>2. UNCHANGED <<command, one, held>>
    BY <2>1 DEF Again, At, Advance
  <2>3. U \in UPS
    BY <2>1, Current DEF IInv, Placed
  <2>4. Kept
    BY <2>1, <2>2, KeptUnmoved DEF IInv
  <2>5. exec_timeout' \in Nat /\ exec_timeout' # 0 /\ exceeded' \subseteq UPS
    BY <1>0, <2>1, <2>3
  <2> QED BY <1>0, <2>1, <2>4, <2>5, Retries DEF Kept
<1> QED BY <1>1, <1>2, <1>3

-----------------------------------------------------------------------------
(* Stopping drivers.                                                       *)

\* A driver to be stopped that still has its device can be found by its file.
LEMMA NobodyLeft ==
  ASSUME IInv, command = "stop", ups # NULL, ~Signals
  PROVE  \A p \in held : Owns(p) => proc[p].ups # U
<1> SUFFICES ASSUME NEW p \in held, Owns(p), proc[p].ups = U PROVE FALSE
  OBVIOUS
<1>1. p \in Procs /\ Alive(p) /\ U \in UPS
  BY Current DEF IInv, ToolType, Owns, Alive
<1>2. proc[p].mode = "start" /\ proc[p].at \in Settled /\ U \notin overlapped
  BY <1>1 DEF IInv, Held
<1>3. proc[p].at \in Signed
  BY <1>2 DEF Owns, Settled, Leaving, Signed
<1>4. pidfile[U] = p
  BY <1>1, <1>2, <1>3 DEF IInv, DInv, Apart, Of
<1> QED BY <1>1, <1>4 DEF Signals

\* It stays with the UPS it is stopping.
LEMMA Lingers ==
  ASSUME IInv, Kept, command = "stop", ups # NULL, NEW n \in Nat,
         NEW y \in {"term", "kill", "poll", "harder", "gone"}, At(y, n), Stays,
         UNCHANGED counts, place # "idle"
  PROVE  IInv'
<1>1. /\ place' = y /\ left' = n
      /\ UNCHANGED <<command, one, ups, pass, runs, held, pid, exceeded, initial, exec_error,
                     exec_timeout>>
  BY DEF At, Stays, counts
<1>2. ToolType'
  BY <1>1 DEF IInv, ToolType, Places
<1>3. Placed'
  <2>1. U' = U
    BY <1>1 DEF U
  <2> QED BY <1>1, <2>1 DEF IInv, Placed
<1>4. Walked => Walked'
  BY <1>1, WalkKept
<1>5. Honest'
  BY <1>1, <1>4 DEF IInv, Honest
<1> QED BY <1>2, <1>3, <1>5 DEF IInv, Kept

\* It goes on to the next UPS: with an error, or with nobody left at this one.
LEMMA Released ==
  ASSUME IInv, Kept, command = "stop", ups # NULL, place # "idle", Advance,
         exec_error' \in Nat, UNCHANGED <<pid, exceeded, exec_timeout>>,
         \/ exec_error' = exec_error + 1
         \/ UNCHANGED <<exec_error, proc>> /\ ~Signals
  PROVE  IInv'
<1>1. /\ exec_error \in Nat /\ exec_timeout \in Nat /\ pid \in [UPS -> Procs \cup {None}]
      /\ exceeded \subseteq UPS /\ exec_timeout = 0 /\ exceeded = {}
  BY DEF IInv, ToolType, Placed
<1>2. ASSUME exec_error' = 0, exec_timeout' = 0
      PROVE  Walked /\ \A u \in UPS \cap Asked : u = U => Serves(u)'
  <2>1. UNCHANGED <<exec_error, proc, command, held>> /\ ~Signals
    BY <1>1, <1>2 DEF Advance
  <2>2. Walked
    BY <1>2, <2>1 DEF IInv, Honest
  <2>3. \A u \in UPS : u = U => Serves(u)'
    BY <2>1, NobodyLeft DEF Serves, Owns
  <2> QED BY <2>2, <2>3
<1> QED BY <1>1, <1>2, Advances DEF IInv

LEMMA Stopping ==
  ASSUME IInv,
         \/ NoPidFile \/ stop_driver \/ Term \/ Kill \/ KillFails \/ HasGone \/ StillThere
         \/ KillHarder \/ RemoveFile
  PROVE  IInv'
<1>0. DInv /\ ToolType /\ Children /\ Held /\ exec_error \in Nat
  BY DEF IInv, ToolType
<1>00. place \in {"term", "kill", "poll", "harder", "gone"} => command = "stop" /\ ups # NULL
  BY DEF IInv, Placed
<1>1. CASE NoPidFile
  <2>1. /\ place = "next" /\ ups # NULL /\ command = "stop" /\ exec_error' = exec_error + 1
        /\ Advance /\ UNCHANGED <<pid, exceeded, exec_timeout, drivers>>
    BY <1>1 DEF NoPidFile, Meant
  <2>2. Kept
    BY <1>0, <2>1, KeptUnmoved DEF Advance
  <2> QED BY <1>0, <2>1, <2>2, Released
<1>2. CASE stop_driver
  <2>1. /\ place = "next" /\ ups # NULL /\ command = "stop"
        /\ At("term", 0) /\ Stays /\ UNCHANGED counts /\ UNCHANGED drivers
    BY <1>2 DEF stop_driver, Meant
  <2>2. Kept
    BY <1>0, <2>1, KeptUnmoved DEF At, Stays
  <2> QED BY <2>1, <2>2, Lingers
<1>3. CASE Term
  <2>1. place = "term" /\ Stays /\ UNCHANGED counts /\ UNCHANGED <<files, exits, hist>>
    BY <1>3 DEF Term
  <2>2. CASE Signals
    <3>1. /\ At("poll", Polls) /\ Polls \in Nat
          /\ proc' = [proc EXCEPT ![pidfile[U]].exit_flag = TRUE]
      BY <1>3, <2>2, UpsdrvctlAssumption DEF Term
    <3>2. pidfile[U] \in Procs /\ proc \in [Procs -> process_t]
      BY <1>0, <2>2 DEF Signals, DInv, DriverType
    <3> DEFINE d == pidfile[U]
    <3>3. d \in Procs /\ proc' = [proc EXCEPT ![d].exit_flag = TRUE]
      BY <3>1, <3>2
    <3> HIDE DEF d
    <3>4. proc' \in [Procs -> process_t] /\ \A q \in Procs : Like(proc'[q], proc[q])
      BY <3>2, <3>3, FlagSet
    <3>5. DriverGoesOn(d)
      BY <1>0, <2>1, <3>3, <3>4, Remains DEF Like, Same
    <3>6. Kept
      BY <1>0, <2>1, <3>1, <3>3, <3>5, KeptMoved DEF At, Stays
    <3> QED BY <1>00, <2>1, <3>1, <3>6, Lingers
  <2>3. CASE ~Signals
    <3>1. At("kill", 0) /\ UNCHANGED drivers
      BY <1>3, <2>3 DEF Term, drivers, files, hist
    <3>2. Kept
      BY <1>0, <2>1, <3>1, KeptUnmoved DEF At, Stays
    <3> QED BY <1>00, <2>1, <3>1, <3>2, Lingers
  <2> QED BY <2>2, <2>3
<1>4. CASE Kill \/ KillHarder
  <2>1. /\ place \in {"kill", "harder"} /\ Signals /\ Killed(pidfile[U], proc) /\ UNCHANGED hist
        /\ Stays /\ UNCHANGED counts
        /\ \E y \in {"poll", "gone"}, n \in {Polls, 0} : At(y, n)
    BY <1>4 DEF Kill, KillHarder
  <2>2. Polls \in Nat /\ 0 \in Nat
    BY UpsdrvctlAssumption
  <2>3. PICK y \in {"poll", "gone"}, n \in {Polls, 0} : At(y, n)
    BY <2>1
  <2>4. Kept
    <3> DEFINE d == pidfile[U]
    <3>1. d \in Procs /\ Killed(d, proc) /\ UNCHANGED hist
      BY <2>1 DEF Signals
    <3> HIDE DEF d
    <3>2. DriverGoesOn(d)
      BY <1>0, <3>1, Crashing
    <3> QED BY <1>0, <2>1, <2>3, <3>1, <3>2, KeptMoved DEF At, Stays
  <2>5. place # "idle" /\ n \in Nat
    BY <2>1, <2>2
  <2> QED BY <1>00, <2>1, <2>3, <2>4, <2>5, Lingers
<1>5. CASE KillFails
  <2>1. /\ place \in {"kill", "harder"} /\ exec_error' = exec_error + 1
        /\ Advance /\ UNCHANGED <<pid, exceeded, exec_timeout, drivers>>
    BY <1>5 DEF KillFails
  <2>2. Kept
    BY <1>0, <2>1, KeptUnmoved DEF Advance
  <2> QED BY <1>0, <1>00, <2>1, <2>2, Released
<1>6. CASE HasGone
  <2>1. /\ place = "poll" /\ ~Signals /\ Advance
        /\ UNCHANGED <<pid, exceeded, exec_error, exec_timeout, drivers>>
    BY <1>6 DEF HasGone, counts
  <2>2. Kept /\ UNCHANGED proc
    BY <1>0, <2>1, KeptUnmoved DEF Advance, drivers
  <2> QED BY <1>0, <1>00, <2>1, <2>2, Released
<1>7. CASE StillThere
  <2>1. /\ place = "poll" /\ Stays /\ UNCHANGED counts /\ UNCHANGED drivers
        /\ (left > 1 /\ At("poll", left - 1)) \/ At("harder", 0)
    BY <1>7 DEF StillThere
  <2>2. \E y \in {"poll", "harder"} : \E n \in Nat : At(y, n)
    BY <1>0, <2>1 DEF ToolType
  <2>3. Kept
    BY <1>0, <2>1, <2>2, KeptUnmoved DEF At, Stays
  <2> QED BY <1>00, <2>1, <2>2, <2>3, Lingers
<1>8. CASE RemoveFile
  <2>1. /\ place = "gone" /\ Advance
        /\ UNCHANGED <<pid, exceeded, exec_timeout, proc, sockfile, exits, faults,
                       told, came_up, overlapped>>
    BY <1>8 DEF RemoveFile, hist
  <2>2. CASE Signals
    <3>1. exec_error' = exec_error + 1 /\ UNCHANGED drivers
      BY <1>8, <2>1, <2>2 DEF RemoveFile, drivers
    <3>2. Kept
      BY <1>0, <2>1, <3>1, KeptUnmoved DEF Advance
    <3> QED BY <1>0, <1>00, <2>1, <3>1, <3>2, Released
  <2>3. CASE ~Signals
    <3>1. pidfile' = [pidfile EXCEPT ![U] = None] /\ exec_error' = exec_error
      BY <1>8, <2>3 DEF RemoveFile
    <3>2. U \in UPS /\ None \notin Procs /\ pidfile \in [UPS -> Procs \cup {None, Stale}]
      BY <1>0, <1>00, <2>1, Current, TableType DEF DInv, DriverType
    <3>3. /\ pidfile' \in [UPS -> Procs \cup {None, Stale}]
          /\ \A u \in UPS : pidfile'[u] = pidfile[u]
                              \/ (pidfile'[u] \notin Procs /\ pidfile[u] \notin Procs)
      BY <2>3, <3>1, <3>2 DEF Signals
    <3>4. DriverType'
      BY <1>0, <2>1, <3>3 DEF DInv, DriverType
    <3>5. DInv'
      BY <1>0, <2>1, <3>3, <3>4, Quiet DEF Lasts, Same
    <3>6. UNCHANGED <<command, one, held>>
      BY <2>1 DEF Advance
    <3>7. Children' /\ Held'
      BY <1>0, <2>1, <3>6 DEF Children, Held, Alive, Asked
    <3>8. \A u \in UPS : Serves(u) => Serves(u)'
      BY <2>1, <3>6 DEF Serves, Owns
    <3>9. Kept
      BY <3>5, <3>7, <3>8 DEF Kept
    <3> QED BY <1>0, <1>00, <2>1, <2>3, <3>1, <3>9, Released
  <2> QED BY <2>2, <2>3
<1> QED BY <1>1, <1>2, <1>3, <1>4, <1>5, <1>6, <1>7, <1>8

-----------------------------------------------------------------------------
(* Commands and interruptions.                                             *)

LEMMA Running ==
  ASSUME IInv, NEW c \in {"start", "stop", "shutdown"}, NEW u \in UPS \cup {None}, Run(c, u)
  PROVE  IInv'
<1>1. /\ place \in {"idle", "done"} /\ command' = c /\ one' = u /\ runs' = runs + 1
      /\ place' = "next" /\ pass' = 0
      /\ exec_error' = 0 /\ exec_timeout' = 0 /\ exceeded' = {}
      /\ told' = {} /\ came_up' = {}
      /\ UNCHANGED <<left, pid, initial, proc, pidfile, sockfile, exits, faults, overlapped>>
      /\ ups' = IF u = None THEN 1 ELSE CHOOSE i \in DOMAIN Table : Table[i] = u
      /\ held' = IF c # "stop" THEN {}
                 ELSE {p \in Procs : proc[p].at = "run" /\ proc[p].mode = "start"
                                       /\ proc[p].ups \in Targets(c, u) \ overlapped}
  BY DEF Run, Resting, files
<1>2. (\A v \in UPS : pid[v] = None) /\ \A p \in Procs : exits[p] = "nobody"
  BY <1>1 DEF IInv, Placed
<1>3. DInv'
  <2>1. DriverType' /\ Lives' /\ FilesNamed'
    BY <1>1 DEF IInv, DInv, DriverType, Lives, FilesNamed, Alive
  <2>2. Apart'
    BY <1>1 DEF IInv, DInv, Apart, Of, Alive, Starting, Past
  <2>3. Child'
    BY <1>1, <1>2 DEF Child
  <2> QED BY <2>1, <2>2, <2>3 DEF DInv
<1>4. Children'
  BY <1>1, <1>2 DEF Children
<1>5. Held'
  <2>1. Asked' = Targets(c, u)
    BY <1>1 DEF Asked, Targets
  <2>2. \A p \in held' : /\ c = "stop" /\ proc[p].at = "run" /\ proc[p].mode = "start"
                         /\ proc[p].ups \in Targets(c, u) \ overlapped
    BY <1>1
  <2> QED BY <1>1, <2>1, <2>2 DEF Held, Settled
<1>6. /\ ups' \in 1 .. NULL
      /\ u = None => ups' = 1
      /\ u # None => ups' \in DOMAIN Table /\ Table[ups'] = u
  <2>1. CASE u = None
    BY <1>1, <2>1, TableType
  <2>2. CASE u # None
    <3>1. \E i \in DOMAIN Table : Table[i] = u
      BY <2>2, TableType
    <3>2. ups' \in DOMAIN Table /\ Table[ups'] = u
      BY <1>1, <2>2, <3>1
    <3> QED BY <2>2, <3>2, TableType
  <2> QED BY <2>1, <2>2
<1>7. ToolType'
  BY <1>1, <1>6 DEF IInv, ToolType, Places
<1>8. Placed'
  BY <1>1, <1>6 DEF Placed, U
<1>9. Walked'
  <2>1. Asked' = Targets(c, u)
    BY <1>1 DEF Asked, Targets
  <2> SUFFICES ASSUME NEW i \in DOMAIN Table, i < ups', Table[i] \in Targets(c, u)
               PROVE  FALSE
    BY <2>1 DEF Walked
  <2>2. u # None /\ Table[i] = u
    BY <1>6, TableType DEF Targets
  <2> QED BY <1>6, <2>2, TableType
<1>10. Honest'
  BY <1>1, <1>9 DEF Honest
<1> QED BY <1>3, <1>4, <1>5, <1>7, <1>8, <1>10 DEF IInv

LEMMA Interrupting ==
  ASSUME IInv, Interrupted
  PROVE  IInv'
<1>1. /\ place' = "idle" /\ ups' = NULL /\ pass' = 0 /\ exec_error' = 0 /\ exec_timeout' = 0
      /\ exceeded' = {} /\ held' = {} /\ Leaves
  BY DEF Interrupted
<1>2. pid' = [u \in UPS |-> None] /\ left' = 0 /\ initial' = <<0, 0>>
      /\ UNCHANGED <<command, one, runs>>
  BY <1>1 DEF Leaves
<1>3. /\ proc' \in [Procs -> process_t]
      /\ \A q \in Procs : Same(q) \/ (proc'[q].at = "gone" /\ proc[q].mode = "kill")
  <2>1. PICK told_too \in {{}, Foreground} :
          proc' = [p \in Procs |->
            CASE p \in told_too /\ proc[p].mode = "kill"  -> Blank
              [] p \in told_too /\ proc[p].mode = "start" -> [proc[p] EXCEPT !.exit_flag = TRUE]
              [] OTHER                                    -> proc[p]]
    BY DEF Interrupted
  <2>2. proc \in [Procs -> process_t]
    BY DEF IInv, DInv, DriverType
  <2>3. Blank \in process_t /\ Blank.at = "gone"
    BY DEF Blank, process_t, Stations
  <2>4. \A r \in process_t : Like([r EXCEPT !.exit_flag = TRUE], r)
    BY DEF Like, process_t
  <2>5. ASSUME NEW q \in Procs
        PROVE  /\ proc'[q] \in process_t
               /\ Same(q) \/ (proc'[q].at = "gone" /\ proc[q].mode = "kill")
    <3>1. CASE q \in told_too /\ proc[q].mode = "kill"
      <4>1. proc'[q] = Blank
        BY <2>1, <3>1
      <4> QED BY <2>3, <3>1, <4>1
    <3>2. CASE q \in told_too /\ proc[q].mode = "start"
      <4>1. proc'[q] = [proc[q] EXCEPT !.exit_flag = TRUE] /\ proc[q] \in process_t
        BY <2>1, <2>2, <3>2
      <4>2. Like(proc'[q], proc[q])
        BY <2>4, <4>1
      <4> QED BY <4>2 DEF Like, Same
    <3>3. CASE ~(q \in told_too /\ proc[q].mode \in {"kill", "start"})
      <4>1. proc'[q] = proc[q]
        BY <2>1, <3>3
      <4> QED BY <2>2, <4>1 DEF Same
    <3> QED BY <3>1, <3>2, <3>3
  <2>6. proc' = [p \in Procs |-> proc'[p]]
    BY <2>1
  <2> QED BY <2>5, <2>6
<1>4. DInv' /\ Children' /\ (\A q \in Procs : exits'[q] = "nobody") /\ \A u \in UPS : pid'[u] = None
  BY <1>1, <1>3, Left
<1>5. ToolType'
  BY <1>1, <1>2, TableType DEF IInv, ToolType, Places
<1>6. Placed'
  BY <1>1, <1>2, <1>4 DEF Placed
<1>7. Held' /\ Honest'
  BY <1>1 DEF Held, Honest
<1> QED BY <1>4, <1>5, <1>6, <1>7 DEF IInv

\* The drivers run on while the tool is between two system calls.
LEMMA RunOn ==
  ASSUME IInv, Kept, UNCHANGED tool,
         (\A q \in Procs : exits[q] = "nobody") => \A q \in Procs : exits'[q] = "nobody"
  PROVE  IInv'
<1>1. UNCHANGED <<place, command, one, ups, pass, left, pid, exceeded, exec_error,
                  exec_timeout, initial, runs, held>>
  BY DEF tool
<1>2. ToolType' /\ Placed'
  BY <1>1 DEF IInv, ToolType, Placed, U
<1>3. Walked => Walked'
  BY <1>1, WalkKept
<1>4. Honest'
  BY <1>1, <1>3 DEF IInv, Honest
<1> QED BY <1>2, <1>4 DEF IInv, Kept

\* What holds of the drivers, the files and the tool between any two of their steps.
THEOREM Inductive == Spec => []IInv
<1>1. Init => IInv
  <2> SUFFICES ASSUME Init PROVE IInv
    OBVIOUS
  <2>1. /\ InitDrivers /\ place = "idle" /\ command = "start" /\ one = None
        /\ ups = NULL /\ pass = 0 /\ left = 0
        /\ pid = [u \in UPS |-> None] /\ exceeded = {}
        /\ exec_error = 0 /\ exec_timeout = 0 /\ initial = <<0, 0>>
        /\ runs = 0 /\ held = {}
    BY DEF Init
  <2>2. DInv /\ \A p \in Procs : exits[p] = "nobody"
    BY <2>1, InitiallyDriven DEF InitDrivers
  <2>3. ToolType
    BY <2>1, TableType DEF ToolType, Places
  <2>4. Children /\ Placed /\ Held /\ Honest
    BY <2>1, <2>2 DEF Children, Placed, Held, Honest
  <2> QED BY <2>2, <2>3, <2>4 DEF IInv
<1>2. IInv /\ [Next]_vars => IInv'
  <2> SUFFICES ASSUME IInv, [Next]_vars PROVE IInv'
    OBVIOUS
  <2>1. CASE Tool
    BY <2>1, Skipping, NextOrders, Finishes, StartsOne, Waiting, Stopping DEF Tool
  <2>2. CASE Command
    BY <2>2, Running DEF Command
  <2>3. CASE DriverStep
    <3>1. PICK p \in Procs : (Driver(p) \/ Hang(p) \/ Crash(p)) /\ UNCHANGED tool
      BY <2>3 DEF DriverStep
    <3>2. DriverGoesOn(p)
      BY <3>1, DriverSteps DEF IInv
    <3> QED BY <3>1, <3>2, DriverEffect, RunOn DEF IInv, Kept, tool
  <2>4. CASE Interrupted
    BY <2>4, Interrupting
  <2>5. CASE UNCHANGED vars
    <3>1. UNCHANGED tool /\ UNCHANGED drivers
      BY <2>5 DEF vars
    <3>2. Kept
      BY <3>1, KeptUnmoved DEF IInv, tool
    <3> QED BY <3>1, <3>2, RunOn DEF drivers
  <2> QED BY <2>1, <2>2, <2>3, <2>4, <2>5 DEF Next
<1> QED BY <1>1, <1>2, PTL DEF Spec

-----------------------------------------------------------------------------
(* The theorems.                                                           *)

\* TypeOK: the processes and the tool keep the shapes main.c and upsdrvctl.c give
\* them, and a PID or socket file never names a process that has ended without it
\* being taken for a dead one's.
THEOREM TypeCorrect == Spec => []TypeOK
<1>1. IInv => TypeOK
  <2> SUFFICES ASSUME IInv PROVE TypeOK
    OBVIOUS
  <2>1. DriverType /\ ToolType
    BY DEF IInv, DInv
  <2>2. \A u \in UPS : /\ pidfile[u] \in {p \in Procs : Alive(p)} \cup {None, Stale}
                       /\ sockfile[u] \in {p \in Procs : Alive(p)} \cup {None, Stale}
    BY <2>1 DEF IInv, DInv, FilesNamed, DriverType, Alive, Signed, Bound
  <2>3. /\ pidfile \in [UPS -> {p \in Procs : Alive(p)} \cup {None, Stale}]
        /\ sockfile \in [UPS -> {p \in Procs : Alive(p)} \cup {None, Stale}]
    BY <2>1, <2>2 DEF DriverType
  <2> QED BY <2>1, <2>3 DEF TypeOK, ToolType, DriverType
<1> QED BY <1>1, Inductive, PTL

\* OneOwner: two processes never drive one UPS, but for instances that were starting
\* at the same time, however the new one displaces the old one and whatever hangs or
\* dies (main.c: the socket, the PID file, setup_signals()).
THEOREM NeverTwo == Spec => []OneOwner
<1>1. IInv => OneOwner
  <2> SUFFICES ASSUME IInv, NEW u \in UPS \ overlapped
               PROVE  Cardinality({p \in Of(u) : Owns(p)}) <= 1
    BY DEF OneOwner
  <2> DEFINE owners == {p \in Of(u) : Owns(p)}
  <2>1. \A p \in owners : Past(p)
    BY DEF Owns, Past, Early, Alive
  <2>2. \A p, q \in owners : p = q
    BY <2>1 DEF IInv, DInv, Apart
  <2>3. owners = {} \/ \E p \in owners : owners = {p}
    BY <2>2
  <2>4. Cardinality(owners) \in {0, 1}
    <3> HIDE DEF owners
    <3> QED BY <2>3, FS_EmptySet, FS_Singleton
  <2> QED BY <2>4
<1> QED BY <1>1, Inductive, PTL

\* A command that has ended without an error has served everyone it was for.
LEMMA ServedAll ==
  ASSUME IInv, NEW c, Succeeded(c), exec_timeout = 0
  PROVE  \A u \in UPS \cap Asked : Serves(u)
<1>1. ups = NULL /\ Walked
  BY DEF Succeeded, IInv, Placed, Honest
<1> QED BY <1>1, TableType DEF Walked

\* StopReleases: "upsdrvctl stop" does not report success while a driver that served
\* when it was run still has its device (stop_driver(): the signals, the looks at the
\* PID file and SIGKILL in the end).
THEOREM StoppedIsReleased == Spec => []StopReleases
<1>1. IInv => StopReleases
  <2> SUFFICES ASSUME IInv, Succeeded("stop"), NEW p \in held, Owns(p)
               PROVE  proc[p].ups \in overlapped
    BY DEF StopReleases
  <2>1. command = "stop" /\ exec_timeout = 0
    BY DEF Succeeded, IInv, Placed
  <2>2. p \in Procs /\ Alive(p)
    BY DEF IInv, ToolType, Owns, Alive
  <2>3. proc[p].ups \in UPS \cap Asked
    BY <2>2 DEF IInv, Held, DInv, Lives
  <2>4. Serves(proc[p].ups)
    BY <2>1, <2>3, ServedAll
  <2> QED BY <2>1, <2>4 DEF Serves
<1> QED BY <1>1, Inductive, PTL

\* ShutdownTold: a shutdown that succeeds in time has had every UPS of the first order
\* told to cut its power (shutdown_driver(), main.c with -k).
THEOREM ShutdownReaches == Spec => []ShutdownTold
<1>1. IInv => ShutdownTold
  <2> SUFFICES ASSUME IInv, Succeeded("shutdown"), exec_timeout = 0, NEW u \in Asked
               PROVE  u \in told
    BY DEF ShutdownTold
  <2>1. command = "shutdown" /\ u \in UPS
    BY DEF Succeeded, Asked, IInv, ToolType
  <2> QED BY <2>1, ServedAll DEF Serves
<1> QED BY <1>1, Inductive, PTL

\* StartMeansUp: a start that succeeds in time has brought up every driver it was for
\* and that maxretry has it try at least once, although a retry that works forgives
\* the failures before it (start_driver()).
THEOREM StartedIsUp == Spec => []StartMeansUp
<1>1. IInv => StartMeansUp
  <2> SUFFICES ASSUME IInv, Succeeded("start"), exec_timeout = 0, NEW u \in Asked, maxretry[u] > 0
               PROVE  u \in came_up
    BY DEF StartMeansUp, Tried
  <2>1. command = "start" /\ u \in UPS
    BY DEF Succeeded, Asked, IInv, ToolType
  <2> QED BY <2>1, ServedAll DEF Serves
<1> QED BY <1>1, Inductive, PTL

===============================================================================
