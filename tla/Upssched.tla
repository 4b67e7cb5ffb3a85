------------------------------- MODULE Upssched -------------------------------
(***************************************************************************)
(* upssched (clients/upssched.c): upsmon runs one process of it per event, *)
(* several at a time.  A process that starts or cancels a timer is a       *)
(* client of a daemon, which the first of them that finds none forks; the  *)
(* daemon runs CMDSCRIPT when a timer is due and leaves when it has had no *)
(* timer for EMPTY_WAIT passes.  They meet at two files: the socket PIPEFN *)
(* and the lock LOCKFN, which is there only while a daemon is being born.  *)
(*                                                                         *)
(* Abstractions: a process has one AT line to follow; the 250 ms naps of   *)
(* the clients take any time; a message is read whole.                     *)
(***************************************************************************)
EXTENDS Integers, FiniteSets, SequencesExt

CONSTANTS
  Events,       \* bound: how many events upsmon starts a process for
  Daemons,      \* bound: as many daemons may live at a time
  Jobs,         \* [cmd, name, ofs, cname]: the AT lines they may follow
  EMPTY_WAIT,   \* passes without a timer before a daemon leaves
  MAX_TRIES     \* of check_parent() and of sendcmd()

ASSUME UpsschedAssumption ==
  /\ Events \in Nat /\ IsFiniteSet(Daemons)
  /\ Daemons \cap {"none", "stale"} = {}
  /\ Jobs \subseteq [cmd : {"START", "CANCEL"}, name : STRING, ofs : Nat,
                     cname : BOOLEAN]
  /\ EMPTY_WAIT \in Nat \ {0} /\ MAX_TRIES \in Nat \ {0}

\* The processes, in the order upsmon starts them.
Clients == 1..Events

VARIABLES
  path,      \* PIPEFN: the daemon bound to it, "none", or "stale": a file left over
  lock,      \* LOCKFN exists
  job,       \* of each client: the AT line
  client,    \* of each client: where it is, its daemon, and its tries
  daemon,    \* of each daemon: its phase, connections and timers
  made,      \* history: how many timers the START of a client has made
  hit,       \* history: whose timer a CANCEL has removed
  before,    \* history: the clients that were done when this one started
  fired,     \* history: the clients whose timers have fired
  split      \* history: a daemon was forked while another one lived

files == <<path, lock>>
hist  == <<made, hit, before, fired, split>>
vars  == <<files, job, client, daemon, hist>>

\* The list of timers is a set: nth says which of two is the older one.
Unborn == [at |-> "unborn", pending |-> << >>, conns |-> << >>, ready |-> {},
           timers |-> {}, orders |-> 0, emptyctr |-> 0, rested |-> FALSE]

\* An earlier daemon, or a boot, may have left either file.
Init ==
  /\ path \in {"none", "stale"} /\ lock \in BOOLEAN
  /\ job \in [Clients -> Jobs]
  /\ client = [c \in Clients |-> [at |-> "idle", conn |-> "none",
                                  tries |-> 0, rounds |-> 0]]
  /\ daemon = [d \in Daemons |-> Unborn]
  /\ made = [c \in Clients |-> 0] /\ hit = [c \in Clients |-> {}]
  /\ before = [c \in Clients |-> {}] /\ fired = {} /\ split = FALSE

Alive(d)    == daemon[d].at # "unborn"
Running     == UNION {{t.by : t \in daemon[d].timers} : d \in Daemons}
Moved(r, place) == [r EXCEPT !.at = place]

-----------------------------------------------------------------------------
(* A client.                                                               *)

\* The next round of sendcmd(), if there is one.
NextRound(r) ==
  [r EXCEPT !.rounds = @ + 1, !.tries = 0, !.conn = "none",
            !.at = IF r.rounds + 1 < MAX_TRIES THEN "connect" ELSE "failed"]

\* The next try of check_parent(), if there is one.
NextTry(r) ==
  [r EXCEPT !.tries = @ + 1,
            !.at = IF r.tries + 1 < MAX_TRIES THEN "connect" ELSE "failed"]

\* upsmon runs upssched for an event.
Launch(c) ==
  /\ client[c].at = "idle" /\ \A b \in 1..c-1 : client[b].at # "idle"
  /\ client' = [client EXCEPT ![c] = Moved(@, "connect")]
  /\ before' = [before EXCEPT ![c] = {b \in Clients : client[b].at = "done"}]
  /\ UNCHANGED <<files, job, daemon, made, hit, fired, split>>

\* The connection waits in the backlog.
try_connect(c) ==
  /\ client[c].at = "connect" /\ path \in Daemons
  /\ client' = [client EXCEPT ![c] = [Moved(@, "send") EXCEPT !.conn = path]]
  /\ daemon' = [daemon EXCEPT ![path].pending = Append(@, c)]
  /\ UNCHANGED <<files, job, hist>>

\* check_parent() without a daemon: there is nothing to cancel.
Unnecessary(c) == job[c].cmd = "CANCEL" /\ ~job[c].cname

\* Mutation: that is decided before the connection is tried.
check_parent_early(c) ==
  /\ client[c].at = "connect" /\ (path \notin Daemons \/ Unnecessary(c))
  /\ client' = [client EXCEPT ![c] =
                  Moved(@, IF Unnecessary(c) THEN "done" ELSE "lock")]
  /\ UNCHANGED <<files, job, daemon, hist>>

check_parent(c) ==
  /\ client[c].at = "connect" /\ path \notin Daemons
  /\ client' = [client EXCEPT ![c] =
                  Moved(@, IF Unnecessary(c) THEN "done" ELSE "lock")]
  /\ UNCHANGED <<files, job, daemon, hist>>

CanLock == ~lock

\* get_lock() and the fork of start_daemon(), whose parent waits for the child.
start_daemon(c, d) ==
  /\ client[c].at = "lock" /\ CanLock /\ ~Alive(d)
  /\ lock' = TRUE
  /\ daemon' = [daemon EXCEPT ![d] = Moved(Unborn, "unlink")]
  /\ client' = [client EXCEPT ![c] = [Moved(@, "fork") EXCEPT !.conn = d]]
  /\ split' = (split \/ \E e \in Daemons : Alive(e))
  /\ UNCHANGED <<path, job, made, hit, before, fired>>

LockTaken(c) ==
  /\ client[c].at = "lock" /\ ~CanLock
  /\ client' = [client EXCEPT ![c] = Moved(@, "unlock")]
  /\ UNCHANGED <<files, job, daemon, hist>>

\* The lock of someone else, perhaps stale, and a nap.
BreakLock(c) ==
  /\ client[c].at = "unlock"
  /\ lock' = FALSE /\ client' = [client EXCEPT ![c] = NextTry(@)]
  /\ UNCHANGED <<path, job, daemon, hist>>

\* The write of sendcmd(), to a daemon that is there...
Send(c) ==
  /\ client[c].at = "send"
  /\ client' = [client EXCEPT ![c] = Moved(@, "answer")]
  /\ UNCHANGED <<files, job, daemon, hist>>

\* ... and to one that is not: no one handles SIGPIPE.
SendBroken(c) ==
  /\ client[c].at = "pipe"
  /\ client' = [client EXCEPT ![c] = Moved(@, "killed")]
  /\ UNCHANGED <<files, job, daemon, hist>>

ReadAnswer(c) ==
  /\ client[c].at = "reply"
  /\ client' = [client EXCEPT ![c] = Moved(@, "done")]
  /\ UNCHANGED <<files, job, daemon, hist>>

ReadFails(c) ==
  /\ client[c].at = "eof"
  /\ client' = [client EXCEPT ![c] = NextRound(@)]
  /\ UNCHANGED <<files, job, daemon, hist>>

-----------------------------------------------------------------------------
(* A daemon: its birth.                                                    *)

\* The parent, whose read of the pipe ends: it naps and tries again.
Parent(d) == {c \in Clients : client[c].at = "fork" /\ client[c].conn = d}
ParentGoesOn(d) ==
  client' = [c \in Clients |-> IF c \in Parent(d) THEN NextRound(client[c])
                                                 ELSE client[c]]

\* open_sock(): whatever has the name loses it.
Unlink(d) ==
  /\ daemon[d].at = "unlink"
  /\ path' = "none" /\ daemon' = [daemon EXCEPT ![d] = Moved(@, "bind")]
  /\ UNCHANGED <<lock, job, client, hist>>

Bind(d) ==
  /\ daemon[d].at = "bind" /\ path = "none"
  /\ path' = d /\ daemon' = [daemon EXCEPT ![d] = Moved(@, "unlock")]
  /\ ParentGoesOn(d) /\ UNCHANGED <<lock, job, hist>>

\* Another daemon was faster: this one leaves, and the lock stays.
BindFails(d) ==
  /\ daemon[d].at = "bind" /\ path # "none"
  /\ daemon' = [daemon EXCEPT ![d] = Unborn]
  /\ ParentGoesOn(d) /\ UNCHANGED <<files, job, hist>>

Unlock(d) ==
  /\ daemon[d].at = "unlock"
  /\ lock' = FALSE /\ daemon' = [daemon EXCEPT ![d] = Moved(@, "select")]
  /\ UNCHANGED <<path, job, client, hist>>

-----------------------------------------------------------------------------
(* A daemon: one pass of its loop.                                         *)

\* A command is there to be read, or the end of the connection.
Readable(c) == client[c].at \in {"answer", "done"}

\* select(), and conn_add() of one new connection, which is not read in this
\* pass; select() ends after a second without any.
Select(d) ==
  LET r == daemon[d]
      new == IF r.pending = << >> THEN << >> ELSE <<Head(r.pending)>>
      ready == {c \in Range(r.conns) : Readable(c)}
  IN /\ r.at = "select" /\ (r.rested \/ new # << >> \/ ready # {})
     /\ daemon' = [daemon EXCEPT ![d] =
          [r EXCEPT !.at = "serve", !.rested = FALSE, !.ready = ready,
                    !.conns = r.conns \o new,
                    !.pending = IF new = << >> THEN @ ELSE Tail(@)]]
     /\ UNCHANGED <<files, job, client, hist>>

Named(timers, name) == {t \in timers : job[t.by].name = name}

\* start_timer() never looks for a timer of that name.
start_timer(r, c) ==
  r.timers \cup {[by |-> c, left |-> job[c].ofs, nth |-> r.orders]}

\* cancel_timer() takes the first one of that name, if there is any.
Oldest(timers) == {t \in timers : \A k \in timers : t.nth <= k.nth}
Cancelled(r, c) ==
  IF job[c].cmd = "CANCEL" THEN Oldest(Named(r.timers, job[c].name)) ELSE {}

\* sock_arg(): the queue after the command of c.
Obeyed(r, c) ==
  IF job[c].cmd = "START" THEN start_timer(r, c) ELSE r.timers \ Cancelled(r, c)

\* Mutation: a START is answered only after the next read.
AnsweredLate(c) == IF job[c].cmd = "START" THEN "eof" ELSE "reply"

Answered(c) == "reply"

\* The loop goes through the connections in their order.
Turns(r) == {i \in DOMAIN r.conns : r.conns[i] \in r.ready}
IsNext(r, i) == i \in Turns(r) /\ \A k \in Turns(r) : i <= k

\* sock_read() of one command, and sock_arg().
sock_read(d) ==
  \E i \in DOMAIN daemon[d].conns :
    LET r == daemon[d]
        c == r.conns[i]
    IN /\ r.at = "serve" /\ IsNext(r, i) /\ client[c].at = "answer"
       /\ daemon' = [daemon EXCEPT ![d] =
            [r EXCEPT !.ready = @ \ {c}, !.timers = Obeyed(r, c),
                      !.orders = @ + 1]]
       /\ client' = [client EXCEPT ![c] = Moved(@, Answered(c))]
       /\ made' = IF job[c].cmd = "START" THEN [made EXCEPT ![c] = @ + 1] ELSE made
       /\ hit' = [hit EXCEPT ![c] = {t.by : t \in Cancelled(r, c)}]
       /\ UNCHANGED <<files, job, before, fired, split>>

\* The other end is closed.
conn_del(d) ==
  \E i \in DOMAIN daemon[d].conns :
    LET r == daemon[d]
        c == r.conns[i]
    IN /\ r.at = "serve" /\ IsNext(r, i) /\ client[c].at # "answer"
       /\ daemon' = [daemon EXCEPT ![d] =
            [r EXCEPT !.ready = @ \ {c}, !.conns = RemoveAt(@, i)]]
       /\ UNCHANGED <<files, job, client, hist>>

\* The end of a pass.
Checks(d) == daemon[d].at = "serve" /\ daemon[d].ready = {}

\* Mutation: the timers are not looked at.
NoTimerEver(d) == daemon[d].emptyctr + 1 >= EMPTY_WAIT

\* Mutation: one pass too many is waited for.
LeavesLate(d) == daemon[d].timers = {} /\ daemon[d].emptyctr >= EMPTY_WAIT

\* checktimers() has found no timer often enough.
Leaves(d) == daemon[d].timers = {} /\ daemon[d].emptyctr + 1 >= EMPTY_WAIT

Due(t) == t.left = 0
Fired(timers) == {t.by : t \in {k \in timers : Due(k)}}

StillThere(timers) == {t \in timers : ~Due(t)}

checktimers(d) ==
  LET r == daemon[d]
  IN /\ Checks(d) /\ ~Leaves(d)
     /\ daemon' = [daemon EXCEPT ![d] =
          [r EXCEPT !.at = "select", !.timers = StillThere(@),
                    !.emptyctr = IF r.timers = {} THEN @ + 1 ELSE 0]]
     /\ fired' = fired \cup Fired(r.timers)
     /\ UNCHANGED <<files, job, client, made, hit, before, split>>

\* What the end of its daemon does to a connected client.
CutOff(r, d) ==
  CASE r.conn = d /\ r.at = "send"   -> Moved(r, "pipe")
    [] r.conn = d /\ r.at = "answer" -> Moved(r, "eof")
    [] OTHER -> r

\* The file goes, whoever is bound to it.
Leave(d) ==
  /\ Checks(d) /\ Leaves(d)
  /\ path' = "none" /\ daemon' = [daemon EXCEPT ![d] = Unborn]
  /\ client' = [c \in Clients |-> CutOff(client[c], d)]
  /\ UNCHANGED <<lock, job, hist>>

-----------------------------------------------------------------------------

Elapse(timers) ==
  {[t EXCEPT !.left = IF @ > 0 THEN @ - 1 ELSE 0] : t \in timers}

\* A second passes: time enough for a pass.
Tick ==
  /\ daemon' = [d \in Daemons |->
       IF Alive(d) THEN [daemon[d] EXCEPT !.rested = TRUE, !.timers = Elapse(@)]
                   ELSE daemon[d]]
  /\ UNCHANGED <<files, job, client, hist>>

sendcmd(c) ==
  \/ try_connect(c) \/ check_parent(c)
  \/ \E d \in Daemons : start_daemon(c, d)
  \/ LockTaken(c) \/ BreakLock(c)
  \/ Send(c) \/ SendBroken(c) \/ ReadAnswer(c) \/ ReadFails(c)

RunDaemon(d) ==
  \/ Unlink(d) \/ Bind(d) \/ BindFails(d) \/ Unlock(d)
  \/ Select(d) \/ sock_read(d) \/ conn_del(d) \/ checktimers(d) \/ Leave(d)

Next ==
  \/ \E c \in Clients : Launch(c) \/ sendcmd(c)
  \/ \E d \in Daemons : RunDaemon(d)
  \/ Tick

Spec == Init /\ [][Next]_vars

\* The processes run, and time passes.
Fairness ==
  /\ \A c \in Clients : WF_vars(sendcmd(c))
  /\ \A d \in Daemons : WF_vars(RunDaemon(d))
  /\ WF_vars(Tick)
FairSpec == Spec /\ Fairness

-----------------------------------------------------------------------------
(* Properties.                                                             *)

Timer  == [by : Clients, left : Nat, nth : Nat]
conn_t == [at : {"idle", "connect", "lock", "fork", "unlock", "send", "answer",
                 "reply", "pipe", "eof", "done", "failed", "killed"},
           conn : Daemons \cup {"none"}, tries : 0..MAX_TRIES,
           rounds : 0..MAX_TRIES]
daemon_t == [at : {"unborn", "unlink", "bind", "unlock", "select", "serve"},
             pending : Seq(Clients), conns : Seq(Clients), ready : SUBSET Clients,
             timers : SUBSET Timer, orders : Nat, emptyctr : 0..EMPTY_WAIT-1,
             rested : BOOLEAN]

\* The variables keep their types; an idle daemon stops counting in time.
TypeOK ==
  /\ path \in Daemons \cup {"none", "stale"} /\ lock \in BOOLEAN
  /\ job \in [Clients -> Jobs]
  /\ client \in [Clients -> conn_t] /\ daemon \in [Daemons -> daemon_t]
  /\ made \in [Clients -> Nat]
  /\ hit \in [Clients -> SUBSET Clients]
  /\ before \in [Clients -> SUBSET Clients]
  /\ fired \subseteq Clients /\ split \in BOOLEAN

\* sendcmd() and sock_arg(), upssched.c:1221 and 661: with all the tries, a START
\* makes one timer exactly when it is answered, and none when its process fails
\* or is killed.
ExactlyOnce ==
  \A c \in Clients : job[c].cmd = "START" =>
    made[c] = IF client[c].at \in {"reply", "done"} THEN 1 ELSE 0

\* check_parent(), cancel_timer() and checktimers(), upssched.c:1151, 241 and 158:
\* unless two daemons have lived at a time, a CANCEL that has found nothing has
\* left no timer running whose START was over before.
CancelFindsIt ==
  \A c \in Clients :
    ~split /\ job[c].cmd = "CANCEL" /\ client[c].at = "done" /\ hit[c] = {}
      => \A b \in before[c] \cap Running : job[b].name # job[c].name

Over(c) == client[c].at \in {"idle", "done", "failed", "killed"}
Spent(c) == c \in fired \/ \E k \in Clients : c \in hit[k]

\* check_parent(), sendcmd() and checktimers(), upssched.c:1142, 1221 and 151:
\* no process hangs, with a stale lock, a stale socket or a daemon that leaves;
\* every timer fires or is cancelled, whatever becomes of the socket its daemon
\* was bound to; and then no daemon is left.
AllEnds ==
  <>[](/\ \A c \in Clients : Over(c) /\ (made[c] > 0 => Spent(c))
      /\ \A d \in Daemons : ~Alive(d))

===============================================================================
