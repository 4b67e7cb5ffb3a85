------------------------------ MODULE DriverLink ------------------------------
(***************************************************************************)
(* The Unix socket between a driver (drivers/dstate.c) and upsd            *)
(* (server/sstate.c, mainloop() of server/upsd.c).  The driver keeps the   *)
(* variables of its UPS and broadcasts every change; upsd keeps a copy,    *)
(* which a DUMPALL fills when it connects, pings a driver that says        *)
(* nothing, and calls the data stale when it does not answer.              *)
(*                                                                         *)
(* Abstractions: commands, flags, enumerations and ranges are copied like  *)
(* variables and left out; a message is the name of what it sets and its   *)
(* value; of the driver's connections only that of upsd is kept, and not   *)
(* any more once upsd has closed it; the mode of the socket is "auto".     *)
(***************************************************************************)
EXTENDS Integers, Sequences

CONSTANTS
  Optional,     \* the variables besides ups.status, which a driver may delete
  Values,       \* of each variable: the values it may have
  MAXAGE,       \* seconds upsd waits for a message
  PollTime,     \* seconds poll() of mainloop() waits
  Busy,         \* seconds a driver may take before it looks at its sockets
  Capacity,     \* bound: messages that fit into the socket, from the driver
  CmdCapacity   \* bound: commands that fit into it, from upsd

Vars   == Optional \cup {"ups.status"}
Fields == Vars \cup {"data_ok", "dumpdone"}

ASSUME DriverLinkAssumption ==
  /\ Optional \cap {"ups.status", "data_ok", "dumpdone", "PONG"} = {}
  /\ \A v \in Vars : Values[v] \cap {"gone", "WAIT"} = {}
  /\ MAXAGE \in Nat /\ PollTime \in Nat \ {0} /\ Busy \in Nat
  /\ Capacity \in Nat \ {0} /\ CmdCapacity \in Nat \ {0}

VARIABLES
  drv,      \* the driver: "up", "hung" or "down"
  tree,     \* its variables, "gone" for one that does not exist
  fresh,    \* it has data of its UPS: "yes" or "no"
  sync,     \* it takes new connections in blocking mode
  out,      \* what it has yet to write before it goes on
  link,     \* "none", "backlog", "open", or "cut": closed by the driver
  toD, toU, \* what is under way to the driver and to upsd
  info,     \* upsd's copy of Fields
  stale,    \* upsd takes the data for stale
  at,       \* where mainloop() is: "scan", "poll", "read", or "blind": it polls
            \* without this driver
  heard, pinged, waited,  \* seconds since the last message, PING and scan
  owed,     \* seconds the driver has not looked at its sockets
  steady    \* history: as long as connected, it has been up and had data

driver == <<drv, tree, fresh, sync, out>>
upsd   == <<info, stale, at>>
clocks == <<heard, pinged, waited, owed>>
vars   == <<driver, link, toD, toU, upsd, clocks, steady>>

Connected == link # "none"

\* Mutation: the variables of the last connection stay as well.
BlankStatus(i) == [i EXCEPT !["ups.status"] = "WAIT", !["dumpdone"] = "no"]

\* upsd's copy when it connects; what it thought of the data stays.
Blank(i) == [f \in Fields |-> CASE f = "ups.status" -> "WAIT"
                                [] f = "dumpdone"   -> "no"
                                [] f = "data_ok"    -> i["data_ok"]
                                [] OTHER            -> "gone"]

\* The values of v, and that of a variable that does not exist.
May(v) == Values[v] \cup IF v \in Optional THEN {"gone"} ELSE {}

AnyValue == UNION {May(v) : v \in Vars}
Trees == {t \in [Vars -> AnyValue] : \A v \in Vars : t[v] \in May(v)}

Init ==
  /\ drv = "down" /\ tree \in Trees /\ fresh = "no" /\ sync = FALSE
  /\ out = {} /\ link = "none" /\ toD = << >> /\ toU = << >>
  /\ info = Blank([f \in Fields |-> "no"]) /\ stale = TRUE /\ at = "scan"
  /\ heard = 0 /\ pinged = 0 /\ waited = 0 /\ owed = 0
  /\ steady = FALSE

-----------------------------------------------------------------------------
(* The driver.                                                             *)

\* What a message about f says now.
Current(f) ==
  CASE f = "data_ok" -> fresh [] f = "dumpdone" -> "yes" [] f = "PONG" -> "PONG"
    [] OTHER -> tree[f]

\* A new process: its tree is filled before it listens.
Start ==
  /\ drv = "down" /\ drv' = "up" /\ tree' \in Trees
  /\ UNCHANGED <<fresh, sync, out, link, toD, toU, upsd, clocks, steady>>

\* The driver closes the connection, and upsd has yet to notice: it will see the
\* hangup before what it has not read.
CutLink ==
  /\ link' = IF Connected THEN "cut" ELSE link
  /\ out' = {} /\ toD' = << >> /\ toU' = << >> /\ owed' = 0 /\ steady' = FALSE

Crash ==
  /\ drv # "down" /\ drv' = "down"
  /\ fresh' = "no" /\ sync' = FALSE
  /\ CutLink
  /\ UNCHANGED <<tree, upsd, heard, pinged, waited>>

\* It waits for its UPS longer than Busy.
Hang ==
  /\ drv = "up" /\ drv' = "hung" /\ steady' = FALSE
  /\ UNCHANGED <<tree, fresh, sync, out, link, toD, toU, upsd, clocks>>

Recover ==
  /\ drv = "hung" /\ drv' = "up"
  /\ UNCHANGED <<tree, fresh, sync, out, link, toD, toU, upsd, clocks, steady>>

\* It does one thing at a time.
Free == drv = "up" /\ out = {}

sock_connect ==
  /\ Free /\ link = "backlog"
  /\ link' = "open" /\ owed' = 0
  /\ UNCHANGED <<driver, toD, toU, upsd, heard, pinged, waited, steady>>

\* sock_arg(): DUMPALL or PING.
Answer(cmd) ==
  IF cmd = "DUMPALL"
  THEN {v \in Vars : tree[v] # "gone"} \cup {"data_ok", "dumpdone"}
  ELSE {"PONG"}

sock_read ==
  /\ Free /\ link = "open" /\ toD # << >>
  /\ out' = Answer(Head(toD)) /\ toD' = Tail(toD) /\ owed' = 0
  /\ UNCHANGED <<drv, tree, fresh, sync, link, toU, upsd, heard, pinged, waited, steady>>

\* send_to_all(): upsd hears of it when it is connected.
send_to_all(f) == out' = IF link = "open" THEN {f} ELSE {}

\* dstate_setinfo() and dstate_delinfo(): only a change is worth a message.
dstate_setinfo(v, x) ==
  /\ Free /\ tree[v] # x /\ x \in May(v)
  /\ tree' = [tree EXCEPT ![v] = x] /\ send_to_all(v)
  /\ UNCHANGED <<drv, fresh, sync, link, toD, toU, upsd, clocks, steady>>

\* dstate_dataok() and dstate_datastale().
dstate_data(ok) ==
  /\ Free /\ fresh # ok
  /\ fresh' = ok /\ send_to_all("data_ok") /\ steady' = (steady /\ ok = "yes")
  /\ UNCHANGED <<drv, tree, sync, link, toD, toU, upsd, clocks>>

\* A dump is begun by DATASTALE, or ended by DATAOK and DUMPDONE.
MayWrite(f) ==
  CASE f = "dumpdone" -> out = {"dumpdone"}
    [] f = "data_ok"  -> fresh = "no" \/ out \subseteq {"data_ok", "dumpdone"}
    [] OTHER          -> fresh = "yes" \/ "data_ok" \notin out

\* st_tree_dump_conn(), send_to_one() and send_to_all(), while there is room.
Write(f) ==
  /\ drv = "up" /\ f \in out /\ MayWrite(f)
  /\ link = "open" /\ Len(toU) < Capacity
  /\ toU' = Append(toU, [var |-> f, val |-> Current(f)]) /\ out' = out \ {f}
  /\ UNCHANGED <<drv, tree, fresh, sync, link, toD, upsd, clocks, steady>>

\* Mutation: the mode stays as it is.
ModeAfterFailure == sync

\* A driver that has lost a connection so will wait on the next one.
NextMode == TRUE

\* No room: the connection goes, unless it is a blocking one.
WriteFails ==
  /\ drv = "up" /\ out # {} /\ link = "open" /\ Len(toU) >= Capacity /\ ~sync
  /\ sync' = NextMode /\ CutLink
  /\ UNCHANGED <<drv, tree, fresh, upsd, heard, pinged, waited>>

-----------------------------------------------------------------------------
(* upsd.                                                                   *)

\* sstate_disconnect(): the driver drops what it has for a closed connection.
sstate_disconnect ==
  /\ link' = "none" /\ toD' = << >> /\ toU' = << >> /\ out' = {} /\ owed' = 0
  /\ info' = Blank(info) /\ heard' = 0 /\ steady' = FALSE

\* sstate_connect(): a driver that listens need not accept.  The new connection is
\* not polled in this pass.
sstate_connect ==
  /\ at = "scan" /\ ~Connected /\ drv # "down"
  /\ link' = "backlog" /\ toD' = <<"DUMPALL">>
  /\ info' = Blank(info) /\ stale' = FALSE
  /\ heard' = 0 /\ waited' = 0 /\ owed' = 0 /\ at' = "blind"
  /\ steady' = (drv = "up" /\ fresh = "yes")
  /\ UNCHANGED <<driver, toU, pinged>>

ConnectFails ==
  /\ at = "scan" /\ ~Connected /\ drv = "down"
  /\ waited' = 0 /\ at' = "blind"
  /\ UNCHANGED <<driver, link, toD, toU, info, stale, heard, pinged, owed, steady>>

\* Mutation: the first PING is sent when the time is over.
PingAtTheEnd == heard > MAXAGE /\ pinged > MAXAGE \div 3

PingDue == heard > MAXAGE \div 3 /\ pinged > MAXAGE \div 3

Dead == heard > MAXAGE \/ (info["dumpdone"] = "yes" /\ info["data_ok"] = "no")

\* Mutation: a PING is taken for sent whatever write() says.
PingFitsAlways == link # "cut"

PingFits == link # "cut" /\ Len(toD) < CmdCapacity

\* sstate_dead(), and what mainloop() makes of it.
Scanned == stale' = Dead /\ waited' = 0 /\ at' = "poll"

Scan ==
  /\ at = "scan" /\ Connected /\ ~PingDue
  /\ Scanned
  /\ UNCHANGED <<driver, link, toD, toU, info, heard, pinged, owed, steady>>

sendping ==
  /\ at = "scan" /\ Connected /\ PingDue /\ PingFits
  /\ Scanned /\ toD' = Append(toD, "PING") /\ pinged' = 0
  /\ UNCHANGED <<driver, link, toU, info, heard, owed, steady>>

PingFails ==
  /\ at = "scan" /\ Connected /\ PingDue /\ ~PingFits
  /\ Scanned /\ sstate_disconnect
  /\ UNCHANGED <<drv, tree, fresh, sync, pinged>>

\* parse_args()
parse_args(i, m) == IF m.var \in Fields THEN [i EXCEPT ![m.var] = m.val] ELSE i

Readable == link = "open" /\ toU # << >>

\* sstate_readline(): one message, and perhaps more of them.
sstate_readline ==
  /\ at \in {"poll", "read"} /\ Readable
  /\ info' = parse_args(info, Head(toU)) /\ toU' = Tail(toU) /\ heard' = 0
  /\ at' \in {"scan"} \cup IF Len(toU) > 1 THEN {"read"} ELSE {}
  /\ UNCHANGED <<driver, link, toD, stale, pinged, waited, owed, steady>>

\* A read that meets the end of the connection, or a hangup.
Hangup ==
  /\ at \in {"poll", "read"} /\ link = "cut"
  /\ at' = "scan" /\ sstate_disconnect
  /\ UNCHANGED <<drv, tree, fresh, sync, stale, pinged, waited>>

\* poll() is over in time; for a client it may be earlier, which matters only to
\* a driver that has just been connected.
Wake ==
  /\ \/ at = "blind" /\ (Connected \/ waited >= PollTime)
     \/ at = "poll" /\ link # "cut" /\ ~Readable /\ waited >= PollTime
  /\ at' = "scan"
  /\ UNCHANGED <<driver, link, toD, toU, info, stale, clocks, steady>>

-----------------------------------------------------------------------------
(* Time.                                                                   *)

Least(a, b) == IF a < b THEN a ELSE b

\* A driver with a connection to accept or a command to read.
Owes == link = "backlog" \/ (link = "open" /\ toD # << >>)

\* A full socket holds up a driver in blocking mode.
Blocked == sync /\ link = "open" /\ Len(toU) >= Capacity

\* poll() waits when there is nothing for it, and a driver that is up answers.
MayWait ==
  /\ at = "blind" \/ (at = "poll" /\ link # "cut" /\ ~Readable)
  /\ waited < PollTime
  /\ drv = "up" => \/ out = {} /\ (Owes => owed < Busy)
                   \/ out # {} /\ Blocked

Tick ==
  /\ MayWait
  /\ heard'  = IF Connected THEN Least(heard + 1, MAXAGE + 1) ELSE heard
  /\ pinged' = Least(pinged + 1, MAXAGE \div 3 + 1)
  /\ waited' = waited + 1
  /\ owed' = IF Free /\ Owes THEN owed + 1 ELSE owed
  /\ UNCHANGED <<driver, link, toD, toU, upsd, steady>>

-----------------------------------------------------------------------------

\* What a driver does of its own accord, and what happens to it.
Disturbance ==
  \/ Crash \/ Hang
  \/ \E v \in Vars, x \in AnyValue : dstate_setinfo(v, x)
  \/ \E ok \in {"yes", "no"} : dstate_data(ok)

Driver ==
  \/ sock_connect \/ sock_read
  \/ \E f \in Fields \cup {"PONG"} : Write(f)
  \/ WriteFails

Server ==
  \/ sstate_connect \/ ConnectFails \/ Scan \/ sendping \/ PingFails
  \/ sstate_readline \/ Hangup \/ Wake

Next == Disturbance \/ Start \/ Recover \/ Driver \/ Server \/ Tick

Spec == Init /\ [][Next]_vars

\* The processes run; a driver that is down or hung may stay so.
Fairness == WF_vars(Driver) /\ WF_vars(Server) /\ WF_vars(Tick)
FairSpec == Spec /\ Fairness

-----------------------------------------------------------------------------
(* Properties.                                                             *)

Flags   == {"yes", "no"}
Message == [var : Fields \cup {"PONG"},
            val : AnyValue \cup Flags \cup {"PONG"}]

\* The variables keep their types, and the sockets their capacities.
TypeOK ==
  /\ drv \in {"up", "hung", "down"} /\ tree \in Trees /\ fresh \in Flags
  /\ sync \in BOOLEAN /\ out \subseteq Fields \cup {"PONG"}
  /\ link \in {"none", "backlog", "open", "cut"}
  /\ toD \in Seq({"DUMPALL", "PING"}) /\ Len(toD) <= CmdCapacity
  /\ toU \in Seq(Message) /\ Len(toU) <= Capacity
  /\ info \in [Fields -> AnyValue \cup Flags \cup {"gone", "WAIT", "PONG"}]
  /\ stale \in BOOLEAN /\ at \in {"scan", "poll", "read", "blind"}
  /\ heard \in 0..MAXAGE+1 /\ pinged \in 0..MAXAGE \div 3 + 1
  /\ waited \in 0..PollTime /\ owed \in 0..Busy
  /\ steady \in BOOLEAN

\* What upsd will know of f when it has read what is under way.
About(f) == {i \in DOMAIN toU : toU[i].var = f}
Latest(f) ==
  IF About(f) = {} THEN info[f]
  ELSE toU[CHOOSE i \in About(f) : \A j \in About(f) : j <= i].val

Dumped == link = "open" /\ \A i \in DOMAIN toD : toD[i] # "DUMPALL"

\* dstate.c:728 and 1353, sstate.c:42 and 337: once the dump is on its way, upsd's
\* copy and the messages under way make up what the driver has, but for what it
\* is writing just now, after any changes, cut connections and restarts.
Consistent ==
  Dumped => \A f \in Fields \ out : Latest(f) = Current(f)

\* ups_available()
Served == Connected /\ ~stale

\* sstate_dead() and mainloop(), sstate.c:478 and upsd.c:1467: a driver that is up
\* and has data is never taken for stale, how little it may have to say.
LiveNotStale == steady /\ Connected => ~stale

Settled ==
  CASE drv = "up"   -> /\ link = "open" /\ stale = (fresh = "no")
                       /\ \A v \in Vars : info[v] = tree[v]
    [] drv = "hung" -> Served => info["ups.status"] = "WAIT"
    [] drv = "down" -> ~Connected

\* sstate_connect(), sstate_dead() and send_to_one(), sstate.c:195 and 460 and
\* dstate.c:470: when nothing happens to the driver any more, upsd comes to know
\* all it has, however little fits into the socket; and if it hangs, upsd comes to
\* serve nothing of it, but for the WAIT of a new connection.
Settles == <>[][~Disturbance]_vars => <>[]Settled
===============================================================================
