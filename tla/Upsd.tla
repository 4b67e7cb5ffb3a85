--------------------------------- MODULE Upsd ---------------------------------
(***************************************************************************)
(* The data server of server/upsd.c as its network clients see it: the     *)
(* main loop that scans driver and client connections, polls what fits in  *)
(* its table, and serves what is ready; LOGIN, LOGOUT, FSD; the shedding   *)
(* of idle clients; the reload that adds and deletes UPSes.                *)
(*                                                                         *)
(* A driver is only a connection here: it takes a place in the table.  The *)
(* clients send one command and wait for the answer, as those built on     *)
(* clients/upsclient.c do; whether upsd.users lets one of them act is a    *)
(* free choice.                                                            *)
(***************************************************************************)
EXTENDS Integers, FiniteSets

CONSTANTS
  UPS,          \* sections ups.conf can have
  NoUps,        \* no loginups
  Clients,      \* network clients
  MAXCONN,      \* places in the table of poll()
  IDLE,         \* seconds of silence after which a client is shed (60)
  POLLWAIT      \* seconds poll() waits at most (2)

ASSUME UpsdAssumption ==
  /\ IsFiniteSet(UPS) /\ IsFiniteSet(Clients) /\ NoUps \notin UPS
  /\ MAXCONN \in Nat \ {0} /\ IDLE \in Nat \ {0} /\ POLLWAIT \in Nat \ {0}

\* last_heard is kept as its age; Longago is the age of the value 0 that makes
\* the next scan shed the client.
Longago == 2 * (IDLE + POLLWAIT) + 1
Unset   == -1
Ages    == 0..Longago

VARIABLES
  pc,           \* "top", "scan", "poll", "serve"
  slept,        \* how long poll() has waited
  reload_flag,
  known,        \* the list firstups
  connected,    \* the drivers with a valid sock_fd
  fsd,          \* the UPSes with a forced shutdown
  numlogins,    \* of each UPS
  list, newer,  \* the list firstclient, newest first: who is in it, and who is
                \* before each of them
  loginups,     \* of each client: the UPS it is logged into
  last_heard,   \* of each client: age of its last command
  polled, listening,   \* whose sockets are in the table
  ready,        \* the clients poll() returned and that were not read yet
  \* The clients' side: what they are doing, and how long their command has
  \* been waiting.
  peer, asked

loop    == <<pc, slept, reload_flag>>
devices == <<known, connected, fsd>>
roster  == <<list, newer, loginups, last_heard>>
table   == <<polled, listening, ready>>
people  == <<peer, asked>>
vars == <<loop, devices, numlogins, roster, table, people>>

Init ==
  /\ pc = "top" /\ slept = 0 /\ reload_flag = FALSE
  /\ known \in SUBSET UPS /\ connected \in SUBSET known /\ fsd = {}
  /\ numlogins = [u \in UPS |-> 0]
  /\ list = {} /\ newer = [c \in Clients |-> {}]
  /\ loginups = [c \in Clients |-> NoUps]
  /\ last_heard = [c \in Clients |-> 0]
  /\ polled = {} /\ listening = FALSE /\ ready = {}
  /\ peer = [c \in Clients |-> "away"] /\ asked = [c \in Clients |-> Unset]

-----------------------------------------------------------------------------
(* client_disconnect(), for a set of clients.                              *)

LoggedInto(u) == {c \in Clients : loginups[c] = u}

\* declogins() for each of them; it finds only the UPSes still in the list.
CountedWithout(u, gone, devs) ==
  IF u \in devs THEN numlogins[u] - Cardinality(LoggedInto(u) \cap gone) ELSE 0

\* The clients in "gone" are disconnected, the UPSes in "devs" exist after it.
client_disconnect(gone, devs) ==
  /\ numlogins'  = [u \in UPS |-> CountedWithout(u, gone, devs)]
  /\ list'       = list \ gone
  /\ newer'      = [c \in Clients |-> IF c \in gone THEN {} ELSE newer[c] \ gone]
  /\ loginups'   = [c \in Clients |-> IF c \in gone THEN NoUps ELSE loginups[c]]
  /\ last_heard' = [c \in Clients |-> IF c \in gone THEN 0 ELSE last_heard[c]]
  /\ peer'       = [c \in Clients |-> IF c \in gone THEN "away" ELSE peer[c]]
  /\ asked'      = [c \in Clients |-> IF c \in gone THEN Unset ELSE asked[c]]

-----------------------------------------------------------------------------
(* One pass of mainloop().                                                 *)

\* Mutation: the clients of a deleted UPS stay.
NobodyKicked(defs) == {}

\* delete_ups() kicks whoever is logged into a UPS that is gone.
Kicked(defs) == {c \in list : loginups[c] \in known \ defs}

\* conf_reload(): "defs" are the sections ups.conf has now, "moved" those whose
\* driver or port changed.  An upsd.conf that cannot be opened ends it at once.
conf_reload ==
  /\ pc = "top" /\ reload_flag
  /\ pc' = "scan" /\ reload_flag' = FALSE
  /\ \/ UNCHANGED <<devices, numlogins, roster, people, polled>>
     \/ \E defs \in SUBSET UPS, moved \in SUBSET (known \cap connected),
           up \in SUBSET (UPS \ known) :
          /\ known' = defs
          /\ connected' = ((connected \cap defs) \ moved) \cup (up \cap defs)
          /\ fsd' = fsd \cap defs
          /\ client_disconnect(Kicked(defs), defs)
          /\ polled' = polled \ Kicked(defs)
  /\ UNCHANGED <<slept, listening, ready>>

\* Mutation: a second too early.
IdleEarly(c) == last_heard[c] >= IDLE

Idle(c) == last_heard[c] > IDLE

\* Mutation: no idle client is shed.
NobodyShed == {}

Shed == {c \in list : Idle(c)}

Least(a, b) == IF a < b THEN a ELSE b

\* The places the drivers leave, and the clients that get them: the table is
\* filled in the order of the list.
Places == MAXCONN - Least(MAXCONN, Cardinality(connected))
Staying == list \ Shed
Fitting(places) ==
  {c \in Staying : Cardinality(newer[c] \cap Staying) < places}

Scanning == pc = "scan" \/ (pc = "top" /\ ~reload_flag)

\* Drivers are connected to or found dead, idle clients are shed, and the table
\* is filled: drivers, then clients, then the listening socket.
Scan ==
  /\ Scanning
  /\ \E up \in SUBSET (known \ connected), lost \in SUBSET connected :
       connected' = (connected \cup up) \ lost
  /\ client_disconnect(Shed, known)
  /\ polled' = Fitting(Places)
  /\ listening' = (Places > Cardinality(Staying))
  /\ pc' = "poll" /\ slept' = 0
  /\ UNCHANGED <<reload_flag, known, fsd, ready>>

Readable == {c \in polled : peer[c] = "closed" \/ asked[c] # Unset}
Knocking == {c \in Clients : peer[c] = "knocking"}

\* poll() returns with what is readable, a driver's message included.
PollReturns ==
  /\ pc = "poll"
  /\ ready' = Readable
  /\ pc' = "serve"
  /\ UNCHANGED <<slept, reload_flag, devices, numlogins, roster,
                 polled, listening, people>>

PollTimesOut ==
  /\ pc = "poll" /\ slept = POLLWAIT
  /\ Readable = {} /\ ~(listening /\ Knocking # {})
  /\ pc' = "top"
  /\ UNCHANGED <<slept, reload_flag, devices, numlogins, roster, table, people>>

\* A driver hung up, or a write to it failed.
DriverLost ==
  /\ pc = "serve"
  /\ \E u \in connected : connected' = connected \ {u}
  /\ UNCHANGED <<loop, known, fsd, numlogins, roster, table, people>>

\* The client hung up, or its connection failed; a last command may be lost.
ClientLost(c) ==
  /\ pc = "serve" /\ c \in ready /\ peer[c] = "closed"
  /\ client_disconnect({c}, known)
  /\ ready' = ready \ {c} /\ polled' = polled \ {c}
  /\ UNCHANGED <<loop, devices, listening>>

\* client_readline() up to the command.  An answer that cannot be written marks
\* the client for the next scan.
Reads(c) ==
  /\ pc = "serve" /\ c \in ready /\ asked[c] # Unset
  /\ ready' = ready \ {c} /\ asked' = [asked EXCEPT ![c] = Unset]
  /\ UNCHANGED <<loop, known, connected, list, newer, polled, listening, peer>>

Answers(c) ==
  \/ last_heard' = [last_heard EXCEPT ![c] = 0]
  \/ peer[c] # "alive" /\ last_heard' = [last_heard EXCEPT ![c] = Longago]

\* LOGIN
net_login(c, u) ==
  /\ Reads(c) /\ Answers(c)
  /\ loginups[c] = NoUps /\ u \in known
  /\ numlogins' = [numlogins EXCEPT ![u] = @ + 1]
  /\ loginups' = [loginups EXCEPT ![c] = u]
  /\ UNCHANGED fsd

\* Mutation: the login is given up twice.
net_logout_twice(c) ==
  /\ Reads(c)
  /\ last_heard' = [last_heard EXCEPT ![c] = Longago]
  /\ numlogins' = [u \in UPS |-> IF u = loginups[c] THEN numlogins[u] - 1
                                                  ELSE numlogins[u]]
  /\ UNCHANGED <<loginups, fsd>>

\* LOGOUT: the login is given up by the scan that sheds the client.
net_logout(c) ==
  /\ Reads(c)
  /\ last_heard' = [last_heard EXCEPT ![c] = Longago]
  /\ UNCHANGED <<numlogins, loginups, fsd>>

\* FSD: nothing but a reload that deletes the UPS ever takes it back.
net_fsd(c, u) ==
  /\ Reads(c) /\ Answers(c)
  /\ u \in known /\ fsd' = fsd \cup {u}
  /\ UNCHANGED <<numlogins, loginups>>

\* Any query, and any command that is refused.
OtherCommand(c) ==
  /\ Reads(c) /\ Answers(c)
  /\ UNCHANGED <<numlogins, loginups, fsd>>

client_connect(c) ==
  /\ pc = "serve" /\ listening /\ c \in Knocking
  /\ listening' = FALSE
  /\ list' = list \cup {c}
  /\ newer' = [d \in Clients |-> CASE d = c        -> {}
                                   [] d \in list   -> newer[d] \cup {c}
                                   [] d \notin list \cup {c} -> {}]
  /\ last_heard' = [last_heard EXCEPT ![c] = 0]
  /\ peer' = [peer EXCEPT ![c] = "alive"]
  /\ UNCHANGED <<loop, devices, numlogins, loginups, polled, ready, asked>>

EndPass ==
  /\ pc = "serve" /\ ready = {}
  /\ pc' = "top"
  /\ UNCHANGED <<slept, reload_flag, devices, numlogins, roster, table, people>>

-----------------------------------------------------------------------------
(* The clients, the administrator, and time.                               *)

Server == UNCHANGED <<loop, devices, numlogins, roster, table>>

Knock(c) == /\ peer[c] = "away" /\ c \notin list
            /\ peer' = [peer EXCEPT ![c] = "knocking"] /\ Server /\ UNCHANGED asked

Ask(c) == /\ peer[c] = "alive" /\ asked[c] = Unset
          /\ asked' = [asked EXCEPT ![c] = 0] /\ Server /\ UNCHANGED peer

\* The client closes its connection, or its host dies without a word.
HangUp(c) == /\ peer[c] = "alive"
             /\ peer' = [peer EXCEPT ![c] = "closed"] /\ Server /\ UNCHANGED asked

Vanish(c) == /\ peer[c] = "alive"
             /\ peer' = [peer EXCEPT ![c] = "vanished"] /\ Server /\ UNCHANGED asked

set_reload_flag ==
  /\ ~reload_flag /\ reload_flag' = TRUE
  /\ UNCHANGED <<pc, slept, devices, numlogins, roster, table, people>>

Older(t) == IF t \in {Unset, Longago} THEN t ELSE t + 1

\* Time passes while poll() waits.
Tick ==
  /\ pc = "poll" /\ slept < POLLWAIT
  /\ slept' = slept + 1
  /\ last_heard' = [c \in Clients |-> IF c \in list THEN Older(last_heard[c]) ELSE 0]
  /\ asked' = [c \in Clients |-> Older(asked[c])]
  /\ UNCHANGED <<pc, reload_flag, devices, numlogins, list, newer, loginups, table, peer>>

-----------------------------------------------------------------------------

Serve == \E c \in Clients :
  \/ ClientLost(c)
  \/ \E u \in UPS : net_login(c, u) \/ net_fsd(c, u)
  \/ net_logout(c) \/ OtherCommand(c)
  \/ client_connect(c)

MainLoop ==
  conf_reload \/ Scan \/ PollReturns \/ PollTimesOut \/ DriverLost \/ Serve \/ EndPass

Environment ==
  \/ \E c \in Clients : Knock(c) \/ Ask(c) \/ HangUp(c) \/ Vanish(c)
  \/ set_reload_flag

Next == MainLoop \/ Tick \/ Environment

Spec == Init /\ [][Next]_vars

-----------------------------------------------------------------------------
(* Properties.                                                             *)

\* The variables keep their types.
TypeOK ==
  /\ pc \in {"top", "scan", "poll", "serve"} /\ slept \in 0..POLLWAIT
  /\ reload_flag \in BOOLEAN
  /\ known \subseteq UPS /\ connected \subseteq known /\ fsd \subseteq known
  /\ numlogins \in [UPS -> Nat]
  /\ list \subseteq Clients /\ newer \in [Clients -> SUBSET Clients]
  /\ loginups \in [Clients -> UPS \cup {NoUps}]
  /\ last_heard \in [Clients -> Ages]
  /\ polled \subseteq Clients /\ listening \in BOOLEAN /\ ready \subseteq polled
  /\ peer \in [Clients -> {"away", "knocking", "alive", "closed", "vanished"}]
  /\ asked \in [Clients -> Ages \cup {Unset}]

\* declogins() and net_login(), upsd.c:533 and netuser.c:31: the count that the
\* primary waits on is the number of clients logged in, through kicks, reloads,
\* sheddings and hang-ups, and nobody is logged into a UPS that was deleted.
LoginsCounted ==
  /\ \A u \in UPS : numlogins[u] = Cardinality(LoggedInto(u))
  /\ \A c \in Clients : loginups[c] # NoUps => loginups[c] \in known /\ c \in list

ShedNow(c) == c \in list /\ c \notin list' /\ Scanning

\* mainloop(), upsd.c:1485: a client whose socket is in the table and that sent
\* a command before it had been silent for IDLE seconds is not shed before the
\* command is read.
AskersAreHeard ==
  [][\A c \in polled :
       ShedNow(c) /\ asked[c] # Unset => last_heard[c] - asked[c] > IDLE]_vars

\* mainloop() and net_logout(), upsd.c:1485 and netuser.c:70: a login never
\* outlives the client's last command by more than the idle time and one wait
\* of poll(): that is how long a host that died keeps the primary waiting.
GoneInTime ==
  \A c \in Clients : loginups[c] # NoUps =>
    \/ last_heard[c] <= IDLE + POLLWAIT
    \/ last_heard[c] = Longago /\ pc # "poll"
===============================================================================
