------------------------------ MODULE UpsdProofs ------------------------------
(* Theorems about the data server and its clients. *)
EXTENDS Upsd, FiniteSetTheorems, TLAPS

USE UpsdAssumption

(* The inductive invariant. *)

\* The table of poll() holds clients of the list, and what poll() returned was
\* read before the next scan.
TableOfList ==
  /\ polled \subseteq list
  /\ pc # "serve" => ready = {}

\* The ages that a login can reach at each place of the loop.
LoginAges ==
  \A c \in Clients : loginups[c] # NoUps =>
    IF pc = "poll" THEN last_heard[c] <= IDLE + slept
                   ELSE last_heard[c] <= IDLE + POLLWAIT \/ last_heard[c] = Longago

\* A client in the table that is still waiting between two polls has only
\* just asked.
JustAsked ==
  pc # "poll" => \A c \in polled \ ready : asked[c] \in {Unset, 0}

IInv == TypeOK /\ LoginsCounted /\ TableOfList /\ LoginAges /\ JustAsked

-----------------------------------------------------------------------------

LEMMA AgesRange ==
  /\ Ages = 0..Longago /\ Longago \in Nat /\ Longago > IDLE + POLLWAIT
  /\ 0 \in Ages /\ Longago \in Ages /\ Unset \notin Ages
BY DEF Ages, Longago, Unset

\* The people logged into a UPS can be counted.
LEMMA CanCount ==
  ASSUME NEW u
  PROVE  /\ IsFiniteSet(LoggedInto(u)) /\ Cardinality(LoggedInto(u)) \in Nat
         /\ LoggedInto(u) \subseteq Clients
<1>1. LoggedInto(u) \subseteq Clients
  BY DEF LoggedInto
<1>2. IsFiniteSet(LoggedInto(u))
  BY <1>1, FS_Subset
<1> QED BY <1>1, <1>2, FS_CardinalityType

\* client_disconnect(), upsd.c:552: logins stay counted, if whoever is logged
\* into a UPS that does not exist any more is among those disconnected.
LEMMA DisconnectCounts ==
  ASSUME TypeOK, LoginsCounted, NEW gone \in SUBSET list, NEW devs \in SUBSET UPS,
         client_disconnect(gone, devs),
         \A c \in list \ gone : loginups[c] # NoUps => loginups[c] \in devs
  PROVE  /\ numlogins' \in [UPS -> Nat]
         /\ \A u \in UPS : numlogins'[u] = Cardinality(LoggedInto(u))'
         /\ \A c \in Clients :
              loginups'[c] # NoUps => loginups'[c] \in devs /\ c \in list'
<1>1. \A c \in Clients : loginups'[c] = IF c \in gone THEN NoUps ELSE loginups[c]
  BY DEF client_disconnect
<1>2. \A c \in Clients :
        loginups'[c] # NoUps => loginups'[c] \in devs /\ c \in list'
  BY <1>1 DEF LoginsCounted, client_disconnect
<1>3. ASSUME NEW u \in UPS
      PROVE  numlogins'[u] = Cardinality(LoggedInto(u))' /\ numlogins'[u] \in Nat
  <2>1. LoggedInto(u)' = LoggedInto(u) \ gone
    BY <1>1, <1>3 DEF LoggedInto
  <2>2. IsFiniteSet(LoggedInto(u)) /\ IsFiniteSet(LoggedInto(u) \ gone)
    BY CanCount, FS_Difference
  <2>3. Cardinality(LoggedInto(u) \ gone) \in Nat
    BY <2>2, FS_CardinalityType
  <2>4. Cardinality(LoggedInto(u) \ gone)
          = Cardinality(LoggedInto(u)) - Cardinality(LoggedInto(u) \cap gone)
    BY <2>2, FS_Difference
  <2>5. CASE u \in devs
    BY <1>3, <2>1, <2>3, <2>4, <2>5 DEF client_disconnect, CountedWithout, LoginsCounted
  <2>6. CASE u \notin devs
    <3>1. LoggedInto(u) \ gone = {}
      BY <1>3, <2>6 DEF LoginsCounted, LoggedInto
    <3> QED BY <1>3, <2>1, <2>6, <3>1, FS_EmptySet
            DEF client_disconnect, CountedWithout
  <2> QED BY <2>5, <2>6
<1>4. numlogins' \in [UPS -> Nat]
  BY <1>3 DEF client_disconnect
<1> QED BY <1>2, <1>3, <1>4

\* The other variables of client_disconnect() keep their types.
LEMMA DisconnectType ==
  ASSUME TypeOK, NEW gone, NEW devs, client_disconnect(gone, devs)
  PROVE  /\ list' \subseteq Clients /\ newer' \in [Clients -> SUBSET Clients]
         /\ loginups' \in [Clients -> UPS \cup {NoUps}]
         /\ last_heard' \in [Clients -> Ages]
         /\ peer' \in [Clients -> {"away", "knocking", "alive", "closed", "vanished"}]
         /\ asked' \in [Clients -> Ages \cup {Unset}]
BY DEF TypeOK, client_disconnect, Ages, Longago, Unset

-----------------------------------------------------------------------------

LEMMA InitIInv == Init => IInv
<1> SUFFICES ASSUME Init PROVE IInv
  OBVIOUS
<1>1. \A u \in UPS : LoggedInto(u) = {}
  BY DEF Init, LoggedInto
<1>2. LoginsCounted
  BY <1>1, FS_EmptySet DEF Init, LoginsCounted
<1>3. TypeOK
  <2>1. /\ last_heard \in [Clients -> Ages] /\ asked \in [Clients -> Ages \cup {Unset}]
        /\ numlogins \in [UPS -> Nat]
    BY AgesRange DEF Init
  <2>2. slept \in 0..POLLWAIT /\ connected \subseteq known /\ known \subseteq UPS
    BY DEF Init
  <2> QED BY <2>1, <2>2 DEF Init, TypeOK
<1>4. TableOfList /\ LoginAges /\ JustAsked
  BY DEF Init, TableOfList, LoginAges, JustAsked
<1> QED BY <1>2, <1>3, <1>4 DEF IInv

\* conf_reload(), conf.c:608.
LEMMA ReloadKeeps == IInv /\ conf_reload => IInv'
<1> SUFFICES ASSUME IInv, conf_reload PROVE IInv'
  OBVIOUS
<1> USE DEF IInv
<1>1. CASE UNCHANGED <<devices, numlogins, roster, people, polled>>
  <2>1. UNCHANGED <<known, connected, fsd, numlogins, list, newer, loginups,
                    last_heard, peer, asked, polled>>
    BY <1>1 DEF devices, roster, people
  <2>2. UNCHANGED <<slept, listening, ready>> /\ pc = "top" /\ pc' = "scan"
        /\ reload_flag' = FALSE
    BY DEF conf_reload
  <2>3. LoginsCounted'
    BY <2>1 DEF LoginsCounted, LoggedInto
  <2> QED BY <2>1, <2>2, <2>3
          DEF TypeOK, TableOfList, LoginAges, JustAsked
<1>2. ASSUME NEW defs \in SUBSET UPS, NEW moved \in SUBSET (known \cap connected),
             NEW up \in SUBSET (UPS \ known), known' = defs,
             connected' = ((connected \cap defs) \ moved) \cup (up \cap defs),
             fsd' = fsd \cap defs, client_disconnect(Kicked(defs), defs),
             polled' = polled \ Kicked(defs)
      PROVE  IInv'
  <2>1. UNCHANGED <<slept, listening, ready>> /\ pc = "top" /\ pc' = "scan"
        /\ reload_flag' = FALSE
    BY DEF conf_reload
  <2>2. /\ Kicked(defs) \in SUBSET list
        /\ \A c \in list \ Kicked(defs) : loginups[c] # NoUps => loginups[c] \in defs
    BY DEF Kicked, LoginsCounted, TypeOK
  <2>3. /\ numlogins' \in [UPS -> Nat] /\ LoginsCounted'
    BY <1>2, <2>2, DisconnectCounts DEF LoginsCounted
  <2>4. TypeOK'
    <3>1. ready' \subseteq polled'
      BY <1>2, <2>1 DEF TableOfList
    <3> QED BY <1>2, <2>1, <2>3, <3>1, DisconnectType DEF TypeOK
  <2>5. TableOfList' /\ JustAsked'
    BY <1>2, <2>1 DEF TableOfList, JustAsked, client_disconnect, TypeOK
  <2>6. LoginAges'
    BY <1>2, <2>1 DEF LoginAges, client_disconnect, TypeOK
  <2> QED BY <2>3, <2>4, <2>5, <2>6
<1> QED BY <1>1, <1>2 DEF conf_reload

\* The scan of mainloop(), upsd.c:1424.
LEMMA ScanKeeps == IInv /\ Scan => IInv'
<1> SUFFICES ASSUME IInv, Scan PROVE IInv'
  OBVIOUS
<1> USE DEF IInv
<1>1. /\ client_disconnect(Shed, known) /\ polled' = Fitting(Places)
      /\ pc' = "poll" /\ slept' = 0
      /\ UNCHANGED <<reload_flag, known, fsd, ready>>
      /\ pc # "serve"
  BY DEF Scan, Scanning
<1>2. connected' \subseteq known /\ listening' \in BOOLEAN
  BY DEF Scan, TypeOK
<1>3. Shed \in SUBSET list
  BY DEF Shed
<1>4. numlogins' \in [UPS -> Nat] /\ LoginsCounted'
  <2>1. \A c \in list \ Shed : loginups[c] # NoUps => loginups[c] \in known
    BY DEF LoginsCounted, TypeOK
  <2> QED BY <1>1, <1>3, <2>1, DisconnectCounts DEF LoginsCounted, TypeOK
<1>5. TableOfList'
  BY <1>1 DEF TableOfList, Fitting, Staying, client_disconnect
<1>6. TypeOK'
  <2>1. ready' \subseteq polled'
    BY <1>1 DEF TableOfList
  <2>2. slept' \in 0..POLLWAIT
    BY <1>1
  <2>3. polled' \subseteq Clients
    BY <1>1 DEF Fitting, Staying, TypeOK
  <2> QED BY <1>1, <1>2, <1>4, <2>1, <2>2, <2>3, DisconnectType DEF TypeOK
<1>7. LoginAges'
  <2>1. ASSUME NEW c \in Clients, loginups'[c] # NoUps
        PROVE  last_heard'[c] <= IDLE
    <3>1. c \notin Shed /\ last_heard'[c] = last_heard[c] /\ loginups[c] # NoUps
      BY <1>1, <2>1 DEF client_disconnect
    <3>2. c \in list
      BY <3>1 DEF LoginsCounted
    <3>3. last_heard[c] \in Int
      BY AgesRange DEF TypeOK
    <3> QED BY <3>1, <3>2, <3>3 DEF Shed, Idle
  <2> QED BY <1>1, <2>1 DEF LoginAges
<1>8. JustAsked'
  BY <1>1 DEF JustAsked
<1> QED BY <1>4, <1>5, <1>6, <1>7, <1>8

\* poll() waits and returns, upsd.c:1525.
LEMMA PollKeeps == IInv /\ (PollReturns \/ PollTimesOut \/ Tick) => IInv'
<1> SUFFICES ASSUME IInv, PollReturns \/ PollTimesOut \/ Tick PROVE IInv'
  OBVIOUS
<1> USE DEF IInv
<1>0. pc = "poll" /\ UNCHANGED <<reload_flag, known, connected, fsd, numlogins, list,
                               newer, loginups, polled, listening, peer>>
  BY DEF PollReturns, PollTimesOut, Tick, devices, roster, table, people
<1>1. LoginsCounted'
  BY <1>0 DEF LoginsCounted, LoggedInto
<1>2. CASE PollReturns
  <2>1. ready' = Readable /\ pc' = "serve" /\ UNCHANGED <<slept, last_heard, asked>>
    BY <1>2 DEF PollReturns, roster, people
  <2>2. TypeOK' /\ TableOfList'
    BY <1>0, <2>1 DEF TypeOK, TableOfList, Readable
  <2>3. JustAsked'
    BY <1>0, <2>1 DEF JustAsked, Readable
  <2>4. LoginAges'
    <3>1. ASSUME NEW c \in Clients, last_heard[c] <= IDLE + slept
          PROVE  last_heard[c] <= IDLE + POLLWAIT
      BY <3>1, AgesRange DEF TypeOK
    <3> QED BY <1>0, <2>1, <3>1 DEF LoginAges
  <2> QED BY <1>1, <2>2, <2>3, <2>4
<1>3. CASE PollTimesOut
  <2>1. /\ pc' = "top" /\ slept = POLLWAIT /\ Readable = {}
        /\ UNCHANGED <<slept, last_heard, asked, ready>>
    BY <1>3 DEF PollTimesOut, roster, people, table
  <2>2. TypeOK' /\ TableOfList'
    BY <1>0, <2>1 DEF TypeOK, TableOfList
  <2>3. JustAsked'
    BY <1>0, <2>1 DEF JustAsked, Readable
  <2>4. LoginAges'
    BY <1>0, <2>1 DEF LoginAges
  <2> QED BY <1>1, <2>2, <2>3, <2>4
<1>4. CASE Tick
  <2>1. /\ pc' = "poll" /\ slept < POLLWAIT /\ slept' = slept + 1
        /\ UNCHANGED ready
        /\ last_heard' = [c \in Clients |-> IF c \in list THEN Older(last_heard[c])
                                                         ELSE 0]
        /\ asked' = [c \in Clients |-> Older(asked[c])]
    BY <1>0, <1>4 DEF Tick, table
  <2>2. \A a \in Ages \cup {Unset} :
          /\ Older(a) \in Ages \cup {Unset}
          /\ a \in Ages => Older(a) \in Ages /\ Older(a) <= a + 1
    BY AgesRange DEF Older, Unset
  <2>3. TypeOK' /\ TableOfList' /\ JustAsked'
    <3>1. slept' \in 0..POLLWAIT
      BY <2>1 DEF TypeOK
    <3>2. last_heard' \in [Clients -> Ages] /\ asked' \in [Clients -> Ages \cup {Unset}]
      BY <2>1, <2>2, AgesRange DEF TypeOK
    <3> QED BY <1>0, <2>1, <3>1, <3>2 DEF TypeOK, TableOfList, JustAsked
  <2>4. LoginAges'
    <3>1. ASSUME NEW c \in Clients, loginups[c] # NoUps
          PROVE  last_heard'[c] <= IDLE + slept'
      <4>1. last_heard[c] <= IDLE + slept /\ c \in list
        BY <1>0, <3>1 DEF LoginAges, LoginsCounted
      <4>2. last_heard[c] \in Ages /\ last_heard'[c] = Older(last_heard[c])
        BY <2>1, <4>1 DEF TypeOK
      <4>3. last_heard'[c] <= last_heard[c] + 1 /\ last_heard'[c] \in Ages
        BY <2>2, <4>2
      <4> QED BY <2>1, <4>1, <4>2, <4>3, AgesRange DEF TypeOK
    <3> QED BY <1>0, <2>1, <3>1 DEF LoginAges
  <2> QED BY <1>1, <2>3, <2>4
<1> QED BY <1>2, <1>3, <1>4

\* client_readline() fails: the client is disconnected, upsd.c:862.
LEMMA LostKeeps == ASSUME IInv, NEW c \in Clients, ClientLost(c) PROVE IInv'
<1> USE DEF IInv
<1>1. /\ client_disconnect({c}, known) /\ pc = "serve"
      /\ ready' = ready \ {c} /\ polled' = polled \ {c} /\ c \in ready
      /\ UNCHANGED <<pc, slept, reload_flag, known, connected, fsd, listening>>
  BY DEF ClientLost, loop, devices
<1>2. {c} \in SUBSET list
  BY <1>1 DEF TypeOK, TableOfList
<1>3. numlogins' \in [UPS -> Nat] /\ LoginsCounted'
  <2>1. \A d \in list : loginups[d] # NoUps => loginups[d] \in known
    BY DEF LoginsCounted, TypeOK
  <2> QED BY <1>1, <1>2, <2>1, DisconnectCounts DEF LoginsCounted, TypeOK
<1>4. TypeOK'
  BY <1>1, <1>3, DisconnectType DEF TypeOK
<1>5. TableOfList' /\ LoginAges' /\ JustAsked'
  BY <1>1 DEF TypeOK, TableOfList, LoginAges, JustAsked, client_disconnect
<1> QED BY <1>3, <1>4, <1>5

\* What reading a command has in common: only the logins can be disturbed.
LEMMA ReadKeeps ==
  ASSUME IInv, NEW c \in Clients, Reads(c),
         numlogins' \in [UPS -> Nat], loginups' \in [Clients -> UPS \cup {NoUps}],
         fsd' \subseteq known,
         \/ last_heard' = [last_heard EXCEPT ![c] = 0]
         \/ last_heard' = [last_heard EXCEPT ![c] = Longago],
         \A d \in Clients \ {c} : loginups'[d] = loginups[d]
  PROVE  TypeOK' /\ TableOfList' /\ LoginAges' /\ JustAsked' /\ c \in list
<1> USE DEF IInv
<1>1. /\ pc = "serve" /\ c \in ready
      /\ ready' = ready \ {c} /\ asked' = [asked EXCEPT ![c] = Unset]
      /\ UNCHANGED <<pc, slept, reload_flag, known, connected, list, newer, polled,
                     listening, peer>>
  BY DEF Reads, loop
<1>2. last_heard' \in [Clients -> Ages]
  BY AgesRange DEF TypeOK
<1>3. TypeOK' /\ TableOfList'
  BY <1>1, <1>2 DEF TypeOK, TableOfList
<1>4. JustAsked'
  BY <1>1 DEF JustAsked, TypeOK
<1>5. LoginAges'
  <2>1. ASSUME NEW d \in Clients, loginups'[d] # NoUps
        PROVE  last_heard'[d] <= IDLE + POLLWAIT \/ last_heard'[d] = Longago
    BY <1>1, <2>1 DEF LoginAges, TypeOK
  <2> QED BY <1>1, <2>1 DEF LoginAges
<1> QED BY <1>1, <1>3, <1>4, <1>5 DEF TypeOK, TableOfList

\* The commands, upsd.c:862.
LEMMA CommandKeeps ==
  ASSUME IInv, NEW c \in Clients,
         \/ \E u \in UPS : net_login(c, u) \/ net_fsd(c, u)
         \/ net_logout(c) \/ OtherCommand(c)
  PROVE  IInv'
<1> USE DEF IInv
<1>0. Answers(c) => \/ last_heard' = [last_heard EXCEPT ![c] = 0]
                    \/ last_heard' = [last_heard EXCEPT ![c] = Longago]
  BY DEF Answers
<1>1. ASSUME NEW u \in UPS, net_login(c, u)
      PROVE  IInv'
  <2>1. /\ Reads(c) /\ Answers(c) /\ loginups[c] = NoUps /\ u \in known
        /\ numlogins' = [numlogins EXCEPT ![u] = @ + 1]
        /\ loginups' = [loginups EXCEPT ![c] = u] /\ UNCHANGED fsd
    BY <1>1 DEF net_login
  <2>2. TypeOK' /\ TableOfList' /\ LoginAges' /\ JustAsked' /\ c \in list
    BY <1>0, <2>1, ReadKeeps DEF TypeOK
  <2>3. UNCHANGED <<list, known>>
    BY <2>1 DEF Reads
  <2>4. ASSUME NEW v \in UPS
        PROVE  numlogins'[v] = Cardinality(LoggedInto(v)')
    <3>1. CASE v = u
      <4>1. LoggedInto(v)' = LoggedInto(v) \cup {c} /\ c \notin LoggedInto(v)
        BY <2>1, <3>1 DEF LoggedInto, TypeOK
      <4>2. IsFiniteSet(LoggedInto(v))
        BY CanCount
      <4>3. Cardinality(LoggedInto(v) \cup {c}) = Cardinality(LoggedInto(v)) + 1
        BY <4>1, <4>2, FS_AddElement
      <4> QED BY <2>1, <3>1, <4>1, <4>3 DEF LoginsCounted, TypeOK
    <3>2. CASE v # u
      <4>1. LoggedInto(v)' = LoggedInto(v)
        BY <2>1, <3>2 DEF LoggedInto, TypeOK
      <4> QED BY <2>1, <3>2, <4>1 DEF LoginsCounted, TypeOK
    <3> QED BY <3>1, <3>2
  <2>5. LoginsCounted'
    BY <2>1, <2>2, <2>3, <2>4 DEF LoginsCounted, TypeOK
  <2> QED BY <2>2, <2>5
<1>2. CASE (\E u \in UPS : net_fsd(c, u)) \/ net_logout(c) \/ OtherCommand(c)
  <2>1. /\ Reads(c) /\ UNCHANGED <<numlogins, loginups>> /\ fsd' \subseteq known
        /\ Answers(c) \/ last_heard' = [last_heard EXCEPT ![c] = Longago]
    BY <1>2 DEF net_fsd, net_logout, OtherCommand, TypeOK
  <2>2. TypeOK' /\ TableOfList' /\ LoginAges' /\ JustAsked'
    BY <1>0, <2>1, ReadKeeps DEF TypeOK
  <2>3. LoginsCounted'
    BY <2>1 DEF LoginsCounted, LoggedInto, Reads
  <2> QED BY <2>2, <2>3
<1> QED BY <1>1, <1>2

\* The rest of the pass.
LEMMA PassKeeps ==
  ASSUME IInv, DriverLost \/ EndPass \/ \E c \in Clients : client_connect(c)
  PROVE  IInv'
<1> USE DEF IInv
<1>1. CASE DriverLost \/ EndPass
  <2>1. /\ pc = "serve" /\ pc' \in {"serve", "top"} /\ (pc' = "top" => ready = {})
        /\ connected' \subseteq connected
        /\ UNCHANGED <<slept, reload_flag, known, fsd, numlogins, list, newer, loginups,
                       last_heard, polled, listening, ready, peer, asked>>
    BY <1>1 DEF DriverLost, EndPass, loop, devices, roster, table, people
  <2>2. LoginsCounted'
    BY <2>1 DEF LoginsCounted, LoggedInto
  <2>3. TypeOK'
    BY <2>1 DEF TypeOK
  <2>4. TableOfList' /\ LoginAges' /\ JustAsked'
    BY <2>1 DEF TableOfList, LoginAges, JustAsked
  <2> QED BY <2>2, <2>3, <2>4
<1>2. ASSUME NEW c \in Clients, client_connect(c)
      PROVE  IInv'
  <2>1. /\ pc = "serve" /\ listening' = FALSE /\ list' = list \cup {c}
        /\ last_heard' = [last_heard EXCEPT ![c] = 0]
        /\ peer' = [peer EXCEPT ![c] = "alive"]
        /\ newer' \in [Clients -> SUBSET Clients]
        /\ UNCHANGED <<pc, slept, reload_flag, known, connected, fsd, numlogins,
                       loginups, polled, ready, asked>>
    BY <1>2 DEF client_connect, loop, devices, TypeOK
  <2>2. LoginsCounted'
    BY <2>1 DEF LoginsCounted, LoggedInto
  <2>3. TypeOK'
    BY <2>1, AgesRange DEF TypeOK
  <2>4. TableOfList' /\ JustAsked'
    BY <2>1 DEF TableOfList, JustAsked
  <2>5. LoginAges'
    <3>1. \A d \in Clients : last_heard'[d] \in {last_heard[d], 0}
      BY <2>1 DEF TypeOK
    <3> QED BY <2>1, <3>1 DEF LoginAges
  <2> QED BY <2>2, <2>3, <2>4, <2>5
<1> QED BY <1>1, <1>2

\* Clients and signals.
LEMMA EnvironmentKeeps == IInv /\ (Environment \/ UNCHANGED vars) => IInv'
<1> SUFFICES ASSUME IInv, Environment \/ UNCHANGED vars PROVE IInv'
  OBVIOUS
<1> USE DEF IInv
<1>1. /\ UNCHANGED <<pc, slept, known, connected, fsd, numlogins, list, newer, loginups,
                     last_heard, polled, listening, ready>>
      /\ reload_flag' \in BOOLEAN
      /\ peer' \in [Clients -> {"away", "knocking", "alive", "closed", "vanished"}]
      /\ \A c \in Clients : asked'[c] \in {asked[c], 0}
      /\ asked' \in [Clients -> Ages \cup {Unset}]
  <2>1. CASE \E c \in Clients : Knock(c) \/ HangUp(c) \/ Vanish(c)
    BY <2>1 DEF Knock, HangUp, Vanish, Server, loop, devices, roster, table, TypeOK
  <2>2. CASE \E c \in Clients : Ask(c)
    BY <2>2, AgesRange DEF Ask, Server, loop, devices, roster, table, TypeOK
  <2>3. CASE set_reload_flag \/ UNCHANGED vars
    BY <2>3 DEF set_reload_flag, vars, loop, devices, roster, table, people, TypeOK
  <2> QED BY <2>1, <2>2, <2>3 DEF Environment
<1>2. LoginsCounted'
  BY <1>1 DEF LoginsCounted, LoggedInto
<1>3. TypeOK'
  BY <1>1 DEF TypeOK
<1>4. TableOfList' /\ LoginAges'
  BY <1>1 DEF TableOfList, LoginAges
<1>5. JustAsked'
  <2>1. polled \subseteq Clients
    BY DEF TypeOK, TableOfList
  <2> QED BY <1>1, <2>1 DEF JustAsked
<1> QED BY <1>2, <1>3, <1>4, <1>5

-----------------------------------------------------------------------------
(* The theorems. *)

\* mainloop(), upsd.c:1424: every pass keeps the invariant.
THEOREM Invariance == Spec => []IInv
<1>1. IInv /\ [Next]_vars => IInv'
  <2> SUFFICES ASSUME IInv, [Next]_vars PROVE IInv'
    OBVIOUS
  <2>1. CASE conf_reload
    BY <2>1, ReloadKeeps
  <2>2. CASE Scan
    BY <2>2, ScanKeeps
  <2>3. CASE PollReturns \/ PollTimesOut \/ Tick
    BY <2>3, PollKeeps
  <2>4. CASE Serve
    BY <2>4, LostKeeps, CommandKeeps, PassKeeps DEF Serve
  <2>5. CASE DriverLost \/ EndPass
    BY <2>5, PassKeeps
  <2>6. CASE Environment \/ UNCHANGED vars
    BY <2>6, EnvironmentKeeps
  <2> QED BY <2>1, <2>2, <2>3, <2>4, <2>5, <2>6 DEF Next, MainLoop
<1> QED BY InitIInv, <1>1, PTL DEF Spec

\* The variables keep their types whatever clients and reloads do.
THEOREM TypeCorrect == Spec => []TypeOK
BY Invariance, PTL DEF IInv

\* declogins() and net_login(), upsd.c:533 and netuser.c:31: the primary waits
\* on the true number of logins, for any number of clients and UPSes.
THEOREM LoginsAreCounted == Spec => []LoginsCounted
BY Invariance, PTL DEF IInv

\* mainloop() and net_logout(), upsd.c:1485 and netuser.c:70: no login outlives
\* its client by more than the idle time and one wait.
THEOREM DeadLoginsGo == Spec => []GoneInTime
<1>1. IInv => GoneInTime
  <2> SUFFICES ASSUME IInv, NEW c \in Clients, loginups[c] # NoUps
               PROVE  \/ last_heard[c] <= IDLE + POLLWAIT
                      \/ last_heard[c] = Longago /\ pc # "poll"
    BY DEF GoneInTime
  <2>1. last_heard[c] \in Ages /\ slept \in 0..POLLWAIT
    BY DEF IInv, TypeOK
  <2> QED BY <2>1, AgesRange DEF IInv, LoginAges
<1> QED BY Invariance, <1>1, PTL

\* mainloop(), upsd.c:1485: the scan does not shed a client in the table whose
\* command came in time, for any number of clients, drivers and places.
THEOREM CommandsAreRead == Spec => AskersAreHeard
<1>1. ASSUME IInv, [Next]_vars, NEW c \in polled, ShedNow(c), asked[c] # Unset
      PROVE  last_heard[c] - asked[c] > IDLE
  <2>1. pc # "poll" /\ ready = {} /\ c \in Clients
    BY <1>1 DEF ShedNow, Scanning, IInv, TableOfList, TypeOK
  <2>2. asked[c] = 0
    BY <1>1, <2>1 DEF IInv, JustAsked
  <2>3. Scan
    BY <1>1, <2>1 DEF ShedNow, Scanning, Next, MainLoop, Serve, Environment, conf_reload,
       PollReturns, PollTimesOut, DriverLost, ClientLost, net_login, net_logout, net_fsd,
       OtherCommand, Reads, client_connect, EndPass, Knock, Ask, HangUp, Vanish, Server,
       set_reload_flag, Tick, vars, roster
  <2>4. c \in Shed
    BY <1>1, <2>3 DEF ShedNow, Scan, client_disconnect
  <2>5. last_heard[c] \in Ages
    BY <1>1, <2>1 DEF IInv, TypeOK
  <2> QED BY <2>2, <2>4, <2>5, AgesRange DEF Shed, Idle
<1>2. IInv /\ [Next]_vars =>
        [\A c \in polled :
          ShedNow(c) /\ asked[c] # Unset => last_heard[c] - asked[c] > IDLE]_vars
  BY <1>1
<1> QED BY Invariance, <1>2, PTL DEF Spec, AskersAreHeard
===============================================================================
