---------------------------- MODULE UpsschedProofs ----------------------------
(* Theorems about upssched: its clients, its daemons and their timers, for  *)
(* any number of events and daemons.                                        *)
EXTENDS Upssched, WellFoundedInduction, TLAPS

USE UpsschedAssumption

Spots == {"idle", "connect", "lock", "fork", "unlock", "send", "answer", "reply",
          "pipe", "eof", "done", "failed", "killed"}
Phases == {"unborn", "unlink", "bind", "unlock", "select", "serve"}

\* A process that has not failed has tries left.
Trying(r) == r.at # "failed" => r.tries < MAX_TRIES /\ r.rounds < MAX_TRIES

client_t == {r \in conn_t : Trying(r)}

TypeInv == TypeOK /\ client \in [Clients -> client_t]

-----------------------------------------------------------------------------
(* The records.                                                            *)

LEMMA ClientTypes ==
  ASSUME NEW r \in client_t
  PROVE  /\ \A place \in Spots \ {"failed"} : r.at # "failed" => Moved(r, place) \in client_t
         /\ \A d \in Daemons :
              r.at # "failed" => [Moved(r, "send") EXCEPT !.conn = d] \in client_t
         /\ \A d \in Daemons :
              r.at # "failed" => [Moved(r, "fork") EXCEPT !.conn = d] \in client_t
         /\ r.at # "failed" => NextRound(r) \in client_t /\ NextTry(r) \in client_t
<1>1. ASSUME NEW place \in Spots \ {"failed"}, r.at # "failed"
      PROVE  Moved(r, place) \in client_t
  BY <1>1 DEF client_t, conn_t, Trying, Moved, Spots
<1>2. ASSUME NEW d \in Daemons, r.at # "failed", NEW place \in {"send", "fork"}
      PROVE  [Moved(r, place) EXCEPT !.conn = d] \in client_t
  <2> DEFINE m == Moved(r, place)
  <2>1. m \in client_t
    BY <1>1, <1>2 DEF Spots
  <2>2. m.at # "failed"
    BY <1>2 DEF client_t, conn_t, Moved
  <2> HIDE DEF m
  <2>3. [m EXCEPT !.conn = d] \in client_t
    BY <2>1, <2>2 DEF client_t, conn_t, Trying
  <2> QED BY <2>3 DEF m
<1>3. ASSUME r.at # "failed"
      PROVE  NextRound(r) \in client_t
  <2>1. r.rounds \in 0..MAX_TRIES /\ r.rounds < MAX_TRIES
    BY <1>3 DEF client_t, conn_t, Trying
  <2> DEFINE n == r.rounds + 1
             place == IF n < MAX_TRIES THEN "connect" ELSE "failed"
             m == [r EXCEPT !.rounds = n, !.tries = 0, !.conn = "none", !.at = place]
  <2>2. /\ n \in 0..MAX_TRIES /\ 0 \in 0..MAX_TRIES /\ 0 < MAX_TRIES
        /\ place \in {"connect", "failed"} /\ (place # "failed" => n < MAX_TRIES)
    BY <2>1
  <2>3. NextRound(r) = m
    BY DEF NextRound
  <2> HIDE DEF n, place
  <2>4. m \in conn_t
    BY <2>2 DEF client_t, conn_t
  <2>5. m.at = place /\ m.rounds = n /\ m.tries = 0
    BY DEF client_t, conn_t
  <2> HIDE DEF m
  <2> QED BY <2>2, <2>3, <2>4, <2>5 DEF client_t, Trying
<1>4. ASSUME r.at # "failed"
      PROVE  NextTry(r) \in client_t
  <2>1. /\ r.tries \in 0..MAX_TRIES /\ r.tries < MAX_TRIES
        /\ r.rounds < MAX_TRIES
    BY <1>4 DEF client_t, conn_t, Trying
  <2> DEFINE n == r.tries + 1
             place == IF n < MAX_TRIES THEN "connect" ELSE "failed"
             m == [r EXCEPT !.tries = n, !.at = place]
  <2>2. /\ n \in 0..MAX_TRIES
        /\ place \in {"connect", "failed"} /\ (place # "failed" => n < MAX_TRIES)
    BY <2>1
  <2>3. NextTry(r) = m
    BY DEF NextTry
  <2> HIDE DEF n, place
  <2>4. m \in conn_t
    BY <2>2 DEF client_t, conn_t
  <2>5. m.at = place /\ m.tries = n /\ m.rounds = r.rounds
    BY DEF client_t, conn_t
  <2> HIDE DEF m
  <2> QED BY <2>1, <2>2, <2>3, <2>4, <2>5 DEF client_t, Trying
<1> QED BY <1>1, <1>2, <1>3, <1>4

LEMMA UnbornType == Unborn \in daemon_t
BY DEF Unborn, daemon_t

LEMMA DaemonMoved ==
  ASSUME NEW r \in daemon_t, NEW place \in Phases
  PROVE  Moved(r, place) \in daemon_t
BY DEF Moved, daemon_t, Phases

\* One client goes elsewhere.
LEMMA ClientSet ==
  ASSUME TypeInv, NEW c \in Clients, NEW r \in client_t,
         client' = [client EXCEPT ![c] = r]
  PROVE  client' \in [Clients -> client_t] /\ client' \in [Clients -> conn_t]
BY DEF TypeInv, client_t

LEMMA DaemonSet ==
  ASSUME TypeOK, NEW d \in Daemons, NEW r \in daemon_t,
         daemon' = [daemon EXCEPT ![d] = r]
  PROVE  daemon' \in [Daemons -> daemon_t]
BY DEF TypeOK

LEMMA InitType == Init => TypeInv
<1> SUFFICES ASSUME Init PROVE TypeInv
  OBVIOUS
<1> DEFINE new == [at |-> "idle", conn |-> "none", tries |-> 0, rounds |-> 0]
<1>1. new \in client_t
  BY DEF client_t, conn_t, Trying
<1> HIDE DEF new
<1>2. client \in [Clients -> client_t] /\ client \in [Clients -> conn_t]
  BY <1>1 DEF Init, new, client_t
<1>3. daemon \in [Daemons -> daemon_t]
  BY UnbornType DEF Init
<1> QED BY <1>2, <1>3 DEF Init, TypeInv, TypeOK

\* A step of a client that leaves the daemons and the history alone.
LEMMA ClientStepType ==
  ASSUME TypeInv, NEW c \in Clients, NEW r \in client_t,
         client' = [client EXCEPT ![c] = r],
         path' = path, lock' \in BOOLEAN, UNCHANGED <<job, daemon, hist>>
  PROVE  TypeInv'
<1>1. client' \in [Clients -> client_t] /\ client' \in [Clients -> conn_t]
  BY ClientSet
<1> QED BY <1>1 DEF TypeInv, TypeOK, hist

LEMMA SendcmdType ==
  ASSUME TypeInv, NEW c \in Clients, Launch(c) \/ sendcmd(c)
  PROVE  TypeInv'
<1>0. client[c] \in client_t /\ client[c] \in conn_t
  BY DEF TypeInv, client_t
<1>1. ASSUME client[c].at # "failed"
      PROVE  /\ \A place \in Spots \ {"failed"} : Moved(client[c], place) \in client_t
             /\ \A d \in Daemons :
                  [Moved(client[c], "send") EXCEPT !.conn = d] \in client_t
             /\ \A d \in Daemons :
                  [Moved(client[c], "fork") EXCEPT !.conn = d] \in client_t
             /\ NextRound(client[c]) \in client_t /\ NextTry(client[c]) \in client_t
  BY <1>0, <1>1, ClientTypes
<1>2. CASE Launch(c)
  <2>1. Moved(client[c], "connect") \in client_t
    BY <1>1, <1>2 DEF Launch, Spots
  <2>2. client' \in [Clients -> client_t] /\ client' \in [Clients -> conn_t]
    BY <1>2, <2>1, ClientSet DEF Launch
  <2>3. before' \in [Clients -> SUBSET Clients]
    BY <1>2 DEF Launch, TypeInv, TypeOK
  <2> QED BY <1>2, <2>2, <2>3 DEF Launch, TypeInv, TypeOK, files
<1>3. CASE try_connect(c)
  <2>1. path \in Daemons /\ client[c].at # "failed"
    BY <1>3 DEF try_connect
  <2> DEFINE v == [Moved(client[c], "send") EXCEPT !.conn = path]
             p == [daemon[path] EXCEPT !.pending = Append(@, c)]
  <2>2. v \in client_t
    BY <1>1, <2>1
  <2>3. p \in daemon_t
    <3>1. daemon[path] \in daemon_t
      BY <2>1 DEF TypeInv, TypeOK
    <3>2. Append(daemon[path].pending, c) \in Seq(Clients)
      BY <3>1 DEF daemon_t
    <3> QED BY <3>1, <3>2 DEF daemon_t
  <2>4. client' = [client EXCEPT ![c] = v] /\ daemon' = [daemon EXCEPT ![path] = p]
    BY <1>3 DEF try_connect
  <2> HIDE DEF v, p
  <2>5. client' \in [Clients -> client_t] /\ client' \in [Clients -> conn_t]
    BY <2>2, <2>4, ClientSet
  <2>6. daemon' \in [Daemons -> daemon_t]
    BY <2>1, <2>3, <2>4, DaemonSet DEF TypeInv
  <2> QED BY <1>3, <2>5, <2>6 DEF try_connect, TypeInv, TypeOK, files, hist
<1>4. CASE \E d \in Daemons : start_daemon(c, d)
  <2>1. PICK d \in Daemons : start_daemon(c, d)
    BY <1>4
  <2> DEFINE v == [Moved(client[c], "fork") EXCEPT !.conn = d]
             p == Moved(Unborn, "unlink")
  <2>2. v \in client_t
    BY <1>1, <2>1 DEF start_daemon
  <2>3. p \in daemon_t
    BY UnbornType, DaemonMoved DEF Phases
  <2>4. client' = [client EXCEPT ![c] = v] /\ daemon' = [daemon EXCEPT ![d] = p]
    BY <2>1 DEF start_daemon
  <2> HIDE DEF v, p
  <2>5. client' \in [Clients -> client_t] /\ client' \in [Clients -> conn_t]
    BY <2>2, <2>4, ClientSet
  <2>6. daemon' \in [Daemons -> daemon_t]
    BY <2>3, <2>4, DaemonSet DEF TypeInv
  <2>7. split' \in BOOLEAN
    BY <2>1 DEF start_daemon, TypeInv, TypeOK
  <2> QED BY <2>1, <2>5, <2>6, <2>7 DEF start_daemon, TypeInv, TypeOK
<1>5. CASE check_parent(c) \/ LockTaken(c) \/ Send(c) \/ SendBroken(c) \/ ReadAnswer(c)
  <2>1. PICK place \in Spots \ {"failed"} :
          client' = [client EXCEPT ![c] = Moved(client[c], place)]
    BY <1>5 DEF check_parent, LockTaken, Send, SendBroken, ReadAnswer, Spots
  <2>2. Moved(client[c], place) \in client_t
    BY <1>1, <1>5 DEF check_parent, LockTaken, Send, SendBroken, ReadAnswer
  <2>3. UNCHANGED <<path, lock, job, daemon, hist>>
    BY <1>5 DEF check_parent, LockTaken, Send, SendBroken, ReadAnswer, files
  <2> QED BY <2>1, <2>2, <2>3, ClientStepType DEF TypeInv, TypeOK
<1>6. CASE BreakLock(c)
  <2>1. NextTry(client[c]) \in client_t
    BY <1>1, <1>6 DEF BreakLock
  <2> QED BY <1>6, <2>1, ClientStepType DEF BreakLock
<1>7. CASE ReadFails(c)
  <2>1. NextRound(client[c]) \in client_t
    BY <1>1, <1>7 DEF ReadFails
  <2> QED BY <1>7, <2>1, ClientStepType DEF ReadFails, files, TypeInv, TypeOK
<1> QED BY <1>2, <1>3, <1>4, <1>5, <1>6, <1>7 DEF sendcmd

-----------------------------------------------------------------------------
(* The daemons.                                                            *)

\* The birth of a daemon: its parent tries again.
LEMMA ParentType ==
  ASSUME TypeInv, NEW d \in Daemons, ParentGoesOn(d)
  PROVE  client' \in [Clients -> client_t] /\ client' \in [Clients -> conn_t]
<1>1. ASSUME NEW c \in Clients
      PROVE  client[c] \in client_t /\ (c \in Parent(d) => NextRound(client[c]) \in client_t)
  BY ClientTypes DEF TypeInv, Parent
<1> QED BY <1>1 DEF ParentGoesOn, client_t

LEMMA BirthType ==
  ASSUME TypeInv, NEW d \in Daemons,
         Unlink(d) \/ Bind(d) \/ BindFails(d) \/ Unlock(d)
  PROVE  TypeInv'
<1>0. daemon[d] \in daemon_t
  BY DEF TypeInv, TypeOK
<1>1. PICK r \in daemon_t : daemon' = [daemon EXCEPT ![d] = r]
  BY <1>0, DaemonMoved, UnbornType DEF Unlink, Bind, BindFails, Unlock, Phases
<1>2. daemon' \in [Daemons -> daemon_t]
  BY <1>1, DaemonSet DEF TypeInv
<1>3. client' \in [Clients -> client_t] /\ client' \in [Clients -> conn_t]
  <2>1. CASE Bind(d) \/ BindFails(d)
    BY <2>1, ParentType DEF Bind, BindFails
  <2>2. CASE UNCHANGED client
    BY <2>2 DEF TypeInv, TypeOK
  <2> QED BY <2>1, <2>2 DEF Unlink, Unlock
<1>4. path' \in Daemons \cup {"none", "stale"} /\ lock' \in BOOLEAN
  BY DEF Unlink, Bind, BindFails, Unlock, TypeInv, TypeOK, files
<1>5. UNCHANGED <<job, hist>>
  BY DEF Unlink, Bind, BindFails, Unlock
<1> QED BY <1>2, <1>3, <1>4, <1>5 DEF TypeInv, TypeOK, hist

LEMMA TimersType ==
  ASSUME TypeOK, NEW r \in daemon_t, NEW c \in Clients
  PROVE  /\ Obeyed(r, c) \in SUBSET Timer
         /\ {t.by : t \in Cancelled(r, c)} \in SUBSET Clients
<1>1. r.timers \in SUBSET Timer /\ r.orders \in Nat
  BY DEF daemon_t
<1>2. job[c].ofs \in Nat
  BY DEF TypeOK
<1>3. Cancelled(r, c) \subseteq r.timers
  BY DEF Cancelled, Oldest, Named
<1>4. start_timer(r, c) \in SUBSET Timer
  BY <1>1, <1>2 DEF start_timer, Timer
<1> QED BY <1>1, <1>3, <1>4 DEF Obeyed, Timer

LEMMA SelectType ==
  ASSUME TypeInv, NEW d \in Daemons, Select(d) \/ sock_read(d) \/ conn_del(d)
  PROVE  TypeInv'
<1>0. daemon[d] \in daemon_t
  BY DEF TypeInv, TypeOK
<1>1. CASE Select(d)
  <2> DEFINE r == daemon[d]
             new == IF r.pending = << >> THEN << >> ELSE <<Head(r.pending)>>
             ready == {c \in Range(r.conns) : Readable(c)}
             rest == IF new = << >> THEN r.pending ELSE Tail(r.pending)
             s == [r EXCEPT !.at = "serve", !.rested = FALSE, !.ready = ready,
                            !.conns = r.conns \o new, !.pending = rest]
  <2>1. r.pending \in Seq(Clients) /\ r.conns \in Seq(Clients)
    BY <1>0 DEF daemon_t
  <2>2. new \in Seq(Clients) /\ rest \in Seq(Clients)
    BY <2>1
  <2>3. ready \in SUBSET Clients
    BY <2>1 DEF Range
  <2>4. r.conns \o new \in Seq(Clients)
    BY <2>1, <2>2
  <2>5. daemon' = [daemon EXCEPT ![d] = s]
    BY <1>1 DEF Select
  <2>6. s \in daemon_t
    <3> HIDE DEF new, ready, rest
    <3> QED BY <1>0, <2>2, <2>3, <2>4 DEF daemon_t
  <2> HIDE DEF s
  <2>7. daemon' \in [Daemons -> daemon_t]
    BY <2>5, <2>6, DaemonSet DEF TypeInv
  <2>8. UNCHANGED <<files, job, client, hist>>
    BY <1>1 DEF Select
  <2> QED BY <2>7, <2>8 DEF TypeInv, TypeOK, files, hist
<1>2. ASSUME NEW i \in DOMAIN daemon[d].conns
      PROVE  /\ daemon[d].conns \in Seq(Clients) /\ daemon[d].conns[i] \in Clients
             /\ RemoveAt(daemon[d].conns, i) \in Seq(Clients)
  BY <1>0, <1>2 DEF daemon_t, RemoveAt
<1>3. CASE sock_read(d)
  <2> DEFINE r == daemon[d]
  <2>1. PICK i \in DOMAIN r.conns :
          LET c == r.conns[i]
          IN  /\ r.at = "serve" /\ IsNext(r, i) /\ client[c].at = "answer"
              /\ daemon' = [daemon EXCEPT ![d] =
                   [r EXCEPT !.ready = @ \ {c}, !.timers = Obeyed(r, c),
                             !.orders = @ + 1]]
              /\ client' = [client EXCEPT ![c] = Moved(@, Answered(c))]
              /\ made' = IF job[c].cmd = "START" THEN [made EXCEPT ![c] = @ + 1]
                                                 ELSE made
              /\ hit' = [hit EXCEPT ![c] = {t.by : t \in Cancelled(r, c)}]
              /\ UNCHANGED <<files, job, before, fired, split>>
    BY <1>3 DEF sock_read
  <2> DEFINE c == r.conns[i]
             s == [r EXCEPT !.ready = r.ready \ {c}, !.timers = Obeyed(r, c),
                            !.orders = r.orders + 1]
             v == Moved(client[c], Answered(c))
             hits == {t.by : t \in Cancelled(r, c)}
  <2>2. c \in Clients
    BY <1>2
  <2>3. Obeyed(r, c) \in SUBSET Timer /\ hits \in SUBSET Clients
    BY <1>0, <2>2, TimersType DEF TypeInv
  <2>4. s \in daemon_t
    <3>1. /\ r \in daemon_t /\ r.ready \ {c} \in SUBSET Clients
          /\ r.orders + 1 \in Nat
      BY <1>0 DEF daemon_t
    <3>2. ASSUME NEW q \in daemon_t, NEW a \in SUBSET Clients,
                 NEW b \in SUBSET Timer, NEW n \in Nat
          PROVE  [q EXCEPT !.ready = a, !.timers = b, !.orders = n] \in daemon_t
      BY DEF daemon_t
    <3> HIDE DEF c, r
    <3> QED BY <2>3, <3>1, <3>2
  <2>5. v \in client_t
    <3>1. client[c] \in client_t /\ client[c].at # "failed"
      BY <2>1, <2>2 DEF TypeInv
    <3>2. Answered(c) \in Spots \ {"failed"}
      BY DEF Answered, Spots
    <3> QED BY <3>1, <3>2, ClientTypes
  <2>6. /\ daemon' = [daemon EXCEPT ![d] = s] /\ client' = [client EXCEPT ![c] = v]
        /\ hit' = [hit EXCEPT ![c] = hits]
        /\ made' = IF job[c].cmd = "START" THEN [made EXCEPT ![c] = @ + 1] ELSE made
        /\ UNCHANGED <<files, job, before, fired, split>>
    BY <2>1
  <2> HIDE DEF s, v, c, hits
  <2>7. daemon' \in [Daemons -> daemon_t]
    BY <2>4, <2>6, DaemonSet DEF TypeInv
  <2>8. client' \in [Clients -> client_t] /\ client' \in [Clients -> conn_t]
    BY <2>2, <2>5, <2>6, ClientSet
  <2>9. made' \in [Clients -> Nat] /\ hit' \in [Clients -> SUBSET Clients]
    BY <2>2, <2>3, <2>6 DEF TypeInv, TypeOK
  <2> QED BY <2>6, <2>7, <2>8, <2>9 DEF TypeInv, TypeOK, files
<1>4. CASE conn_del(d)
  <2> DEFINE r == daemon[d]
  <2>1. PICK i \in DOMAIN r.conns :
          /\ daemon' = [daemon EXCEPT ![d] =
               [r EXCEPT !.ready = @ \ {r.conns[i]}, !.conns = RemoveAt(@, i)]]
          /\ UNCHANGED <<files, job, client, hist>>
    BY <1>4 DEF conn_del
  <2> DEFINE rest == RemoveAt(r.conns, i)
             ready == r.ready \ {r.conns[i]}
             s == [r EXCEPT !.ready = ready, !.conns = rest]
  <2>2. s \in daemon_t
    <3>1. rest \in Seq(Clients) /\ ready \in SUBSET Clients /\ r \in daemon_t
      BY <1>0, <1>2 DEF daemon_t
    <3>2. ASSUME NEW q \in daemon_t, NEW a \in SUBSET Clients, NEW b \in Seq(Clients)
          PROVE  [q EXCEPT !.ready = a, !.conns = b] \in daemon_t
      BY DEF daemon_t
    <3> QED BY <3>1, <3>2
  <2>3. daemon' = [daemon EXCEPT ![d] = s]
    BY <2>1
  <2> HIDE DEF s
  <2>4. daemon' \in [Daemons -> daemon_t]
    BY <2>2, <2>3, DaemonSet DEF TypeInv
  <2> QED BY <2>1, <2>4 DEF TypeInv, TypeOK, files, hist
<1> QED BY <1>1, <1>3, <1>4

LEMMA PassType ==
  ASSUME TypeInv, NEW d \in Daemons, checktimers(d) \/ Leave(d)
  PROVE  TypeInv'
<1>0. daemon[d] \in daemon_t
  BY DEF TypeInv, TypeOK
<1>1. CASE checktimers(d)
  <2> DEFINE r == daemon[d]
             count == IF r.timers = {} THEN r.emptyctr + 1 ELSE 0
             s == [r EXCEPT !.at = "select", !.timers = StillThere(r.timers),
                            !.emptyctr = count]
  <2>1. StillThere(r.timers) \in SUBSET Timer /\ Fired(r.timers) \subseteq Clients
    BY <1>0 DEF daemon_t, StillThere, Fired, Timer
  <2>2. count \in 0..EMPTY_WAIT-1
    <3>1. r.emptyctr \in 0..EMPTY_WAIT-1
      BY <1>0 DEF daemon_t
    <3> QED BY <1>1, <3>1 DEF checktimers, Leaves
  <2>3. s \in daemon_t
    <3> HIDE DEF count
    <3> QED BY <1>0, <2>1, <2>2 DEF daemon_t
  <2>4. daemon' = [daemon EXCEPT ![d] = s]
    BY <1>1 DEF checktimers
  <2> HIDE DEF s
  <2>5. daemon' \in [Daemons -> daemon_t]
    BY <2>3, <2>4, DaemonSet DEF TypeInv
  <2>6. fired' \subseteq Clients
    BY <1>1, <2>1 DEF checktimers, TypeInv, TypeOK
  <2>7. UNCHANGED <<files, job, client, made, hit, before, split>>
    BY <1>1 DEF checktimers
  <2> QED BY <2>5, <2>6, <2>7 DEF TypeInv, TypeOK, files
<1>2. CASE Leave(d)
  <2>1. daemon' \in [Daemons -> daemon_t]
    BY <1>2, UnbornType, DaemonSet DEF Leave, TypeInv
  <2>2. ASSUME NEW c \in Clients PROVE CutOff(client[c], d) \in client_t
    <3>1. client[c] \in client_t
      BY DEF TypeInv
    <3>2. \A place \in {"pipe", "eof"} :
             client[c].at # "failed" => Moved(client[c], place) \in client_t
      BY <3>1, ClientTypes DEF Spots
    <3> QED BY <3>1, <3>2 DEF CutOff
  <2>3. client' \in [Clients -> client_t] /\ client' \in [Clients -> conn_t]
    BY <1>2, <2>2 DEF Leave, client_t
  <2> QED BY <1>2, <2>1, <2>3 DEF Leave, TypeInv, TypeOK, hist
<1> QED BY <1>1, <1>2

LEMMA ElapseType ==
  ASSUME NEW timers \in SUBSET Timer
  PROVE  Elapse(timers) \in SUBSET Timer
BY DEF Elapse, Timer

LEMMA TickType ==
  ASSUME TypeInv, Tick
  PROVE  TypeInv'
<1>1. ASSUME NEW d \in Daemons
      PROVE  [daemon[d] EXCEPT !.rested = TRUE, !.timers = Elapse(@)] \in daemon_t
  <2>1. daemon[d] \in daemon_t
    BY DEF TypeInv, TypeOK
  <2>2. Elapse(daemon[d].timers) \in SUBSET Timer
    BY <2>1, ElapseType DEF daemon_t
  <2> QED BY <2>1, <2>2 DEF daemon_t
<1>2. daemon' \in [Daemons -> daemon_t]
  BY <1>1 DEF Tick, TypeInv, TypeOK
<1> QED BY <1>2 DEF Tick, TypeInv, TypeOK, files, hist

LEMMA TypeStep ==
  ASSUME TypeInv, [Next]_vars
  PROVE  TypeInv'
<1>1. CASE Next
  BY <1>1, SendcmdType, BirthType, SelectType, PassType, TickType DEF Next, RunDaemon
<1>2. CASE UNCHANGED vars
  BY <1>2 DEF vars, files, hist, TypeInv, TypeOK
<1> QED BY <1>1, <1>2

\* The types hold, and who has not failed has tries left: what keeps the counters
\* of check_parent() and sendcmd(), upssched.c:1142 and 1221, in their ranges.
THEOREM TypeInvariant == Spec => []TypeInv
BY InitType, TypeStep, PTL DEF Spec

\* The variables keep their types: no process tries more often than it may, and
\* no daemon without a timer stays for longer than EMPTY_WAIT passes.
THEOREM TypeCorrect == Spec => []TypeOK
<1>1. TypeInv => TypeOK
  BY DEF TypeInv
<1> QED BY <1>1, TypeInvariant, PTL

-----------------------------------------------------------------------------
(* What a step does to the places of the clients and to the daemons.       *)

Settled(r) == r.at \in {"reply", "done"}

LEMMA Places ==
  ASSUME NEW r \in conn_t
  PROVE  /\ \A place : Moved(r, place).at = place
         /\ \A place, d : [Moved(r, place) EXCEPT !.conn = d].at = place
         /\ NextRound(r).at \in {"connect", "failed"}
         /\ NextTry(r).at \in {"connect", "failed"}
         /\ \A d : \/ CutOff(r, d) = r
                   \/ r.at \in {"send", "answer"} /\ CutOff(r, d).at \in {"pipe", "eof"}
<1>1. \A place : Moved(r, place).at = place
  BY DEF Moved, conn_t
<1>2. \A place, d : [Moved(r, place) EXCEPT !.conn = d].at = place
  BY DEF Moved, conn_t
<1>3. NextRound(r).at \in {"connect", "failed"}
  BY DEF NextRound, conn_t
<1>4. NextTry(r).at \in {"connect", "failed"}
  BY DEF NextTry, conn_t
<1>5. ASSUME NEW d
      PROVE  \/ CutOff(r, d) = r
             \/ r.at \in {"send", "answer"} /\ CutOff(r, d).at \in {"pipe", "eof"}
  BY <1>1 DEF CutOff
<1> QED BY <1>1, <1>2, <1>3, <1>4, <1>5

\* A client is over when its answer is read, or when it has nothing to cancel.
LEMMA ClientMoves ==
  ASSUME TypeInv, NEW c \in Clients, Launch(c) \/ sendcmd(c)
  PROVE  /\ \A b \in Clients \ {c} : client'[b] = client[b]
         /\ \/ client[c].at = "reply" /\ client'[c].at = "done"
            \/ /\ check_parent(c) /\ client[c].at = "connect" /\ client'[c].at = "done"
               /\ job[c].cmd = "CANCEL" /\ path \notin Daemons /\ daemon' = daemon
            \/ ~Settled(client[c]) /\ ~Settled(client'[c])
         /\ UNCHANGED <<job, made, hit, fired>>
<1>0. client \in [Clients -> conn_t] /\ client[c] \in conn_t
  BY DEF TypeInv, TypeOK
<1> DEFINE r == client[c]
<1>1. /\ \A place : Moved(r, place).at = place
      /\ \A place, d : [Moved(r, place) EXCEPT !.conn = d].at = place
      /\ NextRound(r).at \in {"connect", "failed"}
      /\ NextTry(r).at \in {"connect", "failed"}
  BY <1>0, Places
<1>2. \A v : client' = [client EXCEPT ![c] = v] =>
               client'[c] = v /\ \A b \in Clients \ {c} : client'[b] = client[b]
  BY <1>0
<1> HIDE DEF r
<1>3. CASE ReadAnswer(c)
  BY <1>1, <1>2, <1>3 DEF ReadAnswer, hist, r
<1>4. CASE check_parent(c)
  BY <1>1, <1>2, <1>4 DEF check_parent, hist, Unnecessary, Settled, r
<1>5. CASE Launch(c)
  BY <1>1, <1>2, <1>5 DEF Launch, Settled, r
<1>6. CASE try_connect(c)
  BY <1>1, <1>2, <1>6 DEF try_connect, Settled, hist, r
<1>7. CASE \E d \in Daemons : start_daemon(c, d)
  BY <1>1, <1>2, <1>7 DEF start_daemon, Settled, r
<1>8. CASE LockTaken(c) \/ Send(c) \/ SendBroken(c)
  BY <1>1, <1>2, <1>8 DEF LockTaken, Send, SendBroken, Settled, hist, r
<1>9. CASE BreakLock(c) \/ ReadFails(c)
  BY <1>1, <1>2, <1>9 DEF BreakLock, ReadFails, Settled, hist, r
<1> QED BY <1>3, <1>4, <1>5, <1>6, <1>7, <1>8, <1>9 DEF sendcmd

\* The command of c, the next in turn, is obeyed and answered.
Obeys(d, c) ==
  /\ client[c].at = "answer" /\ client'[c].at = "reply"
  /\ \A b \in Clients \ {c} : client'[b] = client[b]
  /\ made' = IF job[c].cmd = "START" THEN [made EXCEPT ![c] = @ + 1] ELSE made
  /\ hit'[c] = {t.by : t \in Cancelled(daemon[d], c)}
  /\ \A b \in Clients \ {c} : hit'[b] = hit[b]
  /\ daemon'[d].at = daemon[d].at /\ daemon[d].at = "serve"
  /\ daemon'[d].timers = Obeyed(daemon[d], c)
  /\ daemon'[d].orders = daemon[d].orders + 1
  /\ \A e \in Daemons \ {d} : daemon'[e] = daemon[e]
  /\ UNCHANGED <<files, job, before, fired, split>>

LEMMA ReadObeys ==
  ASSUME TypeInv, NEW d \in Daemons, sock_read(d)
  PROVE  \E c \in Clients : Obeys(d, c)
<1> DEFINE r == daemon[d]
<1>0. /\ r \in daemon_t /\ client \in [Clients -> conn_t]
      /\ daemon \in [Daemons -> daemon_t] /\ hit \in [Clients -> SUBSET Clients]
  BY DEF TypeInv, TypeOK
<1>1. PICK i \in DOMAIN r.conns :
        LET c == r.conns[i]
        IN  /\ r.at = "serve" /\ client[c].at = "answer"
            /\ daemon' = [daemon EXCEPT ![d] =
                 [r EXCEPT !.ready = @ \ {c}, !.timers = Obeyed(r, c),
                           !.orders = @ + 1]]
            /\ client' = [client EXCEPT ![c] = Moved(@, Answered(c))]
            /\ made' = IF job[c].cmd = "START" THEN [made EXCEPT ![c] = @ + 1]
                                               ELSE made
            /\ hit' = [hit EXCEPT ![c] = {t.by : t \in Cancelled(r, c)}]
            /\ UNCHANGED <<files, job, before, fired, split>>
  BY DEF sock_read
<1> DEFINE c == r.conns[i]
           s == [r EXCEPT !.ready = r.ready \ {c}, !.timers = Obeyed(r, c),
                          !.orders = r.orders + 1]
           hits == {t.by : t \in Cancelled(r, c)}
<1>2. c \in Clients
  BY <1>0, <1>1 DEF daemon_t
<1>3. s.at = r.at /\ s.timers = Obeyed(r, c) /\ s.orders = r.orders + 1
  BY <1>0 DEF daemon_t
<1>4. Moved(client[c], Answered(c)).at = "reply"
  BY <1>0, <1>2, Places DEF Answered
<1>5. /\ client[c].at = "answer" /\ r.at = "serve"
      /\ daemon' = [daemon EXCEPT ![d] = s]
      /\ client' = [client EXCEPT ![c] = Moved(client[c], Answered(c))]
      /\ made' = IF job[c].cmd = "START" THEN [made EXCEPT ![c] = @ + 1] ELSE made
      /\ hit' = [hit EXCEPT ![c] = hits]
      /\ UNCHANGED <<files, job, before, fired, split>>
  BY <1>1
<1> HIDE DEF c, s, hits
<1>6. daemon'[d] = s /\ \A e \in Daemons \ {d} : daemon'[e] = daemon[e]
  BY <1>0, <1>5
<1>7. client'[c].at = "reply" /\ \A b \in Clients \ {c} : client'[b] = client[b]
  BY <1>0, <1>2, <1>4, <1>5
<1>8. hit'[c] = hits /\ \A b \in Clients \ {c} : hit'[b] = hit[b]
  BY <1>0, <1>2, <1>5
<1>9. Obeys(d, c)
  BY <1>3, <1>5, <1>6, <1>7, <1>8 DEF Obeys, hits
<1> QED BY <1>2, <1>9

\* Whatever else a daemon does is no answer to anybody.
LEMMA DaemonAnswersNot ==
  ASSUME TypeInv, NEW d \in Daemons, RunDaemon(d), ~sock_read(d), NEW c \in Clients
  PROVE  /\ client'[c] = client[c] \/ (~Settled(client[c]) /\ ~Settled(client'[c]))
         /\ UNCHANGED <<job, made, hit, before, split>>
<1>0. client[c] \in conn_t
  BY DEF TypeInv, TypeOK
<1>1. CASE Bind(d) \/ BindFails(d)
  <2>1. NextRound(client[c]).at \in {"connect", "failed"}
    BY <1>0, Places
  <2> QED BY <1>1, <2>1 DEF Bind, BindFails, ParentGoesOn, Parent, hist, Settled
<1>2. CASE Leave(d)
  <2>1. \/ CutOff(client[c], d) = client[c]
        \/ /\ client[c].at \in {"send", "answer"}
           /\ CutOff(client[c], d).at \in {"pipe", "eof"}
    BY <1>0, Places
  <2>2. client'[c] = CutOff(client[c], d)
    BY <1>2 DEF Leave
  <2> QED BY <1>2, <2>1, <2>2 DEF Leave, hist, Settled
<1>3. CASE Unlink(d) \/ Unlock(d) \/ Select(d) \/ conn_del(d) \/ checktimers(d)
  BY <1>3 DEF Unlink, Unlock, Select, conn_del, checktimers, hist
<1> QED BY <1>1, <1>2, <1>3 DEF RunDaemon

-----------------------------------------------------------------------------
(* One timer for one START.                                                *)

LEMMA OnceKept ==
  ASSUME ExactlyOnce, NEW c \in Clients, job' = job, made'[c] = made[c],
         job[c].cmd = "START" => (Settled(client'[c]) <=> Settled(client[c]))
  PROVE  job'[c].cmd = "START" =>
           made'[c] = IF client'[c].at \in {"reply", "done"} THEN 1 ELSE 0
BY DEF ExactlyOnce, Settled

LEMMA OnceStep ==
  ASSUME TypeInv, ExactlyOnce, [Next]_vars
  PROVE  ExactlyOnce'
<1> SUFFICES ASSUME NEW c \in Clients
             PROVE  job'[c].cmd = "START" =>
                      made'[c] = IF client'[c].at \in {"reply", "done"} THEN 1 ELSE 0
  BY DEF ExactlyOnce
<1>1. ASSUME NEW b \in Clients, Launch(b) \/ sendcmd(b)
      PROVE  /\ job' = job /\ made'[c] = made[c]
             /\ job[c].cmd = "START" => (Settled(client'[c]) <=> Settled(client[c]))
  BY <1>1, ClientMoves DEF Settled
<1>2. ASSUME NEW d \in Daemons, RunDaemon(d), ~sock_read(d)
      PROVE  /\ job' = job /\ made'[c] = made[c]
             /\ Settled(client'[c]) <=> Settled(client[c])
  BY <1>2, DaemonAnswersNot
<1>3. ASSUME NEW d \in Daemons, sock_read(d)
      PROVE  job'[c].cmd = "START" =>
               made'[c] = IF client'[c].at \in {"reply", "done"} THEN 1 ELSE 0
  <2>1. PICK b \in Clients : Obeys(d, b)
    BY <1>3, ReadObeys
  <2>2. job' = job /\ made \in [Clients -> Nat]
    BY <2>1 DEF Obeys, TypeInv, TypeOK
  <2>3. CASE b = c
    BY <2>1, <2>2, <2>3 DEF Obeys, ExactlyOnce
  <2>4. CASE b # c
    BY <2>1, <2>2, <2>4 DEF Obeys, ExactlyOnce
  <2> QED BY <2>3, <2>4
<1>4. CASE Tick \/ UNCHANGED vars
  BY <1>4 DEF Tick, vars, hist, ExactlyOnce
<1> QED BY <1>1, <1>2, <1>3, <1>4, OnceKept DEF Next

\* sendcmd() and sock_arg(), upssched.c:1221 and 661: with all the tries, over
\* daemons that leave under its feet, a START that is answered has made one timer
\* and one that is not has made none.
THEOREM StartsOnce == Spec => []ExactlyOnce
<1>1. Init => ExactlyOnce
  BY DEF Init, ExactlyOnce
<1> QED BY <1>1, OnceStep, TypeInvariant, PTL DEF Spec

-----------------------------------------------------------------------------
(* What a CANCEL did not find is not there.                                *)

\* One daemon at a time, as long as none was forked while another lived; once it
\* is bound, the socket is its own.
Single ==
  ~split => \A d, e \in Daemons : Alive(d) /\ Alive(e) => d = e

Serving == {"unlock", "select", "serve"}
Reachable ==
  ~split => \A d \in Daemons : daemon[d].at \in Serving => path = d

\* Only a daemon that serves has timers.
TimersServed ==
  \A d \in Daemons : daemon[d].at \notin Serving => daemon[d].timers = {}

\* Who was over when a client started stays over.
Earlier == \A c \in Clients : before[c] \subseteq {b \in Clients : client[b].at = "done"}

\* The answered CANCEL of c that found nothing left nothing.
Missed(c) ==
  ~split /\ job[c].cmd = "CANCEL" /\ Settled(client[c]) /\ hit[c] = {} =>
    \A d \in Daemons : \A t \in daemon[d].timers :
      t.by \in before[c] => job[t.by].name # job[c].name

CancelInv ==
  /\ Single /\ Reachable /\ TimersServed /\ Earlier
  /\ \A c \in Clients : Missed(c)

LEMMA InitCancel == Init => CancelInv
BY DEF Init, CancelInv, Single, Reachable, TimersServed, Earlier, Missed, Alive,
       Unborn, Serving, Settled

\* cancel_timer(): of some timers, one is the oldest.
LEMMA OldestExists ==
  ASSUME NEW timers \in SUBSET Timer, timers # {}
  PROVE  Oldest(timers) # {}
<1> DEFINE places == {t.nth : t \in timers}
           R == {p \in Nat \X Nat : p[1] < p[2]}
<1>1. IsWellFoundedOn(R, Nat)
  BY NatLessThanWellFounded DEF OpToRel
<1>2. places \subseteq Nat /\ places # {}
  BY DEF Timer
<1> HIDE DEF R, places
<1>3. PICK m \in places : \A n \in places : <<n, m>> \notin R
  BY <1>1, <1>2, WFMin
<1>0. m \in Nat /\ \A n \in places : n \in Nat
  BY <1>2, <1>3
<1>7. \A n \in places : ~(n < m)
  BY <1>0, <1>3 DEF R
<1>4. \A n \in places : m <= n
  BY <1>0, <1>7
<1> USE DEF places
<1>5. PICK t \in timers : t.nth = m
  BY <1>3
<1>6. \A k \in timers : t.nth <= k.nth
  BY <1>4, <1>5
<1> QED BY <1>6 DEF Oldest

-----------------------------------------------------------------------------
(* How the daemons move.                                                   *)

\* select(), the end of a connection and the end of a pass: no timer is added.
PassMove(d) ==
  /\ daemon[d].at \in {"select", "serve"} /\ daemon'[d].at \in {"select", "serve"}
  /\ daemon'[d].timers \subseteq daemon[d].timers
  /\ daemon'[d].orders = daemon[d].orders
  /\ \A e \in Daemons \ {d} : daemon'[e] = daemon[e]
  /\ UNCHANGED <<path, split>>

LEMMA PassMoves ==
  ASSUME TypeInv, NEW d \in Daemons, Select(d) \/ conn_del(d) \/ checktimers(d)
  PROVE  PassMove(d)
<1>0. daemon \in [Daemons -> daemon_t] /\ daemon[d] \in daemon_t
  BY DEF TypeInv, TypeOK
<1>1. daemon[d].at \in {"select", "serve"} /\ UNCHANGED <<path, split>>
  BY DEF Select, conn_del, checktimers, Checks, files, hist
<1>2. ASSUME NEW s, daemon' = [daemon EXCEPT ![d] = s], s.at \in {"select", "serve"},
             s.timers \subseteq daemon[d].timers, s.orders = daemon[d].orders
      PROVE  PassMove(d)
  <2>1. daemon'[d] = s /\ \A e \in Daemons \ {d} : daemon'[e] = daemon[e]
    BY <1>0, <1>2
  <2> QED BY <1>1, <1>2, <2>1 DEF PassMove
<1>3. CASE Select(d)
  <2>1. ASSUME NEW r \in daemon_t, NEW ready, NEW conns, NEW pending
        PROVE  LET s == [r EXCEPT !.at = "serve", !.rested = FALSE, !.ready = ready,
                                  !.conns = conns, !.pending = pending]
               IN  s.at = "serve" /\ s.timers = r.timers /\ s.orders = r.orders
    BY DEF daemon_t
  <2> DEFINE r == daemon[d]
             new == IF r.pending = << >> THEN << >> ELSE <<Head(r.pending)>>
             ready == {c \in Range(r.conns) : Readable(c)}
             conns == r.conns \o new
             pending == IF new = << >> THEN r.pending ELSE Tail(r.pending)
             s == [r EXCEPT !.at = "serve", !.rested = FALSE, !.ready = ready,
                            !.conns = conns, !.pending = pending]
  <2>2. daemon' = [daemon EXCEPT ![d] = s]
    BY <1>3 DEF Select
  <2> HIDE DEF new, ready, conns, pending
  <2>3. s.at = "serve" /\ s.timers = r.timers /\ s.orders = r.orders
    BY <1>0, <2>1
  <2> HIDE DEF s
  <2> QED BY <1>2, <2>2, <2>3
<1>4. CASE conn_del(d)
  <2>1. ASSUME NEW r \in daemon_t, NEW ready, NEW conns
        PROVE  LET s == [r EXCEPT !.ready = ready, !.conns = conns]
               IN  s.at = r.at /\ s.timers = r.timers /\ s.orders = r.orders
    BY DEF daemon_t
  <2>2. PICK i \in DOMAIN daemon[d].conns :
          /\ daemon[d].at = "serve"
          /\ daemon' = [daemon EXCEPT ![d] =
               [daemon[d] EXCEPT !.ready = daemon[d].ready \ {daemon[d].conns[i]},
                                 !.conns = RemoveAt(daemon[d].conns, i)]]
    BY <1>4 DEF conn_del
  <2> DEFINE ready == daemon[d].ready \ {daemon[d].conns[i]}
             conns == RemoveAt(daemon[d].conns, i)
             s == [daemon[d] EXCEPT !.ready = ready, !.conns = conns]
  <2>3. daemon' = [daemon EXCEPT ![d] = s]
    BY <2>2
  <2> HIDE DEF ready, conns
  <2>4. /\ s.at = daemon[d].at /\ s.timers = daemon[d].timers
        /\ s.orders = daemon[d].orders
    BY <1>0, <2>1
  <2> HIDE DEF s
  <2> QED BY <1>1, <1>2, <2>3, <2>4
<1>5. CASE checktimers(d)
  <2>1. ASSUME NEW r \in daemon_t, NEW timers, NEW n
        PROVE  LET s == [r EXCEPT !.at = "select", !.timers = timers, !.emptyctr = n]
               IN  s.at = "select" /\ s.timers = timers /\ s.orders = r.orders
    BY DEF daemon_t
  <2> DEFINE r == daemon[d]
             timers == StillThere(r.timers)
             n == IF r.timers = {} THEN r.emptyctr + 1 ELSE 0
             s == [r EXCEPT !.at = "select", !.timers = timers, !.emptyctr = n]
  <2>2. daemon' = [daemon EXCEPT ![d] = s]
    BY <1>5 DEF checktimers
  <2>3. timers \subseteq r.timers
    BY DEF StillThere
  <2> HIDE DEF timers, n
  <2>4. s.at = "select" /\ s.timers = timers /\ s.orders = r.orders
    BY <1>0, <2>1
  <2> HIDE DEF s
  <2> QED BY <1>2, <2>2, <2>3, <2>4
<1> QED BY <1>3, <1>4, <1>5

\* Where a step of d takes it, and what becomes of PIPEFN and of its timers.
Takes(d, from, to) ==
  /\ daemon[d].at \in from /\ daemon'[d].at \in to
  /\ \A e \in Daemons \ {d} : daemon'[e] = daemon[e]
  /\ split' = split

DaemonMove(d) ==
  \/ Takes(d, {"unlink"}, {"bind"}) /\ daemon'[d].timers = daemon[d].timers
  \/ Takes(d, {"bind"}, {"unlock"}) /\ path' = d
  \/ Takes(d, {"bind"}, {"unborn"}) /\ path' = path /\ daemon'[d].timers = {}
  \/ Takes(d, Serving, Serving) /\ path' = path
  \/ Takes(d, {"serve"}, {"unborn"}) /\ daemon'[d].timers = {}

LEMMA DaemonMoves ==
  ASSUME TypeInv, NEW d \in Daemons, RunDaemon(d)
  PROVE  DaemonMove(d)
<1>0. daemon \in [Daemons -> daemon_t] /\ daemon[d] \in daemon_t
  BY DEF TypeInv, TypeOK
<1>1. ASSUME NEW r, daemon' = [daemon EXCEPT ![d] = r]
      PROVE  daemon'[d] = r /\ \A e \in Daemons \ {d} : daemon'[e] = daemon[e]
  BY <1>0, <1>1
<1>2. ASSUME NEW place
      PROVE  /\ Moved(daemon[d], place).at = place
             /\ Moved(daemon[d], place).timers = daemon[d].timers
  BY <1>0 DEF Moved, daemon_t
<1>3. CASE Unlink(d)
  <2>1. daemon[d].at = "unlink" /\ daemon' = [daemon EXCEPT ![d] = Moved(@, "bind")]
        /\ split' = split
    BY <1>3 DEF Unlink, hist
  <2>2. daemon'[d] = Moved(daemon[d], "bind")
        /\ \A e \in Daemons \ {d} : daemon'[e] = daemon[e]
    BY <1>1, <2>1
  <2> QED BY <1>2, <2>1, <2>2 DEF DaemonMove, Takes
<1>4. CASE Bind(d)
  <2>1. daemon[d].at = "bind" /\ daemon' = [daemon EXCEPT ![d] = Moved(@, "unlock")]
        /\ path' = d /\ split' = split
    BY <1>4 DEF Bind, hist
  <2>2. daemon'[d] = Moved(daemon[d], "unlock")
        /\ \A e \in Daemons \ {d} : daemon'[e] = daemon[e]
    BY <1>1, <2>1
  <2> QED BY <1>2, <2>1, <2>2 DEF DaemonMove, Takes
<1>5. CASE BindFails(d)
  <2>1. daemon[d].at = "bind" /\ daemon' = [daemon EXCEPT ![d] = Unborn]
        /\ path' = path /\ split' = split
    BY <1>5 DEF BindFails, hist, files
  <2>2. daemon'[d] = Unborn /\ \A e \in Daemons \ {d} : daemon'[e] = daemon[e]
    BY <1>1, <2>1
  <2>3. Unborn.at = "unborn" /\ Unborn.timers = {}
    BY DEF Unborn
  <2> QED BY <2>1, <2>2, <2>3 DEF DaemonMove, Takes
<1>6. CASE Unlock(d)
  BY <1>1, <1>2, <1>6 DEF Unlock, DaemonMove, Takes, hist, Serving
<1>7. CASE Leave(d)
  <2>1. daemon[d].at = "serve" /\ daemon' = [daemon EXCEPT ![d] = Unborn]
        /\ split' = split
    BY <1>7 DEF Leave, Checks, hist
  <2>2. daemon'[d] = Unborn /\ \A e \in Daemons \ {d} : daemon'[e] = daemon[e]
    BY <1>1, <2>1
  <2>3. Unborn.at = "unborn" /\ Unborn.timers = {}
    BY DEF Unborn
  <2> QED BY <2>1, <2>2, <2>3 DEF DaemonMove, Takes
<1>8. CASE sock_read(d)
  <2>1. PICK c \in Clients : Obeys(d, c)
    BY <1>8, ReadObeys
  <2> QED BY <2>1 DEF Obeys, DaemonMove, Takes, files, Serving
<1>9. CASE Select(d) \/ conn_del(d) \/ checktimers(d)
  BY <1>9, PassMoves DEF PassMove, DaemonMove, Takes, Serving
<1> QED BY <1>3, <1>4, <1>5, <1>6, <1>7, <1>8, <1>9 DEF RunDaemon

\* No step but the reading of a START gives a timer to anybody.
NoneNew ==
  \A e \in Daemons : \A t \in daemon'[e].timers :
    \/ \E k \in daemon[e].timers : k.by = t.by
    \/ client[t.by].at = "answer"

LEMMA DaemonNoneNew ==
  ASSUME TypeInv, NEW d \in Daemons, RunDaemon(d)
  PROVE  NoneNew
<1>0. daemon \in [Daemons -> daemon_t] /\ daemon[d] \in daemon_t
  BY DEF TypeInv, TypeOK
<1>1. ASSUME NEW r, daemon' = [daemon EXCEPT ![d] = r], r.timers \subseteq daemon[d].timers
      PROVE  NoneNew
  BY <1>0, <1>1 DEF NoneNew
<1>2. CASE Unlink(d) \/ Unlock(d) \/ Bind(d)
  <2>1. \A place : Moved(daemon[d], place).timers = daemon[d].timers
    BY <1>0 DEF Moved, daemon_t
  <2> QED BY <1>1, <1>2, <2>1 DEF Unlink, Unlock, Bind
<1>3. CASE BindFails(d) \/ Leave(d)
  BY <1>1, <1>3 DEF BindFails, Leave, Unborn
<1>4. CASE sock_read(d)
  <2>1. PICK c \in Clients : Obeys(d, c)
    BY <1>4, ReadObeys
  <2>2. \A t \in Obeyed(daemon[d], c) : t \in daemon[d].timers \/ t.by = c
    BY DEF Obeyed, start_timer
  <2> QED BY <2>1, <2>2 DEF Obeys, NoneNew
<1>5. CASE Select(d) \/ conn_del(d) \/ checktimers(d)
  BY <1>5, PassMoves DEF PassMove, NoneNew
<1> QED BY <1>2, <1>3, <1>4, <1>5 DEF RunDaemon

-----------------------------------------------------------------------------
(* The invariant holds on.                                                 *)

\* The daemon d moves while the others stay.
LEMMA MoveKeepsOne ==
  ASSUME TypeInv, CancelInv, NEW d \in Daemons, DaemonMove(d)
  PROVE  (Single /\ Reachable /\ TimersServed)'
<1>0. d \notin {"none", "stale"}
  OBVIOUS
<1>1. /\ \A e \in Daemons \ {d} : daemon'[e] = daemon[e]
      /\ split' = split /\ Alive(d)
  BY DEF DaemonMove, Takes, Alive, Serving
<1>2. ~split => \A e \in Daemons \ {d} : daemon'[e].at = "unborn"
  BY <1>1 DEF CancelInv, Single, Alive
<1>3. Single'
  BY <1>1, <1>2 DEF Single, Alive
<1>4. Reachable'
  BY <1>1, <1>2 DEF Reachable, Serving, DaemonMove, Takes, CancelInv
<1>5. TimersServed'
  BY <1>1 DEF TimersServed, Serving, DaemonMove, Takes, CancelInv
<1> QED BY <1>3, <1>4, <1>5

\* A fork without a split is the birth of the only daemon.
LEMMA ForkKeepsOne ==
  ASSUME TypeInv, CancelInv, NEW c \in Clients, NEW d \in Daemons, start_daemon(c, d)
  PROVE  (Single /\ Reachable /\ TimersServed)'
<1>1. /\ daemon'[d] = Moved(Unborn, "unlink")
      /\ \A e \in Daemons \ {d} : daemon'[e] = daemon[e]
  BY DEF start_daemon, TypeInv, TypeOK
<1>2. daemon'[d].at = "unlink" /\ daemon'[d].timers = {}
  BY <1>1 DEF Moved, Unborn
<1>3. ~split' => ~split /\ \A e \in Daemons : ~Alive(e)
  BY DEF start_daemon
<1> QED BY <1>1, <1>2, <1>3
        DEF Single, Reachable, TimersServed, Alive, Serving, CancelInv

\* A step that leaves the places of the daemons alone.
LEMMA SameKeepsOne ==
  ASSUME CancelInv, UNCHANGED <<path, split>>,
         \A e \in Daemons : daemon'[e].at = daemon[e].at,
         \A e \in Daemons : daemon[e].timers = {} => daemon'[e].timers = {}
  PROVE  (Single /\ Reachable /\ TimersServed)'
BY DEF Single, Reachable, TimersServed, Alive, CancelInv

\* A CANCEL that neither answers nor is answered now.
LEMMA MissedKept ==
  ASSUME TypeInv, CancelInv, NoneNew, NEW c \in Clients, job' = job,
         Settled(client'[c]) => Settled(client[c]), hit'[c] = hit[c],
         before'[c] = before[c], ~split' => ~split
  PROVE  Missed(c)'
<1> SUFFICES ASSUME ~split, job[c].cmd = "CANCEL", Settled(client[c]), hit[c] = {},
                    NEW d \in Daemons, NEW t \in daemon'[d].timers, t.by \in before[c]
             PROVE  job[t.by].name # job[c].name
  BY DEF Missed
<1>1. client[t.by].at # "answer"
  BY DEF CancelInv, Earlier
<1>2. PICK k \in daemon[d].timers : k.by = t.by
  BY <1>1 DEF NoneNew
<1> QED BY <1>2 DEF CancelInv, Missed

\* sock_read() of a CANCEL: nothing of its name in the only queue.
LEMMA AnswerMisses ==
  ASSUME TypeInv, CancelInv, NEW d \in Daemons, NEW c \in Clients, Obeys(d, c)
  PROVE  Missed(c)'
<1> SUFFICES ASSUME ~split, job[c].cmd = "CANCEL", hit'[c] = {},
                    NEW e \in Daemons, NEW t \in daemon'[e].timers
             PROVE  job[t.by].name # job[c].name
  BY DEF Missed, Obeys
<1>0. daemon[d] \in daemon_t /\ daemon[e] \in daemon_t
  BY DEF TypeInv, TypeOK
<1>1. CASE e = d
  <2>0. ASSUME NEW S, {k.by : k \in S} = {}
        PROVE  S = {}
    BY <2>0
  <2>5. {k.by : k \in Cancelled(daemon[d], c)} = {}
    BY DEF Obeys
  <2>1. Cancelled(daemon[d], c) = {}
    BY <2>0, <2>5
  <2>2. Named(daemon[d].timers, job[c].name) \in SUBSET Timer
    BY <1>0 DEF Named, daemon_t
  <2>3. Named(daemon[d].timers, job[c].name) = {}
    BY <2>1, <2>2, OldestExists DEF Cancelled
  <2>4. t \in daemon[d].timers
    BY <1>1, <2>1 DEF Obeys, Obeyed
  <2> QED BY <2>3, <2>4 DEF Named
<1>2. CASE e # d
  <2>1. daemon[e].at = "unborn"
    BY <1>2 DEF Obeys, CancelInv, Single, Alive
  <2>2. daemon'[e].timers = {}
    BY <1>2, <2>1 DEF Obeys, CancelInv, TimersServed, Serving
  <2> QED BY <2>2
<1> QED BY <1>1, <1>2

\* check_parent(): without a daemon behind the socket there is no timer at all.
LEMMA UnreachedMisses ==
  ASSUME TypeInv, CancelInv, NEW c \in Clients, path \notin Daemons,
         daemon' = daemon, split' = split
  PROVE  Missed(c)'
<1>1. ~split => \A d \in Daemons : daemon[d].timers = {}
  BY DEF CancelInv, Reachable, TimersServed
<1> QED BY <1>1 DEF Missed

LEMMA ClientCancel ==
  ASSUME TypeInv, CancelInv, NEW c \in Clients, Launch(c) \/ sendcmd(c)
  PROVE  CancelInv'
<1>0. client \in [Clients -> conn_t] /\ before \in [Clients -> SUBSET Clients]
  BY DEF TypeInv, TypeOK
<1>1. /\ \A b \in Clients \ {c} : client'[b] = client[b]
      /\ \/ client[c].at = "reply" /\ client'[c].at = "done"
         \/ /\ check_parent(c) /\ client[c].at = "connect" /\ client'[c].at = "done"
            /\ job[c].cmd = "CANCEL" /\ path \notin Daemons /\ daemon' = daemon
         \/ ~Settled(client[c]) /\ ~Settled(client'[c])
      /\ UNCHANGED <<job, made, hit, fired>>
  BY ClientMoves
<1>2. \A b \in Clients : client[b].at = "done" => client'[b].at = "done"
  BY <1>1 DEF Settled
<1>3. \A b \in Clients : \/ before'[b] = before[b]
                         \/ /\ b = c /\ Launch(c)
                            /\ before'[b] = {a \in Clients : client[a].at = "done"}
  <2>1. CASE Launch(c)
    BY <1>0, <2>1 DEF Launch
  <2>2. CASE sendcmd(c)
    BY <2>2 DEF sendcmd, try_connect, check_parent, start_daemon, LockTaken, BreakLock,
                Send, SendBroken, ReadAnswer, ReadFails, hist
  <2> QED BY <2>1, <2>2
<1>4. /\ (Single /\ Reachable /\ TimersServed)'
      /\ NoneNew /\ (~split' => ~split)
  <2>1. CASE \E d \in Daemons : start_daemon(c, d)
    <3>1. PICK d \in Daemons : start_daemon(c, d)
      BY <2>1
    <3>2. \A e \in Daemons : daemon'[e] = daemon[e] \/ daemon'[e].timers = {}
      BY <3>1 DEF start_daemon, TypeInv, TypeOK, Moved, Unborn
    <3>3. NoneNew
      BY <3>2 DEF NoneNew
    <3> QED BY <3>1, <3>3, ForkKeepsOne DEF start_daemon
  <2>2. CASE try_connect(c)
    <3>1. \A e \in Daemons : daemon'[e].at = daemon[e].at
                             /\ daemon'[e].timers = daemon[e].timers
      BY <2>2 DEF try_connect, TypeInv, TypeOK, daemon_t
    <3>2. UNCHANGED <<path, split>>
      BY <2>2 DEF try_connect, files, hist
    <3>3. NoneNew
      BY <3>1 DEF NoneNew
    <3> QED BY <3>1, <3>2, <3>3, SameKeepsOne
  <2>3. CASE UNCHANGED <<path, split, daemon>>
    BY <2>3, SameKeepsOne DEF NoneNew
  <2> QED BY <2>1, <2>2, <2>3
          DEF sendcmd, Launch, check_parent, LockTaken, BreakLock, Send, SendBroken,
              ReadAnswer, ReadFails, files, hist
<1>5. Earlier'
  BY <1>2, <1>3 DEF CancelInv, Earlier
<1>6. ASSUME NEW b \in Clients
      PROVE  Missed(b)'
  <2>1. CASE check_parent(c) /\ b = c
    <3>1. CASE Settled(client'[c]) /\ ~Settled(client[c])
      <4>1. path \notin Daemons /\ daemon' = daemon /\ split' = split
        BY <2>1, <3>1 DEF check_parent, hist
      <4> QED BY <4>1, UnreachedMisses
    <3>2. CASE ~(Settled(client'[c]) /\ ~Settled(client[c]))
      <4>1. before'[c] = before[c]
        BY <2>1 DEF check_parent, hist
      <4> QED BY <1>1, <1>4, <2>1, <3>2, <4>1, MissedKept
    <3> QED BY <3>1, <3>2
  <2>2. CASE Launch(c) /\ b = c
    <3>1. ~Settled(client'[c])
      BY <1>1, <2>2 DEF Launch, check_parent, Settled
    <3> QED BY <2>2, <3>1 DEF Missed
  <2>3. CASE b # c \/ (~check_parent(c) /\ ~Launch(c))
    <3>1. before'[b] = before[b]
      BY <1>3, <2>3
    <3>2. Settled(client'[b]) => Settled(client[b])
      BY <1>1, <2>3 DEF Settled
    <3>3. hit'[b] = hit[b] /\ job' = job
      BY <1>1
    <3> QED BY <1>4, <3>1, <3>2, <3>3, MissedKept
  <2> QED BY <2>1, <2>2, <2>3
<1> QED BY <1>4, <1>5, <1>6 DEF CancelInv

LEMMA DaemonCancel ==
  ASSUME TypeInv, CancelInv, NEW d \in Daemons, RunDaemon(d)
  PROVE  CancelInv'
<1>1. (Single /\ Reachable /\ TimersServed)'
  BY DaemonMoves, MoveKeepsOne
<1>2. NoneNew /\ split' = split
  BY DaemonNoneNew, DaemonMoves DEF DaemonMove, Takes
<1>3. CASE sock_read(d)
  <2>1. PICK c \in Clients : Obeys(d, c)
    BY <1>3, ReadObeys
  <2>2. before' = before /\ job' = job
    BY <2>1 DEF Obeys
  <2>3. Earlier'
    BY <2>1, <2>2 DEF Obeys, CancelInv, Earlier
  <2>4. ASSUME NEW b \in Clients \ {c} PROVE Missed(b)'
    <3>1. client'[b] = client[b] /\ hit'[b] = hit[b]
      BY <2>1 DEF Obeys
    <3> QED BY <1>2, <2>2, <3>1, MissedKept
  <2>5. Missed(c)'
    BY <2>1, AnswerMisses
  <2> QED BY <1>1, <2>3, <2>4, <2>5 DEF CancelInv
<1>4. CASE ~sock_read(d)
  <2>1. \A c \in Clients :
          /\ client'[c] = client[c] \/ (~Settled(client[c]) /\ ~Settled(client'[c]))
          /\ UNCHANGED <<job, made, hit, before, split>>
    BY <1>4, DaemonAnswersNot
  <2>2. Earlier'
    BY <2>1 DEF CancelInv, Earlier, Settled
  <2>3. ASSUME NEW c \in Clients PROVE Missed(c)'
    <3>1. /\ job' = job /\ hit'[c] = hit[c] /\ before'[c] = before[c]
          /\ Settled(client'[c]) => Settled(client[c])
      BY <2>1
    <3> QED BY <1>2, <3>1, MissedKept
  <2> QED BY <1>1, <2>2, <2>3 DEF CancelInv
<1> QED BY <1>3, <1>4

LEMMA TickCancel ==
  ASSUME TypeInv, CancelInv, Tick
  PROVE  CancelInv'
<1>1. ASSUME NEW e \in Daemons
      PROVE  /\ daemon'[e].at = daemon[e].at
             /\ \A t \in daemon'[e].timers : \E k \in daemon[e].timers : k.by = t.by
  <2>0. daemon[e] \in daemon_t
    BY DEF TypeInv, TypeOK
  <2>1. \/ daemon'[e] = daemon[e]
        \/ daemon'[e] = [daemon[e] EXCEPT !.rested = TRUE,
                                          !.timers = Elapse(daemon[e].timers)]
    BY DEF Tick
  <2>2. \A t \in Elapse(daemon[e].timers) : \E k \in daemon[e].timers : k.by = t.by
    BY <2>0 DEF Elapse, daemon_t, Timer
  <2> QED BY <2>0, <2>1, <2>2 DEF daemon_t
<1>2. NoneNew
  BY <1>1 DEF NoneNew
<1>3. UNCHANGED <<path, split, job, client, hit, before>>
  BY DEF Tick, files, hist
<1>4. (Single /\ Reachable /\ TimersServed)'
  BY <1>1, <1>3, SameKeepsOne
<1>5. Earlier' /\ \A c \in Clients : Missed(c)'
  BY <1>2, <1>3, MissedKept DEF CancelInv, Earlier
<1> QED BY <1>4, <1>5 DEF CancelInv

LEMMA CancelStep ==
  ASSUME TypeInv, CancelInv, [Next]_vars
  PROVE  CancelInv'
<1>1. CASE Next
  BY <1>1, ClientCancel, DaemonCancel, TickCancel DEF Next
<1>2. CASE UNCHANGED vars
  BY <1>2 DEF vars, files, hist, CancelInv, Single, Reachable, TimersServed, Earlier,
              Missed, Alive
<1> QED BY <1>1, <1>2

\* check_parent(), cancel_timer() and checktimers(), upssched.c:1151, 241 and 158:
\* as long as no two daemons live at a time, a CANCEL that is over and has found
\* nothing leaves no timer of its name whose START was over before.
THEOREM CancelsFind == Spec => []CancelFindsIt
<1>1. TypeInv /\ CancelInv => CancelFindsIt
  <2> SUFFICES ASSUME TypeInv, CancelInv, NEW c \in Clients, ~split,
                      job[c].cmd = "CANCEL", client[c].at = "done", hit[c] = {},
                      NEW b \in before[c] \cap Running
               PROVE  job[b].name # job[c].name
    BY DEF CancelFindsIt
  <2>1. PICK d \in Daemons : \E t \in daemon[d].timers : t.by = b
    BY DEF Running
  <2> QED BY <2>1 DEF CancelInv, Missed, Settled
<1> QED BY <1>1, InitCancel, CancelStep, TypeInvariant, PTL DEF Spec

-----------------------------------------------------------------------------
(* A CANCEL takes one timer.                                               *)

\* The queue of timers is in the order in which they were started.
InOrder(r) ==
  /\ \A t \in r.timers : t.nth < r.orders
  /\ \A s, t \in r.timers : s.nth = t.nth => s = t

Alone(S) == \A a, b \in S : a = b

OrderInv == (\A d \in Daemons : InOrder(daemon[d])) /\ (\A c \in Clients : Alone(hit[c]))

LEMMA OldestAlone ==
  ASSUME NEW r \in daemon_t, InOrder(r), NEW c \in Clients
  PROVE  Alone(Cancelled(r, c))
<1>1. Named(r.timers, job[c].name) \subseteq r.timers
  BY DEF Named
<1>2. \A t \in r.timers : t.nth \in Nat
  BY DEF daemon_t, Timer
<1> QED BY <1>1, <1>2 DEF Alone, Cancelled, Oldest, InOrder

LEMMA OrderObeyed ==
  ASSUME TypeInv, OrderInv, NEW d \in Daemons, NEW c \in Clients, Obeys(d, c)
  PROVE  OrderInv'
<1> DEFINE r == daemon[d]
           new == [by |-> c, left |-> job[c].ofs, nth |-> r.orders]
<1>0. r \in daemon_t /\ r.orders \in Nat /\ InOrder(r) /\ (\A t \in r.timers : t.nth \in Nat)
  BY DEF TypeInv, TypeOK, daemon_t, Timer, OrderInv
<1>1. Obeyed(r, c) = r.timers \cup {new} \/ Obeyed(r, c) \subseteq r.timers
  BY DEF Obeyed, start_timer
<1>2. InOrder(daemon'[d])
  <2>1. \A t \in Obeyed(r, c) : t.nth < r.orders + 1
    BY <1>0, <1>1 DEF InOrder
  <2>2. \A s, t \in Obeyed(r, c) : s.nth = t.nth => s = t
    BY <1>0, <1>1 DEF InOrder
  <2> QED BY <2>1, <2>2 DEF Obeys, InOrder
<1>3. \A e \in Daemons : InOrder(daemon'[e])
  BY <1>2 DEF Obeys, OrderInv
<1>4. Alone(hit'[c])
  BY <1>0, OldestAlone DEF Obeys, Alone
<1>5. \A b \in Clients : Alone(hit'[b])
  BY <1>4 DEF Obeys, OrderInv
<1> QED BY <1>3, <1>5 DEF OrderInv

\* A step of a daemon that obeys nobody.
LEMMA OrderKept ==
  ASSUME TypeInv, OrderInv, NEW d \in Daemons, RunDaemon(d), ~sock_read(d)
  PROVE  OrderInv'
<1>0. daemon \in [Daemons -> daemon_t] /\ daemon[d] \in daemon_t /\ InOrder(daemon[d])
  BY DEF TypeInv, TypeOK, OrderInv
<1>1. hit' = hit
  <2>1. UNCHANGED <<job, made, hit, before, split>>
    BY DEF RunDaemon, Unlink, Bind, BindFails, Unlock, Select, conn_del, checktimers,
           Leave, hist
  <2> QED BY <2>1
<1>2. ASSUME NEW s, daemon' = [daemon EXCEPT ![d] = s], InOrder(s)
      PROVE  OrderInv'
  BY <1>0, <1>1, <1>2 DEF OrderInv
<1>3. CASE Unlink(d) \/ Unlock(d) \/ Bind(d)
  <2>1. \A place : /\ Moved(daemon[d], place).timers = daemon[d].timers
                   /\ Moved(daemon[d], place).orders = daemon[d].orders
    BY <1>0 DEF Moved, daemon_t
  <2>2. \A place : InOrder(Moved(daemon[d], place))
    BY <1>0, <2>1 DEF InOrder
  <2> QED BY <1>2, <1>3, <2>2 DEF Unlink, Unlock, Bind
<1>4. CASE BindFails(d) \/ Leave(d)
  <2>1. InOrder(Unborn)
    BY DEF Unborn, InOrder
  <2> QED BY <1>2, <1>4, <2>1 DEF BindFails, Leave
<1>5. CASE Select(d) \/ conn_del(d) \/ checktimers(d)
  <2>1. /\ daemon'[d].timers \subseteq daemon[d].timers
        /\ daemon'[d].orders = daemon[d].orders
        /\ \A e \in Daemons \ {d} : daemon'[e] = daemon[e]
    BY <1>5, PassMoves DEF PassMove
  <2>2. InOrder(daemon'[d])
    BY <1>0, <2>1 DEF InOrder
  <2> QED BY <1>1, <2>1, <2>2 DEF OrderInv
<1> QED BY <1>3, <1>4, <1>5 DEF RunDaemon

LEMMA OrderClient ==
  ASSUME TypeInv, OrderInv, NEW c \in Clients, Launch(c) \/ sendcmd(c)
  PROVE  OrderInv'
<1>0. daemon \in [Daemons -> daemon_t] /\ hit' = hit
  BY ClientMoves DEF TypeInv, TypeOK
<1>1. ASSUME NEW e \in Daemons PROVE InOrder(daemon'[e])
  <2>0. daemon[e] \in daemon_t /\ InOrder(daemon[e])
    BY <1>0 DEF OrderInv
  <2>1. CASE try_connect(c)
    <3>1. daemon'[e].timers = daemon[e].timers /\ daemon'[e].orders = daemon[e].orders
      BY <1>0, <2>0, <2>1 DEF try_connect, daemon_t
    <3> QED BY <2>0, <3>1 DEF InOrder
  <2>2. CASE \E d \in Daemons : start_daemon(c, d)
    <3>1. daemon'[e] = daemon[e] \/ daemon'[e].timers = {}
      BY <1>0, <2>2 DEF start_daemon, Moved, Unborn
    <3> QED BY <2>0, <3>1 DEF InOrder
  <2>3. CASE daemon' = daemon
    BY <2>0, <2>3
  <2> QED BY <2>1, <2>2, <2>3
          DEF sendcmd, Launch, check_parent, LockTaken, BreakLock, Send, SendBroken,
              ReadAnswer, ReadFails
<1> QED BY <1>0, <1>1 DEF OrderInv

LEMMA OrderTick ==
  ASSUME TypeInv, OrderInv, Tick
  PROVE  OrderInv'
<1>1. ASSUME NEW e \in Daemons PROVE InOrder(daemon'[e])
  <2>0. daemon[e] \in daemon_t /\ InOrder(daemon[e])
    BY DEF TypeInv, TypeOK, OrderInv
  <2> DEFINE older == Elapse(daemon[e].timers)
             s == [daemon[e] EXCEPT !.rested = TRUE, !.timers = older]
  <2>1. daemon'[e] = daemon[e] \/ daemon'[e] = s
    BY DEF Tick
  <2>2. \A t \in older : \E k \in daemon[e].timers :
           /\ t.nth = k.nth
           /\ t = [k EXCEPT !.left = IF k.left > 0 THEN k.left - 1 ELSE 0]
    BY <2>0 DEF Elapse, daemon_t, Timer
  <2>3. /\ \A t \in older : t.nth < daemon[e].orders
        /\ \A a, b \in older : a.nth = b.nth => a = b
    BY <2>0, <2>2 DEF InOrder
  <2> HIDE DEF older
  <2>4. s.timers = older /\ s.orders = daemon[e].orders
    BY <2>0 DEF daemon_t
  <2>5. InOrder(s)
    BY <2>3, <2>4 DEF InOrder
  <2> QED BY <2>0, <2>1, <2>5
<1> QED BY <1>1 DEF OrderInv, Tick, hist

\* cancel_timer(), upssched.c:241: a CANCEL takes one timer at most, the oldest of
\* its name, though start_timer() has let several have it.
THEOREM CancelsOne == Spec => [](\A c \in Clients : \A a, b \in hit[c] : a = b)
<1>1. Init => OrderInv
  BY DEF Init, OrderInv, InOrder, Unborn, Alone
<1>2. TypeInv /\ OrderInv /\ [Next]_vars => OrderInv'
  <2> SUFFICES ASSUME TypeInv, OrderInv, [Next]_vars PROVE OrderInv'
    OBVIOUS
  <2>1. ASSUME NEW d \in Daemons, sock_read(d) PROVE OrderInv'
    BY <2>1, ReadObeys, OrderObeyed
  <2>2. CASE UNCHANGED vars
    BY <2>2 DEF vars, hist, OrderInv
  <2> QED BY <2>1, <2>2, OrderKept, OrderClient, OrderTick DEF Next
<1>3. OrderInv => \A c \in Clients : \A a, b \in hit[c] : a = b
  BY DEF OrderInv, Alone
<1> QED BY <1>1, <1>2, <1>3, TypeInvariant, PTL DEF Spec

===============================================================================
