--------------------------- MODULE DriverLinkProofs ---------------------------
(* Theorems about the socket between a driver and upsd. *)
EXTENDS DriverLink, SequenceTheorems, WellFoundedInduction, TLAPS

USE DriverLinkAssumption

(* The inductive invariants. *)

\* Nothing is under way on a connection that does not exist, or that the driver has
\* yet to accept or has closed; and there is none to a driver that is down.
NothingElsewhere ==
  /\ link # "open" => toU = << >> /\ out = {}
  /\ link \in {"none", "cut"} => toD = << >>
  /\ drv = "down" => link \in {"none", "cut"}

\* The driver has yet to read that it shall dump its variables.
Undumped == \E i \in DOMAIN toD : toD[i] = "DUMPALL"

\* Until then, upsd knows of a variable what it was told since it connected, or
\* nothing: the dump, which leaves out those that do not exist, need not take
\* anything back.
BeforeDump ==
  /\ link = "backlog" => Undumped /\ \A v \in Optional : info[v] = "gone"
  /\ link \in {"backlog", "open"} /\ Undumped =>
       \A v \in Optional \ out : Latest(v) \in {"gone", tree[v]}

CInv == TypeOK /\ NothingElsewhere /\ BeforeDump /\ Consistent

\* The connection is there and nobody has closed it.
Open == link \in {"backlog", "open"}

\* What is told to upsd before DUMPDONE: that the data are good.
Confirmed(n) == info["data_ok"] = "yes" \/ \E j \in 1..n : toU[j].var = "data_ok"

\* While the driver is up and has data, upsd is never told otherwise, and never
\* that the dump is done before it is told so.
GoodData ==
  steady =>
    /\ Open /\ drv = "up" /\ fresh = "yes"
    /\ \A i \in DOMAIN toU : toU[i].var = "data_ok" => toU[i].val = "yes"
    /\ info["dumpdone"] = "yes" => info["data_ok"] = "yes"
    /\ \A i \in DOMAIN toU : toU[i].var = "dumpdone" => Confirmed(i)
    /\ "dumpdone" \in out => "data_ok" \in out \/ Confirmed(Len(toU))

PINGTIME == MAXAGE \div 3

\* The seconds that upsd may have heard nothing when a command is sent to the driver.
Patience == IF Busy > PINGTIME + PollTime THEN Busy ELSE PINGTIME + PollTime

\* Nothing is on its way to upsd.
Idle == link = "open" /\ out = {} /\ toU = << >>

\* How long the driver may have been silent.
Silence ==
  /\ ~Owes => owed = 0
  /\ at = "blind" /\ Connected => heard <= waited
  /\ at = "read" => link = "cut" \/ Readable
  /\ steady /\ link = "backlog" => heard <= owed
  /\ steady /\ link = "open" => heard <= Patience + Busy
  /\ steady /\ Idle /\ toD # << >> => heard <= Patience + owed
  /\ steady /\ Idle /\ toD = << >> =>
       /\ at = "scan" => heard <= PINGTIME + PollTime
       /\ at = "poll" => heard <= PINGTIME + waited
       /\ pinged > PINGTIME \/ heard <= pinged

-----------------------------------------------------------------------------
(* The constants.                                                          *)

LEMMA Constant ==
  /\ "ups.status" \in Vars /\ Optional \subseteq Vars /\ Vars \subseteq Fields
  /\ "data_ok" \in Fields \ Vars /\ "dumpdone" \in Fields \ Vars
  /\ "PONG" \notin Fields \ {"ups.status"} /\ \A v \in Vars : v # "PONG"
  /\ MAXAGE \div 3 \in Nat
BY DEF Vars, Fields

LEMMA Trees_AnyValue ==
  ASSUME NEW t \in Trees
  PROVE  t \in [Vars -> AnyValue] /\ \A v \in Vars : t[v] \in AnyValue /\ t[v] \in May(v)
BY DEF Trees

LEMMA MayIsAnyValue == \A v \in Vars : May(v) \subseteq AnyValue
BY DEF AnyValue

LEMMA LeastType ==
  ASSUME NEW m \in Nat, NEW n \in 0..m+1
  PROVE  /\ Least(n + 1, m + 1) \in 0..m+1 /\ 0 \in 0..m+1
         /\ Least(n + 1, m + 1) <= n + 1
         /\ Least(n + 1, m + 1) = n + 1 \/ Least(n + 1, m + 1) = m + 1
BY DEF Least

-----------------------------------------------------------------------------
(* The types.                                                              *)

LEMMA NothingUnderWay ==
  /\ << >> \in Seq({"DUMPALL", "PING"}) /\ << >> \in Seq(Message) /\ Len(<< >>) = 0
BY EmptySeq

LEMMA TailLeft ==
  ASSUME NEW q \in Seq(Message), q # << >>, Len(q) > 1
  PROVE  Tail(q) # << >>
<1>1. Len(q) \in Nat
  BY LenProperties
<1>2. Tail(q) \in Seq(Message) /\ Len(Tail(q)) = Len(q) - 1
  BY HeadTailProperties
<1>3. Len(Tail(q)) > 0
  BY <1>1, <1>2
<1>4. SUFFICES ASSUME Tail(q) = << >> PROVE FALSE
  OBVIOUS
<1>5. Len(<< >>) > 0
  BY <1>3, <1>4
<1> QED BY <1>5, NothingUnderWay

LEMMA BlankType ==
  ASSUME NEW i, i["data_ok"] \in AnyValue \cup Flags \cup {"gone", "WAIT", "PONG"}
  PROVE  Blank(i) \in [Fields -> AnyValue \cup Flags \cup {"gone", "WAIT", "PONG"}]
BY DEF Blank, Flags

LEMMA CurrentType ==
  ASSUME TypeOK, NEW f \in Fields \cup {"PONG"}
  PROVE  Current(f) \in AnyValue \cup Flags \cup {"PONG"}
BY Trees_AnyValue, Constant DEF TypeOK, Current, Flags, Fields

LEMMA TypeInit == Init => TypeOK
<1> SUFFICES ASSUME Init PROVE TypeOK
  OBVIOUS
<1>1. Blank([f \in Fields |-> "no"]) \in [Fields -> AnyValue \cup Flags \cup {"gone", "WAIT", "PONG"}]
  BY BlankType, Constant DEF Flags
<1>2. pinged \in 0..MAXAGE \div 3 + 1 /\ heard \in 0..MAXAGE+1
  BY Constant, LeastType DEF Init
<1>3. Len(toU) <= Capacity /\ Len(toD) <= CmdCapacity
  BY NothingUnderWay DEF Init
<1>4. waited \in 0..PollTime /\ owed \in 0..Busy
  BY DEF Init
<1>5. info \in [Fields -> AnyValue \cup Flags \cup {"gone", "WAIT", "PONG"}]
  BY <1>1 DEF Init
<1>6. toU \in Seq(Message) /\ toD \in Seq({"DUMPALL", "PING"})
  BY NothingUnderWay DEF Init
<1>7. fresh \in Flags /\ out \subseteq Fields \cup {"PONG"}
  BY DEF Init, Flags
<1> QED BY <1>2, <1>3, <1>4, <1>5, <1>6, <1>7 DEF Init, TypeOK

LEMMA DisconnectType ==
  ASSUME TypeOK, sstate_disconnect
  PROVE  /\ link' \in {"none", "backlog", "open", "cut"}
         /\ toD' \in Seq({"DUMPALL", "PING"}) /\ Len(toD') = 0
         /\ toU' \in Seq(Message) /\ Len(toU') = 0
         /\ out' \subseteq Fields \cup {"PONG"}
         /\ info' \in [Fields -> AnyValue \cup Flags \cup {"gone", "WAIT", "PONG"}]
         /\ heard' \in 0..MAXAGE+1 /\ owed' \in 0..Busy /\ steady' \in BOOLEAN
<1>1. info' \in [Fields -> AnyValue \cup Flags \cup {"gone", "WAIT", "PONG"}]
  <2>1. info["data_ok"] \in AnyValue \cup Flags \cup {"gone", "WAIT", "PONG"}
    BY Constant DEF TypeOK
  <2> QED BY <2>1, BlankType DEF sstate_disconnect
<1>2. toD' \in Seq({"DUMPALL", "PING"}) /\ Len(toD') = 0
  BY NothingUnderWay DEF sstate_disconnect
<1>3. toU' \in Seq(Message) /\ Len(toU') = 0
  BY NothingUnderWay DEF sstate_disconnect
<1>4. heard' \in 0..MAXAGE+1 /\ owed' \in 0..Busy
  BY DEF sstate_disconnect
<1> QED BY <1>1, <1>2, <1>3, <1>4 DEF sstate_disconnect

LEMMA CutType ==
  ASSUME TypeOK, CutLink
  PROVE  /\ link' \in {"none", "backlog", "open", "cut"}
         /\ toD' \in Seq({"DUMPALL", "PING"}) /\ Len(toD') = 0
         /\ toU' \in Seq(Message) /\ Len(toU') = 0
         /\ out' \subseteq Fields \cup {"PONG"}
         /\ owed' \in 0..Busy /\ steady' \in BOOLEAN
<1>1. toD' \in Seq({"DUMPALL", "PING"}) /\ Len(toD') = 0
  BY NothingUnderWay DEF CutLink
<1>2. toU' \in Seq(Message) /\ Len(toU') = 0
  BY NothingUnderWay DEF CutLink
<1>3. owed' \in 0..Busy
  BY DEF CutLink
<1>4. link' \in {"none", "backlog", "open", "cut"}
  BY DEF CutLink, TypeOK
<1> QED BY <1>1, <1>2, <1>3, <1>4 DEF CutLink

LEMMA DeadType == TypeOK => Dead \in BOOLEAN
BY DEF Dead

LEMMA TypeDisturbance ==
  ASSUME TypeOK, Disturbance \/ Start \/ Recover
  PROVE  TypeOK'
<1>1. CASE Crash
  <2>1. /\ link' \in {"none", "backlog", "open", "cut"}
        /\ toD' \in Seq({"DUMPALL", "PING"}) /\ Len(toD') <= CmdCapacity
        /\ toU' \in Seq(Message) /\ Len(toU') <= Capacity
        /\ out' \subseteq Fields \cup {"PONG"}
        /\ owed' \in 0..Busy /\ steady' \in BOOLEAN
    BY <1>1, CutType DEF Crash
  <2> QED BY <1>1, <2>1 DEF Crash, TypeOK, upsd, Flags
<1>2. CASE Hang
  BY <1>2 DEF Hang, TypeOK, upsd, clocks
<1>3. ASSUME NEW v \in Vars, NEW x \in AnyValue, dstate_setinfo(v, x)
      PROVE  TypeOK'
  <2>1. tree' \in Trees
    BY <1>3, Trees_AnyValue DEF dstate_setinfo, TypeOK, Trees
  <2>2. out' \subseteq Fields \cup {"PONG"}
    BY <1>3, Constant DEF dstate_setinfo, send_to_all
  <2> QED BY <1>3, <2>1, <2>2 DEF dstate_setinfo, TypeOK, upsd, clocks
<1>4. ASSUME NEW ok \in {"yes", "no"}, dstate_data(ok)
      PROVE  TypeOK'
  <2>1. out' \subseteq Fields \cup {"PONG"}
    BY <1>4, Constant DEF dstate_data, send_to_all
  <2> QED BY <1>4, <2>1 DEF dstate_data, TypeOK, upsd, clocks, Flags
<1>5. CASE Start
  BY <1>5 DEF Start, TypeOK, upsd, clocks
<1>6. CASE Recover
  BY <1>6 DEF Recover, TypeOK, upsd, clocks
<1> QED BY <1>1, <1>2, <1>3, <1>4, <1>5, <1>6 DEF Disturbance

LEMMA TypeDriver ==
  ASSUME TypeOK, Driver
  PROVE  TypeOK'
<1>1. CASE sock_connect
  BY <1>1 DEF sock_connect, TypeOK, upsd, driver
<1>2. CASE sock_read
  <2>1. out' \subseteq Fields \cup {"PONG"}
    BY <1>2, Constant DEF sock_read, Answer
  <2>2. toD' \in Seq({"DUMPALL", "PING"}) /\ Len(toD') <= CmdCapacity
    BY <1>2 DEF sock_read, TypeOK
  <2> QED BY <1>2, <2>1, <2>2 DEF sock_read, TypeOK, upsd
<1>3. ASSUME NEW f \in Fields \cup {"PONG"}, Write(f)
      PROVE  TypeOK'
  <2>1. [var |-> f, val |-> Current(f)] \in Message
    BY CurrentType DEF Message
  <2>2. toU' \in Seq(Message) /\ Len(toU') <= Capacity
    <3>1. toU' = Append(toU, [var |-> f, val |-> Current(f)]) /\ Len(toU) < Capacity
      BY <1>3 DEF Write
    <3>2. toU \in Seq(Message) /\ Capacity \in Nat
      BY DEF TypeOK
    <3> QED BY <2>1, <3>1, <3>2, AppendProperties
  <2> QED BY <1>3, <2>2 DEF Write, TypeOK, upsd, clocks
<1>4. CASE WriteFails
  BY <1>4, CutType DEF WriteFails, NextMode, TypeOK, upsd
<1> QED BY <1>1, <1>2, <1>3, <1>4 DEF Driver

LEMMA TypeServer ==
  ASSUME TypeOK, Server
  PROVE  TypeOK'
<1>1. CASE sstate_connect
  <2>1. info' \in [Fields -> AnyValue \cup Flags \cup {"gone", "WAIT", "PONG"}]
    <3>1. info["data_ok"] \in AnyValue \cup Flags \cup {"gone", "WAIT", "PONG"}
      BY Constant DEF TypeOK
    <3> QED BY <1>1, <3>1, BlankType DEF sstate_connect
  <2>2. toD' \in Seq({"DUMPALL", "PING"}) /\ Len(toD') <= CmdCapacity
    BY <1>1 DEF sstate_connect
  <2>3. steady' \in BOOLEAN /\ stale' \in BOOLEAN
    BY <1>1 DEF sstate_connect
  <2>4. UNCHANGED <<drv, tree, fresh, sync, out, toU, pinged>>
    BY <1>1 DEF sstate_connect, driver
  <2> QED BY <1>1, <2>1, <2>2, <2>3, <2>4 DEF sstate_connect, TypeOK
<1>2. CASE ConnectFails
  BY <1>2 DEF ConnectFails, TypeOK, driver
<1>3. CASE Scan
  BY <1>3, DeadType DEF Scan, Scanned, TypeOK, driver
<1>4. CASE sendping
  <2>1. toD' \in Seq({"DUMPALL", "PING"}) /\ Len(toD') <= CmdCapacity
    BY <1>4 DEF sendping, PingFits, TypeOK
  <2>2. pinged' \in 0..MAXAGE \div 3 + 1
    BY <1>4, LeastType, Constant DEF sendping
  <2>3. stale' \in BOOLEAN /\ waited' \in 0..PollTime /\ at' = "poll"
    BY <1>4, DeadType DEF sendping, Scanned
  <2>4. UNCHANGED <<drv, tree, fresh, sync, out, link, toU, info, heard, owed, steady>>
    BY <1>4 DEF sendping, driver
  <2> QED BY <2>1, <2>2, <2>3, <2>4 DEF TypeOK
<1>5. CASE PingFails
  BY <1>5, DisconnectType, DeadType DEF PingFails, Scanned, TypeOK
<1>6. CASE sstate_readline
  <2>1. toU \in Seq(Message) /\ toU # << >>
    BY <1>6 DEF sstate_readline, Readable, TypeOK
  <2>2. Head(toU) \in Message /\ Tail(toU) \in Seq(Message) /\ Len(Tail(toU)) = Len(toU) - 1
    BY <2>1, HeadTailProperties
  <2>3. info' \in [Fields -> AnyValue \cup Flags \cup {"gone", "WAIT", "PONG"}]
    BY <1>6, <2>2 DEF sstate_readline, parse_args, TypeOK, Message
  <2>4. Len(toU') <= Capacity /\ toU' \in Seq(Message)
    BY <1>6, <2>1, <2>2, LenProperties DEF sstate_readline, TypeOK
  <2> QED BY <1>6, <2>3, <2>4 DEF sstate_readline, TypeOK, driver
<1>7. CASE Hangup
  BY <1>7, DisconnectType DEF Hangup, TypeOK
<1>8. CASE Wake
  BY <1>8 DEF Wake, TypeOK, driver, clocks
<1> QED BY <1>1, <1>2, <1>3, <1>4, <1>5, <1>6, <1>7, <1>8 DEF Server

LEMMA TypeTick ==
  ASSUME TypeOK, Tick
  PROVE  TypeOK'
<1>1. heard' \in 0..MAXAGE+1 /\ pinged' \in 0..MAXAGE \div 3 + 1
  <2>1. heard' = heard \/ heard' = Least(heard + 1, MAXAGE + 1)
    BY DEF Tick
  <2>2. heard' \in 0..MAXAGE+1
    BY <2>1, LeastType DEF TypeOK
  <2>3. pinged' = Least(pinged + 1, MAXAGE \div 3 + 1)
    BY DEF Tick
  <2>4. pinged \in 0..MAXAGE \div 3 + 1 /\ MAXAGE \div 3 \in Nat
    BY Constant DEF TypeOK
  <2> QED BY <2>2, <2>3, <2>4, LeastType
<1>2. waited' \in 0..PollTime
  BY DEF Tick, MayWait, TypeOK
<1>3. owed' \in 0..Busy
  BY DEF Tick, MayWait, TypeOK, Free
<1> QED BY <1>1, <1>2, <1>3 DEF Tick, TypeOK, driver, upsd

\* TypeOK: every variable keeps its type, and neither side ever puts more into the
\* socket than it takes (dstate.c:send_to_one(), sstate.c:sendping()).
THEOREM TypeCorrect == Spec => []TypeOK
<1>1. TypeOK /\ [Next]_vars => TypeOK'
  <2> SUFFICES ASSUME TypeOK, [Next]_vars PROVE TypeOK'
    OBVIOUS
  <2>1. CASE UNCHANGED vars
    BY <2>1 DEF vars, driver, upsd, clocks, TypeOK
  <2> QED BY <2>1, TypeDisturbance, TypeDriver, TypeServer, TypeTick DEF Next
<1> QED BY <1>1, TypeInit, PTL DEF Spec

-----------------------------------------------------------------------------
(* What upsd will know.                                                    *)

\* Latest(f), of a sequence q and a copy i.
LatestOf(q, i, f) ==
  IF {k \in DOMAIN q : q[k].var = f} = {} THEN i[f]
  ELSE q[CHOOSE k \in {l \in DOMAIN q : q[l].var = f} :
           \A j \in {l \in DOMAIN q : q[l].var = f} : j <= k].val

LEMMA LatestIsLatestOf ==
  \A f : /\ Latest(f) = LatestOf(toU, info, f)
         /\ Latest(f)' = LatestOf(toU', info', f)
BY DEF Latest, About, LatestOf

\* No message of q is about f, or the last one is at k.
Absent(q, f)  == \A l \in 1..Len(q) : q[l].var # f
Last(q, f, k) == /\ k \in 1..Len(q) /\ q[k].var = f
                 /\ \A l \in 1..Len(q) : l > k => q[l].var # f

\* Of the places of a sequence that satisfy something, one is the last.
LEMMA LastPlace ==
  ASSUME NEW n \in Nat, NEW S \in SUBSET (1..n), S # {}
  PROVE  \E i \in S : \A j \in S : j <= i
<1> DEFINE T == {k \in Nat : \E j \in S : k = n - j}
<1>1. T \subseteq Nat /\ T # {}
  <2>1. PICK j \in S : TRUE
    OBVIOUS
  <2>2. n - j \in T
    BY <2>1
  <2> QED BY <2>2
<1>2. PICK k \in T : \A l \in T : ~(<<l, k>> \in OpToRel(<, Nat))
  BY <1>1, WFMin, NatLessThanWellFounded
<1>3. \A l \in T : ~(l < k)
  BY <1>2, <1>1 DEF OpToRel
<1>4. PICK i \in S : k = n - i
  OBVIOUS
<1>5. \A j \in S : n - j \in T
  OBVIOUS
<1> QED BY <1>3, <1>4, <1>5

LEMMA AbsentOrLast ==
  ASSUME NEW q \in Seq(Message), NEW f
  PROVE  Absent(q, f) \/ \E k \in 1..Len(q) : Last(q, f, k)
<1> DEFINE S == {l \in 1..Len(q) : q[l].var = f}
<1>1. CASE S = {}
  BY <1>1 DEF Absent
<1>2. CASE S # {}
  <2>1. Len(q) \in Nat
    BY LenProperties
  <2>2. PICK k \in S : \A j \in S : j <= k
    BY <1>2, <2>1, LastPlace
  <2>3. Last(q, f, k)
    BY <2>1, <2>2 DEF Last
  <2> QED BY <2>3
<1> QED BY <1>1, <1>2

\* The last message about f counts, or what is known already.
LEMMA LatestMessage ==
  ASSUME NEW q \in Seq(Message), NEW f, NEW k, Last(q, f, k), NEW i
  PROVE  LatestOf(q, i, f) = q[k].val
<1> DEFINE S == {l \in DOMAIN q : q[l].var = f}
<1>1. k \in S /\ \A j \in S : j <= k
  BY LenProperties DEF Last
<1>2. \A m \in S : (\A j \in S : j <= m) => m = k
  BY <1>1, LenProperties
<1>3. (CHOOSE m \in S : \A j \in S : j <= m) = k
  BY <1>1, <1>2
<1>4. S # {}
  BY <1>1
<1> QED BY <1>3, <1>4 DEF LatestOf

LEMMA NoMessage ==
  ASSUME NEW q \in Seq(Message), NEW f, Absent(q, f), NEW i
  PROVE  LatestOf(q, i, f) = i[f]
BY LenProperties DEF LatestOf, Absent

LEMMA LatestAppend ==
  ASSUME NEW q \in Seq(Message), NEW m \in Message, NEW i, NEW f
  PROVE  LatestOf(Append(q, m), i, f) = IF m.var = f THEN m.val ELSE LatestOf(q, i, f)
<1> DEFINE a == Append(q, m)
<1>1. /\ a \in Seq(Message) /\ Len(a) = Len(q) + 1 /\ Len(q) \in Nat
      /\ a[Len(a)] = m /\ \A l \in 1..Len(q) : a[l] = q[l]
  BY AppendProperties, LenProperties
<1> HIDE DEF a
<1>2. CASE m.var = f
  <2>1. Last(a, f, Len(a))
    BY <1>1, <1>2 DEF Last
  <2>2. LatestOf(a, i, f) = m.val
    BY <1>1, <2>1, LatestMessage
  <2> QED BY <1>2, <2>2 DEF a
<1>3. CASE m.var # f /\ Absent(q, f)
  <2>1. Absent(a, f)
    BY <1>1, <1>3 DEF Absent
  <2>2. LatestOf(a, i, f) = i[f] /\ LatestOf(q, i, f) = i[f]
    BY <1>1, <1>3, <2>1, NoMessage
  <2> QED BY <1>3, <2>2 DEF a
<1>4. ASSUME m.var # f, NEW k \in 1..Len(q), Last(q, f, k)
      PROVE  LatestOf(a, i, f) = LatestOf(q, i, f)
  <2>1. Last(a, f, k) /\ a[k] = q[k]
    BY <1>1, <1>4 DEF Last
  <2> QED BY <1>1, <1>4, <2>1, LatestMessage
<1> QED BY <1>2, <1>3, <1>4, AbsentOrLast DEF a

LEMMA LatestTail ==
  ASSUME NEW q \in Seq(Message), q # << >>, NEW S, NEW i \in [Fields -> S], NEW f \in Fields
  PROVE  LatestOf(Tail(q), parse_args(i, Head(q)), f) = LatestOf(q, i, f)
<1> DEFINE t == Tail(q)
           j == parse_args(i, Head(q))
<1>1. /\ t \in Seq(Message) /\ Len(t) = Len(q) - 1 /\ Len(q) \in Nat \ {0}
      /\ Head(q) = q[1] /\ \A l \in 1..Len(t) : t[l] = q[l + 1]
  BY HeadTailProperties, EmptySeq
<1>2. j[f] = IF q[1].var = f THEN q[1].val ELSE i[f]
  BY <1>1 DEF parse_args
<1> HIDE DEF t, j
<1>3. CASE Absent(t, f)
  <2>1. \A l \in 1..Len(q) : l > 1 => q[l].var # f
    <3> SUFFICES ASSUME NEW l \in 1..Len(q), l > 1 PROVE q[l].var # f
      OBVIOUS
    <3>1. l - 1 \in 1..Len(t) /\ t[l - 1] = q[l]
      BY <1>1
    <3> QED BY <1>3, <3>1 DEF Absent
  <2>2. LatestOf(t, j, f) = j[f]
    BY <1>1, <1>3, NoMessage
  <2>3. CASE q[1].var = f
    <3>1. Last(q, f, 1)
      BY <1>1, <2>1, <2>3 DEF Last
    <3> QED BY <1>2, <2>2, <2>3, <3>1, LatestMessage DEF t, j
  <2>4. CASE q[1].var # f
    <3>1. Absent(q, f)
      BY <1>1, <2>1, <2>4 DEF Absent
    <3> QED BY <1>2, <2>2, <2>4, <3>1, NoMessage DEF t, j
  <2> QED BY <2>3, <2>4
<1>4. ASSUME NEW k \in 1..Len(t), Last(t, f, k)
      PROVE  LatestOf(t, j, f) = LatestOf(q, i, f)
  <2>1. k + 1 \in 1..Len(q) /\ q[k + 1] = t[k]
    BY <1>1
  <2>2. \A l \in 1..Len(q) : l > k + 1 => q[l].var # f
    <3> SUFFICES ASSUME NEW l \in 1..Len(q), l > k + 1 PROVE q[l].var # f
      OBVIOUS
    <3>1. l - 1 \in 1..Len(t) /\ t[l - 1] = q[l] /\ l - 1 > k
      BY <1>1
    <3> QED BY <1>4, <3>1 DEF Last
  <2>3. Last(q, f, k + 1)
    BY <1>4, <2>1, <2>2 DEF Last
  <2> QED BY <1>1, <1>4, <2>1, <2>3, LatestMessage
<1> QED BY <1>1, <1>3, <1>4, AbsentOrLast DEF t, j

-----------------------------------------------------------------------------
(* The copy.                                                               *)

Others == NothingElsewhere /\ BeforeDump /\ Consistent

LEMMA DumpedIsNotUndumped == Dumped <=> link = "open" /\ ~Undumped
BY DEF Dumped, Undumped

\* A connection that is closed has nothing to be consistent with.
LEMMA ClosedIsConsistent ==
  ASSUME link' \in {"none", "cut"}, toD' = << >>, toU' = << >>, out' = {}
  PROVE  Others'
BY DEF Others, NothingElsewhere, BeforeDump, Consistent, Dumped

LEMMA UnseenIsConsistent ==
  ASSUME Others, UNCHANGED <<tree, fresh, out, link, toD, toU, info>>,
         drv' = "down" => drv = "down"
  PROVE  Others'
<1>1. \A f : Latest(f)' = Latest(f) /\ Current(f)' = Current(f)
  BY LatestIsLatestOf DEF Current
<1>2. Undumped' = Undumped /\ Dumped' = Dumped
  BY DEF Undumped, Dumped
<1> QED BY <1>1, <1>2 DEF Others, NothingElsewhere, BeforeDump, Consistent

LEMMA ConsistentDisturbance ==
  ASSUME CInv, Disturbance \/ Start \/ Recover
  PROVE  Others'
<1> USE DEF CInv
<1>1. CASE Crash
  <2>1. link' \in {"none", "cut"}
    BY <1>1 DEF Crash, CutLink, Connected
  <2> QED BY <1>1, <2>1, ClosedIsConsistent DEF Crash, CutLink
<1>2. CASE Hang
  BY <1>2, UnseenIsConsistent DEF Hang, upsd, Others
<1>3. CASE Recover
  BY <1>3, UnseenIsConsistent DEF Recover, upsd, Others
<1>4. CASE Start
  <2>1. link' \in {"none", "cut"} /\ toD' = << >> /\ toU' = << >> /\ out' = {}
    BY <1>4 DEF Start, NothingElsewhere
  <2> QED BY <2>1, ClosedIsConsistent
<1>5. ASSUME NEW v \in Vars, NEW x \in AnyValue, dstate_setinfo(v, x)
      PROVE  Others'
  <2>1. /\ UNCHANGED <<drv, fresh, link, toD, toU, info>> /\ out = {} /\ drv = "up"
        /\ tree' = [tree EXCEPT ![v] = x]
        /\ out' = IF link = "open" THEN {v} ELSE {}
    BY <1>5 DEF dstate_setinfo, send_to_all, Free, upsd
  <2>2. \A w \in Vars : w # v => tree'[w] = tree[w]
    BY <2>1, Trees_AnyValue DEF TypeOK
  <2>3. \A f : Latest(f)' = Latest(f)
    BY <2>1, LatestIsLatestOf
  <2>4. Undumped' = Undumped /\ Dumped' = Dumped
    BY <2>1 DEF Undumped, Dumped
  <2>5. NothingElsewhere'
    BY <2>1 DEF NothingElsewhere
  <2>6. BeforeDump'
    <3>1. CASE link = "backlog"
      <4>1. \A w \in Optional : Latest(w) = info[w]
        <5>1. toU \in Seq(Message) /\ \A w : Absent(toU, w)
          BY <3>1, NothingUnderWay DEF NothingElsewhere, Absent
        <5> QED BY <5>1, NoMessage, LatestIsLatestOf
      <4> QED BY <2>1, <2>3, <2>4, <3>1, <4>1 DEF BeforeDump
    <3>2. CASE link # "backlog"
      BY <2>1, <2>2, <2>3, <2>4, <3>2, Constant DEF BeforeDump
    <3> QED BY <3>1, <3>2
  <2>7. Consistent'
    BY <2>1, <2>2, <2>3, <2>4 DEF Consistent, Dumped, Current, Fields
  <2> QED BY <2>5, <2>6, <2>7 DEF Others
<1>6. ASSUME NEW ok \in {"yes", "no"}, dstate_data(ok)
      PROVE  Others'
  <2>1. /\ UNCHANGED <<drv, tree, link, toD, toU, info>> /\ out = {} /\ drv = "up"
        /\ out' = IF link = "open" THEN {"data_ok"} ELSE {}
    BY <1>6 DEF dstate_data, send_to_all, Free, upsd
  <2>2. \A f : Latest(f)' = Latest(f)
    BY <2>1, LatestIsLatestOf
  <2>3. Undumped' = Undumped /\ Dumped' = Dumped
    BY <2>1 DEF Undumped, Dumped
  <2>4. NothingElsewhere' /\ BeforeDump'
    BY <2>1, <2>2, <2>3, Constant DEF NothingElsewhere, BeforeDump
  <2>5. Consistent'
    BY <2>1, <2>2, <2>3 DEF Consistent, Dumped, Current
  <2> QED BY <2>4, <2>5 DEF Others
<1> QED BY <1>1, <1>2, <1>3, <1>4, <1>5, <1>6 DEF Disturbance

LEMMA ConsistentDriver ==
  ASSUME CInv, Driver
  PROVE  Others'
<1> USE DEF CInv
<1>1. CASE sock_connect
  <2>1. /\ UNCHANGED <<drv, tree, fresh, out, toD, toU, info>>
        /\ link = "backlog" /\ link' = "open" /\ drv # "down"
    BY <1>1 DEF sock_connect, driver, upsd, Free
  <2>2. Undumped /\ Undumped' = Undumped /\ Dumped' = ~Undumped
    BY <2>1 DEF BeforeDump, Undumped, Dumped
  <2>3. \A f : Latest(f)' = Latest(f)
    BY <2>1, LatestIsLatestOf
  <2> QED BY <2>1, <2>2, <2>3 DEF Others, NothingElsewhere, BeforeDump, Consistent
<1>2. CASE sock_read
  <2>1. /\ UNCHANGED <<drv, tree, fresh, link, toU, info>>
        /\ out = {} /\ link = "open" /\ drv = "up" /\ toD # << >>
        /\ out' = Answer(Head(toD)) /\ toD' = Tail(toD)
    BY <1>2 DEF sock_read, Free, upsd
  <2>2. \A f : Latest(f)' = Latest(f) /\ Current(f)' = Current(f)
    BY <2>1, LatestIsLatestOf DEF Current
  <2>3. /\ toD \in Seq({"DUMPALL", "PING"}) /\ Len(toD) \in Nat \ {0}
        /\ Head(toD) = toD[1] /\ Len(toD') = Len(toD) - 1
        /\ DOMAIN toD = 1..Len(toD) /\ DOMAIN toD' = 1..Len(toD')
        /\ \A l \in 1..Len(toD') : toD'[l] = toD[l + 1]
    BY <2>1, HeadTailProperties, LenProperties, EmptySeq DEF TypeOK
  <2>4. Undumped' => Undumped
    <3> SUFFICES ASSUME NEW l \in 1..Len(toD'), toD'[l] = "DUMPALL" PROVE Undumped
      BY <2>3 DEF Undumped
    <3>1. l + 1 \in 1..Len(toD) /\ toD[l + 1] = "DUMPALL"
      BY <2>3
    <3> QED BY <2>3, <3>1 DEF Undumped
  <2>5. CASE Head(toD) = "DUMPALL"
    <3>1. Undumped
      BY <2>3, <2>5 DEF Undumped
    <3>2. out' = {v \in Vars : tree[v] # "gone"} \cup {"data_ok", "dumpdone"}
      BY <2>1, <2>5 DEF Answer
    <3>3. \A v \in Optional \ out' : Latest(v) = tree[v]
      BY <2>1, <3>1, <3>2, Constant DEF BeforeDump
    <3>4. \A f \in Fields \ out' : f \in Optional \ out'
      BY <3>2, Constant, Trees_AnyValue DEF TypeOK, Fields, Vars, May
    <3>5. \A f \in Fields \ out' : Latest(f) = Current(f)
      BY <3>3, <3>4 DEF Current
    <3> QED BY <2>1, <2>2, <3>3, <3>5 DEF Others, NothingElsewhere, BeforeDump, Consistent
  <2>6. CASE Head(toD) # "DUMPALL"
    <3>1. Undumped => Undumped'
      <4> SUFFICES ASSUME NEW l \in 1..Len(toD), toD[l] = "DUMPALL" PROVE Undumped'
        BY <2>3 DEF Undumped
      <4>1. l - 1 \in 1..Len(toD') /\ toD'[l - 1] = "DUMPALL"
        BY <2>3, <2>6
      <4> QED BY <2>3, <4>1 DEF Undumped
    <3>2. Dumped' = Dumped
      BY <2>1, <2>4, <3>1 DEF Dumped, Undumped
    <3> QED BY <2>1, <2>2, <2>4, <3>2 DEF Others, NothingElsewhere, BeforeDump, Consistent
  <2> QED BY <2>5, <2>6
<1>3. ASSUME NEW f \in Fields \cup {"PONG"}, Write(f)
      PROVE  Others'
  <2>1. /\ UNCHANGED <<drv, tree, fresh, link, toD, info>>
        /\ f \in out /\ link = "open" /\ drv = "up" /\ out' = out \ {f}
        /\ toU' = Append(toU, [var |-> f, val |-> Current(f)])
    BY <1>3 DEF Write, upsd
  <2>2. \A g : Latest(g)' = IF g = f THEN Current(f) ELSE Latest(g)
    <3>1. [var |-> f, val |-> Current(f)] \in Message /\ toU \in Seq(Message)
      BY CurrentType DEF Message, TypeOK
    <3> QED BY <2>1, <3>1, LatestAppend, LatestIsLatestOf
  <2>3. \A g : Current(g)' = Current(g)
    BY <2>1 DEF Current
  <2>4. Undumped' = Undumped /\ Dumped' = Dumped
    BY <2>1 DEF Undumped, Dumped
  <2>5. \A v \in Optional : Current(v) = tree[v]
    BY Constant DEF Current
  <2> QED BY <2>1, <2>2, <2>3, <2>4, <2>5 DEF Others, NothingElsewhere, BeforeDump, Consistent
<1>4. CASE WriteFails
  <2>1. link' \in {"none", "cut"}
    BY <1>4 DEF WriteFails, CutLink, Connected
  <2> QED BY <1>4, <2>1, ClosedIsConsistent DEF WriteFails, CutLink
<1> QED BY <1>1, <1>2, <1>3, <1>4 DEF Driver

LEMMA ConsistentServer ==
  ASSUME CInv, Server
  PROVE  Others'
<1> USE DEF CInv
<1>1. CASE sstate_connect
  <2>1. /\ UNCHANGED <<drv, tree, fresh, out, toU>> /\ drv # "down"
        /\ link = "none" /\ link' = "backlog" /\ toD' = <<"DUMPALL">> /\ info' = Blank(info)
    BY <1>1 DEF sstate_connect, Connected, driver
  <2>2. Undumped' /\ ~Dumped' /\ toU' = << >> /\ out' = {}
    BY <2>1 DEF Undumped, Dumped, NothingElsewhere
  <2>3. \A v \in Optional : info'[v] = "gone"
    BY <2>1, Constant DEF Blank
  <2>4. \A v \in Optional : Latest(v)' = info'[v]
    <3>1. toU' \in Seq(Message) /\ \A v : Absent(toU', v)
      BY <2>2, NothingUnderWay DEF Absent
    <3> QED BY <3>1, NoMessage, LatestIsLatestOf
  <2> QED BY <2>1, <2>2, <2>3, <2>4 DEF Others, NothingElsewhere, BeforeDump, Consistent
<1>2. CASE ConnectFails
  BY <1>2, UnseenIsConsistent DEF ConnectFails, driver, Others
<1>3. CASE Scan
  BY <1>3, UnseenIsConsistent DEF Scan, driver, Others
<1>4. CASE sendping
  <2>1. /\ UNCHANGED <<drv, tree, fresh, out, link, toU, info>> /\ link \notin {"none", "cut"}
        /\ toD' = Append(toD, "PING")
    BY <1>4 DEF sendping, PingFits, Connected, driver
  <2>2. \A f : Latest(f)' = Latest(f) /\ Current(f)' = Current(f)
    BY <2>1, LatestIsLatestOf DEF Current
  <2>3. /\ toD' \in Seq({"DUMPALL", "PING"}) /\ Len(toD') = Len(toD) + 1 /\ Len(toD) \in Nat
        /\ DOMAIN toD = 1..Len(toD) /\ DOMAIN toD' = 1..Len(toD')
        /\ toD'[Len(toD')] = "PING" /\ \A l \in 1..Len(toD) : toD'[l] = toD[l]
    BY <2>1, AppendProperties, LenProperties DEF TypeOK
  <2>4. Undumped' = Undumped
    BY <2>3 DEF Undumped
  <2>5. Dumped' = Dumped
    BY <2>1, <2>4, DumpedIsNotUndumped DEF Dumped, Undumped
  <2> QED BY <2>1, <2>2, <2>4, <2>5 DEF Others, NothingElsewhere, BeforeDump, Consistent
<1>5. CASE PingFails
  BY <1>5, ClosedIsConsistent DEF PingFails, sstate_disconnect
<1>6. CASE sstate_readline
  <2>1. /\ UNCHANGED <<drv, tree, fresh, out, link, toD>> /\ link = "open" /\ toU # << >>
        /\ toU' = Tail(toU) /\ info' = parse_args(info, Head(toU))
    BY <1>6 DEF sstate_readline, Readable, driver
  <2>2. \A f \in Fields : Latest(f)' = Latest(f)
    BY <2>1, LatestTail, LatestIsLatestOf DEF TypeOK
  <2>3. \A f : Current(f)' = Current(f)
    BY <2>1 DEF Current
  <2>4. Undumped' = Undumped /\ Dumped' = Dumped
    BY <2>1 DEF Undumped, Dumped
  <2> QED BY <2>1, <2>2, <2>3, <2>4, Constant
          DEF Others, NothingElsewhere, BeforeDump, Consistent
<1>7. CASE Hangup
  BY <1>7, ClosedIsConsistent DEF Hangup, sstate_disconnect
<1>8. CASE Wake
  BY <1>8, UnseenIsConsistent DEF Wake, driver, Others
<1> QED BY <1>1, <1>2, <1>3, <1>4, <1>5, <1>6, <1>7, <1>8 DEF Server

LEMMA CInvInductive == CInv /\ [Next]_vars => CInv'
<1> SUFFICES ASSUME CInv, [Next]_vars PROVE CInv'
  OBVIOUS
<1>1. TypeOK'
  <2>1. CASE UNCHANGED vars
    BY <2>1 DEF CInv, vars, driver, upsd, clocks, TypeOK
  <2> QED BY <2>1, TypeDisturbance, TypeDriver, TypeServer, TypeTick DEF Next, CInv
<1>2. Others'
  <2>1. CASE UNCHANGED vars
    BY <2>1, UnseenIsConsistent DEF CInv, Others, vars, driver, upsd
  <2>2. CASE Tick
    BY <2>2, UnseenIsConsistent DEF CInv, Others, Tick, driver, upsd
  <2> QED BY <2>1, <2>2, ConsistentDisturbance, ConsistentDriver, ConsistentServer DEF Next
<1> QED BY <1>1, <1>2 DEF CInv, Others

LEMMA CInvAlways == Spec => []CInv
<1>1. Init => CInv
  <2> SUFFICES ASSUME Init PROVE CInv
    OBVIOUS
  <2> QED BY TypeInit DEF Init, CInv, NothingElsewhere, BeforeDump, Consistent, Dumped
<1> QED BY <1>1, CInvInductive, PTL DEF Spec

\* Consistent, for dstate.c:send_to_all() and st_tree_dump_conn() and sstate.c:
\* parse_args(): once the dump is on its way, what upsd has and what is under way to
\* it make up what the driver has, but for what it is writing.
THEOREM CopyConsistent == Spec => []Consistent
<1>1. CInv => Consistent
  BY DEF CInv
<1> QED BY <1>1, CInvAlways, PTL

-----------------------------------------------------------------------------
(* A driver that is up and has data.                                       *)

LInv == CInv /\ GoodData /\ Silence

LEMMA GoodDataUnseen ==
  ASSUME GoodData, UNCHANGED <<out, toU, info>>,
         steady' => steady /\ Open' /\ drv' = drv /\ fresh' = fresh
  PROVE  GoodData'
BY DEF GoodData, Confirmed

LEMMA GoodDataWrite ==
  ASSUME TypeOK, GoodData, NEW f \in Fields \cup {"PONG"}, Write(f)
  PROVE  GoodData'
<1> SUFFICES ASSUME steady' PROVE GoodData'
  BY DEF GoodData
<1>1. /\ UNCHANGED <<drv, fresh, link, info, steady>>
      /\ f \in out /\ MayWrite(f) /\ out' = out \ {f}
      /\ toU' = Append(toU, [var |-> f, val |-> Current(f)])
  BY DEF Write, upsd
<1>2. /\ steady /\ Open /\ drv = "up" /\ fresh = "yes"
      /\ \A i \in DOMAIN toU : toU[i].var = "data_ok" => toU[i].val = "yes"
      /\ info["dumpdone"] = "yes" => info["data_ok"] = "yes"
      /\ \A i \in DOMAIN toU : toU[i].var = "dumpdone" => Confirmed(i)
      /\ "dumpdone" \in out => "data_ok" \in out \/ Confirmed(Len(toU))
  BY <1>1 DEF GoodData
<1>3. /\ Len(toU') = Len(toU) + 1 /\ Len(toU) \in Nat
      /\ DOMAIN toU = 1..Len(toU) /\ DOMAIN toU' = 1..Len(toU')
      /\ toU'[Len(toU')] = [var |-> f, val |-> Current(f)]
      /\ \A l \in 1..Len(toU) : toU'[l] = toU[l]
  <2>1. toU \in Seq(Message) /\ [var |-> f, val |-> Current(f)] \in Message
    BY CurrentType DEF TypeOK, Message
  <2> QED BY <1>1, <2>1, AppendProperties, LenProperties
<1>4. \A n \in 1..Len(toU) : Confirmed(n) => Confirmed(n)'
  BY <1>1, <1>3 DEF Confirmed
<1>5. Confirmed(Len(toU)) => Confirmed(Len(toU))'
  BY <1>1, <1>3 DEF Confirmed
<1>6. f = "data_ok" => Confirmed(Len(toU))' /\ toU'[Len(toU')].val = "yes"
  BY <1>2, <1>3 DEF Confirmed, Current
<1>7. f = "dumpdone" => Confirmed(Len(toU))'
  BY <1>1, <1>2, <1>5 DEF MayWrite
<1>8. Open' /\ drv' = "up" /\ fresh' = "yes"
  BY <1>1, <1>2 DEF Open
<1>9. \A i \in DOMAIN toU' : toU'[i].var = "data_ok" => toU'[i].val = "yes"
  BY <1>2, <1>3, <1>6
<1>10. info'["dumpdone"] = "yes" => info'["data_ok"] = "yes"
  BY <1>1, <1>2
<1>11. ASSUME NEW i \in DOMAIN toU', toU'[i].var = "dumpdone" PROVE Confirmed(i)'
  <2>1. CASE i = Len(toU')
    BY <1>3, <1>7, <1>11, <2>1
  <2>2. CASE i # Len(toU')
    BY <1>2, <1>3, <1>4, <1>11, <2>2
  <2> QED BY <2>1, <2>2
<1>12. "dumpdone" \in out' => "data_ok" \in out' \/ Confirmed(Len(toU))'
  BY <1>1, <1>2, <1>5, <1>6
<1> QED BY <1>8, <1>9, <1>10, <1>11, <1>12 DEF GoodData

LEMMA GoodDataRead ==
  ASSUME TypeOK, GoodData, sstate_readline
  PROVE  GoodData'
<1> SUFFICES ASSUME steady' PROVE GoodData'
  BY DEF GoodData
<1>1. /\ UNCHANGED <<drv, fresh, out, link, steady>> /\ toU # << >>
      /\ toU' = Tail(toU) /\ info' = parse_args(info, Head(toU))
  BY DEF sstate_readline, Readable, driver
<1>2. /\ steady /\ Open /\ drv = "up" /\ fresh = "yes"
      /\ \A i \in DOMAIN toU : toU[i].var = "data_ok" => toU[i].val = "yes"
      /\ info["dumpdone"] = "yes" => info["data_ok"] = "yes"
      /\ \A i \in DOMAIN toU : toU[i].var = "dumpdone" => Confirmed(i)
      /\ "dumpdone" \in out => "data_ok" \in out \/ Confirmed(Len(toU))
  BY <1>1 DEF GoodData
<1>3. /\ Len(toU') = Len(toU) - 1 /\ Len(toU) \in Nat \ {0} /\ Head(toU) = toU[1]
      /\ DOMAIN toU = 1..Len(toU) /\ DOMAIN toU' = 1..Len(toU')
      /\ \A l \in 1..Len(toU') : toU'[l] = toU[l + 1]
  <2>1. toU \in Seq(Message)
    BY DEF TypeOK
  <2> QED BY <1>1, <2>1, HeadTailProperties, LenProperties, EmptySeq
<1>4. /\ info'["data_ok"]  = IF toU[1].var = "data_ok" THEN toU[1].val ELSE info["data_ok"]
      /\ info'["dumpdone"] = IF toU[1].var = "dumpdone" THEN toU[1].val ELSE info["dumpdone"]
  BY <1>1, <1>3, Constant DEF parse_args, TypeOK
<1>5. toU[1].var = "data_ok" \/ info["data_ok"] = "yes" => info'["data_ok"] = "yes"
  BY <1>2, <1>3, <1>4
<1>6. toU[1].var = "dumpdone" => info["data_ok"] = "yes"
  <2>1. toU[1].var = "dumpdone" => Confirmed(1)
    BY <1>2, <1>3
  <2> QED BY <2>1 DEF Confirmed
<1>7. \A n \in 1..Len(toU) : Confirmed(n) => Confirmed(n - 1)'
  <2> SUFFICES ASSUME NEW n \in 1..Len(toU), Confirmed(n) PROVE Confirmed(n - 1)'
    OBVIOUS
  <2>1. CASE info["data_ok"] = "yes"
    BY <1>5, <2>1 DEF Confirmed
  <2>2. ASSUME NEW j \in 1..n, toU[j].var = "data_ok" PROVE Confirmed(n - 1)'
    <3>1. CASE j = 1
      BY <1>5, <2>2, <3>1 DEF Confirmed
    <3>2. CASE j # 1
      <4>1. j - 1 \in 1..n - 1 /\ j - 1 \in 1..Len(toU') /\ toU'[j - 1] = toU[j]
        BY <1>3, <3>2
      <4> QED BY <2>2, <4>1 DEF Confirmed
    <3> QED BY <3>1, <3>2
  <2> QED BY <2>1, <2>2 DEF Confirmed
<1>8. Open' /\ drv' = "up" /\ fresh' = "yes"
  BY <1>1, <1>2 DEF Open
<1>9. \A i \in DOMAIN toU' : toU'[i].var = "data_ok" => toU'[i].val = "yes"
  BY <1>2, <1>3
<1>10. info'["dumpdone"] = "yes" => info'["data_ok"] = "yes"
  BY <1>2, <1>4, <1>5, <1>6
<1>11. ASSUME NEW i \in DOMAIN toU', toU'[i].var = "dumpdone" PROVE Confirmed(i)'
  <2>1. i + 1 \in 1..Len(toU) /\ Confirmed(i + 1) /\ (i + 1) - 1 = i
    BY <1>2, <1>3, <1>11
  <2> QED BY <1>7, <2>1
<1>12. "dumpdone" \in out' => "data_ok" \in out' \/ Confirmed(Len(toU))'
  <2>1. Len(toU) \in 1..Len(toU)
    BY <1>3
  <2> QED BY <1>1, <1>2, <1>3, <1>7, <2>1
<1> QED BY <1>8, <1>9, <1>10, <1>11, <1>12 DEF GoodData

LEMMA GoodDataStep ==
  ASSUME CInv, GoodData, [Next]_vars
  PROVE  GoodData'
<1> USE DEF CInv
<1>1. CASE UNCHANGED vars
  BY <1>1, GoodDataUnseen DEF GoodData, vars, driver, upsd, Open
<1>2. CASE Disturbance \/ Start \/ Recover
  <2>1. CASE Crash \/ Hang
    BY <2>1 DEF Crash, CutLink, Hang, GoodData
  <2>2. ASSUME NEW v \in Vars, NEW x \in AnyValue, dstate_setinfo(v, x)
        PROVE  GoodData'
    <3>1. /\ UNCHANGED <<drv, fresh, link, toU, info, steady>> /\ "dumpdone" \notin out'
      BY <2>2, Constant DEF dstate_setinfo, send_to_all, upsd
    <3> QED BY <3>1 DEF GoodData, Confirmed, Open
  <2>3. ASSUME NEW ok \in {"yes", "no"}, dstate_data(ok)
        PROVE  GoodData'
    BY <2>3 DEF dstate_data, GoodData
  <2>4. CASE Start
    BY <2>4 DEF Start, GoodData
  <2>5. CASE Recover
    BY <2>5 DEF Recover, GoodData
  <2> QED BY <1>2, <2>1, <2>2, <2>3, <2>4, <2>5 DEF Disturbance
<1>3. CASE Driver
  <2>1. CASE sock_connect
    BY <2>1, GoodDataUnseen DEF sock_connect, driver, upsd, Open
  <2>2. CASE sock_read
    <3>1. /\ UNCHANGED <<drv, fresh, link, toU, info, steady>>
          /\ "dumpdone" \in out' => "data_ok" \in out'
      BY <2>2, Constant DEF sock_read, Answer, upsd
    <3> QED BY <3>1 DEF GoodData, Confirmed, Open
  <2>3. ASSUME NEW f \in Fields \cup {"PONG"}, Write(f)
        PROVE  GoodData'
    BY <2>3, GoodDataWrite
  <2>4. CASE WriteFails
    BY <2>4 DEF WriteFails, CutLink, GoodData
  <2> QED BY <1>3, <2>1, <2>2, <2>3, <2>4 DEF Driver
<1>4. CASE Server
  <2>1. CASE sstate_connect
    <3>1. toU' = << >> /\ out' = {} /\ info'["dumpdone"] = "no" /\ Open'
      BY <2>1, Constant DEF sstate_connect, NothingElsewhere, Open, Connected, Blank, driver
    <3>2. steady' => drv' = "up" /\ fresh' = "yes"
      BY <2>1 DEF sstate_connect, driver
    <3> QED BY <3>1, <3>2 DEF GoodData
  <2>2. CASE ConnectFails
    BY <2>2, GoodDataUnseen DEF ConnectFails, driver, GoodData, Open
  <2>3. CASE Scan
    BY <2>3, GoodDataUnseen DEF Scan, driver, GoodData, Open
  <2>4. CASE sendping
    BY <2>4, GoodDataUnseen DEF sendping, driver, GoodData, Open
  <2>5. CASE PingFails \/ Hangup
    BY <2>5 DEF PingFails, Hangup, sstate_disconnect, GoodData
  <2>6. CASE sstate_readline
    BY <2>6, GoodDataRead
  <2>7. CASE Wake
    BY <2>7, GoodDataUnseen DEF Wake, driver, clocks, GoodData, Open
  <2> QED BY <1>4, <2>1, <2>2, <2>3, <2>4, <2>5, <2>6, <2>7 DEF Server
<1>5. CASE Tick
  BY <1>5, GoodDataUnseen DEF Tick, driver, upsd, GoodData, Open
<1> QED BY <1>1, <1>2, <1>3, <1>4, <1>5 DEF Next

-----------------------------------------------------------------------------
(* Its silence.                                                            *)

LEMMA PatienceSuffices ==
  /\ Patience \in Nat /\ PINGTIME \in Nat
  /\ Patience >= Busy /\ Patience >= PINGTIME + PollTime
BY Constant DEF Patience, PINGTIME

\* A connection that is closed, and a driver that was not up all the time.
LEMMA SilenceUnsteady ==
  ASSUME Silence, steady' = FALSE, ~Owes' => owed' = 0,
         at' = "read" => link' = "cut" \/ Readable',
         at' = "blind" /\ Connected' => heard' <= waited'
  PROVE  Silence'
BY DEF Silence

\* What does not touch the clocks, and leaves the connection idle or not.
LEMMA SilenceUnseen ==
  ASSUME Silence, UNCHANGED <<link, toD, at, heard, pinged, waited, owed>>,
         steady' => steady, Idle' => Idle, Readable => Readable'
  PROVE  Silence'
BY DEF Silence, Owes, Connected

LEMMA SilenceDisturbance ==
  ASSUME LInv, Disturbance \/ Start \/ Recover
  PROVE  Silence'
<1> USE DEF LInv, CInv
<1>1. CASE Crash
  <2>1. at' = at /\ waited' = waited /\ heard' = heard /\ (Connected' => Connected)
        /\ (at = "read" => link' = "cut") /\ steady' = FALSE /\ owed' = 0
    BY <1>1 DEF Crash, CutLink, Connected, upsd, Silence, Readable
  <2> QED BY <2>1, SilenceUnsteady DEF Silence
<1>2. CASE Hang
  BY <1>2, SilenceUnseen DEF Hang, upsd, clocks, Idle, Readable
<1>3. ASSUME NEW v \in Vars, NEW x \in AnyValue, dstate_setinfo(v, x)
      PROVE  Silence'
  BY <1>3, SilenceUnseen DEF dstate_setinfo, send_to_all, Free, upsd, clocks, Idle, Readable
<1>4. ASSUME NEW ok \in {"yes", "no"}, dstate_data(ok)
      PROVE  Silence'
  BY <1>4, SilenceUnseen DEF dstate_data, send_to_all, Free, upsd, clocks, Idle, Readable
<1>5. CASE Start
  BY <1>5, SilenceUnseen DEF Start, upsd, clocks, Idle, Readable
<1>6. CASE Recover
  BY <1>6, SilenceUnseen DEF Recover, upsd, clocks, Idle, Readable
<1> QED BY <1>1, <1>2, <1>3, <1>4, <1>5, <1>6 DEF Disturbance

LEMMA SilenceDriver ==
  ASSUME LInv, Driver
  PROVE  Silence'
<1> USE DEF LInv, CInv
<1>1. CASE sock_connect
  <2>1. /\ UNCHANGED <<out, toD, toU, at, heard, pinged, waited, steady>>
        /\ link = "backlog" /\ link' = "open" /\ owed' = 0
    BY <1>1 DEF sock_connect, driver, upsd
  <2>2. at # "read" /\ Connected /\ Connected'
    BY <2>1 DEF Silence, Readable, Connected
  <2>3. toD' # << >>
    BY <2>1 DEF BeforeDump, Undumped
  <2>4. steady => heard <= Busy
    BY <2>1 DEF Silence, TypeOK
  <2>5. heard \in Int /\ Busy \in Int
    BY DEF TypeOK
  <2> QED BY <2>1, <2>2, <2>3, <2>4, <2>5, PatienceSuffices DEF Silence, Owes
<1>2. CASE sock_read
  <2>1. /\ UNCHANGED <<link, toU, at, heard, pinged, waited, steady>>
        /\ link = "open" /\ owed' = 0 /\ out' # {}
    <3>1. Answer(Head(toD)) # {}
      BY DEF Answer
    <3> QED BY <1>2, <3>1 DEF sock_read, upsd
  <2>2. ~Idle' /\ Readable' = Readable /\ Connected' = Connected
    BY <2>1 DEF Idle, Readable, Connected
  <2> QED BY <2>1, <2>2 DEF Silence
<1>3. ASSUME NEW f \in Fields \cup {"PONG"}, Write(f)
      PROVE  Silence'
  <2>1. /\ UNCHANGED <<link, toD, at, heard, pinged, waited, owed, steady>>
        /\ link = "open" /\ toU' # << >>
    <3>1. toU \in Seq(Message) /\ [var |-> f, val |-> Current(f)] \in Message
      BY CurrentType DEF TypeOK, Message
    <3>2. Append(toU, [var |-> f, val |-> Current(f)]) # << >>
      BY <3>1, AppendProperties
    <3> QED BY <1>3, <3>2 DEF Write, upsd, clocks
  <2> QED BY <2>1, SilenceUnseen DEF Idle, Readable
<1>4. CASE WriteFails
  <2>1. at' = at /\ waited' = waited /\ heard' = heard /\ (Connected' => Connected)
        /\ link' = "cut" /\ steady' = FALSE /\ owed' = 0
    BY <1>4 DEF WriteFails, CutLink, Connected, upsd
  <2> QED BY <2>1, SilenceUnsteady DEF Silence
<1> QED BY <1>1, <1>2, <1>3, <1>4 DEF Driver

LEMMA SilenceServer ==
  ASSUME LInv, Server
  PROVE  Silence'
<1> USE DEF LInv, CInv
<1>0. /\ heard \in Int /\ pinged \in Int /\ waited \in Int /\ owed \in Int
      /\ Busy \in Nat /\ PollTime \in Nat /\ waited <= PollTime /\ owed >= 0
      /\ Patience \in Nat /\ PINGTIME \in Nat
      /\ Patience >= Busy /\ Patience >= PINGTIME + PollTime
  BY PatienceSuffices, Constant DEF TypeOK
<1>1. CASE sstate_connect
  BY <1>1, <1>0 DEF sstate_connect, Silence, driver, Owes, Idle
<1>2. CASE ConnectFails
  <2>1. UNCHANGED <<link, toD, toU, out, heard, pinged, owed, steady>> /\ link = "none"
        /\ at' = "blind"
    BY <1>2 DEF ConnectFails, Connected, driver
  <2> QED BY <2>1 DEF Silence, Owes, Connected, Idle
<1>3. CASE Scan
  <2>1. /\ UNCHANGED <<out, link, toD, toU, heard, pinged, owed, steady>>
        /\ at = "scan" /\ at' = "poll" /\ waited' = 0
        /\ ~(heard > PINGTIME /\ pinged > PINGTIME)
    BY <1>3 DEF Scan, Scanned, PingDue, driver, PINGTIME
  <2>2. Owes' = Owes /\ Idle' = Idle
    BY <2>1 DEF Owes, Idle
  <2> QED BY <1>0, <2>1, <2>2 DEF Silence
<1>4. CASE sendping
  <2>1. /\ UNCHANGED <<out, link, toU, heard, owed, steady>>
        /\ at = "scan" /\ at' = "poll" /\ waited' = 0 /\ toD' = Append(toD, "PING")
        /\ link \in {"backlog", "open"}
    BY <1>4 DEF sendping, Scanned, PingFits, Connected, TypeOK, driver
  <2>2. toD' # << >>
    BY <2>1, AppendProperties DEF TypeOK
  <2>3. Owes' /\ Idle' = Idle
    BY <2>1, <2>2 DEF Owes, Idle
  <2>4. toD = << >> /\ Idle => owed = 0
    BY <2>1 DEF Silence, Owes, Idle
  <2> QED BY <1>0, <2>1, <2>2, <2>3, <2>4 DEF Silence
<1>5. CASE PingFails \/ Hangup
  BY <1>5, SilenceUnsteady DEF PingFails, Hangup, Scanned, sstate_disconnect
<1>6. CASE sstate_readline
  <2>1. /\ UNCHANGED <<out, link, toD, pinged, waited, owed, steady>>
        /\ link = "open" /\ toU # << >> /\ toU' = Tail(toU) /\ heard' = 0
        /\ at' \in {"scan"} \cup IF Len(toU) > 1 THEN {"read"} ELSE {}
    BY <1>6 DEF sstate_readline, Readable, driver, clocks
  <2>2. at' \in {"scan", "read"} /\ (at' = "read" => toU' # << >>)
    <3>1. Len(toU) > 1 => Tail(toU) # << >>
      BY <2>1, TailLeft DEF TypeOK
    <3> QED BY <2>1, <3>1
  <2>3. Owes' = Owes /\ (at' = "read" => Readable') /\ pinged >= 0
    BY <2>1, <2>2 DEF Owes, Readable, TypeOK
  <2> QED BY <1>0, <2>1, <2>2, <2>3 DEF Silence
<1>7. CASE Wake
  <2>1. /\ UNCHANGED <<out, link, toD, toU, heard, pinged, waited, owed, steady>>
        /\ at \in {"blind", "poll"} /\ at' = "scan"
    BY <1>7 DEF Wake, driver, clocks
  <2>2. Owes' = Owes /\ Idle' = Idle /\ (Idle => Connected)
    BY <2>1 DEF Owes, Idle, Connected
  <2> QED BY <1>0, <2>1, <2>2 DEF Silence
<1> QED BY <1>1, <1>2, <1>3, <1>4, <1>5, <1>6, <1>7 DEF Server

LEMMA SilenceTick ==
  ASSUME LInv, Tick
  PROVE  Silence'
<1> USE DEF LInv, CInv
<1>0. /\ heard \in Int /\ pinged \in Int /\ waited \in Int /\ owed \in Int
      /\ Busy \in Nat /\ PollTime \in Nat
      /\ Patience \in Nat /\ PINGTIME \in Nat
      /\ Patience >= Busy /\ Patience >= PINGTIME + PollTime
  BY PatienceSuffices, Constant DEF TypeOK
<1>1. /\ UNCHANGED <<drv, out, link, toD, toU, at, steady>>
      /\ waited < PollTime /\ waited' = waited + 1
      /\ at = "blind" \/ (at = "poll" /\ link # "cut" /\ ~Readable)
      /\ owed' = IF Free /\ Owes THEN owed + 1 ELSE owed
      /\ pinged' = Least(pinged + 1, PINGTIME + 1)
      /\ heard' = IF Connected THEN Least(heard + 1, MAXAGE + 1) ELSE heard
  BY DEF Tick, MayWait, driver, upsd, PINGTIME
<1>2. heard' <= heard + 1 /\ heard' \in Int
  BY <1>1, LeastType DEF TypeOK
<1>3. (pinged' = pinged + 1 \/ pinged' = PINGTIME + 1) /\ pinged' \in Int
  <2>1. pinged \in 0..PINGTIME + 1
    BY DEF TypeOK, PINGTIME
  <2> QED BY <1>0, <1>1, <2>1, LeastType
<1>4. drv = "up" => \/ out = {} /\ (Owes => owed < Busy)
                    \/ out # {} /\ Blocked
  BY DEF Tick, MayWait
<1>5. Owes' = Owes /\ Idle' = Idle /\ Readable' = Readable /\ Connected' = Connected
  BY <1>1 DEF Owes, Idle, Readable, Connected
<1>6. ~Owes' => owed' = 0
  BY <1>1, <1>5 DEF Silence
<1>7. at' = "blind" /\ Connected' => heard' <= waited'
  BY <1>0, <1>1, <1>2, <1>5 DEF Silence
<1>8. ASSUME steady', link' = "backlog" PROVE heard' <= owed'
  <2>1. Free /\ Owes /\ steady
    BY <1>1, <1>8 DEF Free, Owes, GoodData, NothingElsewhere
  <2> QED BY <1>0, <1>1, <1>2, <1>8, <2>1 DEF Silence
<1>9. ASSUME steady', Idle', toD' # << >> PROVE heard' <= Patience + owed' /\ owed' <= Busy
  <2>1. Free /\ Owes /\ steady /\ Idle
    BY <1>1, <1>5, <1>9 DEF Free, Owes, GoodData, Idle
  <2>2. owed < Busy
    BY <1>4, <2>1 DEF Free
  <2> QED BY <1>0, <1>1, <1>2, <1>9, <2>1, <2>2 DEF Silence
<1>10. ASSUME steady', Idle', toD' = << >>
       PROVE  /\ at' = "poll" => heard' <= PINGTIME + waited'
              /\ pinged' > PINGTIME \/ heard' <= pinged'
              /\ heard' <= PINGTIME + PollTime
  <2>1. steady /\ Idle /\ Connected /\ toD = << >>
    BY <1>1, <1>5, <1>10 DEF Idle, Connected
  <2>2. (at = "poll" => heard <= PINGTIME + waited) /\ (pinged > PINGTIME \/ heard <= pinged)
        /\ (at = "blind" => heard <= waited)
    BY <2>1 DEF Silence
  <2> QED BY <1>0, <1>1, <1>2, <1>3, <2>2
<1>11. ASSUME steady', link' = "open" PROVE heard' <= Patience + Busy
  <2>1. CASE Idle'
    BY <1>0, <1>2, <1>9, <1>10, <1>11, <2>1, <1>1
  <2>2. CASE ~Idle'
    <3>1. Readable
      BY <1>1, <1>4, <1>11, <2>2, Constant DEF Idle, Readable, GoodData, Blocked, NothingUnderWay
    <3>2. at' = "blind" /\ Connected'
      BY <1>1, <1>11, <3>1 DEF Connected
    <3> QED BY <1>0, <1>1, <1>2, <1>7, <3>2
  <2> QED BY <2>1, <2>2
<1> QED BY <1>0, <1>1, <1>5, <1>6, <1>7, <1>8, <1>9, <1>10, <1>11 DEF Silence

\* The driver looks at its socket, and upsd at its drivers, so often that PING is sent
\* and answered before MAXAGE is over: with the MAXAGE of 15 seconds and the poll() of
\* 2 that upsd has by default, a driver may be busy for 7.
MaxageSuffices == Patience + Busy <= MAXAGE

LEMMA NeverDead ==
  ASSUME MaxageSuffices, LInv, steady, Connected
  PROVE  ~Dead
<1> USE DEF LInv, CInv
<1>1. link \in {"backlog", "open"}
  BY DEF GoodData, Open
<1>2. heard <= Patience + Busy /\ heard \in Int
  BY <1>1, PatienceSuffices DEF Silence, TypeOK
<1>3. ~(heard > MAXAGE)
  BY <1>2, PatienceSuffices DEF MaxageSuffices
<1> QED BY <1>3 DEF Dead, GoodData

LEMMA LiveStep ==
  ASSUME MaxageSuffices, LInv, LiveNotStale, [Next]_vars
  PROVE  LiveNotStale'
<1>0. steady => Connected
  BY DEF LInv, GoodData, Open, Connected
<1>1. CASE Scan \/ sendping
  BY <1>1, NeverDead DEF Scan, sendping, Scanned, LiveNotStale, Connected
<1>2. CASE PingFails \/ Hangup
  BY <1>2 DEF PingFails, Hangup, sstate_disconnect, LiveNotStale, Connected
<1>3. CASE sstate_connect
  BY <1>3 DEF sstate_connect, LiveNotStale
<1>4. CASE ConnectFails \/ sstate_readline \/ Wake
  BY <1>4 DEF ConnectFails, sstate_readline, Wake, clocks, LiveNotStale, Connected
<1>5. CASE Tick
  BY <1>5 DEF Tick, upsd, LiveNotStale, Connected
<1>6. CASE Driver
  <2>1. CASE sock_connect \/ sock_read \/ WriteFails
    BY <1>0, <2>1 DEF sock_connect, sock_read, WriteFails, CutLink, upsd, LiveNotStale
  <2>2. ASSUME NEW f \in Fields \cup {"PONG"}, Write(f)
        PROVE  LiveNotStale'
    BY <1>0, <2>2 DEF Write, upsd, LiveNotStale
  <2> QED BY <1>6, <2>1, <2>2 DEF Driver
<1>7. CASE Disturbance \/ Start \/ Recover
  <2>1. CASE Crash \/ Hang \/ Start \/ Recover
    BY <1>0, <2>1 DEF Crash, CutLink, Hang, Start, Recover, upsd, LiveNotStale
  <2>2. ASSUME NEW v \in Vars, NEW x \in AnyValue, dstate_setinfo(v, x)
        PROVE  LiveNotStale'
    BY <1>0, <2>2 DEF dstate_setinfo, upsd, LiveNotStale
  <2>3. ASSUME NEW ok \in {"yes", "no"}, dstate_data(ok)
        PROVE  LiveNotStale'
    BY <1>0, <2>3 DEF dstate_data, upsd, LiveNotStale
  <2> QED BY <1>7, <2>1, <2>2, <2>3 DEF Disturbance
<1>8. CASE UNCHANGED vars
  BY <1>8 DEF vars, upsd, LiveNotStale, Connected
<1> QED BY <1>1, <1>2, <1>3, <1>4, <1>5, <1>6, <1>7, <1>8 DEF Next, Server

\* LiveNotStale, for sstate_dead() and mainloop(), sstate.c:460 and upsd.c:1467: when
\* MAXAGE leaves time for a PING and its answer, a driver that is up and has data is
\* never taken for stale.
THEOREM DriverNotStale ==
  ASSUME MaxageSuffices
  PROVE  Spec => []LiveNotStale
<1> DEFINE I == LInv /\ LiveNotStale
<1>1. Init => I
  <2> SUFFICES ASSUME Init PROVE I
    OBVIOUS
  <2>1. CInv
    BY TypeInit DEF Init, CInv, NothingElsewhere, BeforeDump, Consistent, Dumped
  <2> QED BY <2>1 DEF Init, LInv, GoodData, Silence, LiveNotStale, Connected
<1>2. I /\ [Next]_vars => I'
  <2> SUFFICES ASSUME LInv, LiveNotStale, [Next]_vars PROVE I'
    OBVIOUS
  <2>1. CInv' /\ GoodData'
    BY CInvInductive, GoodDataStep DEF LInv
  <2>2. Silence'
    <3>1. CASE UNCHANGED vars
      BY <3>1, SilenceUnseen DEF LInv, vars, driver, upsd, clocks, Idle, Readable
    <3> QED BY <3>1, SilenceDisturbance, SilenceDriver, SilenceServer, SilenceTick DEF Next
  <2> QED BY <2>1, <2>2, LiveStep DEF LInv
<1>3. I => LiveNotStale
  OBVIOUS
<1> QED BY <1>1, <1>2, <1>3, PTL DEF Spec

=============================================================================
