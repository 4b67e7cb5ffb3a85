---------------------------- MODULE FailoverProofs ----------------------------
(* Theorems about the failover driver. *)
EXTENDS Failover, FiniteSetTheorems, SequenceTheorems, WellFoundedInduction, TLAPS

(* What may be published as variables. *)
VarSets == UNION {[S -> Drivers \X {"OL", "OB"}] : S \in SUBSET {"load", "timer"}}

LEMMA VarSetsAre ==
  ASSUME NEW f
  PROVE  f \in VarSets <=> /\ DOMAIN f \subseteq {"load", "timer"}
                           /\ f \in [DOMAIN f -> Drivers \X {"OL", "OB"}]
<1>1. ASSUME f \in VarSets
      PROVE  DOMAIN f \subseteq {"load", "timer"} /\ f \in [DOMAIN f -> Drivers \X {"OL", "OB"}]
  <2>1. PICK S \in SUBSET {"load", "timer"} : f \in [S -> Drivers \X {"OL", "OB"}]
    BY <1>1 DEF VarSets
  <2>2. DOMAIN f = S
    BY <2>1
  <2> QED BY <2>1, <2>2
<1>2. ASSUME DOMAIN f \subseteq {"load", "timer"}, f \in [DOMAIN f -> Drivers \X {"OL", "OB"}]
      PROVE  f \in VarSets
  <2>1. DOMAIN f \in SUBSET {"load", "timer"}
    BY <1>2
  <2>2. \E S \in SUBSET {"load", "timer"} : f \in [S -> Drivers \X {"OL", "OB"}]
    BY <1>2, <2>1, Zenon
  <2> QED BY <2>2, Zenon DEF VarSets
<1> QED BY <1>1, <1>2

USE FailoverAssumption

(* The inductive invariants. *)

\* The loop of handle_connections(): who is read is connected, and what is yet to be
\* parsed has come.
Turned ==
  /\ step = "read" => turn <= Len(Order) /\ Has(Order[turn], "ALIVE")
  /\ left > 0 => step = "read" /\ left <= Len(toF[Order[turn]])
  /\ step = "bye" => turn <= Len(Order) /\ ~Has(Order[turn], "ALIVE")
  /\ step = "nap" => turn = 1

\* How long each step may last; only connect() has no limit, and then held is set.
Limited ==
  /\ step = "check" => waited <= COOLOFFTIME + 1 /\ (~held => waited = 0)
  /\ step = "read" => waited <= READTIMEOUT
  /\ step = "bye" => waited <= LOGOUTTIME
  /\ step = "nap" => waited = 0

\* The flags of a driver tell of its connection and of its status.
Flagged ==
  \A d \in Drivers :
    /\ Has(d, "ALIVE") <=> ups[d].conn # "none"
    /\ Has(d, "ONLINE") <=> ups[d].conn # "none" /\ ups[d].list = "OL"

CInv == TypeOK /\ Turned /\ Limited /\ Flagged /\ Counted

\* A primary that has been given up is given up once only, unless fsdmode is 0.
Absence ==
  /\ ~init_elapsed => primary = None /\ absent = Unset
  /\ absent # Unset => gone_time # Unset /\ absent <= gone_time
  /\ gone /\ FSDMODE > 0 => primary = None
  /\ dstate.status \cap {"FSD", "ALARM"} # {} => primary = None /\ gone

\* The primary is connected until it is looked at, and elections follow.
Passed(k) == step # "nap" /\ (k < turn \/ (step = "bye" /\ k = turn))

PrimaryAlive ==
  primary # None =>
    /\ FSDMODE > 0 => Has(primary, "ALIVE") \/ Passed(Place(primary))
    /\ step = "nap" /\ absent = Unset => Has(primary, "ALIVE")

\* What is published is the primary's, but for the changes it is marked with, which
\* never leave less to be published.
Published ==
  FSDMODE > 0 =>
    IF primary = None THEN dstate.vars = << >>
    ELSE LET u == ups[primary] IN
         /\ DOMAIN dstate.vars \subseteq DOMAIN Vars(primary, u.list)
         /\ ~u.needs_export => dstate.vars = Vars(primary, u.list)
         /\ step = "nap" => ~u.needs_export

\* Who has been looked at in this call, and how long the call may have taken if no
\* connect() waited: each driver a read and a goodbye.
Checked(k) == k < turn \/ (k = turn /\ step = "read") \/ step = "nap"
Longest == READTIMEOUT + LOGOUTTIME
Here    == IF step = "bye" THEN READTIMEOUT + waited ELSE waited
Spent   == IF step = "nap" THEN Round ELSE (turn - 1) * Longest + Here

\* Who has been looked at and is still connected had been heard of in time.
HeardInTime ==
  ~held => \A k \in 1..Len(Order) : Checked(k) /\ Has(Order[k], "ALIVE") =>
    /\ ups[Order[k]].heard <= DEADTIME + Spent
    /\ since < POLLINTERVAL => ups[Order[k]].heard <= DEADTIME + since

-----------------------------------------------------------------------------
(* The constants, and the drivers.                                         *)

LEMMA Constant ==
  /\ PINGTIME \in Nat /\ GONETIME \in Nat /\ Round \in Nat /\ SILENCE \in Nat
  /\ Round >= POLLINTERVAL /\ Round >= Len(Order) * Longest
  /\ SILENCE = DEADTIME + Round /\ GONETIME >= NOPRIMARYTIME
  /\ DEADTIME \in Nat /\ READTIMEOUT \in Nat /\ POLLINTERVAL \in Nat /\ INITTIME \in Nat
  /\ NOPRIMARYTIME \in Nat /\ ALARMTIME \in Nat /\ COOLOFFTIME \in Nat
  /\ MAXCONNFAILS \in Nat /\ Len(Order) \in Nat
  /\ LOGOUTTIME \in Nat /\ Longest \in Nat /\ BACKLOG \in Nat
<1>1. /\ DEADTIME \in Nat /\ READTIMEOUT \in Nat /\ POLLINTERVAL \in Nat /\ INITTIME \in Nat
      /\ NOPRIMARYTIME \in Nat /\ ALARMTIME \in Nat /\ COOLOFFTIME \in Nat
      /\ MAXCONNFAILS \in Nat /\ Len(Order) \in Nat
      /\ LOGOUTTIME \in Nat /\ BACKLOG \in Nat
  OBVIOUS
<1>7. Longest \in Nat
  BY <1>1 DEF Longest
<1>2. \A n \in Nat : n \div 3 \in Nat
  OBVIOUS
<1>3. \A m, n \in Nat : m * n \in Nat
  OBVIOUS
<1>4. PINGTIME \in Nat
  BY <1>1, <1>2 DEF PINGTIME
<1>5. Len(Order) * Longest \in Nat
  BY <1>1, <1>3, <1>7
<1>6. Round \in Nat /\ Round >= POLLINTERVAL /\ Round >= Len(Order) * Longest
  BY <1>1, <1>5 DEF Round, Longest
<1> QED BY <1>1, <1>4, <1>6, <1>7 DEF GONETIME, SILENCE

LEMMA Places ==
  /\ \A k \in 1..Len(Order) : Order[k] \in Drivers /\ Place(Order[k]) = k
  /\ \A d \in Drivers : Place(d) \in 1..Len(Order) /\ Order[Place(d)] = d
BY DEF Drivers, Place

LEMMA DriversFinite == IsFiniteSet(Drivers) /\ Cardinality(Drivers) <= Len(Order)
<1>1. IsFiniteSet(1..Len(Order)) /\ Cardinality(1..Len(Order)) = Len(Order)
  <2>1. 1 \in Int /\ Len(Order) \in Int
    OBVIOUS
  <2>2. /\ IsFiniteSet(1..Len(Order))
        /\ Cardinality(1..Len(Order)) = IF 1 > Len(Order) THEN 0 ELSE Len(Order) - 1 + 1
    BY <2>1, FS_Interval
  <2> QED BY <2>2
<1>2. IsFiniteSet(Drivers) /\ Cardinality(Drivers) <= Cardinality(1..Len(Order))
  <2> DEFINE f == [k \in 1..Len(Order) |-> Order[k]]
  <2>1. f \in Surjection(1..Len(Order), Drivers)
    BY DEF Surjection, Drivers
  <2> QED BY <1>1, <2>1, FS_Surjection
<1> QED BY <1>1, <1>2

\* How a count changes with one driver.
LEMMA CountOne ==
  ASSUME NEW S \in SUBSET Drivers, NEW T \in SUBSET Drivers, NEW d \in Drivers,
         S \ {d} = T \ {d}
  PROVE  /\ Cardinality(T) = Cardinality(S) + One(d \in T) - One(d \in S)
         /\ Cardinality(S) \in 0..Len(Order) /\ Cardinality(T) \in 0..Len(Order)
<1>1. IsFiniteSet(S) /\ IsFiniteSet(T)
  BY DriversFinite, FS_Subset
<1>2. Cardinality(S) \in Nat /\ Cardinality(T) \in Nat /\ Cardinality(Drivers) \in Nat
      /\ Cardinality(S) <= Cardinality(Drivers) /\ Cardinality(T) <= Cardinality(Drivers)
  BY <1>1, DriversFinite, FS_Subset, FS_CardinalityType
<1>3. CASE d \in S /\ d \notin T
  <2>1. T = S \ {d}
    BY <1>3
  <2>2. Cardinality(T) = Cardinality(S) - 1
    BY <1>1, <1>3, <2>1, FS_RemoveElement
  <2> QED BY <1>2, <1>3, <2>2, DriversFinite DEF One
<1>4. CASE d \notin S /\ d \in T
  <2>1. S = T \ {d}
    BY <1>4
  <2>2. Cardinality(S) = Cardinality(T) - 1
    BY <1>1, <1>4, <2>1, FS_RemoveElement
  <2> QED BY <1>2, <1>4, <2>2, DriversFinite DEF One
<1>5. CASE d \in S <=> d \in T
  <2>1. \A x : x \in S <=> x \in T
    <3>1. \A x : x \in S \ {d} <=> x \in T \ {d}
      OBVIOUS
    <3> QED BY <1>5, <3>1
  <2>2. S = T
    BY <2>1
  <2> QED BY <1>2, <2>2, DriversFinite DEF One
<1> QED BY <1>3, <1>4, <1>5

\* An age grows by one at most, and stops behind its limit.
LEMMA OlderType ==
  ASSUME NEW limit \in Nat, NEW t \in -1..limit + 1
  PROVE  /\ Older(t, limit) \in -1..limit + 1
         /\ Older(t, limit) >= t /\ Older(t, limit) <= t + 1
         /\ t # Unset => Older(t, limit) # Unset /\ (t <= limit => Older(t, limit) = t + 1)
         /\ t = Unset => Older(t, limit) = Unset
BY DEF Older, Unset

-----------------------------------------------------------------------------
(* What is known of a driver, and what is published.                       *)

LEMMA DeviceTypes ==
  ASSUME NEW u \in ups_device_t
  PROVE  /\ Connect(u) \in ups_device_t
         /\ \A t \in 0..COOLOFFTIME + 1 : ConnectFails(u, t) \in ups_device_t
         /\ [u EXCEPT !.pinged = 0] \in ups_device_t /\ [u EXCEPT !.heard = 0] \in ups_device_t
         /\ [u EXCEPT !.conn = "none", !.flags = {}, !.heard = 0,
                      !.pinged = PINGTIME + 1] \in ups_device_t
         /\ [u EXCEPT !.conn = IF @ = "open" THEN "eof" ELSE @] \in ups_device_t
         /\ [u EXCEPT !.needs_export = FALSE, !.force_export = FALSE] \in ups_device_t
         /\ \A n \in Int : /\ [u EXCEPT !["ignore"] = n] \in ups_device_t
                           /\ [u EXCEPT !["force"] = n] \in ups_device_t
<1>1. /\ PINGTIME + 1 \in 0..PINGTIME + 1 /\ COOLOFFTIME + 1 \in 0..COOLOFFTIME + 1
      /\ 0 \in 0..PINGTIME + 1 /\ 0 \in 0..SILENCE + 1 /\ 0 \in 0..COOLOFFTIME + 1
      /\ 0 \in 0..MAXCONNFAILS + 1
  BY Constant
<1>2. Connect(u) \in ups_device_t
  BY <1>1 DEF Connect, ups_device_t
<1>3. ASSUME NEW t \in 0..COOLOFFTIME + 1 PROVE ConnectFails(u, t) \in ups_device_t
  <2>1. \A n \in 0..MAXCONNFAILS + 1 :
          (IF n > MAXCONNFAILS THEN n ELSE n + 1) \in 0..MAXCONNFAILS + 1
    OBVIOUS
  <2> QED BY <1>1, <2>1 DEF ConnectFails, ups_device_t
<1> QED BY <1>1, <1>2, <1>3 DEF ups_device_t

LEMMA AgedType ==
  ASSUME NEW u \in ups_device_t
  PROVE  /\ Aged(u) \in ups_device_t
         /\ Aged(u).conn = u.conn /\ Aged(u).flags = u.flags /\ Aged(u).list = u.list
         /\ Aged(u).needs_export = u.needs_export
         /\ Aged(u).heard <= u.heard + 1
<1>1. PINGTIME \in Nat /\ SILENCE \in Nat /\ COOLOFFTIME \in Nat
  BY Constant
<1>2. u.heard \in 0..SILENCE + 1 /\ u.pinged \in 0..PINGTIME + 1
      /\ u.failed \in 0..COOLOFFTIME + 1 /\ u.ignore \in Int /\ u.force \in Int
  BY DEF ups_device_t
<1>3. \A n \in Nat : \A t \in 0..n + 1 : Older(t, n) \in 0..n + 1 /\ Older(t, n) <= t + 1
  BY DEF Older
<1>4. \A n \in Int : Less(n) \in Int
  BY DEF Less
<1>5. /\ Older(u.heard, SILENCE) \in 0..SILENCE + 1
      /\ Older(u.heard, SILENCE) <= u.heard + 1
      /\ Older(u.pinged, PINGTIME) \in 0..PINGTIME + 1
      /\ Older(u.failed, COOLOFFTIME) \in 0..COOLOFFTIME + 1
      /\ Less(u.ignore) \in Int /\ Less(u.force) \in Int
  BY <1>1, <1>2, <1>3, <1>4
<1>6. Aged(u).heard = IF u.conn = "none" THEN u.heard ELSE Older(u.heard, SILENCE)
  BY DEF Aged, ups_device_t
<1>7. Aged(u).heard \in 0..SILENCE + 1 /\ Aged(u).heard <= u.heard + 1
  <2>1. u.heard \in 0..SILENCE + 1 /\ u.heard <= u.heard + 1
    BY <1>1, <1>2
  <2> QED BY <1>5, <1>6, <2>1
<1> QED BY <1>5, <1>7 DEF Aged, ups_device_t

\* ups_parse_protocol() keeps the flags and the status together.
LEMMA ParsedType ==
  ASSUME TypeOK, NEW d \in Drivers, NEW m \in Messages
  PROVE  LET u == Parsed(d, m) IN
         /\ u \in ups_device_t /\ u.conn = ups[d].conn
         /\ Has(d, "ALIVE") => "ALIVE" \in u.flags
         /\ "ALIVE" \in u.flags => Has(d, "ALIVE")
         /\ \/ u.list = ups[d].list /\ u.needs_export = ups[d].needs_export
               /\ ("ONLINE" \in u.flags <=> Has(d, "ONLINE"))
            \/ u.list = "OL" /\ "ONLINE" \in u.flags
            \/ u.list = "OB" /\ "ONLINE" \notin u.flags
         /\ u.needs_export = (ups[d].needs_export \/ u.list # ups[d].list)
<1>1. ups[d] \in ups_device_t
  BY DEF TypeOK
<1>2. CASE m \in {"OL", "OB"}
  BY <1>1, <1>2 DEF Parsed, Listed, ups_device_t, Has
<1>3. CASE m \in {"DATAOK", "DATASTALE", "DUMPDONE", "PONG"}
  BY <1>1, <1>3 DEF Parsed, ups_device_t, Has
<1> QED BY <1>2, <1>3 DEF Messages

Lists == {"none", "OL", "OB"}
LEMMA VarsType ==
  ASSUME NEW d \in Drivers, NEW r \in Lists
  PROVE  /\ Vars(d, r) \in VarSets
         /\ DOMAIN Vars(d, r) = CASE r = "none" -> {} [] r = "OL" -> {"load"}
                                  [] r = "OB" -> {"load", "timer"}
         /\ \A v \in DOMAIN Vars(d, r) : Vars(d, r)[v] = <<d, r>>
         /\ r = "none" => Vars(d, r) = << >>
<1>1. CASE r = "none"
  <2>1. Vars(d, r) = [v \in {} |-> <<d, r>>]
    BY <1>1 DEF Vars
  <2>2. << >> \in Seq(Drivers) /\ Len(<< >>) = 0
    BY EmptySeq
  <2>3. << >> \in [1..0 -> Drivers]
    BY <2>2, LenProperties
  <2>4. << >> = [v \in {} |-> <<d, r>>]
    BY <2>3
  <2> QED BY <1>1, <2>1, <2>4, VarSetsAre
<1>2. CASE r = "OL"
  <2>1. Vars(d, r) = [v \in {"load"} |-> <<d, r>>]
    BY <1>2 DEF Vars
  <2> QED BY <1>2, <2>1, VarSetsAre
<1>3. CASE r = "OB"
  <2>1. Vars(d, r) = [v \in {"load", "timer"} |-> <<d, r>>]
    BY <1>3 DEF Vars
  <2>2. Vars(d, r) \in [{"load", "timer"} -> Drivers \X {"OL", "OB"}]
        /\ DOMAIN Vars(d, r) = {"load", "timer"}
    BY <1>3, <2>1
  <2>3. Vars(d, r) \in VarSets
    BY <2>2, VarSetsAre, Zenon
  <2> QED BY <1>3, <2>1, <2>2, <2>3
<1> QED BY <1>1, <1>2, <1>3 DEF Lists

LEMMA DeviceFields ==
  ASSUME TypeOK, NEW d \in Drivers
  PROVE  /\ ups[d] \in ups_device_t /\ ups[d].list \in Lists /\ ups[d].heard \in 0..SILENCE + 1
         /\ ups[d].needs_export \in BOOLEAN /\ ups[d].force_export \in BOOLEAN
         /\ ups[d].ignore \in Int /\ ups[d].force \in Int
BY DEF TypeOK, ups_device_t, Lists

LEMMA WithoutVars ==
  ASSUME NEW f \in VarSets, NEW S
  PROVE  /\ Without(f, S) \in VarSets /\ DOMAIN Without(f, S) = DOMAIN f \ S
         /\ \A v \in DOMAIN f \ S : Without(f, S)[v] = f[v]
<1>1. DOMAIN f \subseteq {"load", "timer"} /\ f \in [DOMAIN f -> Drivers \X {"OL", "OB"}]
  BY VarSetsAre
<1>2. Without(f, S) = [v \in DOMAIN f \ S |-> f[v]]
  BY DEF Without, Restrict
<1>3. DOMAIN Without(f, S) = DOMAIN f \ S /\ \A v \in DOMAIN f \ S : Without(f, S)[v] = f[v]
  BY <1>2
<1>4. Without(f, S) \in [DOMAIN f \ S -> Drivers \X {"OL", "OB"}]
  BY <1>1, <1>2
<1> QED BY <1>1, <1>3, <1>4, VarSetsAre

\* What is published, and for which driver it is.
LEMMA DstateType == dstate_t = [status : SUBSET {"WAIT", "OL", "OB", "ALARM", "FSD"},
                                stale : BOOLEAN, vars : VarSets]
BY DEF dstate_t, VarSets

LEMMA CleanedType ==
  ASSUME TypeOK, NEW d \in Drivers
  PROVE  LET f == DOMAIN dstate.vars
             s == DOMAIN Vars(d, ups[d].list)
         IN /\ Cleaned(dstate, d) \in dstate_t /\ Cleaned(dstate, d).status = {}
            /\ DOMAIN Cleaned(dstate, d).vars = f \ s
            /\ f \subseteq s => Cleaned(dstate, d).vars = << >>
<1> DEFINE s == DOMAIN Vars(d, ups[d].list)
           w == Without(dstate.vars, s)
<1>1. dstate \in dstate_t /\ dstate.vars \in VarSets
  BY DstateType DEF TypeOK
<1>2. w \in VarSets /\ DOMAIN w = DOMAIN dstate.vars \ s
  BY <1>1, WithoutVars
<1>3. Cleaned(dstate, d) = [dstate EXCEPT !.status = {}, !.vars = w]
  BY DEF Cleaned
<1>4. ASSUME DOMAIN dstate.vars \subseteq s PROVE w = << >>
  <2>1. DOMAIN w = {}
    BY <1>2, <1>4
  <2>2. DOMAIN Vars(d, "none") = {} /\ Vars(d, "none") = << >> /\ Vars(d, "none") \in VarSets
    BY VarsType DEF Lists
  <2> HIDE DEF w
  <2> QED BY <2>1, <2>2, <1>2, VarSetsAre
<1>5. /\ Cleaned(dstate, d) \in dstate_t /\ Cleaned(dstate, d).status = {}
      /\ Cleaned(dstate, d).vars = w
  <2> HIDE DEF w
  <2> QED BY <1>1, <1>2, <1>3, DstateType
<1> QED BY <1>2, <1>4, <1>5

Exports(d, all) == ups[d].list # "none" /\ (ups[d].needs_export \/ all)

LEMMA ExportedType ==
  ASSUME TypeOK, NEW d \in Drivers, NEW ds \in dstate_t, NEW all \in BOOLEAN
  PROVE  LET r == ups[d].list
             e == Exported(ds, d, all)
         IN /\ e \in dstate_t
            /\ all \/ ds.status \cap {"FSD", "ALARM"} = {} =>
                 e.status \cap {"FSD", "ALARM"} = {}
            /\ ~Exports(d, all) => e.vars = ds.vars
            /\ Exports(d, all) /\ DOMAIN ds.vars \subseteq DOMAIN Vars(d, r) =>
                 e.vars = Vars(d, r)
<1> DEFINE r == ups[d].list
           f == ds.vars
           g == Vars(d, r)
           h == [v \in DOMAIN f \cup DOMAIN g |-> IF v \in DOMAIN g THEN g[v] ELSE f[v]]
           e == Exported(ds, d, all)
           st == IF Exports(d, all) THEN {r} ELSE IF all THEN {} ELSE ds.status
           vs == IF Exports(d, all) THEN h ELSE f
<1>1. e = [ds EXCEPT !.status = st, !.vars = vs]
  BY DEF Exported, Exports
<1>2. f \in VarSets /\ ds.status \subseteq {"WAIT", "OL", "OB", "ALARM", "FSD"}
      /\ ds \in [status : SUBSET {"WAIT", "OL", "OB", "ALARM", "FSD"},
                 stale : BOOLEAN, vars : VarSets]
  BY DstateType
<1>3. r \in Lists /\ g \in VarSets
  BY DeviceFields, VarsType
<1>4. h \in VarSets
  <2>1. DOMAIN h \subseteq {"load", "timer"}
    BY <1>2, <1>3, VarSetsAre
  <2>2. f \in [DOMAIN f -> Drivers \X {"OL", "OB"}] /\ g \in [DOMAIN g -> Drivers \X {"OL", "OB"}]
    BY <1>2, <1>3, VarSetsAre
  <2>3. h \in [DOMAIN h -> Drivers \X {"OL", "OB"}]
    BY <2>2
  <2> HIDE DEF h
  <2> QED BY <2>1, <2>3, VarSetsAre
<1>5. vs \in VarSets
  <2> HIDE DEF h, f
  <2> QED BY <1>2, <1>4
<1>6. st \subseteq {"WAIT", "OL", "OB", "ALARM", "FSD"}
  BY <1>2, <1>3 DEF Exports, Lists
<1>7. all \/ ds.status \cap {"FSD", "ALARM"} = {} => st \cap {"FSD", "ALARM"} = {}
  BY <1>3 DEF Exports, Lists
<1>8. ASSUME DOMAIN f \subseteq DOMAIN g PROVE h = g
  <2>1. DOMAIN f \cup DOMAIN g = DOMAIN g
    BY <1>8
  <2>2. h = [v \in DOMAIN g |-> g[v]]
    BY <2>1
  <2>3. g \in [DOMAIN g -> Drivers \X {"OL", "OB"}]
    BY <1>3, VarSetsAre
  <2> HIDE DEF g, h
  <2> QED BY <2>2, <2>3
<1>9. e \in dstate_t /\ e.status = st /\ e.vars = vs
  <2> HIDE DEF st, vs, e
  <2> QED BY <1>1, <1>2, <1>5, <1>6, DstateType
<1>10. Exports(d, all) \in BOOLEAN /\ (~Exports(d, all) => vs = f) /\ (Exports(d, all) => vs = h)
  BY DEF Exports
<1> HIDE DEF st, vs, h
<1> QED BY <1>7, <1>8, <1>9, <1>10

-----------------------------------------------------------------------------
(* The election.                                                           *)

LEMMA LeastNumber ==
  ASSUME NEW N \in SUBSET Nat, N # {}
  PROVE  \E n \in N : \A m \in N : n <= m
<1>1. IsWellFoundedOn(OpToRel(<, Nat), Nat)
  BY NatLessThanWellFounded
<1>2. PICK n \in N : \A m \in N : ~(<<m, n>> \in OpToRel(<, Nat))
  BY <1>1, WFMin
<1>3. \A m \in N : ~(m < n)
  BY <1>2 DEF OpToRel
<1> QED BY <1>3

Topped(S, f) == \E x \in S : \A y \in S : f[y] <= f[x]

\* Some driver is the greatest in some respect: else, of the sets without one,
\* a smallest one loses it with one element less.
LEMMA Greatest ==
  ASSUME NEW S, IsFiniteSet(S), S # {}, NEW f \in [S -> Int]
  PROVE  Topped(S, f)
<1> DEFINE Bad(T) == T # {} /\ ~Topped(T, f)
           N == {n \in Nat : \E T \in SUBSET S : Bad(T) /\ Cardinality(T) = n}
<1>1. SUFFICES ASSUME ~Topped(S, f) PROVE FALSE
  OBVIOUS
<1>2. Cardinality(S) \in N
  BY <1>1, FS_CardinalityType
<1>3. PICK n \in N : \A m \in N : n <= m
  <2>1. N \in SUBSET Nat /\ N # {}
    BY <1>2
  <2> HIDE DEF N
  <2> QED BY <2>1, LeastNumber
<1>4. PICK T \in SUBSET S : Bad(T) /\ Cardinality(T) = n
  BY <1>3
<1>5. IsFiniteSet(T) /\ T # {} /\ n \in Nat
  BY <1>3, <1>4, FS_Subset
<1>6. PICK x \in T : TRUE
  BY <1>5
<1>7. Cardinality(T \ {x}) = n - 1 /\ IsFiniteSet(T \ {x})
  BY <1>4, <1>5, <1>6, FS_RemoveElement
<1>8. Cardinality(T \ {x}) \in Nat
  BY <1>7, FS_CardinalityType
<1>9. ~Bad(T \ {x})
  <2>1. SUFFICES ASSUME Bad(T \ {x}) PROVE FALSE
    OBVIOUS
  <2>2. T \ {x} \in SUBSET S
    BY <1>4
  <2>3. n - 1 \in N
    BY <1>7, <1>8, <2>1, <2>2
  <2>4. n <= n - 1
    BY <1>3, <2>3
  <2> QED BY <1>5, <2>4
<1>10. \A y \in T : f[y] \in Int
  BY <1>4
<1>11. CASE T \ {x} = {}
  <2>1. \A y \in T : y = x
    BY <1>11
  <2>2. Topped(T, f)
    BY <1>6, <1>10, <2>1 DEF Topped
  <2> QED BY <1>4, <2>2
<1>12. CASE T \ {x} # {}
  <2>1. PICK z \in T \ {x} : \A y \in T \ {x} : f[y] <= f[z]
    BY <1>9, <1>12 DEF Topped
  <2>2. CASE f[x] <= f[z]
    BY <1>4, <2>1, <2>2 DEF Topped
  <2>3. CASE ~(f[x] <= f[z])
    <3>1. \A y \in T : f[y] <= f[x]
      BY <1>6, <1>10, <2>1, <2>3
    <3> QED BY <1>4, <1>6, <3>1 DEF Topped
  <2> QED BY <2>2, <2>3
<1> QED BY <1>11, <1>12

\* get_primary_candidate() finds one of the drivers it may take, if there is one.
LEMMA Candidate ==
  ASSUME TypeOK
  PROVE  get_primary_candidate # None =>
           get_primary_candidate \in Drivers /\ Has(get_primary_candidate, "ALIVE")
<1>1. SUFFICES ASSUME Primaries # {}
               PROVE  FirstOf(LongestOf(Best)) \in Primaries
  BY DEF get_primary_candidate, Primaries, Priority, Eligible, Has
<1>2. IsFiniteSet(Primaries)
  BY DriversFinite, FS_Subset DEF Primaries
<1>3. Best # {} /\ Best \subseteq Primaries
  <2> DEFINE f == [d \in Primaries |-> 0 - Priority(d)]
  <2>1. \A d \in Drivers : Priority(d) \in Int
    BY DeviceFields DEF Priority, Eligible, Forced, Has
  <2>2. f \in [Primaries -> Int]
    BY <2>1 DEF Primaries
  <2>3. PICK d \in Primaries : \A e \in Primaries : f[e] <= f[d]
    BY <1>1, <1>2, <2>2, Greatest DEF Topped
  <2>4. \A e \in Primaries : Priority(d) <= Priority(e)
    BY <2>1, <2>3 DEF Primaries
  <2> QED BY <2>4 DEF Best
<1>4. LongestOf(Best) # {} /\ LongestOf(Best) \subseteq Best
  <2> DEFINE f == [d \in Best |-> runtime(d)]
  <2>1. \A d \in Drivers : runtime(d) \in Int
    BY DEF runtime
  <2>2. f \in [Best -> Int] /\ IsFiniteSet(Best)
    BY <1>2, <1>3, <2>1, FS_Subset DEF Primaries
  <2>3. PICK d \in Best : \A e \in Best : f[e] <= f[d]
    BY <1>3, <2>2, Greatest DEF Topped
  <2>4. \A e \in Best : runtime(d) >= runtime(e)
    BY <1>3, <2>1, <2>3 DEF Primaries
  <2> QED BY <2>4 DEF LongestOf
<1>5. \E d \in LongestOf(Best) : \A e \in LongestOf(Best) : Place(d) <= Place(e)
  <2> DEFINE L == LongestOf(Best)
             f == [d \in L |-> 0 - Place(d)]
  <2>1. L \subseteq Drivers /\ IsFiniteSet(L) /\ L # {}
    BY <1>2, <1>3, <1>4, FS_Subset DEF Primaries
  <2>2. \A d \in L : Place(d) \in Int
    BY <2>1, Places
  <2> HIDE DEF L
  <2>3. f \in [L -> Int]
    BY <2>2
  <2>4. PICK d \in L : \A e \in L : f[e] <= f[d]
    BY <2>1, <2>3, Greatest DEF Topped
  <2>5. \A e \in L : Place(d) <= Place(e)
    BY <2>2, <2>4
  <2> QED BY <2>5 DEF L
<1>6. FirstOf(LongestOf(Best)) \in LongestOf(Best)
  BY <1>5 DEF FirstOf
<1> QED BY <1>3, <1>4, <1>6

-----------------------------------------------------------------------------
(* The types, the flags and the counts.                                    *)

\* The parts of TypeOK, in the order of the groups of variables.
WorldType ==
  /\ drv \in [Drivers -> {"up", "down"}] /\ report \in [Drivers -> {"OL", "OB"}]
  /\ fresh \in [Drivers -> BOOLEAN] /\ does \in Habits
LinkType ==
  /\ asked \in [Drivers -> SUBSET {"DUMPALL", "PING"}]
  /\ toF \in [Drivers -> Seq(Messages)] /\ queue \in [Drivers -> 0..BACKLOG]
DeviceType ==
  /\ ups \in [Drivers -> ups_device_t]
  /\ alive_count \in 0..Len(Order) /\ online_count \in 0..Len(Order)
ElectionType ==
  /\ primary \in Drivers \cup {None} /\ gone \in BOOLEAN
  /\ gone_time \in -1..GONETIME + 1 /\ absent \in -1..GONETIME + 1
  /\ init_elapsed \in BOOLEAN /\ uptime \in 0..INITTIME + 1
  /\ dstate \in dstate_t
ControlType ==
  /\ step \in {"check", "read", "bye", "nap"} /\ turn \in 1..Len(Order) + 1
  /\ left \in Nat /\ waited \in Nat /\ since \in 0..POLLINTERVAL /\ held \in BOOLEAN

LEMMA TypeParts ==
  TypeOK <=> WorldType /\ LinkType /\ DeviceType /\ ElectionType /\ ControlType
BY DEF TypeOK, WorldType, LinkType, DeviceType, ElectionType, ControlType

LEMMA TypePartsNext ==
  TypeOK' <=> WorldType' /\ LinkType' /\ DeviceType' /\ ElectionType' /\ ControlType'
BY DEF TypeOK, WorldType, LinkType, DeviceType, ElectionType, ControlType

Connected == {d \in Drivers : ups[d].conn # "none"}
Online    == {d \in Drivers : ups[d].conn # "none" /\ ups[d].list = "OL"}

LEMMA CountedAre == Counted <=> /\ alive_count = Cardinality(Connected)
                                /\ online_count = Cardinality(Online)
BY DEF Counted, Connected, Online

LEMMA CountedNextAre == Counted' <=> /\ alive_count' = Cardinality(Connected')
                                     /\ online_count' = Cardinality(Online')
BY DEF Counted, Connected, Online

\* One driver has changed, with its flags.
LEMMA DeviceStep ==
  ASSUME CInv, NEW d \in Drivers, NEW u \in ups_device_t, ups' = [ups EXCEPT ![d] = u],
         "ALIVE" \in u.flags <=> u.conn # "none",
         "ONLINE" \in u.flags <=> u.conn # "none" /\ u.list = "OL",
         alive_count' = alive_count + One("ALIVE" \in u.flags) - One(Has(d, "ALIVE")),
         online_count' = online_count + One("ONLINE" \in u.flags) - One(Has(d, "ONLINE"))
  PROVE  DeviceType' /\ Flagged' /\ Counted'
<1>1. TypeOK /\ Flagged /\ Counted /\ ups \in [Drivers -> ups_device_t]
  BY DEF CInv, TypeOK
<1>2. ups' \in [Drivers -> ups_device_t] /\ ups'[d] = u
      /\ \A e \in Drivers \ {d} : ups'[e] = ups[e]
  BY <1>1
<1>3. Flagged'
  BY <1>1, <1>2 DEF Flagged, Has
<1>4. Connected' \ {d} = Connected \ {d} /\ Online' \ {d} = Online \ {d}
  BY <1>2 DEF Connected, Online
<1>5. /\ d \in Connected <=> Has(d, "ALIVE")
      /\ d \in Online <=> Has(d, "ONLINE")
      /\ d \in Connected' <=> "ALIVE" \in u.flags
      /\ d \in Online' <=> "ONLINE" \in u.flags
  BY <1>1, <1>2 DEF Flagged, Connected, Online
<1>6. /\ Cardinality(Connected') =
           Cardinality(Connected) + One(d \in Connected') - One(d \in Connected)
      /\ Cardinality(Connected') \in 0..Len(Order)
  BY <1>4, CountOne DEF Connected
<1>7. /\ Cardinality(Online') = Cardinality(Online) + One(d \in Online') - One(d \in Online)
      /\ Cardinality(Online') \in 0..Len(Order)
  BY <1>4, CountOne DEF Online
<1>8. /\ One(d \in Connected) = One(Has(d, "ALIVE"))
      /\ One(d \in Connected') = One("ALIVE" \in u.flags)
      /\ One(d \in Online) = One(Has(d, "ONLINE"))
      /\ One(d \in Online') = One("ONLINE" \in u.flags)
  BY <1>5 DEF One
<1>9. alive_count' = Cardinality(Connected') /\ online_count' = Cardinality(Online')
  BY <1>1, <1>6, <1>7, <1>8, CountedAre
<1> QED BY <1>2, <1>3, <1>6, <1>7, <1>9, CountedNextAre DEF DeviceType

\* Nothing that counts has changed.
LEMMA DeviceStays ==
  ASSUME CInv, NEW d \in Drivers, NEW u \in ups_device_t, ups' = [ups EXCEPT ![d] = u],
         u.flags = ups[d].flags, u.list = ups[d].list,
         u.conn = "none" <=> ups[d].conn = "none", UNCHANGED counts
  PROVE  DeviceType' /\ Flagged' /\ Counted'
<1>1. /\ "ALIVE" \in u.flags <=> u.conn # "none"
      /\ "ONLINE" \in u.flags <=> u.conn # "none" /\ u.list = "OL"
  BY DEF CInv, Flagged, Has
<1>2. alive_count \in Int /\ online_count \in Int
  BY DEF CInv, TypeOK
<1>3. /\ One("ALIVE" \in u.flags) = One(Has(d, "ALIVE")) /\ One(Has(d, "ALIVE")) \in Int
      /\ One("ONLINE" \in u.flags) = One(Has(d, "ONLINE")) /\ One(Has(d, "ONLINE")) \in Int
  BY DEF One, Has
<1>4. /\ alive_count' = alive_count + One("ALIVE" \in u.flags) - One(Has(d, "ALIVE"))
      /\ online_count' = online_count + One("ONLINE" \in u.flags) - One(Has(d, "ONLINE"))
  BY <1>2, <1>3 DEF counts
<1> QED BY <1>1, <1>4, DeviceStep

LEMMA DevicesStay ==
  ASSUME CInv, UNCHANGED <<ups, counts>>
  PROVE  DeviceType' /\ Flagged' /\ Counted'
BY DEF CInv, TypeOK, DeviceType, Flagged, Has, Counted, counts

\* More may come in at any time.
Longer == \A e \in Drivers : Len(toF'[e]) >= Len(toF[e])

LEMMA Telling ==
  ASSUME LinkType, NEW d \in Drivers, NEW q \in Seq(Messages),
         toF' = [toF EXCEPT ![d] = @ \o q]
  PROVE  toF' \in [Drivers -> Seq(Messages)] /\ Longer
<1>1. toF[d] \in Seq(Messages)
  BY DEF LinkType
<1>2. toF[d] \o q \in Seq(Messages) /\ Len(toF[d] \o q) = Len(toF[d]) + Len(q)
  BY <1>1, ConcatProperties
<1>3. \A e \in Drivers : Len(toF[e]) \in Nat
  BY LenProperties DEF LinkType
<1>4. Len(q) \in Nat
  BY LenProperties
<1>5. \A e \in Drivers : toF'[e] = IF e = d THEN toF[d] \o q ELSE toF[e]
  BY DEF LinkType
<1>6. Longer
  BY <1>2, <1>3, <1>4, <1>5 DEF Longer
<1> QED BY <1>2, <1>6 DEF LinkType

LEMMA TellingOne ==
  ASSUME LinkType, NEW d \in Drivers, NEW m \in Messages,
         toF' = [toF EXCEPT ![d] = Append(@, m)]
  PROVE  toF' \in [Drivers -> Seq(Messages)] /\ Longer
<1>1. <<m>> \in Seq(Messages)
  OBVIOUS
<1>2. Append(toF[d], m) = toF[d] \o <<m>>
  BY AppendIsConcat DEF LinkType
<1> QED BY <1>1, <1>2, Telling

LEMMA TellType ==
  ASSUME LinkType, NEW d \in Drivers, NEW m \in Messages, Tell(d, m)
  PROVE  toF' \in [Drivers -> Seq(Messages)] /\ Longer
<1>1. CASE ups[d].conn = "open"
  BY <1>1, TellingOne DEF Tell
<1>2. CASE ups[d].conn # "open"
  <2>1. \A e \in Drivers : Len(toF[e]) \in Nat
    BY LenProperties DEF LinkType
  <2> QED BY <1>2, <2>1 DEF Tell, Longer, LinkType
<1> QED BY <1>1, <1>2

LEMMA ReportsAre ==
  \A d \in Drivers : /\ Default(d) \in {"OL", "OB"}
                     /\ \A r \in Reports[d] : r \in {"OL", "OB"} /\ r \in Messages
BY DEF Default, Messages

\* The places of the loop and the drivers they stand for.
LEMMA TurnPlace ==
  ASSUME ControlType
  PROVE  turn <= Len(Order) => Order[turn] \in Drivers /\ Place(Order[turn]) = turn
BY Places DEF ControlType

\* Between the steps of the failover driver, what it knows stays.
LEMMA FailoverWaits ==
  ASSUME CInv, Failover, Longer, WorldType', LinkType'
  PROVE  CInv'
<1>1. DeviceType' /\ Flagged' /\ Counted'
  BY DevicesStay DEF Failover
<1>2. ElectionType' /\ ControlType' /\ ControlType
  BY TypeParts DEF CInv, Failover, ElectionType, ControlType, election, control
<1>3. Turned' /\ Limited'
  <2>1. UNCHANGED <<ups, step, turn, left, waited, held>> /\ Turned /\ Limited
    BY DEF CInv, Failover, control
  <2>2. left > 0 => Len(toF'[Order[turn]]) >= Len(toF[Order[turn]])
    BY <1>2, <2>1, TurnPlace DEF Turned, Longer
  <2>3. left > 0 => Len(toF'[Order[turn]]) \in Nat /\ Len(toF[Order[turn]]) \in Nat
    BY <1>2, <2>1, TurnPlace, TypeParts, LenProperties DEF Turned, CInv, LinkType
  <2> QED BY <1>2, <2>1, <2>2, <2>3 DEF Turned, Limited, Has, ControlType
<1> QED BY <1>1, <1>2, <1>3, TypePartsNext DEF CInv

LEMMA CoreWorld ==
  ASSUME CInv, NEW d \in Drivers,
         (\E r \in Reports[d] : Reported(d, r)) \/ DataChange(d) \/ Start(d)
           \/ AnswerDump(d) \/ AnswerPing(d) \/ Accept(d)
  PROVE  CInv' /\ Failover
<1>1. WorldType /\ LinkType
  BY TypeParts DEF CInv
<1>2. CASE \E r \in Reports[d] : Reported(d, r)
  <2>1. PICK r \in Reports[d] : Reported(d, r)
    BY <1>2
  <2>2. LinkType' /\ Longer
    BY <1>1, <2>1, TellType, ReportsAre DEF Reported, LinkType
  <2>3. WorldType'
    BY <1>1, <2>1, ReportsAre DEF Reported, WorldType
  <2> QED BY <2>1, <2>2, <2>3, FailoverWaits DEF Reported
<1>3. CASE DataChange(d)
  <2>1. "DATASTALE" \in Messages /\ "DATAOK" \in Messages
    BY DEF Messages
  <2>2. LinkType' /\ Longer
    BY <1>1, <1>3, <2>1, TellType DEF DataChange, LinkType
  <2>3. WorldType'
    BY <1>1, <1>3 DEF DataChange, WorldType
  <2> QED BY <1>3, <2>2, <2>3, FailoverWaits DEF DataChange
<1>4. CASE Start(d)
  <2>1. \A e \in Drivers : Len(toF[e]) \in Nat
    BY <1>1, LenProperties DEF LinkType
  <2>2. LinkType' /\ Longer
    BY <1>1, <1>4, <2>1 DEF Start, links, LinkType, Longer
  <2>3. WorldType'
    BY <1>1, <1>4, ReportsAre DEF Start, WorldType
  <2> QED BY <1>4, <2>2, <2>3, FailoverWaits DEF Start
<1>5. CASE AnswerDump(d)
  <2>1. Dump(d) \in Seq(Messages)
    BY <1>1 DEF Dump, Messages, WorldType
  <2>2. toF' \in [Drivers -> Seq(Messages)] /\ Longer
    BY <1>1, <1>5, <2>1, Telling DEF AnswerDump
  <2>4. 0 \in 0..BACKLOG
    BY Constant
  <2>5. LinkType'
    BY <1>1, <1>5, <2>2, <2>4 DEF AnswerDump, LinkType
  <2>3. WorldType'
    BY <1>1, <1>5 DEF AnswerDump, world, WorldType
  <2> QED BY <1>5, <2>2, <2>3, <2>5, FailoverWaits DEF AnswerDump
<1>6. CASE AnswerPing(d)
  <2>1. "PONG" \in Messages
    BY DEF Messages
  <2>2. LinkType' /\ Longer
    BY <1>1, <1>6, <2>1, TellingOne DEF AnswerPing, LinkType
  <2>3. WorldType'
    BY <1>1, <1>6 DEF AnswerPing, world, WorldType
  <2> QED BY <1>6, <2>2, <2>3, FailoverWaits DEF AnswerPing
<1>7. CASE Accept(d)
  <2>1. \A e \in Drivers : Len(toF[e]) \in Nat
    BY <1>1, LenProperties DEF LinkType
  <2>2. LinkType' /\ Longer
    BY <1>1, <1>7, <2>1, Constant DEF Accept, LinkType, Longer
  <2>3. WorldType'
    BY <1>1, <1>7 DEF Accept, world, WorldType
  <2> QED BY <1>7, <2>2, <2>3, FailoverWaits DEF Accept
<1> QED BY <1>2, <1>3, <1>4, <1>5, <1>6, <1>7

LEMMA ToNext ==
  ASSUME CInv, NextDriver, turn <= Len(Order)
  PROVE  ControlType' /\ Turned' /\ Limited'
<1>1. ControlType
  BY TypeParts DEF CInv
<1> QED BY <1>1, Constant DEF NextDriver, ControlType, Turned, Limited

\* The step into the goodbye.
Bye == /\ step' = "bye" /\ left' = 0 /\ waited' = 0 /\ UNCHANGED <<turn, since, held>>

LEMMA ToBye ==
  ASSUME CInv, Bye, turn <= Len(Order), ~Has(Order[turn], "ALIVE")'
  PROVE  ControlType' /\ Turned' /\ Limited'
<1>1. ControlType
  BY TypeParts DEF CInv
<1> QED BY <1>1, Constant DEF Bye, ControlType, Turned, Limited, Has

LEMMA ToRead ==
  ASSUME CInv, NEW d, At(d, "check"), Read, Has(d, "ALIVE")'
  PROVE  ControlType' /\ Turned' /\ Limited'
<1>1. ControlType
  BY TypeParts DEF CInv
<1> QED BY <1>1, Constant DEF Read, ControlType, Turned, Limited, At, Has

\* Nothing but what is known of the drivers changes.
LEMMA DeviceOnly ==
  ASSUME CInv, UNCHANGED <<election, uptime, dstate>>
  PROVE  ElectionType'
BY DEF CInv, TypeOK, ElectionType, election

LEMMA CoreDie ==
  ASSUME CInv, NEW d \in Drivers, Die(d)
  PROVE  CInv'
<1> DEFINE u == [ups[d] EXCEPT !.conn = IF @ = "open" THEN "eof" ELSE @]
<1>1. ups[d] \in ups_device_t /\ u \in ups_device_t
  BY DeviceTypes DEF CInv, TypeOK
<1>2. ups' = [ups EXCEPT ![d] = u]
  BY <1>1 DEF Die
<1>3. /\ u.flags = ups[d].flags /\ u.list = ups[d].list
      /\ u.conn = "none" <=> ups[d].conn = "none"
  BY <1>1 DEF ups_device_t
<1>4. DeviceType' /\ Flagged' /\ Counted'
  <2> HIDE DEF u
  <2> QED BY <1>1, <1>2, <1>3, DeviceStays DEF Die
<1>5. WorldType' /\ LinkType' /\ ElectionType' /\ ControlType'
  <2>1. WorldType /\ LinkType /\ ElectionType /\ ControlType
    BY TypeParts DEF CInv
  <2>2. WorldType'
    BY <2>1, ReportsAre DEF Die, WorldType
  <2>3. 0 \in 0..BACKLOG
    BY Constant
  <2>4. LinkType'
    BY <2>1, <2>3 DEF Die, LinkType
  <2>5. ElectionType' /\ ControlType'
    BY <2>1 DEF Die, ElectionType, ControlType, election, control
  <2> QED BY <2>2, <2>4, <2>5
<1>6. Turned' /\ Limited'
  <2>1. \A e \in Drivers : ups'[e].flags = ups[e].flags
    BY <1>1, <1>2, <1>3 DEF CInv, TypeOK
  <2>2. step \in {"read", "bye"} => Order[turn] \in Drivers
    BY TurnPlace, TypeParts DEF CInv, Turned
  <2> QED BY <2>1, <2>2 DEF CInv, Turned, Limited, Die, control, Has
<1> QED BY <1>4, <1>5, <1>6, TypePartsNext DEF CInv

LEMMA CoreCommand ==
  ASSUME CInv, NEW d \in Drivers, NEW cmd \in Overrides[d], instcmd(d, cmd[1], cmd[2])
  PROVE  /\ CInv' /\ step = "nap"
         /\ \A e \in Drivers :
              /\ ups'[e].flags = ups[e].flags /\ ups'[e].list = ups[e].list
              /\ ups'[e].needs_export = ups[e].needs_export /\ ups'[e].heard = ups[e].heard
<1> DEFINE n == Override(cmd[2])
           u == [ups[d] EXCEPT ![cmd[1]] = n]
<1>1. cmd[1] \in {"ignore", "force"} /\ n \in Int
  BY DEF Override
<1>2. ups[d] \in ups_device_t /\ u \in ups_device_t
  BY <1>1, DeviceTypes DEF CInv, TypeOK
<1>3. ups' = [ups EXCEPT ![d] = u] /\ step = "nap"
  BY <1>2 DEF instcmd
<1>4. /\ u.flags = ups[d].flags /\ u.list = ups[d].list /\ u.conn = ups[d].conn
      /\ u.needs_export = ups[d].needs_export /\ u.heard = ups[d].heard
  BY <1>1, <1>2 DEF ups_device_t
<1>5. DeviceType' /\ Flagged' /\ Counted'
  <2>1. UNCHANGED counts
    BY DEF instcmd
  <2> HIDE DEF u
  <2> QED BY <1>2, <1>3, <1>4, <2>1, DeviceStays
<1>6. WorldType' /\ LinkType' /\ ElectionType' /\ ControlType'
  BY TypeParts DEF CInv, instcmd, WorldType, LinkType, ElectionType, ControlType,
                   world, links, election, control
<1>7. Turned' /\ Limited'
  BY <1>3 DEF CInv, Turned, Limited, instcmd, control, links
<1>8. \A e \in Drivers : ups'[e] = IF e = d THEN u ELSE ups[e]
  BY <1>3 DEF CInv, TypeOK
<1> HIDE DEF u
<1> QED BY <1>3, <1>4, <1>5, <1>6, <1>7, <1>8, TypePartsNext DEF CInv

-----------------------------------------------------------------------------
(* handle_connections()                                                    *)

LEMMA ElseStays ==
  ASSUME CInv, UNCHANGED <<world, election, uptime, dstate>>
  PROVE  WorldType' /\ ElectionType'
BY TypeParts DEF CInv, WorldType, ElectionType, world, election

LEMMA Place_At ==
  ASSUME CInv, NEW d \in Drivers, NEW s, At(d, s)
  PROVE  /\ Place(d) = turn /\ turn <= Len(Order) /\ left = 0 /\ step = s
         /\ ups[d] \in ups_device_t
BY Places, TypeParts DEF At, CInv, ControlType, DeviceType

LEMMA Disconnected ==
  ASSUME CInv, NEW d \in Drivers, ups_disconnect(d), Has(d, "ALIVE")
  PROVE  /\ DeviceType' /\ Flagged' /\ Counted' /\ LinkType' /\ ~Has(d, "ALIVE")'
         /\ NextDriver \/ Bye
         /\ \A e \in Drivers \ {d} : ups'[e] = ups[e]
         /\ ups'[d].list = ups[d].list /\ ups'[d].needs_export = ups[d].needs_export
<1> DEFINE u == [ups[d] EXCEPT !.conn = "none", !.flags = {}, !.heard = 0,
                               !.pinged = PINGTIME + 1]
<1>1. ups[d] \in ups_device_t /\ u \in ups_device_t
  BY DeviceTypes DEF CInv, TypeOK
<1>2. ups' = [ups EXCEPT ![d] = u]
  BY DEF ups_disconnect
<1>3. /\ u.conn = "none" /\ u.flags = {} /\ u.list = ups[d].list
      /\ u.needs_export = ups[d].needs_export
  BY <1>1 DEF ups_device_t
<1>4. /\ alive_count' = alive_count + One("ALIVE" \in u.flags) - One(Has(d, "ALIVE"))
      /\ online_count' = online_count + One("ONLINE" \in u.flags) - One(Has(d, "ONLINE"))
  <2>1. alive_count \in Int /\ online_count \in Int
    BY DEF CInv, TypeOK
  <2>2. /\ alive_count' = alive_count - 1
        /\ online_count' = IF Has(d, "ONLINE") THEN online_count - 1 ELSE online_count
    BY DEF ups_disconnect
  <2>3. "ALIVE" \notin u.flags /\ "ONLINE" \notin u.flags
    BY <1>3
  <2> HIDE DEF u
  <2> QED BY <2>1, <2>2, <2>3 DEF One
<1>5. LinkType'
  <2>1. << >> \in Seq(Messages)
    BY EmptySeq
  <2> QED BY <2>1 DEF LinkType, CInv, TypeOK, ups_disconnect
<1>6. ups'[d] = u /\ \A e \in Drivers \ {d} : ups'[e] = ups[e]
  BY <1>2 DEF CInv, TypeOK
<1>7. DeviceType' /\ Flagged' /\ Counted'
  <2> HIDE DEF u
  <2> QED BY <1>1, <1>2, <1>3, <1>4, DeviceStep
<1>8. NextDriver \/ Bye
  BY DEF ups_disconnect, SayGoodbye, Bye
<1> HIDE DEF u
<1> QED BY <1>3, <1>5, <1>6, <1>7, <1>8 DEF Has

LEMMA CoreConnect ==
  ASSUME CInv, NEW d \in Drivers, ups_connect(d)
  PROVE  /\ CInv' /\ ups' = [ups EXCEPT ![d] = Connect(ups[d])]
         /\ Connect(ups[d]).heard = 0
<1> DEFINE u == Connect(ups[d])
<1>1. ups[d] \in ups_device_t /\ u \in ups_device_t
  BY DeviceTypes DEF CInv, TypeOK
<1>2. ups' = [ups EXCEPT ![d] = u] /\ ~Has(d, "ALIVE") /\ UNCHANGED online_count
  BY DEF ups_connect
<1>3. u.conn = "open" /\ u.flags = {"ALIVE"} /\ u.list = "none" /\ u.heard = 0
  BY <1>1 DEF Connect, ups_device_t
<1>4. ~Has(d, "ONLINE")
  BY <1>2 DEF CInv, Flagged
<1>5. /\ alive_count' = alive_count + One("ALIVE" \in u.flags) - One(Has(d, "ALIVE"))
      /\ online_count' = online_count + One("ONLINE" \in u.flags) - One(Has(d, "ONLINE"))
  <2>1. alive_count' = alive_count + 1 /\ alive_count \in Int /\ online_count \in Int
    BY DEF ups_connect, CInv, TypeOK
  <2> QED BY <1>2, <1>3, <1>4, <2>1 DEF One
<1>6. LinkType'
  <2>1. queue[d] \in 0..BACKLOG /\ queue[d] < BACKLOG /\ BACKLOG \in Nat
    BY Constant DEF CInv, TypeOK, ups_connect
  <2>2. queue[d] + 1 \in 0..BACKLOG
    BY <2>1
  <2> QED BY <2>2 DEF LinkType, CInv, TypeOK, ups_connect
<1>7. DeviceType' /\ Flagged' /\ Counted'
  <2> HIDE DEF u
  <2> QED BY <1>1, <1>2, <1>3, <1>5, DeviceStep
<1>8. Has(d, "ALIVE")'
  BY <1>2, <1>3 DEF Has, CInv, TypeOK
<1>9. ControlType' /\ Turned' /\ Limited'
  BY <1>8, ToRead DEF ups_connect
<1>10. WorldType' /\ ElectionType'
  BY ElseStays DEF ups_connect
<1> QED BY <1>2, <1>3, <1>6, <1>7, <1>9, <1>10, TypePartsNext DEF CInv

LEMMA CoreStaysDead ==
  ASSUME CInv, NEW d \in Drivers, StaysDead(d)
  PROVE  /\ CInv'
         /\ \A e \in Drivers :
              /\ ups'[e].flags = ups[e].flags /\ ups'[e].list = ups[e].list
              /\ ups'[e].needs_export = ups[e].needs_export /\ ups'[e].heard = ups[e].heard
<1>1. ups[d] \in ups_device_t /\ ConnectFails(ups[d], waited) \in ups_device_t
  <2>1. waited \in 0..COOLOFFTIME + 1
    BY Constant DEF StaysDead, At, CInv, TypeOK, Limited
  <2> QED BY <2>1, DeviceTypes DEF CInv, TypeOK
<1>2. UNCHANGED ups \/ ups' = [ups EXCEPT ![d] = ConnectFails(ups[d], waited)]
  BY DEF StaysDead
<1>3. /\ ConnectFails(ups[d], waited).flags = ups[d].flags /\ ConnectFails(ups[d], waited).list = ups[d].list
      /\ ConnectFails(ups[d], waited).conn = ups[d].conn
      /\ ConnectFails(ups[d], waited).needs_export = ups[d].needs_export
      /\ ConnectFails(ups[d], waited).heard = ups[d].heard
  BY <1>1 DEF ConnectFails, ups_device_t
<1>4. UNCHANGED counts /\ UNCHANGED links
  BY DEF StaysDead
<1>5. DeviceType' /\ Flagged' /\ Counted'
  BY <1>1, <1>2, <1>3, <1>4, DeviceStays, DevicesStay
<1>6. LinkType'
  BY <1>4 DEF LinkType, CInv, TypeOK, links
<1>7. ControlType' /\ Turned' /\ Limited'
  BY ToNext, Place_At DEF StaysDead
<1>8. WorldType' /\ ElectionType'
  BY ElseStays DEF StaysDead
<1>9. \A e \in Drivers : ups'[e] = ups[e] \/ (e = d /\ ups'[e] = ConnectFails(ups[d], waited))
  BY <1>2 DEF CInv, TypeOK
<1> QED BY <1>3, <1>5, <1>6, <1>7, <1>8, <1>9, TypePartsNext DEF CInv

LEMMA CoreAlive ==
  ASSUME CInv, NEW d \in Drivers, is_ups_alive(d)
  PROVE  /\ CInv'
         /\ \A e \in Drivers :
              /\ ups'[e].flags = ups[e].flags /\ ups'[e].list = ups[e].list
              /\ ups'[e].needs_export = ups[e].needs_export /\ ups'[e].heard = ups[e].heard
<1> DEFINE u == [ups[d] EXCEPT !.pinged = 0]
<1>1. ups[d] \in ups_device_t /\ u \in ups_device_t
  BY DeviceTypes DEF CInv, TypeOK
<1>2. UNCHANGED ups \/ ups' = [ups EXCEPT ![d] = u]
  BY DEF is_ups_alive
<1>3. /\ u.flags = ups[d].flags /\ u.list = ups[d].list /\ u.conn = ups[d].conn
      /\ u.needs_export = ups[d].needs_export /\ u.heard = ups[d].heard
  BY <1>1 DEF ups_device_t
<1>4. UNCHANGED counts
  BY DEF is_ups_alive
<1>5. DeviceType' /\ Flagged' /\ Counted'
  <2> HIDE DEF u
  <2> QED BY <1>1, <1>2, <1>3, <1>4, DeviceStays, DevicesStay
<1>6. LinkType'
  <2>1. UNCHANGED <<toF, queue>> /\ (UNCHANGED asked \/ asked' = [asked EXCEPT ![d] = @ \cup {"PING"}])
    BY DEF is_ups_alive
  <2>2. asked[d] \cup {"PING"} \in SUBSET {"DUMPALL", "PING"} /\ LinkType
    BY TypeParts DEF CInv, LinkType
  <2>3. asked' \in [Drivers -> SUBSET {"DUMPALL", "PING"}]
    BY <2>1, <2>2 DEF LinkType
  <2> QED BY <2>1, <2>2, <2>3 DEF LinkType
<1>7. \A e \in Drivers : ups'[e] = ups[e] \/ (e = d /\ ups'[e] = u)
  BY <1>2 DEF CInv, TypeOK
<1>8. Has(d, "ALIVE")'
  <2>1. Has(d, "ALIVE")
    BY DEF is_ups_alive
  <2> HIDE DEF u
  <2> QED BY <1>3, <1>7, <2>1 DEF Has
<1>9. ControlType' /\ Turned' /\ Limited'
  BY <1>8, ToRead DEF is_ups_alive
<1>10. WorldType' /\ ElectionType'
  BY ElseStays DEF is_ups_alive
<1> HIDE DEF u
<1> QED BY <1>3, <1>5, <1>6, <1>7, <1>9, <1>10, TypePartsNext DEF CInv

\* DeclaredDead and ReadFails: the connection is over, and the goodbye or the next
\* driver follows.
LEMMA CoreDisconnect ==
  ASSUME CInv, NEW d \in Drivers, DeclaredDead(d) \/ ReadFails(d)
  PROVE  /\ CInv' /\ (NextDriver \/ Bye) /\ Place(d) = turn /\ ~Has(d, "ALIVE")'
         /\ step \in {"check", "read"} /\ UNCHANGED <<election, dstate>>
         /\ \A e \in Drivers \ {d} : ups'[e] = ups[e]
         /\ ups'[d].list = ups[d].list /\ ups'[d].needs_export = ups[d].needs_export
<1>1. At(d, "check") \/ At(d, "read")
  BY DEF DeclaredDead, ReadFails
<1>2. Place(d) = turn /\ turn <= Len(Order) /\ step \in {"check", "read"} /\ d = Order[turn]
  BY <1>1, Place_At DEF At
<1>3. ups_disconnect(d) /\ UNCHANGED <<world, election, uptime, dstate>>
  BY DEF DeclaredDead, ReadFails
<1>4. Has(d, "ALIVE")
  BY DEF DeclaredDead, ReadFails, At, CInv, Turned
<1>5. /\ DeviceType' /\ Flagged' /\ Counted' /\ LinkType' /\ ~Has(d, "ALIVE")'
      /\ \A e \in Drivers \ {d} : ups'[e] = ups[e]
      /\ ups'[d].list = ups[d].list /\ ups'[d].needs_export = ups[d].needs_export
      /\ NextDriver \/ Bye
  BY <1>3, <1>4, Disconnected
<1>6. ControlType' /\ Turned' /\ Limited'
  <2>1. Bye => ~Has(Order[turn], "ALIVE")'
    BY <1>2, <1>5 DEF Bye, Has
  <2> QED BY <1>2, <1>5, <2>1, ToNext, ToBye
<1>7. WorldType' /\ ElectionType'
  BY <1>3, ElseStays
<1> QED BY <1>2, <1>3, <1>5, <1>6, <1>7, TypePartsNext DEF CInv

LEMMA CoreReading ==
  ASSUME CInv, NEW d \in Drivers, ups_read_data(d) \/ ReadsNothing(d) \/ upsdrvquery_close(d)
  PROVE  CInv'
<1>1. DeviceType' /\ Flagged' /\ Counted'
  BY DevicesStay DEF ups_read_data, ReadsNothing, upsdrvquery_close
<1>2. WorldType' /\ ElectionType' /\ LinkType'
  BY ElseStays DEF ups_read_data, ReadsNothing, upsdrvquery_close, LinkType, CInv, TypeOK, links
<1>3. CASE ups_read_data(d)
  <2>1. ups[d] \in ups_device_t /\ d = Order[turn] /\ step = "read" /\ turn <= Len(Order)
    BY <1>3 DEF ups_read_data, At, CInv, TypeOK
  <2>2. Len(toF[d]) \in Nat
    BY LenProperties DEF CInv, TypeOK
  <2>3. left' \in 1..Len(toF[d])
    BY <1>3 DEF ups_read_data, Buffer
  <2>4. ControlType' /\ Turned' /\ Limited'
    BY <1>3, <2>1, <2>2, <2>3
       DEF ups_read_data, CInv, TypeOK, ControlType, Turned, Limited, Has, links
  <2> QED BY <1>1, <1>2, <2>4, TypePartsNext DEF CInv
<1>4. CASE ReadsNothing(d)
  <2>1. ControlType' /\ Turned' /\ Limited'
    BY <1>4, ToNext, Place_At DEF ReadsNothing
  <2> QED BY <1>1, <1>2, <2>1, TypePartsNext DEF CInv
<1>5. CASE upsdrvquery_close(d)
  <2>1. ControlType' /\ Turned' /\ Limited'
    BY <1>5, ToNext, Place_At DEF upsdrvquery_close
  <2> QED BY <1>1, <1>2, <2>1, TypePartsNext DEF CInv
<1> QED BY <1>3, <1>4, <1>5

-----------------------------------------------------------------------------
(* The messages, the election and the time.                                *)

\* The next message, and what is known of the driver then.
Takes(d, m, u) ==
  /\ d = Order[turn] /\ Place(d) = turn /\ turn <= Len(Order) /\ Has(d, "ALIVE")
  /\ ups' = [ups EXCEPT ![d] = u] /\ toF' = [toF EXCEPT ![d] = Tail(@)]
  /\ toF[d] # << >> /\ left <= Len(toF[d]) /\ left > 0 /\ step = "read"
  /\ online_count' = online_count + One("ONLINE" \in u.flags) - One(Has(d, "ONLINE"))
  /\ dstate' = IF u.list = ups[d].list THEN dstate ELSE Unpublished(d, u.list)
  /\ u.heard = 0 /\ u.flags = Parsed(d, m).flags /\ u.conn = Parsed(d, m).conn
  /\ u.list = Parsed(d, m).list /\ u.needs_export = Parsed(d, m).needs_export

LEMMA ParseStep ==
  ASSUME CInv, ups_parse_protocol
  PROVE  \E d \in Drivers, m \in Messages, u \in ups_device_t : Takes(d, m, u)
<1> DEFINE d == Order[turn]
           m == Head(toF[d])
           p == Parsed(d, m)
           u == [p EXCEPT !.heard = 0]
<1>1. left > 0 /\ step = "read" /\ turn <= Len(Order) /\ left <= Len(toF[d]) /\ Has(d, "ALIVE")
  BY DEF ups_parse_protocol, CInv, Turned
<1>2. d \in Drivers /\ Place(d) = turn
  BY <1>1, TurnPlace, TypeParts DEF CInv
<1>3. toF[d] \in Seq(Messages) /\ left \in Nat
  BY <1>2 DEF CInv, TypeOK
<1>4. toF[d] # << >>
  <2>1. Len(<< >>) = 0
    BY EmptySeq
  <2>2. Len(toF[d]) # 0
    BY <1>1, <1>3
  <2> QED BY <2>1, <2>2
<1>5. m \in Messages
  BY <1>3, <1>4, HeadTailProperties
<1>6. p \in ups_device_t
  <2> HIDE DEF m, d
  <2> QED BY <1>2, <1>5, ParsedType DEF CInv
<1>7. u \in ups_device_t
  <2> HIDE DEF p
  <2> QED BY <1>6, DeviceTypes
<1>8. /\ u.heard = 0 /\ u.flags = p.flags /\ u.conn = p.conn
      /\ u.list = p.list /\ u.needs_export = p.needs_export
  <2> HIDE DEF p
  <2> QED BY <1>6 DEF ups_device_t
<1>9. /\ ups' = [ups EXCEPT ![d] = u] /\ toF' = [toF EXCEPT ![d] = Tail(@)]
      /\ online_count' = online_count + One("ONLINE" \in p.flags) - One(Has(d, "ONLINE"))
      /\ dstate' = IF p.list = ups[d].list THEN dstate ELSE Unpublished(d, p.list)
  BY DEF ups_parse_protocol
<1> HIDE DEF u, p, m, d
<1>10. d = Order[turn] /\ p = Parsed(d, m)
  BY DEF p, m, d
<1>11. Takes(d, m, u)
  BY <1>1, <1>2, <1>4, <1>8, <1>9, <1>10 DEF Takes
<1> QED BY <1>2, <1>5, <1>7, <1>11

LEMMA UnpublishedType ==
  ASSUME TypeOK, NEW d \in Drivers, NEW r
  PROVE  LET e == Unpublished(d, r)
             gone_ == DOMAIN Vars(d, ups[d].list) \ DOMAIN Vars(d, r)
         IN /\ e \in dstate_t /\ e.status = dstate.status
            /\ primary # d => e = dstate
            /\ primary = d => DOMAIN e.vars = DOMAIN dstate.vars \ gone_
<1> DEFINE S == DOMAIN Vars(d, ups[d].list) \ DOMAIN Vars(d, r)
           w == Without(dstate.vars, S)
<1>1. dstate \in dstate_t /\ dstate.vars \in VarSets
  BY DstateType DEF TypeOK
<1>2. w \in VarSets /\ DOMAIN w = DOMAIN dstate.vars \ S
  <2> HIDE DEF S
  <2> QED BY <1>1, WithoutVars
<1>3. Unpublished(d, r) = IF primary = d THEN [dstate EXCEPT !.vars = w] ELSE dstate
  BY DEF Unpublished
<1>4. [dstate EXCEPT !.vars = w] \in dstate_t /\ [dstate EXCEPT !.vars = w].vars = w
      /\ [dstate EXCEPT !.vars = w].status = dstate.status
  <2> HIDE DEF w
  <2> QED BY <1>1, <1>2, DstateType
<1> HIDE DEF w
<1>5. CASE primary = d
  BY <1>2, <1>3, <1>4, <1>5
<1>6. CASE primary # d
  BY <1>1, <1>3, <1>6
<1> QED BY <1>5, <1>6

LEMMA CoreParse ==
  ASSUME CInv, ups_parse_protocol
  PROVE  CInv'
<1>1. PICK d \in Drivers, m \in Messages, u \in ups_device_t : Takes(d, m, u)
  BY ParseStep
<1>0. TypeOK /\ Turned /\ Limited /\ Flagged
  BY DEF CInv
<1>2. /\ "ALIVE" \in u.flags /\ u.conn = ups[d].conn
      /\ "ONLINE" \in u.flags <=> u.conn # "none" /\ u.list = "OL"
  BY <1>0, <1>1, ParsedType DEF Flagged, Takes
<1>3. ups[d].conn # "none" /\ Has(d, "ALIVE")
  BY <1>0, <1>1 DEF Flagged, Takes
<1>4. alive_count' = alive_count + One("ALIVE" \in u.flags) - One(Has(d, "ALIVE"))
  <2>1. UNCHANGED alive_count /\ alive_count \in Int
    BY <1>0 DEF ups_parse_protocol, TypeOK
  <2> QED BY <1>2, <1>3, <2>1 DEF One
<1>5. DeviceType' /\ Flagged' /\ Counted'
  BY <1>1, <1>2, <1>3, <1>4, DeviceStep DEF Takes
<1>6. toF[d] \in Seq(Messages)
  BY DEF CInv, TypeOK
<1>7. Tail(toF[d]) \in Seq(Messages) /\ Len(Tail(toF[d])) = Len(toF[d]) - 1
      /\ Len(toF[d]) \in Nat
  BY <1>1, <1>6, HeadTailProperties, LenProperties DEF Takes
<1>8. LinkType' /\ toF'[d] = Tail(toF[d])
  <2>1. LinkType /\ UNCHANGED <<asked, queue>> /\ toF' = [toF EXCEPT ![d] = Tail(@)]
    BY <1>0, <1>1, TypeParts DEF ups_parse_protocol, Takes
  <2> QED BY <1>7, <2>1 DEF LinkType
<1>9. WorldType'
  BY TypeParts DEF CInv, WorldType, ups_parse_protocol, world
<1>10. ElectionType'
  <2>1. dstate' \in dstate_t
    BY <1>0, <1>1, UnpublishedType DEF TypeOK, Takes
  <2> QED BY <2>1, TypeParts DEF CInv, ElectionType, ups_parse_protocol, election
<1>11. ControlType' /\ Turned' /\ Limited'
  <2>1. CASE left = 1
    BY <1>1, <2>1, ToNext DEF ups_parse_protocol, Takes
  <2>2. CASE left # 1
    <3>1. left' = left - 1 /\ UNCHANGED <<step, turn, waited, since, held>>
      BY <2>2 DEF ups_parse_protocol
    <3>2. ControlType
      BY TypeParts DEF CInv
    <3>3. ControlType'
      BY <1>1, <3>1, <3>2 DEF ControlType, Takes
    <3>4. "ALIVE" \in ups'[Order[turn']].flags
      BY <1>0, <1>1, <1>2, <3>1 DEF TypeOK, Takes
    <3>5. left' <= Len(toF'[Order[turn']])
      <4>1. Order[turn'] = d /\ left <= Len(toF[d]) /\ left \in Nat
        BY <1>1, <3>1, <3>2 DEF ControlType, Takes
      <4>2. left - 1 <= Len(Tail(toF[d]))
        BY <1>7, <4>1
      <4> QED BY <1>8, <3>1, <4>1, <4>2
    <3> QED BY <1>0, <1>1, <3>1, <3>3, <3>4, <3>5 DEF Turned, Limited, Has, Takes
  <2> QED BY <2>1, <2>2
<1> QED BY <1>5, <1>8, <1>9, <1>10, <1>11, TypePartsNext DEF CInv

\* All of an election but what it decides.
LEMMA CoreNap ==
  ASSUME CInv, Napping, UNCHANGED <<world, links>>, ElectionType',
         DeviceType', Flagged', Counted'
  PROVE  CInv'
<1>1. WorldType' /\ LinkType'
  BY TypeParts DEF CInv, WorldType, LinkType, world, links
<1>2. ControlType' /\ Turned' /\ Limited'
  BY TypeParts, Constant DEF CInv, Napping, ControlType, Turned, Limited
<1> QED BY <1>1, <1>2, TypePartsNext DEF CInv

LEMMA SwitchedType ==
  ASSUME CInv, NEW c \in Drivers
  PROVE  Switched(c) \in dstate_t
<1>1. TypeOK /\ primary \in Drivers \cup {None} /\ gone \in BOOLEAN /\ dstate \in dstate_t
      /\ ups[c].force_export \in BOOLEAN
  BY DeviceFields DEF CInv, TypeOK
<1>2. Cleaned(dstate, c) \in dstate_t
  BY <1>1, CleanedType
<1>3. primary # None => Cleaned(dstate, primary) \in dstate_t
  BY <1>1, CleanedType
<1>4. \A ds \in dstate_t : \A all \in BOOLEAN : Exported(ds, c, all) \in dstate_t
  BY <1>1, ExportedType
<1>5. CASE primary = None
  BY <1>1, <1>4, <1>5 DEF Switched
<1>6. CASE primary = c /\ gone
  BY <1>2, <1>4, <1>6 DEF Switched
<1>7. CASE primary = c /\ ~gone
  BY <1>1, <1>4, <1>7 DEF Switched
<1>8. CASE primary \notin {None, c}
  BY <1>3, <1>4, <1>8 DEF Switched
<1> QED BY <1>5, <1>6, <1>7, <1>8

LEMMA GoneTimes ==
  /\ GONETIME \in Nat /\ Unset \in -1..GONETIME + 1
  /\ \A t \in 0..GONETIME + 1 : t \in -1..GONETIME + 1 /\ t # Unset
BY Constant DEF Unset

LEMMA StaleType ==
  ASSUME NEW ds \in dstate_t, NEW b \in BOOLEAN
  PROVE  /\ [ds EXCEPT !.stale = b] \in dstate_t
         /\ [ds EXCEPT !.stale = b].status = ds.status
         /\ [ds EXCEPT !.stale = b].vars = ds.vars
BY DstateType

LEMMA StatusType ==
  ASSUME NEW ds \in dstate_t, NEW b \in BOOLEAN,
         NEW S \in SUBSET {"WAIT", "OL", "OB", "ALARM", "FSD"}
  PROVE  /\ [ds EXCEPT !.status = S, !.stale = b] \in dstate_t
         /\ [ds EXCEPT !.status = S, !.stale = b].vars = ds.vars
BY DstateType

LEMMA CoreCandidate ==
  ASSUME CInv, NEW c \in Drivers, HasCandidate(c)
  PROVE  /\ CInv' /\ Has(c, "ALIVE")
         /\ ups' = [ups EXCEPT ![c] = [ups[c] EXCEPT !.needs_export = FALSE,
                                                     !.force_export = FALSE]]
         /\ [ups[c] EXCEPT !.needs_export = FALSE, !.force_export = FALSE].list = ups[c].list
         /\ [ups[c] EXCEPT !.needs_export = FALSE, !.force_export = FALSE].flags = ups[c].flags
         /\ [ups[c] EXCEPT !.needs_export = FALSE, !.force_export = FALSE].heard = ups[c].heard
         /\ ~[ups[c] EXCEPT !.needs_export = FALSE, !.force_export = FALSE].needs_export
<1> DEFINE u == [ups[c] EXCEPT !.needs_export = FALSE, !.force_export = FALSE]
<1>1. ups[c] \in ups_device_t /\ u \in ups_device_t /\ TypeOK
  BY DeviceTypes DEF CInv, TypeOK
<1>2. ups' = [ups EXCEPT ![c] = u] /\ UNCHANGED counts
  BY <1>1 DEF HasCandidate
<1>3. /\ u.flags = ups[c].flags /\ u.list = ups[c].list /\ u.conn = ups[c].conn
      /\ u.heard = ups[c].heard /\ ~u.needs_export
  BY <1>1 DEF ups_device_t
<1>4. DeviceType' /\ Flagged' /\ Counted'
  <2> HIDE DEF u
  <2> QED BY <1>1, <1>2, <1>3, DeviceStays
<1>5. dstate' \in dstate_t
  <2>1. dstate' = [Switched(c) EXCEPT !.stale = ~Has(c, "DATA_OK")]
    BY DEF HasCandidate
  <2> DEFINE b == ~Has(c, "DATA_OK")
  <2>2. b \in BOOLEAN /\ Switched(c) \in dstate_t
    BY SwitchedType DEF Has
  <2> HIDE DEF b
  <2>3. [Switched(c) EXCEPT !.stale = b] \in dstate_t
    BY <2>2, StaleType
  <2> QED BY <2>1, <2>3 DEF b
<1>6. ElectionType'
  <2>1. /\ init_elapsed' = TRUE /\ absent' = Unset /\ gone' = FALSE /\ primary' = c
        /\ gone_time' = IF gone THEN Unset ELSE gone_time
        /\ UNCHANGED uptime
    BY DEF HasCandidate
  <2>2. absent' \in -1..GONETIME + 1 /\ gone_time' \in -1..GONETIME + 1
    BY <1>1, <2>1, GoneTimes DEF TypeOK
  <2> QED BY <1>1, <1>5, <2>1, <2>2 DEF ElectionType, TypeOK
<1>7. CInv'
  BY <1>4, <1>6, CoreNap DEF HasCandidate
<1>8. Has(c, "ALIVE")
  BY <1>1, Candidate DEF HasCandidate, Elects
<1> HIDE DEF u
<1> QED BY <1>2, <1>3, <1>7, <1>8 DEF u

LEMMA CoreWaits ==
  ASSUME CInv, handle_init_time
  PROVE  CInv' /\ UNCHANGED ups /\ dstate'.status = dstate.status /\ dstate'.vars = dstate.vars
<1>1. dstate' \in dstate_t /\ dstate'.status = dstate.status /\ dstate'.vars = dstate.vars
  BY StaleType DEF handle_init_time, CInv, TypeOK
<1>2. DeviceType' /\ Flagged' /\ Counted' /\ UNCHANGED ups
  BY DevicesStay DEF handle_init_time
<1>3. ElectionType'
  BY <1>1, TypeParts DEF CInv, ElectionType, handle_init_time, election
<1>4. CInv'
  BY <1>2, <1>3, CoreNap DEF handle_init_time
<1> QED BY <1>1, <1>2, <1>4

\* What is published without a primary.
LEMMA FallbackType ==
  ASSUME CInv
  PROVE  /\ Demoted \in dstate_t /\ Fallback \in dstate_t
         /\ Fallback.vars = Demoted.vars
         /\ FSDMODE = 0 => Fallback.status = dstate.status /\ Demoted = dstate
         /\ Demoted.status = dstate.status \/ Demoted.status = {}
<1>1. TypeOK /\ dstate \in dstate_t /\ primary \in Drivers \cup {None}
  BY DEF CInv, TypeOK
<1>2. Demoted \in dstate_t /\ (Demoted.status = dstate.status \/ Demoted.status = {})
      /\ (FSDMODE = 0 => Demoted = dstate)
  BY <1>1, CleanedType DEF Demoted
<1>3. CASE FSDMODE = 0
  <2>1. Fallback = [Demoted EXCEPT !.stale = TRUE]
    BY <1>3 DEF Fallback
  <2>2. /\ [Demoted EXCEPT !.stale = TRUE] \in dstate_t
        /\ [Demoted EXCEPT !.stale = TRUE].status = Demoted.status
        /\ [Demoted EXCEPT !.stale = TRUE].vars = Demoted.vars
    BY <1>2, StaleType
  <2> QED BY <1>2, <1>3, <2>1, <2>2
<1>4. CASE FSDMODE \in {1, 2}
  <2> DEFINE S == Demoted.status \cup IF FSDMODE = 1 THEN {"ALARM"} ELSE {"ALARM", "FSD"}
             b == IF FSDMODE = 1 THEN Elapsed >= NOPRIMARYTIME + ALARMTIME ELSE FALSE
  <2>1. Fallback = [Demoted EXCEPT !.status = S, !.stale = b]
    <3>1. CASE FSDMODE = 1
      BY <3>1 DEF Fallback
    <3>2. CASE FSDMODE = 2
      BY <3>2 DEF Fallback
    <3> QED BY <1>4, <3>1, <3>2
  <2>2. S \in SUBSET {"WAIT", "OL", "OB", "ALARM", "FSD"} /\ b \in BOOLEAN
    <3>1. Demoted.status \subseteq {"WAIT", "OL", "OB", "ALARM", "FSD"}
      BY <1>2, DstateType
    <3>2. (Elapsed >= NOPRIMARYTIME + ALARMTIME) \in BOOLEAN
      OBVIOUS
    <3>3. b \in BOOLEAN
      BY <3>2
    <3> QED BY <3>1, <3>3
  <2> HIDE DEF S, b
  <2>3. Fallback \in dstate_t /\ Fallback.vars = Demoted.vars
    BY <1>2, <2>1, <2>2, StatusType
  <2> QED BY <1>2, <1>4, <2>3
<1> QED BY <1>2, <1>3, <1>4

LEMMA ElapsedType ==
  ASSUME TypeOK
  PROVE  /\ Elapsed \in 0..GONETIME + 1 /\ Missed \in 0..GONETIME + 1
         /\ gone_time # Unset => Elapsed = gone_time
         /\ absent # Unset => Missed = absent
         /\ absent = Unset => Missed = 0
BY Constant DEF Elapsed, Missed, Unset, TypeOK

LEMMA CoreAbsent ==
  ASSUME CInv, handle_no_primaries
  PROVE  CInv'
<1>1. TypeOK
  BY DEF CInv
<1>2. DeviceType' /\ Flagged' /\ Counted'
  BY DevicesStay DEF handle_no_primaries
<1>3. dstate' \in dstate_t
  BY FallbackType, StaleType DEF handle_no_primaries
<1>4. gone_time' \in -1..GONETIME + 1 /\ absent' \in -1..GONETIME + 1
  BY <1>1, ElapsedType, GoneTimes DEF handle_no_primaries
<1>5. ElectionType'
  <2>1. primary' \in Drivers \cup {None} /\ gone' \in BOOLEAN /\ init_elapsed' \in BOOLEAN
        /\ UNCHANGED uptime
    BY <1>1 DEF handle_no_primaries, TypeOK
  <2> QED BY <1>1, <1>3, <1>4, <2>1 DEF ElectionType, TypeOK
<1> QED BY <1>2, <1>5, CoreNap DEF handle_no_primaries

LEMMA CoreEndNap ==
  ASSUME CInv, EndNap
  PROVE  CInv'
<1>1. DeviceType' /\ Flagged' /\ Counted'
  BY DevicesStay DEF EndNap
<1>2. WorldType' /\ LinkType' /\ ElectionType'
  BY TypeParts DEF CInv, EndNap, WorldType, LinkType, ElectionType, world, links, election
<1>3. ControlType' /\ Turned' /\ Limited'
  <2>1. ControlType /\ Turned /\ Limited
    BY TypeParts DEF CInv
  <2>2. 0 \in 0..POLLINTERVAL /\ 0 <= COOLOFFTIME + 1
    BY Constant
  <2> QED BY <2>1, <2>2 DEF EndNap, ControlType, Turned, Limited
<1> QED BY <1>1, <1>2, <1>3, TypePartsNext DEF CInv

LEMMA CoreTick ==
  ASSUME CInv, Tick
  PROVE  CInv'
<1>1. \A d \in Drivers : /\ ups'[d] = Aged(ups[d]) /\ ups[d] \in ups_device_t
                         /\ ups'[d] \in ups_device_t
                         /\ ups'[d].conn = ups[d].conn /\ ups'[d].flags = ups[d].flags
                         /\ ups'[d].list = ups[d].list
  BY AgedType DEF CInv, TypeOK, Tick
<1>2. DeviceType'
  BY <1>1, TypeParts DEF CInv, DeviceType, Tick, counts
<1>3. Flagged' /\ Counted'
  <2>1. Flagged'
    BY <1>1 DEF CInv, Flagged, Has
  <2>2. /\ {d \in Drivers : ups'[d].conn # "none"} = {d \in Drivers : ups[d].conn # "none"}
        /\ {d \in Drivers : ups'[d].conn # "none" /\ ups'[d].list = "OL"} =
             {d \in Drivers : ups[d].conn # "none" /\ ups[d].list = "OL"}
    BY <1>1
  <2>3. UNCHANGED <<alive_count, online_count>>
    BY DEF Tick, counts
  <2> QED BY <2>1, <2>2, <2>3 DEF CInv, Counted
<1>4. WorldType' /\ LinkType'
  BY TypeParts DEF CInv, WorldType, LinkType, world, links, Tick
<1>5. ElectionType'
  <2>1. gone_time' \in -1..GONETIME + 1 /\ absent' \in -1..GONETIME + 1
    BY OlderType, GoneTimes DEF CInv, TypeOK, Tick
  <2>2. uptime' \in 0..INITTIME + 1
    <3>1. \A t \in 0..INITTIME + 1 : Older(t, INITTIME) \in 0..INITTIME + 1
      BY Constant DEF Older, Unset
    <3> QED BY <3>1 DEF CInv, TypeOK, Tick
  <2> QED BY <2>1, <2>2 DEF CInv, TypeOK, Tick, ElectionType
<1>6. ControlType' /\ Limited'
  <2>1. /\ waited \in Nat /\ held \in BOOLEAN /\ since \in 0..POLLINTERVAL
        /\ step \in {"check", "read", "bye", "nap"} /\ Limited /\ ControlType
    BY TypeParts DEF CInv, TypeOK
  <2>2. /\ UNCHANGED <<step, turn, left>> /\ held' = (held \/ step = "check")
        /\ since' = IF since < POLLINTERVAL THEN since + 1 ELSE since
        /\ step = "check" => waited' = Older(waited, COOLOFFTIME)
        /\ step = "read" => waited' = waited + 1 /\ waited < READTIMEOUT
        /\ step = "bye" => waited' = waited + 1 /\ waited < LOGOUTTIME
        /\ step = "nap" => waited' = waited
    <3>1. /\ step = "read" => waited < READTIMEOUT
          /\ step = "bye" => waited < LOGOUTTIME
      BY DEF Tick, Blocked, ConnectWaits, ReadWaits, At
    <3> QED BY <2>1, <3>1 DEF Tick
  <2>3. step = "check" => waited' \in 0..COOLOFFTIME + 1
    BY <2>1, <2>2, OlderType, Constant DEF Limited, Older, Unset
  <2>4. waited' \in Nat /\ since' \in 0..POLLINTERVAL /\ held' \in BOOLEAN
    <3>1. since' \in 0..POLLINTERVAL
      BY <2>1, <2>2, Constant
    <3>2. waited' \in Nat
      BY <2>1, <2>2, <2>3, Constant
    <3>3. held' \in BOOLEAN
      BY <2>2
    <3> QED BY <3>1, <3>2, <3>3
  <2>5. ControlType'
    BY <2>1, <2>2, <2>4 DEF ControlType
  <2>6. Limited'
    <3>1. step = "check" => waited' <= COOLOFFTIME + 1
      BY <2>3, Constant
    <3>5. step = "check" => held'
      BY <2>2, Zenon
    <3>2. step = "read" => waited' <= READTIMEOUT
      BY <2>1, <2>2, Constant
    <3>3. step = "bye" => waited' <= LOGOUTTIME
      BY <2>1, <2>2, Constant
    <3>4. step = "nap" => waited' = 0
      BY <2>1, <2>2 DEF Limited
    <3> QED BY <2>2, <3>1, <3>2, <3>3, <3>4, <3>5 DEF Limited
  <2> QED BY <2>5, <2>6
<1>7. Turned'
  <2>1. UNCHANGED <<step, turn, left, toF>>
    BY DEF Tick, links
  <2>2. step \in {"read", "bye"} => Order[turn] \in Drivers
    BY TurnPlace, TypeParts DEF CInv, Turned
  <2> QED BY <1>1, <2>1, <2>2 DEF CInv, Turned, Has
<1> QED BY <1>2, <1>3, <1>4, <1>5, <1>6, <1>7, TypePartsNext DEF CInv

-----------------------------------------------------------------------------
(* The core of the invariant, and the first theorems.                      *)

LEMMA CoreInit == Init => CInv
<1> SUFFICES ASSUME Init PROVE CInv
  OBVIOUS
<1>1. NewDevice \in ups_device_t
  <2>1. /\ PINGTIME + 1 \in 0..PINGTIME + 1 /\ COOLOFFTIME + 1 \in 0..COOLOFFTIME + 1
        /\ 0 \in 0..SILENCE + 1 /\ 0 \in 0..MAXCONNFAILS + 1
    BY Constant
  <2> QED BY <2>1 DEF NewDevice, ups_device_t
<1>2. Connect(NewDevice) \in ups_device_t /\ ConnectFails(NewDevice, 0) \in ups_device_t
  <2>1. 0 \in 0..COOLOFFTIME + 1
    BY Constant
  <2> QED BY <1>1, <2>1, DeviceTypes
<1>3. /\ Connect(NewDevice).conn = "open" /\ Connect(NewDevice).flags = {"ALIVE"}
      /\ Connect(NewDevice).list = "none"
      /\ ConnectFails(NewDevice, 0).conn = "none" /\ ConnectFails(NewDevice, 0).flags = {}
      /\ ConnectFails(NewDevice, 0).list = "none"
  BY DEF Connect, ConnectFails, NewDevice
<1>4. drv \in [Drivers -> {"up", "down"}]
      /\ \A d \in Drivers : ups[d] = IF drv[d] = "up" THEN Connect(NewDevice)
                                                      ELSE ConnectFails(NewDevice, 0)
  BY DEF Init
<1>5. WorldType
  <2>1. /\ drv \in [Drivers -> {"up", "down"}] /\ does \in Habits
        /\ fresh = [d \in Drivers |-> TRUE]
        /\ report \in [Drivers -> AllReports]
        /\ \A d \in Drivers : report[d] \in IF drv[d] = "up" THEN Reports[d] ELSE {Default(d)}
    BY DEF Init
  <2>2. \A d \in Drivers : report[d] \in {"OL", "OB"}
    BY <2>1, ReportsAre
  <2> QED BY <2>1, <2>2 DEF WorldType
<1>6. LinkType
  <2>1. << >> \in Seq(Messages)
    BY EmptySeq
  <2>2. 0 \in 0..BACKLOG /\ 1 \in 0..BACKLOG
    OBVIOUS
  <2> QED BY <2>1, <2>2 DEF Init, LinkType
<1>7. Flagged
  BY <1>3, <1>4 DEF Flagged, Has
<1>8. Counted
  <2>1. {d \in Drivers : ups[d].conn # "none"} = {d \in Drivers : drv[d] = "up"}
    BY <1>3, <1>4
  <2>2. {d \in Drivers : ups[d].conn # "none" /\ ups[d].list = "OL"} = {}
    BY <1>3, <1>4
  <2>3. Cardinality({}) = 0
    BY FS_EmptySet
  <2>4. alive_count = Cardinality({d \in Drivers : drv[d] = "up"}) /\ online_count = 0
    BY DEF Init
  <2> QED BY <2>1, <2>2, <2>3, <2>4 DEF Counted
<1>9. DeviceType
  <2>1. ups \in [Drivers -> ups_device_t]
    BY <1>2 DEF Init
  <2> DEFINE S == {d \in Drivers : drv[d] = "up"}
  <2>2. Cardinality(S) \in Nat /\ Cardinality(S) <= Cardinality(Drivers)
        /\ Cardinality(Drivers) \in Nat
    BY DriversFinite, FS_Subset, FS_CardinalityType
  <2>3. alive_count = Cardinality(S) /\ online_count = 0
    BY DEF Init
  <2> HIDE DEF S
  <2>4. alive_count \in 0..Len(Order) /\ online_count \in 0..Len(Order)
    BY <2>2, <2>3, DriversFinite
  <2> QED BY <2>1, <2>4 DEF DeviceType
<1>10. ElectionType
  <2>1. dstate \in dstate_t
    <3>1. << >> \in VarSets
      <4> DEFINE X == Drivers \X {"OL", "OB"}
      <4>1. << >> \in Seq(X) /\ Len(<< >>) = 0
        BY EmptySeq
      <4>2. << >> \in [1..0 -> X] /\ DOMAIN << >> = 1..0
        BY <4>1, LenProperties
      <4>3. << >> \in [DOMAIN << >> -> X] /\ DOMAIN << >> \subseteq {"load", "timer"}
        BY <4>2
      <4> QED BY <4>3, VarSetsAre
    <3> QED BY <3>1, DstateType DEF Init
  <2>2. gone_time \in -1..GONETIME + 1 /\ absent \in -1..GONETIME + 1
    BY GoneTimes DEF Init
  <2>3. uptime \in 0..INITTIME + 1
    BY Constant DEF Init
  <2> QED BY <2>1, <2>2, <2>3 DEF Init, ElectionType
<1>11. ControlType /\ Turned /\ Limited
  <2>1. 1 \in 1..Len(Order) + 1 /\ 0 <= COOLOFFTIME + 1 /\ 0 \in 0..POLLINTERVAL
    BY Constant
  <2>2. /\ step = "check" /\ turn = 1 /\ left = 0 /\ waited = 0 /\ since = 0
        /\ held = FALSE
    BY DEF Init
  <2>3. ControlType
    BY <2>1, <2>2 DEF ControlType
  <2> QED BY <2>1, <2>2, <2>3 DEF Turned, Limited
<1> QED BY <1>5, <1>6, <1>7, <1>8, <1>9, <1>10, <1>11, TypeParts DEF CInv

\* What the drivers do while the failover driver waits.
World == \E d \in Drivers : (\E r \in Reports[d] : Reported(d, r)) \/ DataChange(d)
                              \/ Start(d) \/ AnswerDump(d) \/ AnswerPing(d) \/ Accept(d)
Command == \E d \in Drivers : \E cmd \in Overrides[d] : instcmd(d, cmd[1], cmd[2])

LEMMA Steps ==
  ASSUME Next
  PROVE  \/ World \/ Command \/ \E d \in Drivers : Die(d)
         \/ \E d \in Drivers : ups_connect(d)
         \/ \E d \in Drivers : StaysDead(d) \/ is_ups_alive(d)
         \/ \E d \in Drivers : DeclaredDead(d) \/ ReadFails(d)
         \/ \E d \in Drivers : ups_read_data(d) \/ ReadsNothing(d) \/ upsdrvquery_close(d)
         \/ ups_parse_protocol \/ \E c \in Drivers : HasCandidate(c)
         \/ handle_init_time \/ handle_no_primaries \/ EndNap \/ Tick
BY DEF Next, World, Command, Environment, Answer, handle_connections, upsdrv_updateinfo

LEMMA CoreInductive == CInv /\ [Next]_vars => CInv'
<1> SUFFICES ASSUME CInv, [Next]_vars PROVE CInv'
  OBVIOUS
<1>1. CASE UNCHANGED vars
  <2>1. TypeOK'
    BY <1>1 DEF CInv, TypeOK, vars, world, links, counts, election, control
  <2>2. Turned' /\ Limited' /\ Flagged'
    BY <1>1 DEF CInv, Turned, Limited, Flagged, Has, vars, links, control
  <2>3. Counted'
    BY <1>1 DEF CInv, Counted, vars, counts
  <2> QED BY <2>1, <2>2, <2>3 DEF CInv
<1>2. CASE Next
  BY <1>2, Steps, CoreWorld, CoreDie, CoreCommand, CoreConnect, CoreStaysDead, CoreAlive,
     CoreDisconnect, CoreReading, CoreParse, CoreCandidate, CoreWaits, CoreAbsent,
     CoreEndNap, CoreTick DEF World, Command
<1> QED BY <1>1, <1>2

LEMMA CoreAlways == Spec => []CInv
BY CoreInit, CoreInductive, PTL DEF Spec

\* TypeOK: every variable keeps its type.
THEOREM TypeCorrect == Spec => []TypeOK
<1>1. CInv => TypeOK
  BY DEF CInv
<1> QED BY <1>1, CoreAlways, PTL

\* Counted, for ups_is_dead(), ups_is_online() and ups_is_offline(), failover.c:1290: the
\* two counts are those of the drivers that are connected and that are online.
THEOREM CountsRight == Spec => []Counted
<1>1. CInv => Counted
  BY DEF CInv
<1> QED BY <1>1, CoreAlways, PTL

-----------------------------------------------------------------------------
(* The absence of primaries.                                               *)

\* A step that neither elects nor takes time.
Else == /\ UNCHANGED election /\ dstate'.status = dstate.status
        /\ step' = "nap" => step = "nap" /\ UNCHANGED since

LEMMA ElseOr ==
  ASSUME CInv, Next
  PROVE  \/ Else \/ (\E c \in Drivers : HasCandidate(c))
         \/ handle_init_time \/ handle_no_primaries \/ Tick
<1>1. ASSUME World PROVE Else
  BY <1>1, CoreWorld DEF World, Failover, control, Else
<1>2. ASSUME Command PROVE Else
  BY <1>2 DEF Command, instcmd, control, Else
<1>3. ASSUME NEW d \in Drivers, Die(d) PROVE Else
  BY <1>3 DEF Die, control, Else
<1>4. ASSUME NEW d \in Drivers, ups_connect(d) \/ StaysDead(d) \/ is_ups_alive(d)
      PROVE  Else
  BY <1>4 DEF ups_connect, StaysDead, is_ups_alive, Read, NextDriver, Else
<1>5. ASSUME NEW d \in Drivers, DeclaredDead(d) \/ ReadFails(d) PROVE Else
  BY <1>5 DEF DeclaredDead, ReadFails, ups_disconnect, SayGoodbye, NextDriver, Else
<1>6. ASSUME NEW d \in Drivers, ups_read_data(d) \/ ReadsNothing(d) \/ upsdrvquery_close(d)
      PROVE  Else
  BY <1>6 DEF ups_read_data, ReadsNothing, upsdrvquery_close, NextDriver, At, Else
<1>7. ASSUME ups_parse_protocol PROVE Else
  <2>1. dstate'.status = dstate.status
    <3>1. PICK d \in Drivers, m \in Messages, u \in ups_device_t : Takes(d, m, u)
      BY <1>7, ParseStep
    <3>2. dstate' = dstate \/ dstate' = Unpublished(d, u.list)
      BY <3>1 DEF Takes
    <3>3. Unpublished(d, u.list).status = dstate.status
      BY UnpublishedType DEF CInv
    <3> QED BY <3>2, <3>3
  <2>2. step = "read" /\ (step' = "check" \/ UNCHANGED step) /\ UNCHANGED election
    BY <1>7 DEF ups_parse_protocol, NextDriver, CInv, Turned
  <2> QED BY <2>1, <2>2 DEF Else
<1>8. ASSUME EndNap PROVE Else
  BY <1>8 DEF EndNap, Else
<1> QED BY Steps, <1>1, <1>2, <1>3, <1>4, <1>5, <1>6, <1>7, <1>8

LEMMA SwitchedStatus ==
  ASSUME CInv, Absence, NEW c \in Drivers
  PROVE  Switched(c).status \cap {"FSD", "ALARM"} = {}
<1>1. TypeOK /\ dstate \in dstate_t /\ ups[c].force_export \in BOOLEAN /\ c # None
      /\ primary \in Drivers \cup {None} /\ gone \in BOOLEAN
  BY DeviceFields DEF CInv, TypeOK
<1>2. Cleaned(dstate, c) \in dstate_t /\ Cleaned(dstate, c).status = {}
  BY <1>1, CleanedType
<1>3. primary # None => Cleaned(dstate, primary) \in dstate_t
  BY <1>1, CleanedType
<1>4. \A ds \in dstate_t : Exported(ds, c, TRUE).status \cap {"FSD", "ALARM"} = {}
  BY <1>1, ExportedType
<1>5. CASE primary = None
  BY <1>1, <1>4, <1>5 DEF Switched
<1>6. CASE primary = c /\ gone
  BY <1>2, <1>4, <1>6 DEF Switched
<1>7. CASE primary = c /\ ~gone
  <2>1. dstate.status \cap {"FSD", "ALARM"} = {}
    BY <1>1, <1>7 DEF Absence
  <2>2. Exported(dstate, c, ups[c].force_export).status \cap {"FSD", "ALARM"} = {}
    BY <1>1, <2>1, ExportedType
  <2> QED BY <1>1, <1>7, <2>2 DEF Switched
<1>8. CASE primary \notin {None, c}
  BY <1>1, <1>3, <1>4, <1>8 DEF Switched
<1> QED BY <1>1, <1>5, <1>6, <1>7, <1>8

LEMMA AbsenceCandidate ==
  ASSUME CInv, Absence, NEW c \in Drivers, HasCandidate(c)
  PROVE  Absence' /\ FallbackInTime'
<1>1. /\ init_elapsed' = TRUE /\ absent' = Unset /\ gone' = FALSE
      /\ dstate' = [Switched(c) EXCEPT !.stale = ~Has(c, "DATA_OK")]
  BY DEF HasCandidate
<1>2. dstate'.status = Switched(c).status
  BY <1>1, SwitchedType, DstateType
<1>3. dstate'.status \cap {"FSD", "ALARM"} = {}
  BY <1>2, SwitchedStatus
<1>4. ~(absent' > NOPRIMARYTIME)
  BY <1>1, Constant DEF Unset
<1> QED BY <1>1, <1>3, <1>4 DEF Absence, FallbackInTime

LEMMA AbsenceWaits ==
  ASSUME CInv, Absence, handle_init_time
  PROVE  Absence' /\ FallbackInTime'
<1>1. ~init_elapsed /\ UNCHANGED election /\ dstate'.status = dstate.status
  BY CoreWaits DEF handle_init_time
<1>2. absent = Unset /\ ~(Unset > NOPRIMARYTIME)
  BY <1>1, Constant DEF Absence, Unset
<1> QED BY <1>1, <1>2 DEF Absence, FallbackInTime, election

LEMMA AbsenceGoesOn ==
  ASSUME CInv, Absence, handle_no_primaries
  PROVE  Absence' /\ FallbackInTime'
<1>1. /\ TypeOK /\ NOPRIMARYTIME \in Nat /\ FSDMODE \in 0..2
      /\ primary \in Drivers \cup {None} /\ gone \in BOOLEAN
  BY Constant DEF CInv, TypeOK
<1>2. /\ init_elapsed' = TRUE /\ gone_time' = Elapsed /\ absent' = Missed
      /\ primary' = IF FSDMODE > 0 THEN None ELSE primary
      /\ gone' = (gone \/ Elapsed > NOPRIMARYTIME)
      /\ dstate' = IF Elapsed > NOPRIMARYTIME THEN Fallback
                                              ELSE [Demoted EXCEPT !.stale = FALSE]
  BY DEF handle_no_primaries
<1>3. /\ Elapsed \in 0..GONETIME + 1 /\ Missed \in 0..GONETIME + 1
      /\ gone_time # Unset => Elapsed = gone_time
      /\ absent # Unset => Missed = absent
      /\ absent = Unset => Missed = 0
  BY <1>1, ElapsedType
<1>4. GONETIME \in Nat /\ Elapsed \in Int /\ Missed \in Int /\ Elapsed >= 0
  BY <1>3, Constant
<1>5. absent' <= gone_time' /\ gone_time' # Unset
  BY <1>2, <1>3, <1>4 DEF Absence, Unset
<1>6. gone' /\ FSDMODE > 0 => primary' = None
  BY <1>2
<1>7. dstate'.status \cap {"FSD", "ALARM"} # {} => primary' = None /\ gone'
  <2>1. CASE FSDMODE = 0
    <3>1. dstate'.status = dstate.status
      BY <1>2, <2>1, FallbackType, StaleType
    <3> QED BY <1>1, <1>2, <2>1, <3>1 DEF Absence
  <2>2. CASE FSDMODE > 0 /\ Elapsed > NOPRIMARYTIME
    BY <1>2, <2>2
  <2>3. CASE FSDMODE > 0 /\ ~(Elapsed > NOPRIMARYTIME)
    <3>1. dstate'.status = Demoted.status
      BY <1>2, <2>3, FallbackType, StaleType
    <3>2. dstate'.status \cap {"FSD", "ALARM"} # {} => dstate.status \cap {"FSD", "ALARM"} # {}
      BY <3>1, FallbackType
    <3> QED BY <1>2, <2>3, <3>2 DEF Absence
  <2> QED BY <1>1, <2>1, <2>2, <2>3
<1>8. absent' > NOPRIMARYTIME => gone'
  <2>1. absent' > NOPRIMARYTIME => Elapsed > NOPRIMARYTIME
    BY <1>1, <1>2, <1>4, <1>5
  <2> QED BY <1>2, <2>1
<1> QED BY <1>2, <1>5, <1>6, <1>7, <1>8 DEF Absence, FallbackInTime

LEMMA AbsenceTick ==
  ASSUME CInv, Absence, FallbackInTime, Tick
  PROVE  Absence' /\ FallbackInTime'
<1>1. /\ gone_time' = Older(gone_time, GONETIME) /\ absent' = Older(absent, GONETIME)
      /\ UNCHANGED <<primary, gone, init_elapsed, dstate, step>>
      /\ (step = "nap" /\ since < POLLINTERVAL) \/ step # "nap"
      /\ since' = IF since < POLLINTERVAL THEN since + 1 ELSE since
  BY DEF Tick, Blocked, ConnectWaits, ReadWaits, At
<1>2. /\ GONETIME \in Nat /\ gone_time \in -1..GONETIME + 1 /\ absent \in -1..GONETIME + 1
      /\ since \in Nat
  BY Constant DEF CInv, TypeOK
<1>3. absent = Unset => absent' = Unset
  BY <1>1 DEF Older
<1>4. absent' # Unset => gone_time' # Unset /\ absent' <= gone_time'
  BY <1>1, <1>2 DEF Absence, Older, Unset
<1>5. step' = "nap" => since' # 0
  BY <1>1, <1>2
<1> QED BY <1>1, <1>3, <1>4, <1>5 DEF Absence, FallbackInTime

LEMMA AbsenceInductive ==
  ASSUME CInv, Absence, FallbackInTime, [Next]_vars
  PROVE  Absence' /\ FallbackInTime'
<1>1. ASSUME UNCHANGED election, dstate'.status = dstate.status,
             step' = "nap" => step = "nap" /\ UNCHANGED since
      PROVE  Absence' /\ FallbackInTime'
  BY <1>1 DEF Absence, FallbackInTime, election
<1>2. CASE UNCHANGED vars
  BY <1>1, <1>2 DEF vars, control
<1>3. CASE Next
  BY <1>1, <1>3, ElseOr, AbsenceCandidate, AbsenceWaits, AbsenceGoesOn, AbsenceTick DEF Else
<1> QED BY <1>2, <1>3

LEMMA AbsenceAlways == Spec => [](CInv /\ Absence /\ FallbackInTime)
<1> DEFINE I == CInv /\ Absence /\ FallbackInTime
<1>1. Init => I
  <2> SUFFICES ASSUME Init PROVE I
    OBVIOUS
  <2>1. Absence /\ FallbackInTime
    BY DEF Init, Absence, FallbackInTime, Unset
  <2> QED BY <2>1, CoreInit
<1>2. I /\ [Next]_vars => I'
  BY CoreInductive, AbsenceInductive
<1> QED BY <1>1, <1>2, PTL DEF Spec

\* FallbackIsTakenBack, for handle_no_primaries(), failover.c:687: FSD and ALARM are
\* published only while there is no primary.
THEOREM FallbackEnds == Spec => []FallbackIsTakenBack
<1>1. Absence => FallbackIsTakenBack
  BY DEF Absence, FallbackIsTakenBack
<1> QED BY <1>1, AbsenceAlways, PTL

\* FallbackInTime, for handle_no_primaries(), failover.c:687: an absence longer than
\* noprimarytime does enter the fallback mode.
THEOREM FallbackBegins == Spec => []FallbackInTime
BY AbsenceAlways, PTL

-----------------------------------------------------------------------------
(* What is published.                                                      *)

LEMMA PrimaryStays ==
  ASSUME PrimaryAlive, UNCHANGED election, step' = "nap" => step = "nap",
         \A k \in Nat : Passed(k) => Passed(k)',
         primary # None => Place(primary) \in Nat,
         primary # None /\ Has(primary, "ALIVE") => "ALIVE" \in ups'[primary].flags
  PROVE  PrimaryAlive'
<1>1. UNCHANGED <<primary, absent>>
  BY DEF election
<1>2. SUFFICES ASSUME primary # None
               PROVE  /\ FSDMODE > 0 =>
                           \/ "ALIVE" \in ups'[primary].flags
                           \/ /\ step' # "nap"
                              /\ Place(primary) < turn' \/ (step' = "bye" /\ Place(primary) = turn')
                      /\ step' = "nap" /\ absent = Unset => "ALIVE" \in ups'[primary].flags
  BY <1>1 DEF PrimaryAlive, Passed, Has
<1> DEFINE k == Place(primary)
<1>3. k \in Nat
  BY <1>2
<1> HIDE DEF k
<1>4. Passed(k) => step' # "nap" /\ (k < turn' \/ (step' = "bye" /\ k = turn'))
  BY <1>3 DEF Passed
<1>5. Passed(Place(primary)) =>
        step' # "nap" /\ (Place(primary) < turn' \/ (step' = "bye" /\ Place(primary) = turn'))
  BY <1>4 DEF k
<1>6. CASE Has(primary, "ALIVE")
  BY <1>2, <1>6 DEF Has
<1>7. CASE ~Has(primary, "ALIVE")
  <2>1. /\ FSDMODE > 0 => Passed(Place(primary))
        /\ ~(step = "nap" /\ absent = Unset)
    BY <1>2, <1>7 DEF PrimaryAlive
  <2>2. step' = "nap" => step = "nap"
    OBVIOUS
  <2> QED BY <1>5, <2>1, <2>2
<1> QED BY <1>6, <1>7

LEMMA PublishedStays ==
  ASSUME Published, UNCHANGED election, dstate'.vars = dstate.vars,
         step' = "nap" => step = "nap",
         FSDMODE > 0 /\ primary # None =>
           /\ ups'[primary].list = ups[primary].list
           /\ ups'[primary].needs_export = ups[primary].needs_export
  PROVE  Published'
BY DEF Published, election

\* What a step does to the primary that is not about it.
PrimaryKept ==
  /\ UNCHANGED election /\ dstate'.vars = dstate.vars
  /\ step' = "nap" => step = "nap"
  /\ \A k \in Nat : Passed(k) => Passed(k)'
  /\ primary # None /\ Has(primary, "ALIVE") => "ALIVE" \in ups'[primary].flags
  /\ FSDMODE > 0 /\ primary # None =>
       /\ ups'[primary].list = ups[primary].list
       /\ ups'[primary].needs_export = ups[primary].needs_export

LEMMA Turns ==
  ASSUME CInv
  PROVE  /\ turn \in Nat /\ turn >= turn /\ turn + 1 >= turn
         /\ primary # None => primary \in Drivers /\ Place(primary) \in Nat
BY Places DEF CInv, TypeOK

LEMMA KeptOr ==
  ASSUME CInv, PrimaryAlive, Next
  PROVE  \/ PrimaryKept \/ \E d \in Drivers : DeclaredDead(d) \/ ReadFails(d)
         \/ ups_parse_protocol \/ (\E c \in Drivers : HasCandidate(c))
         \/ handle_init_time \/ handle_no_primaries \/ Tick
<1>1. ASSUME World PROVE PrimaryKept
  BY <1>1, CoreWorld, Turns DEF World, Failover, control, PrimaryKept, Passed, Has
<1>2. ASSUME NEW d \in Drivers, NEW cmd \in Overrides[d], instcmd(d, cmd[1], cmd[2])
      PROVE  PrimaryKept
  BY <1>2, CoreCommand, Turns DEF instcmd, control, PrimaryKept, Passed, Has
<1>3. ASSUME NEW d \in Drivers, Die(d) PROVE PrimaryKept
  <2> DEFINE u == [ups[d] EXCEPT !.conn = IF @ = "open" THEN "eof" ELSE @]
  <2>1. ups[d] \in ups_device_t /\ ups' = [ups EXCEPT ![d] = u]
    BY <1>3 DEF Die, CInv, TypeOK
  <2>2. u.flags = ups[d].flags /\ u.list = ups[d].list /\ u.needs_export = ups[d].needs_export
    BY <2>1 DEF ups_device_t
  <2> HIDE DEF u
  <2>3. \A e \in Drivers : ups'[e] = IF e = d THEN u ELSE ups[e]
    BY <2>1 DEF CInv, TypeOK
  <2>4. \A e \in Drivers : /\ ups'[e].flags = ups[e].flags /\ ups'[e].list = ups[e].list
                           /\ ups'[e].needs_export = ups[e].needs_export
    BY <2>2, <2>3
  <2>5. UNCHANGED <<election, dstate, step, turn>>
    BY <1>3 DEF Die, control
  <2>6. \A k \in Nat : Passed(k) => Passed(k)'
    BY <2>5 DEF Passed
  <2> QED BY <2>4, <2>5, <2>6, Turns DEF PrimaryKept, Has
<1>4. ASSUME NEW d \in Drivers, ups_connect(d) PROVE PrimaryKept
  <2>1. Place(d) = turn /\ ~Has(d, "ALIVE") /\ step = "check"
    BY <1>4, Place_At DEF ups_connect
  <2>2. FSDMODE > 0 => primary # d
    <3>1. turn \in Nat /\ ~Passed(turn)
      BY <2>1, Turns DEF Passed
    <3>2. d # None
      OBVIOUS
    <3> QED BY <2>1, <3>1, <3>2 DEF PrimaryAlive
  <2>3. \A e \in Drivers \ {d} : ups'[e] = ups[e]
    BY <1>4 DEF ups_connect, CInv, TypeOK
  <2>4. UNCHANGED <<election, dstate, turn>> /\ step' = "read"
    BY <1>4 DEF ups_connect, Read
  <2>5. \A k \in Nat : Passed(k) => Passed(k)'
    BY <2>1, <2>4 DEF Passed
  <2>6. primary # None /\ Has(primary, "ALIVE") => "ALIVE" \in ups'[primary].flags
    BY <2>1, <2>3, Turns DEF Has
  <2>7. FSDMODE > 0 /\ primary # None =>
          /\ ups'[primary].list = ups[primary].list
          /\ ups'[primary].needs_export = ups[primary].needs_export
    BY <2>2, <2>3, Turns
  <2> QED BY <2>4, <2>5, <2>6, <2>7 DEF PrimaryKept
<1>5. ASSUME NEW d \in Drivers, StaysDead(d) PROVE PrimaryKept
  <2>1. UNCHANGED <<election, dstate>> /\ step' = "check" /\ turn' = turn + 1 /\ turn \in Nat
    BY <1>5, Turns DEF StaysDead, NextDriver
  <2>2. \A k \in Nat : Passed(k) => Passed(k)'
    BY <2>1 DEF Passed
  <2> QED BY <1>5, <2>1, <2>2, CoreStaysDead, Turns DEF PrimaryKept, Has
<1>6. ASSUME NEW d \in Drivers, is_ups_alive(d) PROVE PrimaryKept
  <2>1. UNCHANGED <<election, dstate, turn>> /\ step' = "read" /\ step = "check"
    BY <1>6 DEF is_ups_alive, Read, At
  <2>2. \A k \in Nat : Passed(k) => Passed(k)'
    BY <2>1 DEF Passed
  <2> QED BY <1>6, <2>1, <2>2, CoreAlive, Turns DEF PrimaryKept, Has
<1>7. ASSUME NEW d \in Drivers, ups_read_data(d) PROVE PrimaryKept
  BY <1>7, Turns DEF ups_read_data, PrimaryKept, Passed, Has
<1>8. ASSUME NEW d \in Drivers, ReadsNothing(d) PROVE PrimaryKept
  BY <1>8, Turns DEF ReadsNothing, NextDriver, PrimaryKept, Passed, Has
<1>9. ASSUME EndNap PROVE PrimaryKept
  BY <1>9, Turns DEF EndNap, PrimaryKept, Passed, Has
<1>10. ASSUME NEW d \in Drivers, upsdrvquery_close(d) PROVE PrimaryKept
  BY <1>10, Turns DEF upsdrvquery_close, NextDriver, PrimaryKept, Passed, Has
<1> QED BY Steps, <1>1, <1>2, <1>3, <1>4, <1>5, <1>6, <1>7, <1>8, <1>9, <1>10 DEF Command

PInv == CInv /\ Absence /\ PrimaryAlive /\ Published

LEMMA PublishedDisconnect ==
  ASSUME PInv, NEW d \in Drivers, DeclaredDead(d) \/ ReadFails(d)
  PROVE  PrimaryAlive' /\ Published'
<1>1. /\ NextDriver \/ Bye
      /\ Place(d) = turn /\ step \in {"check", "read"} /\ UNCHANGED <<election, dstate>>
      /\ \A e \in Drivers \ {d} : ups'[e] = ups[e]
      /\ ups'[d].list = ups[d].list /\ ups'[d].needs_export = ups[d].needs_export
  BY CoreDisconnect DEF PInv
<1>2. turn \in Nat /\ (primary # None => primary \in Drivers /\ Place(primary) \in Nat)
  BY Turns DEF PInv
<1>3. step' # "nap" /\ (turn' = turn + 1 \/ (step' = "bye" /\ turn' = turn))
  BY <1>1 DEF NextDriver, Bye
<1>4. Published'
  <2>1. primary # None => /\ ups'[primary].list = ups[primary].list
                          /\ ups'[primary].needs_export = ups[primary].needs_export
    BY <1>1, <1>2
  <2> QED BY <1>1, <1>3, <2>1, PublishedStays DEF PInv
<1>5. PrimaryAlive'
  <2>1. CASE primary = d
    <3>1. Place(primary) < turn' \/ (step' = "bye" /\ Place(primary) = turn')
      BY <1>1, <1>2, <1>3, <2>1
    <3> QED BY <1>1, <1>3, <3>1 DEF PrimaryAlive, Passed, election
  <2>2. CASE primary # d
    <3>1. primary # None /\ Has(primary, "ALIVE") => "ALIVE" \in ups'[primary].flags
      BY <1>1, <1>2, <2>2 DEF Has
    <3>2. \A k \in Nat : Passed(k) => Passed(k)'
      BY <1>1, <1>2, <1>3 DEF Passed
    <3> QED BY <1>1, <1>2, <1>3, <3>1, <3>2, PrimaryStays DEF PInv
  <2> QED BY <2>1, <2>2
<1> QED BY <1>4, <1>5

LEMMA PublishedParse ==
  ASSUME PInv, ups_parse_protocol
  PROVE  PrimaryAlive' /\ Published'
<1>1. PICK d \in Drivers, m \in Messages, u \in ups_device_t : Takes(d, m, u)
  BY ParseStep DEF PInv
<1>2. /\ "ALIVE" \in u.flags /\ u.list \in Lists
      /\ u.needs_export = (ups[d].needs_export \/ u.list # ups[d].list)
  <2>1. /\ Has(d, "ALIVE") /\ u.flags = Parsed(d, m).flags /\ u.list = Parsed(d, m).list
        /\ u.needs_export = Parsed(d, m).needs_export
    BY <1>1 DEF Takes
  <2>2. /\ Has(d, "ALIVE") => "ALIVE" \in Parsed(d, m).flags
        /\ Parsed(d, m).needs_export =
             (ups[d].needs_export \/ Parsed(d, m).list # ups[d].list)
    BY ParsedType DEF PInv, CInv
  <2>3. u.list \in Lists
    BY DEF ups_device_t, Lists
  <2> QED BY <2>1, <2>2, <2>3
<1>3. ups'[d] = u /\ \A e \in Drivers \ {d} : ups'[e] = ups[e]
  BY <1>1 DEF PInv, CInv, TypeOK, Takes
<1>4. /\ \A k \in Nat : Passed(k) => Passed(k)'
      /\ step = "read" /\ step' # "nap" /\ UNCHANGED election
      /\ (primary # None => primary \in Drivers /\ Place(primary) \in Nat)
  <2>1. step = "read" /\ turn \in Nat
    BY <1>1, Turns DEF PInv, Takes
  <2>2. UNCHANGED election /\ (UNCHANGED <<step, turn>> \/ (step' = "check" /\ turn' = turn + 1))
    BY DEF ups_parse_protocol, NextDriver
  <2>3. \A k \in Nat : Passed(k) => Passed(k)'
    BY <2>1, <2>2 DEF Passed
  <2>4. primary # None => primary \in Drivers /\ Place(primary) \in Nat
    BY Turns DEF PInv
  <2> QED BY <2>1, <2>2, <2>3, <2>4
<1>5. PrimaryAlive'
  <2>1. primary # None /\ Has(primary, "ALIVE") => "ALIVE" \in ups'[primary].flags
    BY <1>2, <1>3, <1>4 DEF Has
  <2> QED BY <1>4, <2>1, PrimaryStays DEF PInv
<1>6. CASE primary # d \/ u.list = ups[d].list
  <2>1. dstate' = dstate
    BY <1>1, <1>6, UnpublishedType DEF PInv, CInv, Takes
  <2>2. primary # None => /\ ups'[primary].list = ups[primary].list
                          /\ ups'[primary].needs_export = ups[primary].needs_export
    <3>1. u.list = ups[d].list => u.needs_export = ups[d].needs_export
      BY <1>2, DeviceFields DEF PInv, CInv, ups_device_t
    <3> QED BY <1>3, <1>4, <1>6, <3>1
  <2> QED BY <1>4, <1>5, <2>1, <2>2, PublishedStays DEF PInv
<1>7. CASE primary = d /\ u.list # ups[d].list
  <2>1. DOMAIN dstate'.vars =
          DOMAIN dstate.vars \ (DOMAIN Vars(d, ups[d].list) \ DOMAIN Vars(d, u.list))
    BY <1>1, <1>7, UnpublishedType DEF PInv, CInv, Takes
  <2>2. d # None
    OBVIOUS
  <2>3. FSDMODE > 0 => DOMAIN dstate.vars \subseteq DOMAIN Vars(d, ups[d].list)
    BY <1>7, <2>2 DEF PInv, Published
  <2>4. FSDMODE > 0 => DOMAIN dstate'.vars \subseteq DOMAIN Vars(d, u.list)
    BY <2>1, <2>3
  <2>5. u.needs_export
    BY <1>2, <1>7
  <2>6. primary' = d
    BY <1>4, <1>7 DEF election
  <2>7. Published'
    BY <1>3, <1>4, <2>2, <2>4, <2>5, <2>6 DEF Published
  <2> QED BY <1>5, <2>7
<1> QED BY <1>5, <1>6, <1>7

LEMMA PublishedCandidate ==
  ASSUME PInv, NEW c \in Drivers, HasCandidate(c)
  PROVE  PrimaryAlive' /\ Published'
<1>1. /\ primary' = c /\ step' = "nap"
      /\ dstate' = [Switched(c) EXCEPT !.stale = ~Has(c, "DATA_OK")]
  BY DEF HasCandidate, Napping
<1>2. /\ Has(c, "ALIVE") /\ ups'[c].list = ups[c].list /\ ups'[c].flags = ups[c].flags
      /\ ~ups'[c].needs_export /\ TypeOK /\ CInv
  <2> DEFINE u == [ups[c] EXCEPT !.needs_export = FALSE, !.force_export = FALSE]
  <2>1. CInv /\ TypeOK /\ ups \in [Drivers -> ups_device_t]
    BY DEF PInv, CInv, TypeOK
  <2>2. /\ Has(c, "ALIVE") /\ ups' = [ups EXCEPT ![c] = u]
        /\ u.list = ups[c].list /\ u.flags = ups[c].flags /\ ~u.needs_export
    BY <2>1, CoreCandidate
  <2> HIDE DEF u
  <2>3. ups'[c] = u
    BY <2>1, <2>2
  <2> QED BY <2>1, <2>2, <2>3
<1>3. PrimaryAlive'
  BY <1>1, <1>2 DEF PrimaryAlive, Has
<1>4. dstate'.vars = Switched(c).vars
  BY <1>1, <1>2, SwitchedType, DstateType
<1>5. SUFFICES ASSUME FSDMODE > 0 PROVE Switched(c).vars = Vars(c, ups[c].list)
  BY <1>1, <1>2, <1>3, <1>4 DEF Published
<1>6. /\ dstate \in dstate_t /\ c # None /\ gone \in BOOLEAN /\ primary \in Drivers \cup {None}
      /\ ups[c].list \in Lists /\ ups[c].force_export \in BOOLEAN
      /\ ups[c].needs_export \in BOOLEAN
  BY <1>2, DeviceFields DEF TypeOK
<1>7. /\ DOMAIN << >> = {} /\ Vars(c, "none") = << >> /\ DOMAIN Vars(c, "none") = {}
  BY VarsType DEF Lists
<1>8. ASSUME NEW ds \in dstate_t, ds.vars = << >>
      PROVE  Exported(ds, c, TRUE).vars = Vars(c, ups[c].list)
  <2>1. Exports(c, TRUE) <=> ups[c].list # "none"
    BY DEF Exports
  <2> QED BY <1>2, <1>7, <1>8, <2>1, ExportedType
<1>9. CASE primary = None
  BY <1>5, <1>6, <1>8, <1>9 DEF PInv, Published, Switched
<1>10. CASE primary = c
  <2>1. ~gone
    BY <1>5, <1>6, <1>10 DEF PInv, Absence
  <2>2. /\ DOMAIN dstate.vars \subseteq DOMAIN Vars(c, ups[c].list)
        /\ ~ups[c].needs_export => dstate.vars = Vars(c, ups[c].list)
    BY <1>5, <1>6, <1>10 DEF PInv, Published
  <2>3. Switched(c) = Exported(dstate, c, ups[c].force_export)
    BY <1>6, <1>10, <2>1 DEF Switched
  <2> DEFINE all == ups[c].force_export
  <2>4. all \in BOOLEAN
    BY <1>6
  <2>5. /\ ~Exports(c, all) => Exported(dstate, c, all).vars = dstate.vars
        /\ Exports(c, all) => Exported(dstate, c, all).vars = Vars(c, ups[c].list)
    <3> HIDE DEF all
    <3> QED BY <1>2, <1>6, <2>2, <2>4, ExportedType
  <2>6. CASE Exports(c, all)
    BY <2>3, <2>6, <2>5
  <2>7. CASE ~Exports(c, all)
    <3>1. Switched(c).vars = dstate.vars
      BY <2>3, <2>7, <2>5
    <3>2. CASE ups[c].needs_export
      <4>1. ups[c].list = "none"
        BY <2>7, <3>2 DEF Exports
      <4>2. dstate.vars \in VarSets /\ DOMAIN dstate.vars = {}
        BY <1>6, <1>7, <2>2, <4>1, DstateType
      <4>3. dstate.vars = << >>
        <5>1. << >> \in VarSets
          BY <1>7, VarsType DEF Lists
        <5>2. /\ << >> \in [DOMAIN << >> -> Drivers \X {"OL", "OB"}]
              /\ dstate.vars \in [DOMAIN dstate.vars -> Drivers \X {"OL", "OB"}]
          BY <4>2, <5>1, VarSetsAre, Zenon
        <5> QED BY <1>7, <4>2, <5>2
      <4> QED BY <1>7, <3>1, <4>1, <4>3
    <3>3. CASE ~ups[c].needs_export
      BY <2>2, <3>1, <3>3
    <3> QED BY <1>6, <3>2, <3>3
  <2> QED BY <2>6, <2>7
<1>11. CASE primary \notin {None, c}
  <2>1. DOMAIN dstate.vars \subseteq DOMAIN Vars(primary, ups[primary].list)
    BY <1>5, <1>6, <1>11 DEF PInv, Published
  <2>2. Cleaned(dstate, primary) \in dstate_t /\ Cleaned(dstate, primary).vars = << >>
    BY <1>2, <1>6, <1>11, <2>1, CleanedType
  <2>3. Switched(c) = Exported(Cleaned(dstate, primary), c, TRUE)
    BY <1>11 DEF Switched
  <2> QED BY <1>8, <2>2, <2>3
<1> QED BY <1>6, <1>9, <1>10, <1>11

LEMMA PublishedWaits ==
  ASSUME PInv, handle_init_time
  PROVE  PrimaryAlive' /\ Published'
<1>1. primary = None /\ UNCHANGED election /\ dstate'.vars = dstate.vars
  BY CoreWaits DEF PInv, handle_init_time, Absence
<1> QED BY <1>1 DEF PInv, PrimaryAlive, Published, election

LEMMA PublishedAbsent ==
  ASSUME PInv, handle_no_primaries
  PROVE  PrimaryAlive' /\ Published'
<1>1. /\ primary' = IF FSDMODE > 0 THEN None ELSE primary
      /\ dstate' = IF Elapsed > NOPRIMARYTIME THEN Fallback
                                              ELSE [Demoted EXCEPT !.stale = FALSE]
      /\ absent' = Missed
  BY DEF handle_no_primaries
<1>2. absent' # Unset
  BY <1>1, ElapsedType, GoneTimes DEF PInv, CInv
<1>3. PrimaryAlive'
  BY <1>1, <1>2 DEF PrimaryAlive
<1>4. SUFFICES ASSUME FSDMODE > 0 PROVE dstate'.vars = << >>
  BY <1>1, <1>3 DEF Published
<1>5. dstate'.vars = Demoted.vars
  BY <1>1, FallbackType, StaleType DEF PInv
<1>6. CASE primary = None
  BY <1>4, <1>5, <1>6 DEF Demoted, PInv, Published
<1>7. CASE primary # None
  <2>1. primary \in Drivers /\ DOMAIN dstate.vars \subseteq DOMAIN Vars(primary, ups[primary].list)
    BY <1>4, <1>7 DEF PInv, Published, CInv, TypeOK
  <2>2. Cleaned(dstate, primary).vars = << >>
    BY <2>1, CleanedType DEF PInv, CInv
  <2> QED BY <1>4, <1>5, <1>7, <2>2 DEF Demoted
<1> QED BY <1>6, <1>7

LEMMA PublishedTick ==
  ASSUME PInv, Tick
  PROVE  PrimaryAlive' /\ Published'
<1>1. \A d \in Drivers : /\ ups'[d].flags = ups[d].flags /\ ups'[d].list = ups[d].list
                         /\ ups'[d].needs_export = ups[d].needs_export
  BY AgedType DEF PInv, CInv, TypeOK, Tick
<1>2. /\ UNCHANGED <<primary, dstate, step, turn>> /\ (absent' = Unset => absent = Unset)
      /\ (primary # None => primary \in Drivers)
  <2>1. absent' = Unset => absent = Unset
    BY OlderType, GoneTimes DEF PInv, CInv, TypeOK, Tick
  <2> QED BY <2>1, Turns DEF PInv, Tick
<1>3. PrimaryAlive'
  BY <1>1, <1>2 DEF PInv, PrimaryAlive, Passed, Has
<1>4. Published'
  BY <1>1, <1>2 DEF PInv, Published
<1> QED BY <1>3, <1>4

LEMMA PublishedInductive ==
  ASSUME PInv, [Next]_vars
  PROVE  PrimaryAlive' /\ Published'
<1>1. CASE UNCHANGED vars
  BY <1>1 DEF PInv, PrimaryAlive, Passed, Published, Has, vars, election, control
<1>2. CASE Next
  <2>1. CASE PrimaryKept
    <3>1. primary # None => Place(primary) \in Nat
      BY Turns DEF PInv
    <3>2. PrimaryAlive'
      BY <2>1, <3>1, PrimaryStays DEF PInv, PrimaryKept
    <3>3. Published'
      BY <2>1, PublishedStays DEF PInv, PrimaryKept
    <3> QED BY <3>2, <3>3
  <2> QED BY <1>2, <2>1, KeptOr, PublishedDisconnect, PublishedParse, PublishedCandidate,
            PublishedWaits, PublishedAbsent, PublishedTick DEF PInv
<1> QED BY <1>1, <1>2

LEMMA PublishedAlways == Spec => []PInv
<1>1. Init => PrimaryAlive /\ Published
  BY DEF Init, PrimaryAlive, Published
<1>2. PInv /\ [Next]_vars => PrimaryAlive' /\ Published'
  BY PublishedInductive
<1>3. CInv /\ Absence /\ FallbackInTime /\ PrimaryAlive /\ Published => PInv
  BY DEF PInv
<1> QED BY <1>1, <1>2, <1>3, AbsenceAlways, PTL DEF Spec

\* PublishedIsPrimary, for ups_export_dstate() and ups_clean_dstate(), failover.c:1576
\* and 1661: when a call of upsdrv_updateinfo() is over, what is published is what the
\* primary has told, and nothing of another driver or of an earlier connection.
THEOREM PublishedOfPrimary == Spec => []PublishedIsPrimary
<1>1. PInv => PublishedIsPrimary
  BY DEF PInv, Published, PublishedIsPrimary
<1> QED BY <1>1, PublishedAlways, PTL

-----------------------------------------------------------------------------
(* How old the data of the primary may be.                                 *)

LEMMA Products ==
  \A t, r \in Nat : t * r \in Nat /\ (t + 1) * r = t * r + r
OBVIOUS

LEMMA SpentAre ==
  ASSUME CInv
  PROVE  /\ Spent \in Nat /\ Here \in Nat /\ turn - 1 \in Nat /\ turn \in Nat /\ waited \in Nat
         /\ turn * Longest = (turn - 1) * Longest + Longest
         /\ turn * Longest \in Nat /\ (turn - 1) * Longest \in Nat
         /\ ~held => Here <= Longest
<1>1. turn - 1 \in Nat /\ (turn - 1) + 1 = turn /\ turn \in Nat /\ waited \in Nat
      /\ Longest \in Nat /\ Round \in Nat /\ READTIMEOUT \in Nat /\ LOGOUTTIME \in Nat
  BY Constant DEF CInv, TypeOK
<1>2. (turn - 1) * Longest \in Nat /\ turn * Longest = (turn - 1) * Longest + Longest
  BY <1>1, Products
<1>3. turn * Longest \in Nat
  BY <1>1, Products
<1>4. Here \in Nat
  BY <1>1 DEF Here
<1>5. Spent \in Nat
  BY <1>1, <1>2, <1>4 DEF Spent
<1>6. ~held => Here <= Longest
  <2>1. step \in {"check", "read", "bye", "nap"} /\ Limited
    BY DEF CInv, TypeOK
  <2> QED BY <1>1, <2>1 DEF Limited, Here, Longest
<1> QED BY <1>1, <1>2, <1>3, <1>4, <1>5, <1>6

\* A step to the next driver, to a read, to a goodbye and to a nap: the time spent grows.
LEMMA SpentGrows ==
  ASSUME CInv, ~held, step # "nap",
         \/ NextDriver
         \/ Read /\ step = "check"
         \/ Bye /\ step \in {"check", "read"}
         \/ Napping /\ step = "check" /\ turn > Len(Order)
  PROVE  Spent' >= Spent
<1> DEFINE before == (turn - 1) * Longest
<1>1. /\ before \in Nat /\ turn * Longest = before + Longest
      /\ Here \in Nat /\ Here <= Longest /\ Longest \in Nat /\ turn \in Nat
      /\ READTIMEOUT \in Nat /\ Spent = before + Here
  BY SpentAre, Constant DEF Spent
<1>2. (step = "check" => Here = 0) /\ (step = "read" => Here <= READTIMEOUT)
  BY DEF CInv, Limited, Here
<1>3. CASE NextDriver
  <2>1. step' = "check" /\ turn' - 1 = turn /\ waited' = 0
    BY <1>1, <1>3 DEF NextDriver
  <2>2. Spent' = turn * Longest + 0
    BY <2>1 DEF Spent, Here
  <2> HIDE DEF before
  <2> QED BY <1>1, <2>2
<1>4. CASE Read /\ step = "check"
  <2>1. Spent' = before + 0
    BY <1>4 DEF Read, Spent, Here
  <2> HIDE DEF before
  <2> QED BY <1>1, <1>2, <1>4, <2>1
<1>5. CASE Bye /\ step \in {"check", "read"}
  <2>1. step' = "bye" /\ turn' = turn /\ waited' = 0
    BY <1>5 DEF Bye
  <2>2. Here' = READTIMEOUT
    BY <1>1, <2>1 DEF Here
  <2>3. Spent' = before + Here'
    BY <2>1 DEF Spent
  <2> HIDE DEF before
  <2> QED BY <1>1, <1>2, <1>5, <2>2, <2>3
<1>6. CASE Napping /\ step = "check" /\ turn > Len(Order)
  <2>1. turn - 1 = Len(Order) /\ Spent' = Round
    <3>1. turn \in 1..Len(Order) + 1 /\ Len(Order) \in Nat
      BY Constant DEF CInv, TypeOK
    <3>2. turn - 1 = Len(Order)
      BY <1>6, <3>1
    <3> QED BY <1>6, <3>2 DEF Napping, Spent
  <2>2. Round >= before /\ Round \in Nat
    BY <2>1, Constant
  <2> HIDE DEF before
  <2> QED BY <1>1, <1>2, <1>6, <2>1, <2>2
<1> QED BY <1>3, <1>4, <1>5, <1>6

\* Who is still connected has been heard of lately, or no less than before.
Kept(k) == /\ ~held /\ Checked(k) /\ Has(Order[k], "ALIVE") /\ UNCHANGED since
           /\ Spent' >= Spent /\ ups'[Order[k]].heard <= ups[Order[k]].heard

HeardKept == ~held' => \A k \in 1..Len(Order) : Checked(k)' /\ Has(Order[k], "ALIVE")' =>
               ups'[Order[k]].heard <= DEADTIME \/ Kept(k)

LEMMA HeardType ==
  ASSUME CInv, NEW k \in 1..Len(Order)
  PROVE  /\ ups[Order[k]].heard \in Nat /\ Order[k] \in Drivers /\ Place(Order[k]) = k
         /\ Spent \in Nat /\ since \in Nat /\ k \in Nat
<1>1. Order[k] \in Drivers /\ Place(Order[k]) = k
  BY Places
<1>2. ups[Order[k]] \in ups_device_t /\ since \in 0..POLLINTERVAL
  BY <1>1 DEF CInv, TypeOK
<1>3. ups[Order[k]].heard \in Nat /\ since \in Nat
  <2>1. SILENCE \in Nat
    BY Constant
  <2>2. ups[Order[k]].heard \in 0..SILENCE + 1
    BY <1>2 DEF ups_device_t
  <2> QED BY <1>2, <2>1, <2>2
<1> QED BY <1>1, <1>3, SpentAre

LEMMA HeardStays ==
  ASSUME CInv, CInv', HeardInTime, HeardKept
  PROVE  HeardInTime'
<1> SUFFICES ASSUME ~held', NEW k \in 1..Len(Order), Checked(k)', Has(Order[k], "ALIVE")'
             PROVE  /\ ups'[Order[k]].heard <= DEADTIME + Spent'
                    /\ since' < POLLINTERVAL => ups'[Order[k]].heard <= DEADTIME + since'
  BY DEF HeardInTime
<1>1. /\ ups[Order[k]].heard \in Nat /\ Spent \in Nat /\ since \in Nat
      /\ ups'[Order[k]].heard \in Nat /\ Spent' \in Nat /\ since' \in Nat /\ DEADTIME \in Nat
  <2>1. (ups[Order[k]].heard \in Nat /\ Spent \in Nat /\ since \in Nat)'
    BY HeardType, PTL
  <2> QED BY <2>1, HeardType, Constant
<1>2. CASE ups'[Order[k]].heard <= DEADTIME
  BY <1>1, <1>2
<1>3. CASE Kept(k)
  <2>1. /\ ups[Order[k]].heard <= DEADTIME + Spent
        /\ since < POLLINTERVAL => ups[Order[k]].heard <= DEADTIME + since
    BY <1>3 DEF Kept, HeardInTime
  <2> QED BY <1>1, <1>3, <2>1 DEF Kept
<1> QED BY <1>2, <1>3 DEF HeardKept

LEMMA HeardNext ==
  ASSUME CInv, NEW d \in Drivers, Place(d) = turn, step # "nap", NextDriver,
         \A e \in Drivers \ {d} : ups'[e].flags = ups[e].flags /\ ups'[e].heard = ups[e].heard,
         "ALIVE" \in ups'[d].flags =>
           Has(d, "ALIVE") /\ step = "read" /\ ups'[d].heard \in {0, ups[d].heard}
  PROVE  HeardKept
<1> SUFFICES ASSUME ~held', NEW k \in 1..Len(Order), Checked(k)', Has(Order[k], "ALIVE")'
             PROVE  ups'[Order[k]].heard <= DEADTIME \/ Kept(k)
  BY DEF HeardKept
<1>0. ~held /\ UNCHANGED since
  BY DEF NextDriver
<1>1. Spent' >= Spent /\ turn \in Nat /\ k \in Nat
  BY <1>0, SpentGrows, SpentAre
<1>2. /\ k <= turn /\ Order[k] \in Drivers /\ Place(Order[k]) = k
      /\ "ALIVE" \in ups'[Order[k]].flags /\ ups[Order[k]].heard \in Nat
  BY <1>1, HeardType DEF Checked, NextDriver, Has
<1>3. CASE k = turn
  <2>1. Order[k] = d
    BY <1>3, Places
  <2> QED BY <1>0, <1>1, <1>2, <1>3, <2>1 DEF Kept, Checked
<1>4. CASE k < turn
  <2>1. Order[k] # d
    BY <1>2, <1>4
  <2>2. ups'[Order[k]].flags = ups[Order[k]].flags /\ ups'[Order[k]].heard = ups[Order[k]].heard
    BY <1>2, <2>1
  <2> QED BY <1>0, <1>1, <1>2, <1>4, <2>2 DEF Kept, Checked, Has
<1> QED BY <1>1, <1>2, <1>3, <1>4

LEMMA HeardBye ==
  ASSUME CInv, NEW d \in Drivers, Place(d) = turn, step \in {"check", "read"}, Bye,
         \A e \in Drivers \ {d} : ups'[e].flags = ups[e].flags /\ ups'[e].heard = ups[e].heard
  PROVE  HeardKept
<1> SUFFICES ASSUME ~held', NEW k \in 1..Len(Order), Checked(k)', Has(Order[k], "ALIVE")'
             PROVE  Kept(k)
  BY DEF HeardKept
<1>1. ~held /\ UNCHANGED since /\ k < turn
  BY DEF Bye, Checked
<1>2. Spent' >= Spent
  BY <1>1, SpentGrows
<1>3. Order[k] \in Drivers \ {d} /\ ups[Order[k]].heard \in Nat
  <2>1. k # turn
    BY <1>1, SpentAre
  <2> QED BY <2>1, HeardType
<1>4. ups'[Order[k]].flags = ups[Order[k]].flags /\ ups'[Order[k]].heard = ups[Order[k]].heard
  BY <1>3
<1> QED BY <1>1, <1>2, <1>3, <1>4 DEF Kept, Checked, Has

LEMMA HeardRead ==
  ASSUME CInv, NEW d \in Drivers, At(d, "check"), Read, ups'[d].heard <= DEADTIME,
         \A e \in Drivers \ {d} : ups'[e].flags = ups[e].flags /\ ups'[e].heard = ups[e].heard
  PROVE  HeardKept
<1> SUFFICES ASSUME ~held', NEW k \in 1..Len(Order), Checked(k)', Has(Order[k], "ALIVE")'
             PROVE  ups'[Order[k]].heard <= DEADTIME \/ Kept(k)
  BY DEF HeardKept
<1>1. Place(d) = turn /\ step = "check" /\ turn \in Nat
  BY Place_At, SpentAre
<1>0. ~held /\ UNCHANGED since
  BY DEF Read
<1>2. Spent' >= Spent /\ k \in Nat
  BY <1>0, <1>1, SpentGrows
<1>3. k <= turn /\ Order[k] \in Drivers /\ Place(Order[k]) = k /\ ups[Order[k]].heard \in Nat
  BY <1>1, <1>2, Places, HeardType DEF Checked, Read
<1>4. CASE k = turn
  <2>1. Order[k] = d
    BY <1>1, <1>4, Places
  <2> QED BY <2>1
<1>5. CASE k < turn
  <2>1. Order[k] # d
    BY <1>1, <1>3, <1>5
  <2>2. ups'[Order[k]].flags = ups[Order[k]].flags /\ ups'[Order[k]].heard = ups[Order[k]].heard
    BY <1>3, <2>1
  <2>3. ups'[Order[k]].heard <= ups[Order[k]].heard
    BY <1>3, <2>2
  <2> QED BY <1>0, <1>2, <1>5, <2>2, <2>3 DEF Kept, Checked, Has
<1> QED BY <1>1, <1>2, <1>3, <1>4, <1>5

\* The failover driver stays where it is, or elects.
LEMMA HeardWaits ==
  ASSUME CInv,
         \/ UNCHANGED <<step, turn, waited, since, held>>
         \/ Napping /\ step = "check" /\ turn > Len(Order),
         \A e \in Drivers : /\ "ALIVE" \in ups'[e].flags => "ALIVE" \in ups[e].flags
                            /\ ups'[e].heard \in {0, ups[e].heard}
  PROVE  HeardKept
<1> SUFFICES ASSUME ~held', NEW k \in 1..Len(Order), Checked(k)', Has(Order[k], "ALIVE")'
             PROVE  Kept(k)
  BY DEF HeardKept
<1>1. /\ Order[k] \in Drivers /\ ups[Order[k]].heard \in Nat /\ k \in Nat /\ turn \in Nat
      /\ Spent \in Nat
  BY HeardType, SpentAre
<1>2. Has(Order[k], "ALIVE") /\ ups'[Order[k]].heard <= ups[Order[k]].heard
  <2>1. "ALIVE" \in ups'[Order[k]].flags
    BY DEF Has
  <2>2. "ALIVE" \in ups[Order[k]].flags /\ ups'[Order[k]].heard \in {0, ups[Order[k]].heard}
    BY <1>1, <2>1
  <2> QED BY <1>1, <2>2 DEF Has
<1>3. CASE UNCHANGED <<step, turn, waited, since, held>>
  <2>1. Spent' = Spent
    BY <1>3 DEF Spent, Here
  <2> QED BY <1>1, <1>2, <1>3, <2>1 DEF Kept, Checked
<1>4. CASE Napping /\ step = "check" /\ turn > Len(Order)
  <2>0. ~held /\ UNCHANGED since
    BY <1>4 DEF Napping
  <2>1. Spent' >= Spent
    BY <1>4, <2>0, SpentGrows
  <2>2. k < turn
    BY <1>1, <1>4
  <2> QED BY <1>2, <2>0, <2>1, <2>2 DEF Kept, Checked
<1> QED BY <1>3, <1>4

LEMMA HeardParse ==
  ASSUME CInv, ups_parse_protocol
  PROVE  HeardKept
<1>1. PICK d \in Drivers, m \in Messages, u \in ups_device_t : Takes(d, m, u)
  BY ParseStep
<1>2. /\ Place(d) = turn /\ Has(d, "ALIVE") /\ step = "read" /\ u.heard = 0
      /\ ups'[d] = u /\ \A e \in Drivers \ {d} : ups'[e] = ups[e]
  BY <1>1 DEF Takes, CInv, TypeOK
<1>3. CASE left = 1
  <2>1. NextDriver
    BY <1>3 DEF ups_parse_protocol
  <2> QED BY <1>2, <2>1, HeardNext
<1>4. CASE left # 1
  <2>1. UNCHANGED <<step, turn, waited, since, held>>
    BY <1>4 DEF ups_parse_protocol
  <2>2. \A e \in Drivers : /\ "ALIVE" \in ups'[e].flags => "ALIVE" \in ups[e].flags
                           /\ ups'[e].heard \in {0, ups[e].heard}
    BY <1>2 DEF Has
  <2> QED BY <2>1, <2>2, HeardWaits
<1> QED BY <1>3, <1>4

LEMMA HeardCandidate ==
  ASSUME CInv, NEW c \in Drivers, HasCandidate(c)
  PROVE  HeardKept
<1> DEFINE u == [ups[c] EXCEPT !.needs_export = FALSE, !.force_export = FALSE]
<1>1. u.flags = ups[c].flags /\ u.heard = ups[c].heard /\ ups' = [ups EXCEPT ![c] = u]
  BY CoreCandidate
<1> HIDE DEF u
<1>2. \A e \in Drivers : ups'[e] = IF e = c THEN u ELSE ups[e]
  BY <1>1 DEF CInv, TypeOK
<1>3. \A e \in Drivers : ups'[e].flags = ups[e].flags /\ ups'[e].heard = ups[e].heard
  BY <1>1, <1>2
<1>4. Napping /\ step = "check" /\ turn > Len(Order)
  BY DEF HasCandidate, Elects
<1> QED BY <1>3, <1>4, HeardWaits

LEMMA HeardKeptOr ==
  ASSUME CInv, Next
  PROVE  HeardKept \/ Tick
<1>1. ASSUME World PROVE HeardKept
  BY <1>1, CoreWorld, HeardWaits DEF World, Failover, control
<1>2. ASSUME NEW d \in Drivers, NEW cmd \in Overrides[d], instcmd(d, cmd[1], cmd[2])
      PROVE  HeardKept
  BY <1>2, CoreCommand, HeardWaits DEF instcmd, control
<1>3. ASSUME NEW d \in Drivers, Die(d) PROVE HeardKept
  <2> DEFINE u == [ups[d] EXCEPT !.conn = IF @ = "open" THEN "eof" ELSE @]
  <2>1. ups[d] \in ups_device_t /\ ups' = [ups EXCEPT ![d] = u]
    BY <1>3 DEF Die, CInv, TypeOK
  <2>2. u.flags = ups[d].flags /\ u.heard = ups[d].heard
    BY <2>1 DEF ups_device_t
  <2> HIDE DEF u
  <2>3. \A e \in Drivers : ups'[e] = IF e = d THEN u ELSE ups[e]
    BY <2>1 DEF CInv, TypeOK
  <2>4. \A e \in Drivers : ups'[e].flags = ups[e].flags /\ ups'[e].heard = ups[e].heard
    BY <2>2, <2>3
  <2> QED BY <1>3, <2>4, HeardWaits DEF Die, control
<1>4. ASSUME NEW d \in Drivers, ups_connect(d) PROVE HeardKept
  <2>1. ups'[d].heard = 0 /\ \A e \in Drivers \ {d} : ups'[e] = ups[e]
    <3>1. ups' = [ups EXCEPT ![d] = Connect(ups[d])] /\ Connect(ups[d]).heard = 0
      BY <1>4, CoreConnect
    <3> QED BY <3>1 DEF CInv, TypeOK
  <2>2. 0 <= DEADTIME
    BY Constant
  <2> QED BY <1>4, <2>1, <2>2, HeardRead DEF ups_connect
<1>5. ASSUME NEW d \in Drivers, StaysDead(d) PROVE HeardKept
  <2>1. Place(d) = turn /\ step # "nap" /\ NextDriver /\ ~Has(d, "ALIVE")
    BY <1>5, Place_At DEF StaysDead
  <2> QED BY <1>5, <2>1, CoreStaysDead, HeardNext DEF Has
<1>6. ASSUME NEW d \in Drivers, is_ups_alive(d) PROVE HeardKept
  <2>1. ups'[d].heard <= DEADTIME
    <3>1. ups[d].heard \in Nat /\ ~(ups[d].heard > DEADTIME) /\ DEADTIME \in Nat
      BY <1>6, Places, HeardType, Constant DEF is_ups_alive, Dead
    <3> QED BY <1>6, <3>1, CoreAlive
  <2> QED BY <1>6, <2>1, CoreAlive, HeardRead DEF is_ups_alive
<1>7. ASSUME NEW d \in Drivers, DeclaredDead(d) \/ ReadFails(d) PROVE HeardKept
  <2>1. /\ NextDriver \/ Bye
        /\ Place(d) = turn /\ step \in {"check", "read"} /\ ~Has(d, "ALIVE")'
        /\ \A e \in Drivers \ {d} : ups'[e] = ups[e]
    BY <1>7, CoreDisconnect
  <2>2. "ALIVE" \notin ups'[d].flags
    BY <2>1 DEF Has
  <2> QED BY <2>1, <2>2, HeardNext, HeardBye
<1>8. ASSUME NEW d \in Drivers, ups_read_data(d) PROVE HeardKept
  BY <1>8, HeardWaits DEF ups_read_data
<1>9. ASSUME NEW d \in Drivers, ReadsNothing(d) PROVE HeardKept
  <2>1. Place(d) = turn /\ step = "read" /\ NextDriver /\ UNCHANGED ups
    BY <1>9, Place_At DEF ReadsNothing
  <2> QED BY <2>1, HeardNext DEF Has
<1>12. ASSUME NEW d \in Drivers, upsdrvquery_close(d) PROVE HeardKept
  <2>1. Place(d) = turn /\ step = "bye" /\ NextDriver /\ UNCHANGED ups /\ d = Order[turn]
    BY <1>12, Place_At DEF upsdrvquery_close, At
  <2>2. "ALIVE" \notin ups'[d].flags
    BY <2>1 DEF CInv, Turned, Has
  <2> QED BY <2>1, <2>2, HeardNext
<1>10. ASSUME handle_init_time \/ handle_no_primaries PROVE HeardKept
  BY <1>10, HeardWaits DEF handle_init_time, handle_no_primaries, Elects
<1>11. ASSUME EndNap PROVE HeardKept
  <2>1. step' = "check" /\ turn' = 1
    BY <1>11 DEF EndNap, CInv, Turned
  <2> QED BY <2>1 DEF HeardKept, Checked
<1> QED BY Steps, HeardParse, HeardCandidate, <1>1, <1>2, <1>3, <1>4, <1>5, <1>6, <1>7, <1>8,
        <1>9, <1>10, <1>11, <1>12 DEF Command

LEMMA HeardTick ==
  ASSUME CInv, CInv', HeardInTime, Tick
  PROVE  HeardInTime'
<1> SUFFICES ASSUME ~held', NEW k \in 1..Len(Order), Checked(k)', Has(Order[k], "ALIVE")'
             PROVE  /\ ups'[Order[k]].heard <= DEADTIME + Spent'
                    /\ since' < POLLINTERVAL => ups'[Order[k]].heard <= DEADTIME + since'
  BY DEF HeardInTime
<1>1. /\ Order[k] \in Drivers /\ ups[Order[k]].heard \in Nat /\ Spent \in Nat /\ since \in Nat
      /\ DEADTIME \in Nat /\ POLLINTERVAL \in Nat
  BY HeardType, Constant
<1>2. /\ UNCHANGED <<step, turn>> /\ ~held
      /\ since' = IF since < POLLINTERVAL THEN since + 1 ELSE since
      /\ \/ step \in {"read", "bye"} /\ waited' = waited + 1
         \/ step = "nap" /\ since < POLLINTERVAL
  BY DEF Tick, Blocked, ConnectWaits, ReadWaits, At
<1>3. /\ "ALIVE" \in ups[Order[k]].flags
      /\ ups'[Order[k]].heard \in Nat /\ ups'[Order[k]].heard <= ups[Order[k]].heard + 1
  <2>1. ups'[Order[k]] = Aged(ups[Order[k]]) /\ ups[Order[k]] \in ups_device_t
    BY <1>1 DEF CInv, TypeOK, Tick
  <2>2. /\ Aged(ups[Order[k]]).flags = ups[Order[k]].flags
        /\ Aged(ups[Order[k]]).heard <= ups[Order[k]].heard + 1
    BY <2>1, AgedType
  <2>3. "ALIVE" \in ups'[Order[k]].flags
    BY DEF Has
  <2>4. (ups[Order[k]].heard \in Nat)'
    BY HeardType, PTL
  <2> QED BY <2>1, <2>2, <2>3, <2>4
<1>4. /\ ups[Order[k]].heard <= DEADTIME + Spent
      /\ since < POLLINTERVAL => ups[Order[k]].heard <= DEADTIME + since
  BY <1>2, <1>3 DEF HeardInTime, Checked, Has
<1>5. CASE step \in {"read", "bye"} /\ waited' = waited + 1
  <2>1. Spent' = Spent + 1
    <3> DEFINE before == (turn - 1) * Longest
    <3>1. before \in Nat /\ waited \in Nat /\ READTIMEOUT \in Nat /\ Here \in Nat
      BY SpentAre, Constant
    <3>2. Here' = Here + 1
      BY <1>2, <1>5, <3>1 DEF Here
    <3>3. Spent' = before + Here' /\ Spent = before + Here
      BY <1>2, <1>5 DEF Spent
    <3> HIDE DEF before
    <3> QED BY <3>1, <3>2, <3>3
  <2> QED BY <1>1, <1>2, <1>3, <1>4, <2>1
<1>6. CASE step = "nap" /\ since < POLLINTERVAL
  <2>1. Spent' = Round /\ Round \in Nat /\ Round >= POLLINTERVAL
    BY <1>2, <1>6, Constant DEF Spent
  <2> QED BY <1>1, <1>2, <1>3, <1>4, <1>6, <2>1
<1> QED BY <1>2, <1>5, <1>6

LEMMA HeardAlways == Spec => [](PInv /\ HeardInTime)
<1>1. Init => HeardInTime
  BY DEF Init, HeardInTime, Checked
<1>2. CInv /\ CInv' /\ HeardInTime /\ [Next]_vars => HeardInTime'
  <2> SUFFICES ASSUME CInv, CInv', HeardInTime, [Next]_vars PROVE HeardInTime'
    OBVIOUS
  <2>1. CASE UNCHANGED vars
    BY <2>1 DEF HeardInTime, Checked, Spent, Here, Has, vars, control
  <2>2. CASE Next
    BY <2>2, HeardKeptOr, HeardStays, HeardTick
  <2> QED BY <2>1, <2>2
<1>3. PInv => CInv
  BY DEF PInv
<1> QED BY <1>1, <1>2, <1>3, PublishedAlways, PTL DEF Spec

\* PrimaryHeard, for handle_connections(), failover.c:634: what is published as the data
\* of the primary was confirmed by it within deadtime and one round of the loop, in which
\* each driver may take a read that times out and a goodbye, but for a round in which
\* connect() waited for a driver that hangs.
THEOREM PrimaryFresh == Spec => []PrimaryHeard
<1>1. PInv /\ HeardInTime => PrimaryHeard
  <2> SUFFICES ASSUME PInv, HeardInTime, step = "nap", ~held, primary # None, absent = Unset
               PROVE  ups[primary].heard <= SILENCE
    BY DEF PrimaryHeard
  <2>1. Has(primary, "ALIVE") /\ primary \in Drivers
    BY DEF PInv, PrimaryAlive, CInv, TypeOK
  <2>2. Place(primary) \in 1..Len(Order) /\ Order[Place(primary)] = primary
    BY <2>1, Places
  <2>3. ups[primary].heard <= DEADTIME + Spent
    BY <2>1, <2>2 DEF HeardInTime, Checked
  <2> QED BY <2>3, Constant DEF Spent
<1> QED BY <1>1, HeardAlways, PTL

===============================================================================
