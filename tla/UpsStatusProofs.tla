--------------------------- MODULE UpsStatusProofs ---------------------------
(* Facts about the record of one UPS: every handler returns a record. *)
EXTENDS UpsStatus, TLAPS

\* Ageing keeps a time stamp in its range.
LEMMA OlderType ==
  /\ \A t \in Ages : Older(t) \in Ages
  /\ \A t \in Stamp : Older(t) \in Stamp
BY HorizonAssumption DEF Older, Ages, Stamp, Unset

\* addups(), upsmon.c:1904, makes a record.
LEMMA AddupsType ==
  ASSUME NEW pv \in Nat, NEW cred \in Creds, NEW primary
  PROVE  addups(pv, cred, primary) \in utype_t
BY HorizonAssumption DEF addups, utype_t, Tri, Ages, Stamp, Unset, Flags

\* The clock changes no field's type.
LEMMA ClockType ==
  ASSUME NEW u \in utype_t
  PROVE  Aged(u) \in utype_t /\ Jumped(u) \in utype_t
<1>1. Aged(u) \in utype_t
  BY OlderType DEF Aged, utype_t
<1>2. Horizon \in Ages /\ \A t \in Stamp : Oldest(t) \in Stamp
  BY HorizonAssumption DEF Oldest, Ages, Stamp, Unset
<1>3. Jumped(u) \in utype_t
  BY <1>2 DEF Jumped, utype_t
<1> QED BY <1>1, <1>3

\* ups_is_gone(), ups_is_alive(), drop_connection() and try_connect().
LEMMA ConnectionType ==
  ASSUME NEW u \in utype_t
  PROVE  /\ ups_is_gone(u) \in utype_t /\ ups_is_alive(u) \in utype_t
         /\ drop_connection(u) \in utype_t
         /\ \A granted : Connected(u, granted) \in utype_t
<1>1. ups_is_gone(u) \in utype_t /\ ups_is_alive(u) \in utype_t
  <2>1. 0 \in Ages /\ 0 \in Tri /\ 1 \in Tri
    BY HorizonAssumption DEF Ages, Tri
  <2> QED BY <2>1 DEF ups_is_gone, ups_is_alive, utype_t
<1>2. drop_connection(u) \in utype_t
  BY DEF drop_connection, utype_t, Tri
<1>3. ASSUME NEW granted PROVE Connected(u, granted) \in utype_t
  BY DEF Connected, utype_t, Flags
<1> QED BY <1>1, <1>2, <1>3

\* redefine_ups(), upsmon.c:1790.
LEMMA RedefineType ==
  ASSUME NEW u \in utype_t, NEW pv \in Nat, NEW cred \in Creds, NEW primary
  PROVE  redefine_ups(u, pv, cred, primary) \in utype_t
<1> DEFINE told == [u EXCEPT !.pv = pv, !.cred = cred]
           again == IF cred # u.cred /\ "LOGIN" \notin u.status
                    THEN drop_connection(told) ELSE told
<1>1. told \in utype_t
  BY DEF utype_t
<1>2. again \in utype_t
  BY <1>1, ConnectionType
<1> HIDE DEF again
<1>3. [again EXCEPT !.status = @ \cup {"PRIMARY"}] \in utype_t
  BY <1>2 DEF utype_t, Flags
<1>4. [again EXCEPT !.status = @ \ {"PRIMARY"}] \in utype_t
  BY <1>2 DEF utype_t
<1> USE DEF again
<1> QED BY <1>2, <1>3, <1>4, ConnectionType DEF redefine_ups

\* Words set and clear flags.
LEMMA StatusAfterType ==
  ASSUME NEW s \in SUBSET Flags, NEW ws
  PROVE  StatusAfter(s, ws) \in SUBSET Flags
BY DEF StatusAfter, LastLine, Flags, LineWords, Toggles

LEMMA KeptType ==
  ASSUME NEW s \in SUBSET Flags, NEW r
  PROVE  Kept(s, r) \in SUBSET Flags
BY DEF Kept, Flags, Toggles

\* parse_status(), upsmon.c:2729.
LEMMA ParseType ==
  ASSUME NEW u \in utype_t, NEW r
  PROVE  parse_status(u, r) \in utype_t
<1>1. CASE r.words = << >>
  BY <1>1, ConnectionType DEF parse_status
<1>2. CASE r.words # << >>
  <2> DEFINE v == ups_is_alive(u)
  <2>1. v \in utype_t
    BY ConnectionType
  <2>2. StatusAfter(Kept(u.status, r), r.words) \in SUBSET Flags
    BY KeptType, StatusAfterType DEF utype_t
  <2>3. update_crittimer(u.status, r, v.lastnoncrit) \in Ages
    BY <2>1, HorizonAssumption DEF update_crittimer, utype_t, Ages
  <2>4. OffState(u, r) \in Tri
    BY DEF OffState, utype_t, Tri
  <2>5. /\ Since("OFF", u, v.offsince, r) \in Stamp
        /\ Since("OVER", u, v.oversince, r) \in Stamp
    BY <2>1, HorizonAssumption DEF Since, utype_t, Stamp, Ages, Unset
  <2>6. /\ Raised("BYPASS", u, v.bypassstate, r) \in Tri
        /\ Raised("ALARM", u, v.alarmstate, r) \in Tri
        /\ Raised("OVER", u, v.overstate, r) \in Tri
    BY <2>1 DEF Raised, utype_t, Tri
  <2> HIDE DEF v
  <2>7. [v EXCEPT
          !.status = StatusAfter(Kept(u.status, r), r.words),
          !.lastnoncrit = update_crittimer(u.status, r, @),
          !.offstate = OffState(u, r),
          !.offsince = Since("OFF", u, @, r),
          !.bypassstate = Raised("BYPASS", u, @, r),
          !.alarmstate = Raised("ALARM", u, @, r),
          !.overstate = Raised("OVER", u, @, r),
          !.oversince = Since("OVER", u, @, r)] \in utype_t
    BY <2>1, <2>2, <2>3, <2>4, <2>5, <2>6 DEF utype_t
  <2> QED BY <1>2, <2>7 DEF parse_status, v
<1> QED BY <1>1, <1>2

\* recalc(), upsmon.c:1542, and is_ups_critical(), upsmon.c:1274.
LEMMA JudgedType ==
  ASSUME NEW u \in utype_t
  PROVE  Promoted(u) \in utype_t /\ Judged(u) \in utype_t
<1>1. Promoted(u) \in utype_t
  BY DEF Promoted, utype_t, Flags, Toggles
<1>2. Judged(u) \in utype_t
  BY HorizonAssumption DEF Judged, utype_t, Stamp, Ages, Unset
<1> QED BY <1>1, <1>2

\* Every change of sleepval is to one of the configured intervals.
LEMMA SleepType ==
  ASSUME NEW s, NEW r, NEW t, NEW u
  PROVE  /\ SleepAfterReport(s, r, t) \in {t, POLLFREQ, POLLFREQALERT}
         /\ SleepAfterJudging(u) \in {POLLFREQ, POLLFREQALERT, OblbPoll}
BY DEF SleepAfterReport, SleepAfterJudging

-----------------------------------------------------------------------------
(* Logged in only over a connection.                                       *)

Linked(u) == "LOGIN" \in u.status => "CLICONNECTED" \in u.status

\* No handler separates the login from its connection.
LEMMA LinkedKept ==
  ASSUME NEW u \in utype_t, Linked(u)
  PROVE  /\ Linked(Aged(u)) /\ Linked(Jumped(u))
         /\ Linked(ups_is_gone(u)) /\ Linked(drop_connection(u))
         /\ \A granted : Linked(Connected(u, granted))
         /\ Linked(Judged(Promoted(u)))
<1>1. /\ Aged(u).status = u.status /\ Jumped(u).status = u.status
      /\ ups_is_gone(u).status = u.status
  BY DEF Aged, Jumped, ups_is_gone, utype_t
<1>2. drop_connection(u).status = u.status \ {"LOGIN", "CLICONNECTED"}
  BY DEF drop_connection, utype_t
<1>3. ASSUME NEW granted PROVE "CLICONNECTED" \in Connected(u, granted).status
  BY DEF Connected, utype_t
<1>4. Judged(Promoted(u)).status \in {u.status, u.status \cup {"LB"}}
  <2>1. Promoted(u) \in utype_t
    BY JudgedType
  <2>2. Judged(Promoted(u)).status = Promoted(u).status
    BY <2>1 DEF Judged, utype_t
  <2> QED BY <2>2 DEF Promoted, utype_t
<1> QED BY <1>1, <1>2, <1>3, <1>4 DEF Linked

LEMMA LinkedParse ==
  ASSUME NEW u \in utype_t, Linked(u), NEW r
  PROVE  Linked(parse_status(u, r))
<1> DEFINE s == StatusAfter(Kept(u.status, r), r.words)
<1>1. CASE r.words = << >>
  BY <1>1, LinkedKept DEF parse_status
<1>2. CASE r.words # << >>
  <2>1. parse_status(u, r).status = s
    BY <1>2 DEF parse_status, ups_is_alive, utype_t
  <2>2. \A f \in {"LOGIN", "CLICONNECTED"} : f \in s <=> f \in u.status
    BY DEF StatusAfter, Kept, LastLine, LineWords, Toggles
  <2> QED BY <2>1, <2>2 DEF Linked
<1> QED BY <1>1, <1>2

LEMMA LinkedConfigured ==
  ASSUME NEW pv \in Nat, NEW cred \in Creds, NEW primary
  PROVE  /\ Linked(addups(pv, cred, primary))
         /\ \A u \in utype_t : Linked(u) => Linked(redefine_ups(u, pv, cred, primary))
<1>1. Linked(addups(pv, cred, primary))
  BY DEF Linked, addups
<1>2. ASSUME NEW u \in utype_t, Linked(u)
      PROVE  Linked(redefine_ups(u, pv, cred, primary))
  <2> DEFINE told == [u EXCEPT !.pv = pv, !.cred = cred]
             again == IF cred # u.cred /\ "LOGIN" \notin u.status
                      THEN drop_connection(told) ELSE told
  <2>1. told \in utype_t /\ Linked(told)
    BY <1>2 DEF utype_t, Linked
  <2>2. again \in utype_t /\ Linked(again)
    BY <2>1, ConnectionType, LinkedKept
  <2> HIDE DEF again
  <2>3. /\ [again EXCEPT !.status = @ \cup {"PRIMARY"}] \in utype_t
        /\ Linked([again EXCEPT !.status = @ \cup {"PRIMARY"}])
    BY <2>2 DEF utype_t, Flags, Linked
  <2>4. Linked([again EXCEPT !.status = @ \ {"PRIMARY"}])
    BY <2>2 DEF utype_t, Linked
  <2> USE DEF again
  <2> QED BY <2>2, <2>3, <2>4, LinkedKept DEF redefine_ups
<1> QED BY <1>1, <1>2

=============================================================================
