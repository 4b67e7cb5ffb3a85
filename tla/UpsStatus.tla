------------------------------ MODULE UpsStatus ------------------------------
(***************************************************************************)
(* One monitored UPS as clients/upsmon.c keeps it: the utype_t record, how *)
(* a poll of ups.status rewrites it (parse_status and the ups_is_* /       *)
(* ups_on_* handlers), and when the UPS counts as critical                 *)
(* (is_ups_critical).  Everything here is a pure operator; Upsmon.tla is   *)
(* the process that applies them.                                          *)
(*                                                                         *)
(* Times.  Every time_t the code compares is used as "now - X", so the     *)
(* record keeps the age itself: 0 is "now", Horizon is "longer ago than    *)
(* any configured duration" (and stands for the value 0 of a time_t that   *)
(* was never set), and Unset is the 0 the code tests for in offsince,      *)
(* oversince and oblbsince.                                                *)
(*                                                                         *)
(* A flag of ups->status that mirrors a word of ups.status has the name of *)
(* the word: "OL" is ST_ONLINE, "OB" ST_ONBATT, "LB" ST_LOWBATT.           *)
(***************************************************************************)
EXTENDS Integers, Sequences, FiniteSets

CONSTANTS
  POLLFREQ, POLLFREQALERT,  \* seconds between polls: relaxed, alert
  DEADTIME,                 \* silence after which a UPS on battery is dead
  HOSTSYNC,                 \* how long primary and secondaries wait for each other
  OFFDURATION,              \* how long OFF must last to be critical; negative: never
  OBLBDURATION,             \* how long OB+LB must last; not positive: at once
  OVERDURATION,             \* overload before a silent UPS is dead; negative: never
  ALARMCRITICAL,            \* a UPS lost while in ALARM is critical
  Horizon                   \* age at which the model's clocks saturate

ASSUME TimesAssumption ==
  /\ POLLFREQ \in Nat \ {0} /\ POLLFREQALERT \in Nat \ {0}
  /\ DEADTIME \in Nat /\ HOSTSYNC \in Nat
  /\ OFFDURATION \in Int /\ OBLBDURATION \in Int /\ OVERDURATION \in Int
  /\ ALARMCRITICAL \in BOOLEAN

\* The saturation is invisible: a saturated age exceeds every duration it is
\* compared with.
ASSUME HorizonAssumption ==
  /\ Horizon \in Nat
  /\ \A d \in {POLLFREQ, POLLFREQALERT, DEADTIME, HOSTSYNC,
               OFFDURATION, OBLBDURATION, OVERDURATION} : Horizon > d

Unset == -1
Ages  == 0..Horizon
Stamp == Ages \cup {Unset}

-----------------------------------------------------------------------------
(* The record.                                                             *)

LineWords == {"OL", "OB"}
Toggles   == {"LB", "FSD", "CAL", "OFF", "BYPASS", "ECO", "ALARM", "OVER",
              "TRIM", "BOOST"}
Words     == LineWords \cup Toggles \cup {"OTHER"}
Flags     == LineWords \cup Toggles \cup {"PRIMARY", "LOGIN", "CLICONNECTED"}

Tri == {-1, 0, 1}            \* the *state fields: unknown, no, yes

\* pv and cred (username and password together) are what upsmon.conf says.
CONSTANT Creds
utype_t ==
  [pv : Nat, cred : Creds, status : SUBSET Flags, commstate : Tri,
   offstate : Tri, bypassstate : Tri, alarmstate : Tri, overstate : Tri,
   lastpoll : Ages, lastnoncrit : Ages,
   offsince : Stamp, oversince : Stamp, oblbsince : Stamp]

\* What addups() links into the list.
addups(pv, cred, primary) ==
  [pv |-> pv, cred |-> cred,
   status |-> IF primary THEN {"PRIMARY"} ELSE {}, commstate |-> -1,
   offstate |-> -1, bypassstate |-> -1, alarmstate |-> -1, overstate |-> -1,
   lastpoll |-> Horizon, lastnoncrit |-> Horizon,
   offsince |-> Unset, oversince |-> Unset, oblbsince |-> Unset]

Older(t) == IF t \in {Unset, Horizon} THEN t ELSE t + 1

\* One second passes for every time the record remembers.
Aged(u) ==
  [u EXCEPT !.lastpoll = Older(@), !.lastnoncrit = Older(@),
            !.offsince = Older(@), !.oversince = Older(@),
            !.oblbsince = Older(@)]

Oldest(t) == IF t = Unset THEN Unset ELSE Horizon

\* The clock jumps ahead by more than any duration (the host was suspended).
Jumped(u) ==
  [u EXCEPT !.lastpoll = Horizon, !.lastnoncrit = Horizon,
            !.offsince = Oldest(@), !.oversince = Oldest(@),
            !.oblbsince = Oldest(@)]

-----------------------------------------------------------------------------
(* Communication with upsd.                                                *)

ups_is_gone(u)  == [u EXCEPT !.commstate = 0]
ups_is_alive(u) == [u EXCEPT !.commstate = 1, !.lastpoll = 0]

\* Mutation: the login survives the connection.
drop_connection_half(u) ==
  [u EXCEPT !.commstate = 0, !.status = @ \ {"CLICONNECTED"}]

drop_connection(u) ==
  [u EXCEPT !.commstate = 0, !.status = @ \ {"LOGIN", "CLICONNECTED"}]

\* Mutation: a UPS once monitored as primary stays so.
redefine_ups_sticky(u, pv, cred, primary) ==
  LET told == [u EXCEPT !.pv = pv, !.cred = cred]
  IN  IF primary /\ "PRIMARY" \notin u.status
      THEN drop_connection([told EXCEPT !.status = @ \cup {"PRIMARY"}]) ELSE told

\* A MONITOR line read again by a reload.  New credentials restart a connection
\* that is not logged in; becoming primary always does.
redefine_ups(u, pv, cred, primary) ==
  LET told  == [u EXCEPT !.pv = pv, !.cred = cred]
      again == IF cred # u.cred /\ "LOGIN" \notin u.status
               THEN drop_connection(told) ELSE told
  IN  IF primary /\ "PRIMARY" \notin u.status
      THEN drop_connection([again EXCEPT !.status = @ \cup {"PRIMARY"}])
      ELSE IF primary THEN again
      ELSE [again EXCEPT !.status = @ \ {"PRIMARY"}]

\* try_connect() once upscli_connect() succeeded; "granted" says how far
\* do_upsd_auth() came: nothing, LOGIN, or LOGIN and PRIMARY.
Connected(u, granted) ==
  [u EXCEPT !.status = @ \cup {"CLICONNECTED"}
                         \cup (IF granted = "none" THEN {} ELSE {"LOGIN"})]

-----------------------------------------------------------------------------
(* parse_status().  A report is the sequence of words of ups.status and    *)
(* what kind of ups.mode.buzzwords came with it.                           *)

Buzzwords == {"none", "eco", "other"}
IsReport(r) == r.words \in Seq(Words) /\ r.buzz \in Buzzwords

\* Any non-empty buzzword counts as ECO: the test in the code is a disjunction
\* of negated strstr() calls.
is_eco_buzzword(r) == r.buzz # "none"

Seen(ws) == {ws[i] : i \in DOMAIN ws}

\* Mutation: nothing clears a flag.
KeptForever(status, r) ==
  status \cup (IF is_eco_buzzword(r) THEN {"ECO"} ELSE {})

\* Before the words are read, flags whose word is gone are cleared.
Kept(status, r) ==
  LET eco == IF is_eco_buzzword(r) THEN {"ECO"} ELSE {}
  IN  {f \in status : f \in Toggles => f \in Seen(r.words) \cup eco} \cup eco

\* The last of OL and OB, if any of them was read.
LastLine(ws) ==
  {w \in LineWords : \E i \in DOMAIN ws :
     /\ ws[i] = w
     /\ \A j \in DOMAIN ws : j > i => ws[j] \notin LineWords}

\* The flags after the words ws are read with the flags s set: each word sets
\* its flag, and the later of OL and OB clears the other.
StatusAfter(s, ws) ==
  (IF LastLine(ws) = {} THEN s ELSE (s \ LineWords) \cup LastLine(ws))
    \cup (Seen(ws) \cap Toggles)

\* try_restore_pollfreq() tests for all of these at once.
PollBlockers == {"OB", "OFF", "BYPASS", "ALARM", "CAL", "OVER", "TRIM", "BOOST"}
try_restore_pollfreq(s) == ~(PollBlockers \subseteq s)

\* Clearing a flag other than LB and FSD tries to relax the polling.
ClearRelaxes(s, r) ==
  \/ (s \ Kept(s, r)) \cap (PollBlockers \ {"OB"}) # {}
  \/ "ECO" \in s \ Kept(s, r) /\ try_restore_pollfreq(Kept(s, r))

\* Reading the word w with the flags s set: OL relaxes the polling, a fresh
\* OB, OFF, BYPASS, ALARM or OVER makes it urgent.
WordRelaxes(s, w) == w = "OL" /\ try_restore_pollfreq(s)
WordAlerts(s, w) ==
  /\ w \notin s
  /\ w \in {"OB", "OFF", "BYPASS", "ALARM"} \/ (w = "OVER" /\ OVERDURATION >= 0)

\* sleepval after the report r reached a UPS with the flags s.
SleepAfterReport(s, r, sleepval) ==
  LET Before(i) == StatusAfter(Kept(s, r), SubSeq(r.words, 1, i - 1))
      touched == {i \in DOMAIN r.words : \/ WordRelaxes(Before(i), r.words[i])
                                         \/ WordAlerts(Before(i), r.words[i])}
      last == CHOOSE i \in touched : \A j \in touched : j <= i
  IN  IF touched # {}
        THEN IF WordAlerts(Before(last), r.words[last]) THEN POLLFREQALERT
                                                        ELSE POLLFREQ
        ELSE IF ClearRelaxes(s, r) THEN POLLFREQ ELSE sleepval

LowOnBattery(s) == {"OB", "LB"} \subseteq s

\* update_crittimer() runs after every word and restarts the timer unless the
\* UPS is OB and LB and not calibrating.
update_crittimer(s, r, lastnoncrit) ==
  IF \A i \in DOMAIN r.words :
       LET now == StatusAfter(Kept(s, r), SubSeq(r.words, 1, i))
       IN  LowOnBattery(now) /\ "CAL" \notin now
  THEN lastnoncrit ELSE 0

\* ups_is_off() and ups_is_notoff(): offstate is raised once OFF was reported
\* for longer than OFFDURATION, at once when that is 0.
OffState(u, r) ==
  CASE "OFF" \notin Seen(r.words) -> 0
    [] "OFF" \in Seen(r.words) /\ "OFF" \notin u.status ->
         IF OFFDURATION = 0 THEN 1 ELSE u.offstate
    [] OTHER ->
         IF OFFDURATION > 0 /\ u.offsince # Unset /\ u.offsince > OFFDURATION
         THEN 1 ELSE u.offstate

\* offsince and oversince: unset without the word, now when it is new.
Since(word, u, since, r) ==
  IF word \notin Seen(r.words) THEN Unset
  ELSE IF word \notin u.status \/ since = Unset THEN 0 ELSE since

\* Mutation: the state is not reset when the word is gone.
RaisedForGood(word, u, state, r) ==
  IF word \in Seen(r.words) \ u.status THEN 1 ELSE state

\* bypassstate, alarmstate and overstate: a new word raises them.
Raised(word, u, state, r) ==
  IF word \notin Seen(r.words) THEN 0
  ELSE IF word \notin u.status THEN 1 ELSE state

\* An empty ups.status is the same as no answer.
parse_status(u, r) ==
  IF r.words = << >> THEN ups_is_gone(u)
  ELSE [ups_is_alive(u) EXCEPT
          !.status = StatusAfter(Kept(u.status, r), r.words),
          !.lastnoncrit = update_crittimer(u.status, r, @),
          !.offstate = OffState(u, r),
          !.offsince = Since("OFF", u, @, r),
          !.bypassstate = Raised("BYPASS", u, @, r),
          !.alarmstate = Raised("ALARM", u, @, r),
          !.overstate = Raised("OVER", u, @, r),
          !.oversince = Since("OVER", u, @, r)]

-----------------------------------------------------------------------------
(* recalc() and is_ups_critical().                                         *)

\* Mutations: a UPS gets a second more than DEADTIME, or for ever.
PromotedLate(u) ==
  IF u.lastpoll > DEADTIME + 1 /\ "OB" \in u.status
  THEN [u EXCEPT !.status = @ \cup {"LB"}] ELSE u
PromotedNever(u) == u

\* A UPS last known on battery and silent for DEADTIME is taken to be low.
Promoted(u) ==
  IF u.lastpoll > DEADTIME /\ "OB" \in u.status
  THEN [u EXCEPT !.status = @ \cup {"LB"}] ELSE u

\* Mutation: only the states count, not the flags just read.
LostAtRiskByState(u) ==
  /\ u.commstate = 0
  /\ \/ u.overstate = 1 /\ OVERDURATION >= 0 /\ u.oversince >= OVERDURATION
     \/ u.alarmstate = 1 /\ ALARMCRITICAL
     \/ u.bypassstate = 1 \/ u.offstate = 1

\* The clauses of is_ups_critical() under "commstate == 0".
LostAtRisk(u) ==
  /\ u.commstate = 0
  /\ \/ /\ u.overstate = 1 \/ "OVER" \in u.status
        /\ OVERDURATION >= 0
        /\ u.oversince = Unset \/ u.oversince >= OVERDURATION
     \/ (u.alarmstate = 1 \/ "ALARM" \in u.status) /\ ALARMCRITICAL
     \/ "CAL" \in u.status
     \/ u.bypassstate = 1 \/ "BYPASS" \in u.status
     \/ u.offstate = 1 \/ (OFFDURATION >= 0 /\ "OFF" \in u.status)

OffTooLong(u) == "OFF" \in u.status /\ OFFDURATION >= 0 /\ u.offstate = 1

\* The returns of is_ups_critical() that come before the OB+LB test.
CriticalAnyway(u) == "FSD" \in u.status \/ LostAtRisk(u) \/ OffTooLong(u)

is_ups_critical(u) ==
  \/ CriticalAnyway(u)
  \/ /\ LowOnBattery(u.status) /\ "CAL" \notin u.status
     /\ OBLBDURATION > 0 => u.oblbsince # Unset /\ u.oblbsince >= OBLBDURATION
     /\ "PRIMARY" \in u.status \/ u.lastnoncrit > HOSTSYNC

StartsOblb(u) ==
  /\ ~CriticalAnyway(u)
  /\ LowOnBattery(u.status) /\ "CAL" \notin u.status
  /\ OBLBDURATION > 0 /\ u.oblbsince = Unset

LeavesOblb(u) ==
  ~CriticalAnyway(u) /\ ~LowOnBattery(u.status) /\ u.oblbsince # Unset

\* What is_ups_critical() leaves in the record ...
Judged(u) ==
  [u EXCEPT !.oblbsince = CASE StartsOblb(u) -> 0
                            [] LeavesOblb(u) -> Unset
                            [] OTHER         -> @]

\* ... and in sleepval: the greatest common divisor of POLLFREQALERT and
\* OBLBDURATION while the delay runs.
Divides(d, n) == n % d = 0
OblbPoll ==
  CHOOSE d \in 1..POLLFREQALERT :
    /\ Divides(d, POLLFREQALERT) /\ Divides(d, OBLBDURATION)
    /\ \A e \in 1..POLLFREQALERT :
         Divides(e, POLLFREQALERT) /\ Divides(e, OBLBDURATION) => e <= d

TouchesSleep(u) == StartsOblb(u) \/ LeavesOblb(u)
SleepAfterJudging(u) ==
  IF StartsOblb(u) THEN OblbPoll
  ELSE IF "OB" \in u.status THEN POLLFREQALERT ELSE POLLFREQ

=============================================================================
