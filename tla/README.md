# Network UPS Tools: a TLA+ model of how NUT shuts hosts down

NUT turns what a UPS reports into the decision to halt hosts. Its parts are
small C programs that are easy to test one call at a time; what can go wrong is
in the order of things: a status that is obsolete, a login that outlives its
client, a signal or a reload between two polls, a secondary that is too late.
This directory models those parts, checks the models with TLC and proves the most
important results with TLAPS for every value of the parameters. Paths below are
relative to `src/`.

## 1. Inventory

```
 hardware --- driver --(unix socket)--> upsd --(TCP, text)--> upsmon --(pipe)--> parent: SHUTDOWNCMD
              dstate.c                  sstate.c, upsd.c      on each host   \--> upssched (timers)
```

| Part | State it keeps | Operations | What is hard | What makes it correct |
|---|---|---|---|---|
| **upsmon** `clients/upsmon.c` | a list of `utype_t` (flags, `*state`, time stamps), `sleepval`, signal flags, POWERDOWNFLAG | poll, parse ups.status, `recalc`, reload, suspend/resume, forced shutdown | obsolete readings, signals, reloads and sleeps between polls, two processes | shuts down when power fails, only then, and for good; roles and logins as configured |
| **upsd, clients** `server/upsd.c`, `netuser.c`, `conf.c` | list of clients, `loginups`, `last_heard`, `numlogins`, table of `poll()` | connect, LOGIN, LOGOUT, FSD, shed, reload | counters kept in five places, a full table, dead peers | login count exact; dead logins dropped; who asks is heard |
| **upsd, drivers** `server/sstate.c` | copy of a driver's variables, `dumpdone`, `data_ok`, `last_heard`, `last_ping` | connect, dump, update, ping, staleness | reconnection in an outage, pings against MAXAGE | served data are recent and complete |
| **upsd, queries** `netget.c`, `netset.c`, `netinstcmd.c` | command tracking | GET, LIST, SET, INSTCMD | result of a command that outlives its client | one result per id |
| **driver process** `drivers/main.c` | PID file, socket file, the open device | displace an older instance, open, fork, serve, leave, `-k` | instances that find each other by two files, which a third may have written | one process has the device |
| **driver socket** `drivers/dstate.c` | variable tree, connections | answer DUMPALL/PING, broadcast | a full socket, a connection freed while it is iterated | clients see every change in order |
| **upssched** `clients/upssched.c` | timer queue of a daemon, lock file, socket | START, CANCEL, EXECUTE | several clients and daemons racing | a cancelled timer does not fire |
| **failover** `drivers/failover.c` | state of several drivers, the primary | elect, promote, demote, `fsdmode` | readings that arrive one by one | at most one primary, the best |
| **upsdrvctl** `drivers/upsdrvctl.c` | table of UPSes, `pid`, `exceeded_timeout`, `exec_error`, `exec_timeout` | start, stop, shutdown in `sdorder` | retries, timeouts, partial failure, drivers that hang | success means that it was done; it ends |
| **libraries** `common/state.c`, `parseconf.c`, `upsclient.c` | tree, parser state | insert, delete, parse | long legal sequences | data-structure invariants |

Interactions: upsmon asks upsd over TCP, one request at a time (`GET VAR
ups.status`, `LOGIN`, `PRIMARY`, `FSD`, `GET NUMLOGINS`); upsd reads drivers'
sockets in the same loop in which it serves clients; the hosts that share a UPS
meet only in upsd, by its login count and its FSD flag. The clone and dummy
drivers, the hardware drivers, the CGI programs, the command-line clients,
nut-scanner, nutconf and TLS are in the list of components of `PROJECT.json` with
the reason they are left out.

## 2. Plan

The order is that of the damage a mistake does.

1. `UpsStatus`, `Upsmon`: one host decides. Done, proved.
2. `Upsd`: the server counts logins and serves clients. Done, proved.
3. `HostSync`, refining `OrderlyShutdown`: the hosts of one UPS; uses the records
   of `UpsStatus` and the logins of `Upsd` in abridged form. Done, proved.
4. `Upssched`: daemon, clients, lock and socket. Done, proved.
5. `DriverLink`: `dstate.c` and `sstate.c` over a socket. Done, proved.
6. `Failover`: election, publication, fallback. Done, proved.
7. `DriverLife` and, on top of it, `Upsdrvctl`: processes, files, signals. Done,
   proved.
8. Open: in `HostSync` a primary whose login is refused and restarts of upsd; the
   hazards without a property in `PROJECT.json`, first those of the wake-up
   (`upsmon.c:3997`) and of the lock of upssched (`upssched.c:1169`).

"Proved" says that every invariant and every action property the runs check is a
theorem; liveness is model-checked.

## 3. Modules

| Module | What it is |
|---|---|
| `UpsStatus` | pure operators: the record of one UPS and what a report does to it |
| `Upsmon` | the process: main loop, signals, reload, sleep, shutdown, parent |
| `MCUpsmon` | reports and configurations for TLC |
| `UpsStatusProofs`, `UpsmonProofs` | theorems about upsmon |
| `Upsd`, `MCUpsd`, `UpsdProofs` | the server and its clients |
| `OrderlyShutdown` | abstract: who may go down when |
| `HostSync`, `MCHostSync`, `HostSyncProofs` | the hosts of one UPS, and that they implement it |
| `DriverLink`, `MCDriverLink`, `DriverLinkProofs` | a driver's variables, their copy in upsd and the socket between them |
| `Failover`, `MCFailover`, `FailoverProofs` | a driver that follows several others |
| `Upssched`, `MCUpssched`, `UpsschedProofs` | processes that start and cancel timers, and their daemon |
| `DriverLife` | the life of driver processes; has no specification of its own |
| `Upsdrvctl`, `MCUpsdrvctl`, `UpsdrvctlProofs` | the tool that starts and stops them, composed with `DriverLife` |

Operators called `...Late`, `...Never`, `..._sticky` and the like, with a comment
that begins "Mutation:", are used by no specification. `PROJECT.json` says which
property detects each when it takes the place of the definition after it.

### Upsmon

`ups[u]` is the `utype_t`; `pv` and `status` keep the names of the code, a flag has
the name of its word in ups.status. A time stamp X is kept as its age, now - X,
which is all the code uses, and saturates at `Horizon`, beyond every configured
duration. `pc` is the place in `main()`: `top` (flags tested), `os`, `doze`, `wake`
(the suspend tracking), `begin` and `poll` (one action per UPS and outcome: not
connected, not allowed, answered, failed), `nap`, and on the way down `force`,
`sync`, `final`, `order`, `linger`, `exited`. Polling in any order stands for the
order of the list. `recalc` is one action with all of `is_ups_critical`. The
environment answers any report of `Reports`, refuses or fails; signals set their
flags at any moment and end a wait, as they end `sleep()`. The privileged parent
and the pipe are variables of their own because each process can die alone.

`said`, `cause`, `critical` and `conf` are history: what each UPS last reported and
whether a wake-up came since. They let properties compare the flags with the truth,
not with themselves.

### Upsd

One pass of `mainloop()` is `top` (reload), `scan` (shed idle clients, fill the table),
`poll` (the only place where time passes, at most `POLLWAIT` = 2 s) and `serve` (one
ready client per step; the client that was served renews `last_heard`). `list` and
`newer` are the linked list, newest first, which decides who fits the table. A
driver is a connection that takes a place. `peer` says what the client's host does:
it may close the connection, or vanish so that no byte ever comes. Permission is a
free choice at every command.

### HostSync

Each host keeps a record of `UpsStatus` and judges it with the operators that
`Upsmon` uses; polling and judging are one step, everything that takes time is in
`slept`. `sessions` are the live logins and `ghosts` the logins that upsd still
counts although the client is gone (in `Upsd`: closed or vanished peers); NUMLOGINS
is the sum. A crash of a connection, stale data and failing connects are `Faults`.
`OrderlyShutdown` says that the primary leaves its wait when nobody is attached,
when it has waited longer than HOSTSYNC, or when it cannot see the count; the
mapping is at the end of `HostSync`.

### DriverLink

`tree` is what the driver has and `info` what upsd has; `toU` and `toD` are the two
directions of the socket, of `Capacity` and `CmdCapacity` messages. `out` is what the
driver still has to write in the call it is in: a change, or the dump that answers
DUMPALL. A write to a full socket cuts the connection and makes new ones blocking,
as `send_to_one` does. upsd acts in the order of `mainloop()`: one scan of
the drivers (reconnect, ping, staleness), then whatever is readable. Time passes
in `Tick` only, while both wait. `steady` is history: the driver has been up and has
had data for as long as it has been connected.

### Failover

One call of `upsdrv_updateinfo()` takes each tracked driver in turn through `check`
(connect, ping, declare dead), `read` and, if it is given up, `bye`; after the last
one it elects, exports or falls back, and the rest of the interval is `nap`. Time
passes in four places: `connect()` waits while the driver's queue is full, a read
waits `READTIMEOUT` for a slow driver, `upsdrvquery_close()` sleeps `LOGOUTTIME`
after a LOGOUT it could write, and the nap. `queue[d]` counts the connections that d
has not accepted, those closed meanwhile included, as the kernel does.
`ups[d]` is the `ups_device_t` with its name's fields; ages are kept like those of
`Upsmon` and stop one second behind the limit they are compared with. The
environment lets the drivers change their reports, lose their data, be slow, die
and come back, as `Habits` allows. `absent` is history: how long there has really
been no primary, against which the code's `primaries_gone_time` is judged; so is `held`:
`connect()` has waited in this call.

### Upssched

`client[c]` is one upssched process at its place in `check_parent()` and `sendcmd()`,
`daemon[d]` one run of `start_daemon()` with its queues and timers, `path` and `lock`
are the two files. Connecting, waiting for the lock, forking, sending and
waiting for the answer are steps of their own, so every interleaving of clients
and daemons is there; the daemon serves one readable connection per step. The queue
of timers is a set in which each timer has a number, that of the order it was
started in: "the first of that name" is the one with the least number. `ready` is what
`select()` has found, and the connections are gone through in their own order. `made`,
`hit`, `before`, `fired` are history and count what became of each START and CANCEL.

### DriverLife and Upsdrvctl

`proc[p].at` is the place of a process in `main()`: `set` and `power` (the two requests
of -k), `ask` (driver.exit to whoever has the socket), `pid` (SIGTERM and SIGKILL by the
PID file), `write`, `init`, `info`, `listen`, `forked`, `run`, and on the way out `close`,
`unlink`, `free`. `pidfile[u]` and `sockfile[u]` name a living process, a dead one
(`Stale`) or nothing; PIDs are not used again for something else. The tool moves
between `next` (the walk of the table), `exec` and `wait` (an attempt), and
`term`, `kill`, `poll`, `harder`, `gone` (the steps of `stop_driver`), each ending at a
system call a driver can notice. `exits` is what `waitpid()` would tell, which a
driver sets when it forks into the background or ends. A driver may crash, hang
on its device, or be interrupted together with the tool from the terminal.

`told`, `came_up` and `held` are history. So is `overlapped`: the UPSes for which an
instance was started while another was starting. The code has nothing against
that (each looks at the files before either has written one), so the
properties about owners speak of the others.

## 4. What TLC checks

| Run | Instance | Shows |
|---|---|---|
| `upsmon_battery` | 2 UPSes, primary of one; OL, OB, OB LB; slow polls; fairness | `ShutdownIsJustified`, `NapIsSafe`; `FailureShutsDown`, `ForcedIsOrdered` (liveness) |
| `upsmon_trouble` | 1 UPS, 9 reports with OFF, BYPASS, OVER, CAL, ALARM, FSD, sleeps, signals, direct SHUTDOWNCMD | the same two invariants where every delay and flag counts |
| `upsmon_reload` | 5 configurations, all signals, all faults, parent and child | `TypeOK`, `LoginNeedsConnection`, `RoleAsConfigured`, `FlagMeansShutdown`, `ShutdownIsFinal` |
| `upsd_clients` | clients, UPSes, a table that can be full, reloads | `TypeOK`, `LoginsCounted`, `GoneInTime`, `AskersAreHeard` |
| `hostsync` | a primary, two secondaries that start at any time; fairness | `InTime`, `WarnedGoDown` |
| `hostsync_faults` | a primary, a secondary, stale data, broken links, two ghosts | `TypeOK`, `IsOrderly` (refinement) |
| `upssched` | two processes that start or cancel one timer, two daemons, stale files | `TypeOK`, `ExactlyOnce`, `CancelFindsIt`; `AllEnds` (liveness) |
| `driver_link` | two variables, a socket that holds two messages, hangs and restarts | `TypeOK`, `Consistent`, `LiveNotStale`; `Settles` (liveness) |
| `failover` | two drivers, one that obeys `force.ignore`; stale, slow, dying; fsdmode 2 | `TypeOK`, `Counted`, `PublishedIsPrimary`, `FallbackIsTakenBack`, `FallbackInTime`, `PrimaryHeard`; `Recovers` (liveness) |
| `upsdrvctl` | two UPSes, each served, coming up, dead or absent at first; three processes more; one command for one or both; one fault | `TypeOK`, `OneOwner`, `StopReleases`, `ShutdownTold`, `StartMeansUp`; `Ends` (liveness) |

Runs that end in a violation, each a difference between the code and what it
or its documentation says:

| Run | Property | What happens |
|---|---|---|
| `failover_early` | `FallbackNotEarly` | a short absence of the primary is never forgotten, so the next one publishes FSD at once |
| `upsdrvctl_order` | `ShutdownReachesAll` | only UPSes of sdorder 0 are shut down, and the tool reports success |

Other differences that were met while modelling, which no run states:

- `clients/upsmon.c:203`: one UPS back on line relaxes polling though another is on
  battery.
- `clients/upsmon.c:3997`: BYPASS, ALARM, OFF or OVER heard before a suspend counts
  after it.
- `clients/upsmon.c:3997`: the wake-up clears PRIMARY with the rest of `status`; when
  upsmon.conf cannot be opened just then, upsmon goes on as a secondary.
- `clients/upsmon.c:2772`: any buzzword is taken for ECO.
- `clients/upsmon.c:1213`: with stale data NUMLOGINS is refused and the primary goes
  down without waiting for the secondaries; `OrderlyShutdown` calls it "blind".
- `server/upsd.c:1494`: a client that does not fit the table is shed although it asks.
- `clients/upssched.c:1158`: a process that found no socket just before a daemon
  listens, and gets the lock just after the daemon has removed it, starts a second
  daemon, which takes the socket over. `CancelFindsIt` excludes these runs (`split`).
- `drivers/upsdrvctl.c:1736`: a driver that exceeded its time and failed after that is
  counted as a success. `StartMeansUp` and `ShutdownTold` speak of commands without
  a timeout for this reason.
- `drivers/upsdrvctl.c:126`: a maxretry of 0 is accepted; such a driver is never started
  (`upsdrvctl.c:1186`) and `start` reports success. `StartMeansUp` speaks of the drivers
  that are tried.
- `drivers/upsdrvquery.c:197`: each driver that times out costs the failover driver a
  second more than the read. With many silent drivers one round is longer than deadtime,
  so a live driver is declared dead for what others cost; `PrimaryHeard` counts the whole
  round. A forwarded command may take `CONN_CMD_TIMEOUT` (3 s) on top of it
  (`failover.c:445`, `508`), which is not modelled.
- `drivers/upsdrvquery.c:76`: `connect()` comes before `O_NDELAY` and waits without limit
  for a driver whose queue of connections is full. The failover driver fills the queue of
  one that hangs by itself: each read that times out ends the connection, and the next call
  opens another one, without a pause, because every `connect()` resets `failure_count`
  (`failover.c:852`). Until it returns no other driver is read or declared dead, though
  `docs/man/failover.txt:71` has a driver considered dead after deadtime. `PrimaryHeard` and
  `Recovers` except such calls (`held`).

**Bounds.** Durations are 1 or 2 where they matter and the horizon is one more than
the longest, so each timer can be not started, running, at its limit and over it.
Two UPSes suffice for redundancy and for one record spoiling another; two clients
and a driver for a table with a client that does not fit; two secondaries
for one that leaves while another starts. `MaxGhosts` bounds the logins whose client
is gone: one is enough to keep the primary waiting to the end of HOSTSYNC.
`hostsync_faults` has one secondary, because faults multiply the states; the proof
covers any number. `upssched` has two daemons because a third adds nothing that a
second, displaced one does not show, and `MAX_TRIES` and `EMPTY_WAIT` of 2, the
least that lets a try fail and another succeed. In `driver_link` the socket holds two
messages and a dump is longer, so every dump meets a full socket; MAXAGE of 3 makes
the third at which upsd pings 1 s. In `failover` a read that times out and the goodbye
take 1 s each and deadtime is 2 s, so one silent driver can use it up for the other; the
other times are 0 or 1 s and one change may be under way, so a reading can be obsolete
when it is used. A queue of one connection (16 in `dstate.h`) is full after the first
attempt that was not answered. In
`upsdrvctl` the first driver is tried once and the second twice (the proof covers 0, too)
and three processes live at a time:
an old one, a new one and one more. One command is enough because the initial
states are those earlier commands leave; the numbers of repetitions (10 requests,
3 signals, 5 looks) are 1, since each may already end early or late.

**Fairness.** Only for what the operating system schedules: the processes take
steps that are enabled, and time passes. `Upsmon` has weak fairness of the
child, of the parent and of `Tick`; `HostSync` of the program as a whole and of
`Tick`; `Upssched` of each process and each daemon and of time; `DriverLink` and
`Failover` of the programs and of time (a slow driver answers and accepts in the end,
however late; a dead one need not come back); `Upsdrvctl` of the tool alone, because
it must end even if no driver ever moves: its waits are limited by
an alarm and by counts. Nothing is assumed about reports, power, clients, faults or signals.

**Deadlock** is not checked where the system stops in the end: `hostsync` and
`hostsync_faults`, where the primary is down and takes the power with it, and
`upsdrvctl`, where the commands are used up. The cfg of each run says so.

## 5. What is proved

| Module | Theorem | Property |
|---|---|---|
| `UpsmonProofs` | `TypeCorrect`, `FlagIsEarned`, `NoWayBack`, `LoginsAreConnected` | `TypeOK`, `FlagMeansShutdown`, `ShutdownIsFinal`, `LoginNeedsConnection` |
| | `Justified`, `NapsAreSafe` | `ShutdownIsJustified`, `NapIsSafe` |
| | `RolesAreConfigured`, if `WakeUpsReload` | `RoleAsConfigured` |
| `UpsdProofs` | `TypeCorrect`, `LoginsAreCounted`, `DeadLoginsGo`, `CommandsAreRead` | `TypeOK`, `LoginsCounted`, `GoneInTime`, `AskersAreHeard` |
| `HostSyncProofs` | `TypeCorrect`, `ShutdownIsOrderly` | `TypeOK`, `IsOrderly` |
| | `SecondariesDownInTime`, if `Undisturbed` and `HostsyncSuffices` | `InTime` |
| `DriverLinkProofs` | `TypeCorrect`, `CopyConsistent` | `TypeOK`, `Consistent` |
| | `DriverNotStale`, if `MaxageSuffices` | `LiveNotStale` |
| `UpsschedProofs` | `TypeCorrect`, `StartsOnce`, `CancelsFind` | `TypeOK`, `ExactlyOnce`, `CancelFindsIt` |
| | `CancelsOne` | in the theorem: a CANCEL takes one timer at most |
| `FailoverProofs` | `TypeCorrect`, `CountsRight` | `TypeOK`, `Counted` |
| | `PublishedOfPrimary`, `PrimaryFresh` | `PublishedIsPrimary`, `PrimaryHeard` |
| | `FallbackEnds`, `FallbackBegins` | `FallbackIsTakenBack`, `FallbackInTime` |
| `UpsdrvctlProofs` | `TypeCorrect`, `NeverTwo`, `StoppedIsReleased` | `TypeOK`, `OneOwner`, `StopReleases` |
| | `ShutdownReaches`, `StartedIsUp` | `ShutdownTold`, `StartMeansUp` |

Assumptions are those of the modules: durations are naturals (or integers where a
negative value means "never"), `Horizon` exceeds each of them, sets of UPSes,
clients, hosts and daemons are finite, configurations name known UPSes, and the table
of drivers names none twice, which `upsdrvctl.c:149` and the reading of ups.conf see to.
Three theorems need more, as the table says, because the code keeps what they
state only then; the hypotheses are operators of the proof modules, and the runs that
check the same property meet them.

*Upsmon.* The heart is `Honest`: a flag or a `*state` of a record is
set only when the UPS said so in its last report, or since the last wake-up in the
cases in which the code keeps it. No property about shutdowns is inductive without it: a
record with a stray LB satisfies the property until the next `recalc`. Each handler
keeps `Honest` (lemmas per handler), and from it follow `Justified`, because
`is_ups_critical` reads only honest flags, and `NapsAreSafe`, because the flags that
a report raises are all there. `FlagIsEarned` rests on `OrderIsCaused`, that every
place on the way down has a cause. `RolesAreConfigured` needs `WakeUpsReload`: a wake-up clears
`status`, and PRIMARY with it, so the role is right after it only if upsmon.conf can
be read then. The hypothesis is met by a host that is never suspended and by one
whose upsmon.conf stays readable; without it the role is lost until the next reload.

*Upsd.* `IInv` adds to `LoginsCounted` that the table holds only clients of the list
(`TableOfList`), how old `last_heard` can be at each place of the pass
(`LoginAges`), and that a command found by `poll()` is as old as this wait at most
(`JustAsked`). The counts need no induction over data: each step changes the set of
the clients logged into a UPS by a known set, and the library's cardinality
theorems do the rest.

*HostSync.* `TypeOK` is strong enough. The step that matters is the end of the
wait: `NobodyElse` shows that a count of at most one, read over the primary's own
login, leaves no secondary, ghosts or not. It fails without that login: the
hazard at `upsmon.c:1228`.

`SecondariesDownInTime` adds `TimeInv`: while the primary waits, a warned host is
at a place that follows from how long the wait has lasted (`Hurries`: polled within
POLLFREQ, down within FINALDELAY of it), is logged in, and so is counted
(`Awaited`). It holds of any number of secondaries, when nothing fails
(`Undisturbed`) and POLLFREQ + FINALDELAY <= HOSTSYNC (`HostsyncSuffices`). The sample
`upsmon.conf` asks the administrator that FINALDELAY be no longer than HOSTSYNC
(`conf/upsmon.conf.sample.in:547`); the wait for the secondary's next poll comes on top.

*DriverLink.* What upsd will know of a variable is the last message about it on its
way, or its copy (`Latest`). `Consistent` compares this with the driver's tree and is
inductive together with `NothingElsewhere` (nothing is under way on a connection
that is not there) and `BeforeDump` (until it reads DUMPALL, upsd knows nothing
that the dump, which lists only what exists, would have to take back). For
`DriverNotStale`, `GoodData` says that data_ok comes before dumpdone, and `Silence`
how long upsd can have heard nothing at each stage of PING and PONG.
`MaxageSuffices` is the sum of these stages: with the default MAXAGE of 15 s, a third
of it before a PING and 2 s per poll, a driver may be busy for 7 s.

*Upssched.* A client has made its timer exactly when it is answered: `StartsOnce`
needs no more than the types, because answer and timer are one pass of the daemon and
a daemon that ends cuts off only clients it has not answered. `CancelsFind` rests on
`CancelInv`: as long as no daemon was started beside a living one, there is one
daemon (`Single`), the socket is its own once it serves (`Reachable`), only then it has
timers (`TimersServed`), and so "no socket" means "no timer". `CancelsOne` shows that
the numbers of the timers are an order.

*Failover.* `Turned` and `Flagged` tie the flags of the tracked drivers to the loop.
`Absence` relates the code's `primaries_gone_time` to how long there has really been no
primary; `Published` says which changes of the primary are marked but not yet exported;
`HeardInTime` how old the last word of each driver already looked at in this call can
be. Each driver takes a read and a goodbye of one call at most (`HeardBye`), so the
bound in `PrimaryHeard` is deadtime and `Len(Order) * (READTIMEOUT + LOGOUTTIME)`, or
deadtime and the poll interval where that is longer, for any number of drivers and any
configuration. Calls in which `connect()` waited are excepted (`held`): for that
wait there is no bound.

*Upsdrvctl.* The invariant of the drivers is `Apart`: of the instances of one UPS, one at
most has passed the look at the PID file and not yet left, and it can be found by a
file (`FilesNamed`), unless two were started at the same time (`overlapped`). The
invariant of the tool says what its children have done when they are waited for
(`Child`, `Children`), that nothing comes back while drivers are stopped (`Held`), and
that as long as no error is counted the UPSes before the current one are served
(`Walked`, `Honest`): for `start`, up, or not to be tried, for maxretry is any natural
number. From the two follow all four properties.

**Only model-checked:** liveness (`FailureShutsDown`, `ForcedIsOrdered`, `WarnedGoDown`,
`AllEnds`, `Settles`, `Recovers`, `Ends`), which needs fairness and ENABLED, beyond the
prover; and the two properties that the code violates.

## 6. What is not modelled

Notifications and their reminders, the ring of OTHER status tokens, users and
passwords, SET, INSTCMD and tracking in upsd, TLS, formatting, the Windows build and
everything listed as `not_modelled` in `PROJECT.json`. A file that is half written, memory that runs out
and clocks that go backwards are not events of the models. Hazards that no property
covers are listed in `PROJECT.json` with the reason. The hardware drivers, most of the
repository by lines, each translate one family of devices and share their logic
through `main.c` and `dstate.c`; the state tree and the configuration parser are
sequential, so a test reaches what they do; the clone drivers repeat the two ends of the
socket that `DriverLink` and `Failover` model.
