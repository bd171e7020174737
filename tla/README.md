# A TLA+ model of notifs-piper

notifs-piper is a notification daemon. It owns `org.freedesktop.Notifications`
on the session bus, keeps a bounded log of notifications, and lets command line
clients read it, watch it, close notifications and invoke actions through a
Unix socket. This directory holds TLA+ modules translated from its Rust code
(`src/src/`), TLC configurations, and TLAPS proofs. Paths below are those of
the repository with `src/` before them.

## 1. Inventory

### Components

| Component | Code | State it keeps | Operations |
|---|---|---|---|
| D-Bus object | `src/src/server/dbus.rs` | `counter`, the last id handed out | `Notify`, `CloseNotification`, two getters |
| SyncList and channel | `src/src/server/jobs/mod.rs`, `mod.rs` | a mutex-protected deque of jobs; an mpsc channel of units | push, send, receive, pop |
| LogsManager | `src/src/server/manager.rs` | `logs_buffer`, `dirty`, the log file | `new`, `exec`, append, remove, find, read, flush |
| Jobs | `src/src/server/jobs/*.rs` | none | `execute` of Broadcast, Close, Read, Query, ActionInvoked, ActivationToken, Acknowledge |
| Auto-close threads | `src/src/server/jobs/broadcast.rs` | one sleeping thread per broadcast with a timeout | wake, push a Close, send |
| Listener | `src/src/server/listener.rs` | tables of clients that wait for an answer and of watchers | accept, read, push a job, route a result, broadcast |
| Transport | `read`, `write` of `listener.rs` | bytes in a socket | framing of messages |
| Wire codec | `transmission.rs`, `jobs/mod.rs`, `utils/macros.rs` | none | format and parse |
| Client commands | `src/src/main.rs` | one request | build a job, send, print the answer, watch |
| Startup and shutdown | `src/src/server/mod.rs` | threads and tasks | load log, take the bus name, start the manager, bind the socket |
| Command line, logger | `cli.rs`, `consts.rs`, `utils/logger.rs` | none | parse arguments, write diagnostics |

### How they interact

    D-Bus client --Notify/CloseNotification--> D-Bus object --push+send (locked)-+
    socket client --job--> Listener task --push, later send--------------------- +-> SyncList
    auto-close thread ---push, later send----------------------------------------+      |
                                                                                   pop  v
    bus  <--NotificationClosed, ActionInvoked, ActivationToken--------------  manager thread
    file <--whole log, when the list is empty and the log dirty-------------        |
    watchers, waiting client <--- Listener <--- result of the job ------------------+
                                     +--- Acknowledge, when a watcher took the notification

The mutex of the SyncList, the lock zbus puts around the D-Bus object, the
channel, and the socket between manager and Listener are all they share.

### What is hard, and what makes each component correct

* **Queue.** Three kinds of producers push a job and send a unit in two steps,
  some under the mutex and some not; the manager receives and pops in two
  steps. Correct: a unit in hand always finds a job (the manager loop calls the
  opposite `unreachable!`), every job is executed once, nobody waits in a
  circle on the mutex and the D-Bus object's lock.
* **Log.** Replacement, eviction and closing all find a notification by id and
  in a deque that `swap_remove_back` reorders. Correct: ids are unique, a log within
  its bound stays there, marks stay, a notification is closed at most once and signalled
  exactly then.
* **File.** A change sets a flag, and only the job that empties the queue
  writes. Correct: nothing is forgotten, whoever changed it; a torn file does
  not stop the daemon.
* **Timers.** An auto-close thread names an id and outlives the notification.
  Correct: it never closes a replacement early, and each notification that
  should expire does.
* **Listener.** Answers are routed by pid, pids are reused, and a broadcast
  awaits each watcher under the lock of their table. Correct: a client gets its
  own answer, and waits in vain only if that cannot be read; watchers that stay
  get every broadcast and in one order, a
  notification is acknowledged just if somebody who is not silent got it.
* **Transport.** There is no framing: a message ends where a read finds less
  than a buffer. Correct: what arrives parses to what was said, no read stops in
  the middle of a message, none waits for ever.
* **Codec.** Separators are not escaped. Correct: whatever users write into
  actions, tokens and notifications, parsing undoes formatting.
* **Restart.** The daemon can be killed between a step and the save of its
  effect. D-Bus clients live on with ids that the next session's counter may not
  have reached. Correct: that session finds what was last saved or an empty log,
  no id gets into the log twice but one that was replaced ahead of the counter, and
  a close that the file records is not signalled again.
* **Startup and shutdown.** The bus name is taken before the socket is bound,
  the manager thread can die, accept can fail, and a listener task can panic with
  the mutex in its hands. Correct: nothing else poisons the mutex or aborts the
  accept loop; then nobody is left waiting for a lock, and the process ends at the
  next connection.

`PROJECT.json` lists these hazards one by one at the lines where they bite, and
the properties that watch each of them, or why none does yet.

## 2. Modules

| Module | What it is |
|---|---|
| `LogBuffer` | pure operators: the deque operations, searches, marks and timeout rules of `manager.rs` and `jobs/close.rs` |
| `Mailbox` | abstract specification of SyncList and channel, as other threads may rely on them |
| `JobThreads` | the threads around the SyncList, one action per lock operation, from the moment the bus name is taken to the end of the process; **implements `Mailbox`** |
| `Manager` | D-Bus object, job queue (by `Mailbox`'s steps), `exec` with every job, timers, file, faults, crash and restart |
| `Lifecycle` | abstract specification of what becomes of each notification, over crashes too; **`Manager` implements it** for clients without `--force` |
| `Reception` | abstract specification of what clients and watchers see at the socket: one answer each, and broadcasts that are on the air one at a time |
| `Listener` | its connection tasks, one action per await or lock, both tables, the client processes; the manager reduced to taking jobs in order and transmitting; **implements `Mailbox` and `Reception`** |
| `Codec` | pure operators: formatting and parsing of transmissions, jobs, results and events over tokens |
| `Transport` | one direction of one connection, `Listener::write` and `Listener::read` chunk by chunk, carrying `Codec`'s texts |
| `LogBufferProofs`, `ManagerProofs`, `ManagerHistoryProofs`, `ManagerPromiseProofs` | lemmas and theorems about `LogBuffer` and `Manager`; the last one is the refinement of `Lifecycle` |
| `JobThreadsProofs`, `ListenerProofs`, `CodecProofs`, `TransportProofs` | lemmas and theorems about the module each is named after |
| `MCManager`, `MCJobThreads`, `MCListener`, `MCTransport` | instances for TLC |

`Manager` uses `Mailbox` by INSTANCE: a D-Bus handler takes `PushAndSignal`, a
listener task or timer `Push` and later `Signal`, and `Receive` spells out both
outcomes of the manager's receive and pop. That these steps may be taken
as atomic is what `JobThreads` shows with `IsMailbox`. `Listener` uses `Mailbox`
in the same way.

`Manager` and `Listener` are two views of one daemon. What is one step in one of
them is many in the other: `ClientRequest` of `Manager` is `Ask`, `Register` and
`PushRequest` of `Listener`; `DeliverRead` or `DeliverUnread` is `Begin` to
`End` of a broadcast; `Execute` of `Listener` is `Receive` to `Reply` of
`Manager`. `AcknowledgedWhenHeard` says what decides between `DeliverRead` and
`DeliverUnread`.

### Manager and the code

| Model | Code |
|---|---|
| `counter`, `FreshId`, `Notify` | `Notifications.counter`, `notify` (u32, wrapping as in a release build) |
| `CloseNotification` | `close_notification` |
| `ClientRequest`, then `SignalManager` | the listener task that received a job |
| `DeliverRead`, `DeliverUnread` | a listener task that wrote a notification to the watchers, and acknowledges it or not |
| `TimerFires`, then `SignalManager` | the thread started in `Broadcast::execute` |
| `issued`, `Known` | none: the ids that D-Bus clients hold, from any session; clients are processes of their own and survive `Restart` |
| `ahead` | none (history): ids that a client replaced while `counter` was behind them, which `counter` does not notice (`dbus.rs:114-120`) and later hands out again |
| `earlier` | none (history): which calls an earlier session took, for `OpenIsArmed` to tell its notifications from loaded ones |
| `at`, `job`, `wasEmpty`, `result` | program point and locals of the manager loop and `LogsManager::exec` |
| `Receive` | `recv()`, `pop_front`, `is_empty`; `Noop` panics |
| `ExecuteBroadcast` ... `ExecuteAcknowledge` | `Job::execute` of each job; Close has three actions, one per way out |
| `Flush`, `FinishWrite` | `write_to_file`: `fs::write` truncates, then writes |
| `Reply` | `transmit` of the result to the Listener |
| `WriteFails`, `SendFails` | an `io::Error` there, which `exec` returns and the loop panics on |
| `LoadLogs`, `AfterLoad`, `Init` | `LogsManager::new` and the counter's start in `server::start` |
| `Restart` | the process is killed at any point and `server::start` runs again: the queue, the threads and the counter are gone, the log is what the file says |

A notification is a record of the fields the daemon reads. Those it only
carries (texts, icon, hints, actions) are one number, the Notify call they came
from, which also tells apart two notifications that had the same id. The pid of
a job only names the addressee of the answer, which is `Listener`'s subject, and
is left out here. `Init` starts from a log file that an earlier session can have
left: none, whole, or torn.

### JobThreads and the code

| Model | Code |
|---|---|
| `Enter`, `number` | a D-Bus handler starts on zbus's one thread; Notify takes the next id |
| `Lock`, `Push`, `Send`, `Unlock` | `push_job` of `dbus.rs`, which sends while its guard lives; the one-statement locks of listener tasks and timers, which send later |
| `mutex = Poisoned`, `FindPoisoned`, `SendFails` | the guard dropped by a panic, `acquire_lock_panic!`, the `panic!` after a send on a closed channel; a listener task reports to the accept loop first |
| `loop`, `Bind`, `Check`, `Accept`, `AcceptResult` | `Listener::listen`: bind, `abort.try_recv`, one accept per turn |
| `AcceptFails` | the `?` of `listener.accept().await?`, which ends `listen` |
| `backlog` | results of the manager that wait in the socket to be accepted, in any order |
| `Ack(p)`, `HeardCalls` | the task with the broadcast of Notify call `p`, which pushes an Acknowledge if a watcher that is not silent heard it |
| `Choke`, `LongCalls` | `serde_json::from_str(..).unwrap()` inside the push, under the guard: a notification that was read in part does not parse. If it cannot be read at all, the task only ends |
| `ManagerLockedOut` | `exec` finds the mutex poisoned and panics |
| `EndProcess` | `listen().await.unwrap()` or `unreachable!` of `server::start`, on the D-Bus thread |
| `Receive` ... `Return` | the manager loop and `exec`; `DropGuard` is `drop(vd)` |
| `Emit`, `InterfaceWriteHeld` | `ObjectServer::interface` and zbus's lock around the D-Bus object |
| `ReturnError`, `mpc = "dead"` | an `io::Error`, a connection refused before the socket is bound, or a panic in a job |

### Listener and the code

| Model | Code |
|---|---|
| `process`, `Ask`, `Exit`, `SendSignal` | `send_once!`, `send!` in `main.rs` |
| `watch`, `CallWatch`, `WatcherReads`, `HangUp` | `notifs-piper watch` and its end |
| `active`, `Key`, `Register`, `Find` | `active_processes`, inserted into and removed from by pid |
| `Unreadable`, `task[j] = "refused"` | what the manager transmits and `Listener::read` or the parser refuses, as when a chunk ends within a character; the stream of a client then stays in `active_processes` |
| `PushRequest`, `NotifyManager` | `push_back` on the SyncList, `notify_manager!` |
| `stream`, `Answer` | the stream taken out of the table, `stream.unwrap()`, the write to it |
| `listening`, `Enrol` | `listening_processes` |
| `task[b] = "locked"`, `LockFree` | the tokio mutex around it, held over the awaits |
| `cast[b]` | locals of the broadcast loop; `heard` is the code's `read` |
| `WriteData`, `EndWrite` | `Listener::write`: the data, then the empty write that ends its loop |
| `End` | removal of `old`, and the Acknowledge |

`Reception` has neither tables nor tasks. A request of it is asking while its
client waits unanswered; a watcher is present from its enrolment in the table
(`listening`) on, and deaf once it has hung up; the broadcast on the air is
the one that holds the lock, and those who have yet to hear it are the watchers
in the table that do not have it. So what a watcher hears is a stretch of all
broadcasts in their order, from the first one after its enrolment to the last one
before it hung up, with nothing missing in between.

A client whose own transmission does not parse is answered with an error and
changes nothing; it is left out. So are the streams of signal clients, which stay
in `active_processes` under pid 0, where no answer is looked up. What the manager
transmits is another matter: if its answer cannot be read, the client it is for
waits for ever, and if a notification parses as a result but its JSON does not,
the list is poisoned. `Listener` has the first, `JobThreads` the second, with all
that follows from a poisoned mutex or a dead manager; `Listener` is the daemon
before that.

### Transport, Codec and the code

| Model | Code |
|---|---|
| `script` | one connection: a request, a signal, an answer of the manager or the Listener, or a watcher's stream with several broadcasts |
| `Write`, `TryWrite`, `EndWrite` | the loop of `Listener::write`, which ends with a `try_write` of nothing |
| `WriteFails` | that write to a peer that has gone |
| `TryReadMore`, `TryReadLast`, `TryReadCut` | one turn of `Listener::read`: a full buffer, a short one, a chunk that ends inside a character, which `from_utf8` refuses |
| `CloseWriter`, `CloseReader`, `WriterDies`, `ReaderDies` | who drops a stream when: a client exits or is killed, an answer is delivered |
| `TransmissionText`, `ParseTransmission` | `Display` and `FromStr` of `Transmission` |
| `JobText`, `ParseJob`, `ResultText`, `Heard`, ... | `jobs/mod.rs`, the argument macros, the results and events of `jobs/*.rs`, and what `main.rs` makes of an answer |

Bytes are counted in tokens, and the JSON of a notification is one text of
tokens; `Numbers` and `Letters` are sets, so that a proof covers any of them.

### Slips

Each module also has a few operators marked as *slips* in its head comment:
mistakes one could make in the definition below them (the pop that drains the
list, the flush that clears the flag without writing, ...). Nothing uses them.
Put in the place of the definition they sit above, each one makes TLC report
the property it is listed with in `PROJECT.json`; that shows the property says
something about that line of the code.

## 3. What TLC checks

Run `tlc -config X.cfg M` with the module and configuration named below.

| Run | Instance | Shows |
|---|---|---|
| `manager_any_client` (`MCManager_any.cfg`) | 4 Notify calls, those in the file included, 1 other request out of every kind a client can send, `--force` included; log of 2; ids modulo 4; a file within `--max` and one longer that ends at the last id; a made-up id; disk, socket and bus fail; a crash at any point, which can leave a torn file | `NeverNoop`, `DirtyCoversChanges`, `IdleIsSaved`, `StaysBounded`, `MarksStay`, `PanicsForCause` whatever clients and environment do |
| `manager_polite_clients` (`MCManager_polite.cfg`) | 4 Notify calls, 2 closes, replacements, no `--force`, a crash at any point, ids of the first session used in the second | `UniqueIds`, `NeverSignalledAgain`, `QueryTrueUntilGone`, and `KeepsPromise`: refinement of `Lifecycle` |
| `manager_expiry` (`MCManager_expiry.cfg`) | `--auto-close`, timeouts -2, -1, 0, 2 with default 1, 2 Notify calls, one client close, fairness | `OpenIsArmed`, `ExpiresWhenDue`, `EventuallyExpires`, `EventuallySaved` |
| `job_threads` (`MCJobThreads.cfg`) | 2 Notify calls, one with a timeout and so a timer, one acknowledged, whose result may be read in part or not at all; 2 listener tasks; 3 of these begun at most; the socket bound late or never; accept fails at any turn; the manager dead at any job; fairness | `NeverNoop`, `NumberedInOrder`, `NoFalseAlarm`, `NobodyStuck`, `EveryJobServed`, `DeathSpreads`, and `IsMailbox`: refinement of `Mailbox` |
| `listener_tables` (`MCListener.cfg`) | 2 requests, one of which may be killed, 2 pids, a silent and a normal watcher, a notification and a signal, 4 of these at most; the answer of one request and the notification may be unreadable; sockets that hold one unread message; fairness | `AnswersGoHome`, `SameOrder`, `NobodyForgotten`, `ReachesAll`, `AcknowledgedWhenHeard`, `EveryRequestAnswered`, `EveryBroadcastEnds`, and `IsReception`: refinement of `Reception` |
| `transport` (`MCTransport.cfg`) | every kind of request, signal, answer and event, with user texts that are empty, look like the protocol, fill the buffer exactly or exceed it, with wide characters on and off the cut; buffer 18, kernel piece 22, socket 20 tokens; fairness | `HeardAsSaid`, `WholeReads`, `EveryReadEnds`, `WatcherCatchesUp` |

One run of each state module checks its type invariant, too.

**Bounds.** With a log of 2, three calls already evict, and four allow a
replacement of an evicted id beside a reordered log. `NidMod` 4 with a file that
ends at id 3 reaches the wrap of the counter, and that file has three entries, one
more than `--max`, so that eviction is off for good. In the polite run ids cannot
wrap, since a client that only uses ids it was given would have to send 2^32
notifications; it does reach two entries with one id, of which the crash made the
counter forget that it had been given away. `MillisMod` 4 or 8 stands for 2^16: the any-client run has a read
whose `skip + count` overflows. Two calls are enough for expiry, since the
interesting case is a timer whose notification was replaced, evicted or closed;
`MaxTime` 0 there only says that time stands still while no timer sleeps. One
crash (`MaxRestarts` 1) is enough for what a session can find on the disk, since
the next session starts from the file alone; the theorems hold for any number.
`MaxCalls`, `MaxRequests`, `MaxTime` and `MaxRestarts` are the only counters
bounded in the guards of `Manager`; the number of timers and deliveries is
bounded by the calls. In `JobThreads`, `MaxBegun` 3 lets any three producers
meet at the locks beside the manager, a timer and the accept loop; each property
relates two producers, and the third one can hold what they wait for. The run has
no CloseNotification, whose steps are those of a Notify call that takes no number;
the theorems have any number of them. In
`Listener`, `MaxStarted` 4 out of 6 actors leaves every pair of requests with
every broadcast and watcher, and both watchers with both broadcasts: requests and
broadcasts share only the manager, so larger mixtures add no new meeting. A
socket that holds one message makes the second broadcast wait for the reader.
In `Transport` texts lie below, at and above the buffer and above the kernel's piece, and two
broadcasts together can fill the buffer exactly. The instances are not symmetric
in ids (fresh ids are ordered), so no symmetry set is used.

**Deadlock** is not checked: a daemon with nothing to do waits, and the model of
a process or a connection stops when it has ended. For the threads
`NobodyStuck` says that no circle of waiting closes, and `EveryJobServed` says
more: each job begun is executed, or the process has ended, or the manager is dead
or the mutex poisoned and still nobody waits for a lock.

**Fairness.** `FairSpec` assumes only what the operating system and the async
runtime give: the manager thread runs, a thread or task that owes a unit sends
it, sleeping threads wake, the clock advances, ready streams are polled. No
client or watcher need do anything; in particular nobody need connect, and
nobody need be killed. In `JobThreads` each thread and the accept loop are
weakly fair; a mutex that is only weakly fair is enough there because each
producer locks once, so nobody can overtake for ever. Accept may fail, but is
never assumed to. `DeathSpreads` takes the
next connection as its premise instead of as fairness. In `Listener` tasks
proceed, and a watcher that has not hung up goes on printing, which is all its
loop does; one whose own output is blocked holds up every broadcast, as listed
among the hazards. The pid of a client that is killed while it waits is not
reused before the daemon is done with its request; the kernel hands pids out in
a cycle. `EventuallySaved` relies on the bounded number of calls: the code
flushes when the list is empty, and clients that never pause can postpone that
for ever.

### Where the code disagrees with its documents

Six runs each check one sentence of the documentation and find it violated.

* `forced_close`: the README offers `--force` for a notification the daemon no
  longer stores (`src/README.md:44`); `Close::execute` unwraps the entry it did
  not find (`jobs/close.rs:65`) and the manager thread panics.
* `log_limit`: there is "a maximum number of notifications that can be stored at
  all times", set with `--max` (`src/README.md:15`, `src/src/cli.rs:30`); eviction
  tests for equality (`manager.rs:224`), so a log that is loaded while it is longer
  grows with every notification, and so does any log with `--max 0`.
* `read_order`: "most recent to less" (`src/README.md:25`); a replacement
  moves the oldest entry into the middle of the log (`manager.rs:220`).
* `stale_acknowledge`: notifications are marked `read` "once they are either
  read with `notifs-piper read` or `notifs-piper watch`" (`src/README.md:29`);
  an Acknowledge names an id (`manager.rs:238`), so it marks a replacement that
  nobody has got yet.
* `expiry_after_restart`: `--auto-close` closes "after timeout"
  (`src/src/cli.rs:33`); no thread is started for notifications loaded from the
  file.
* `transport_lines`: a watcher "will print each new notification on a new line"
  (`src/README.md:68`); two broadcasts that lie in its socket together are read
  as one message (`listener.rs:42`) and printed on one line.

Four more show up in the exceptions that a passing property has to make:

* "any `true` result will still be `true`, no matter how much time has passed"
  (`src/README.md:46`): a query answers false again once the notification is
  evicted or replaced, which `QueryTrueUntilGone` allows.
* An id above the reloaded counter (`mod.rs:62`) that a surviving client replaces
  is handed out again and is then in the log twice (`UniqueIds`, `ahead`).
* "the serde_json::from_str will not fail" (`listener.rs:220-223`): it does for a
  notification that was read in part, and poisons the list while the manager is
  alive (`NoFalseAlarm`, `Choked`).
* A client whose answer the Listener cannot read waits for ever
  (`NobodyForgotten`, `EveryRequestAnswered`, `Abandoned`).

## 4. What is proved

TLAPS checks every theorem below, for every value of the constants: any number
of calls, requests, crashes, clients, watchers and threads, any log size, files,
timeouts and faults, any texts and buffer sizes. The assumptions are the named
ones of the modules; TLC evaluates them in the runs. Those of `Manager` say that
constants have their types (`ConfigAssumption`, `BoundsAssumption`,
`DiskAssumption`), that no client command makes a Broadcast (`JobsAssumption`),
and that a file has each notification once, and none if it does not parse
(`FilesAssumption`).

| Module | Theorem | Statement |
|---|---|---|
| `ManagerProofs` | `TypeCorrect`, `NoopUnreachable` | `TypeOK`, `NeverNoop` |
| | `DirtyIsComplete`, `IdleLogIsSaved` | `DirtyCoversChanges`, `IdleIsSaved` |
| | `LogStaysBounded` | `StaysBounded`, if `MaxLogs # 0` |
| | `PanicsHaveCauses` | `PanicsForCause` |
| `ManagerHistoryProofs` | `MarksAreKept` | `MarksStay` |
| | `SignalledOnce` | `NeverSignalledAgain`, if `NoForce` |
| | `IdsAreUnique` | `UniqueIds`, if `NoWrap` |
| | `ExpiredWhenDue` | `ExpiresWhenDue`, if `ShortTimeouts` |
| | `OpenStaysArmed` | `OpenIsArmed`, if `NoWrap` |
| | `AnswersStayTrue` | `QueryTrueUntilGone`, if `NoWrap` and `SameMax` |
| | `ManagerSurvives` | `Calm => (Spec => []Alive)`: the manager never panics |
| `ManagerPromiseProofs` | `PromiseIsKept` | `KeepsPromise` (Manager implements Lifecycle), if `Polite` |
| `JobThreadsProofs` | `TypeCorrect`, `NoopUnreachable` | `TypeOK`, `NeverNoop` |
| | `ImplementsMailbox` | `IsMailbox` (JobThreads implements Mailbox) |
| | `AlarmsAreTrue`, `QueuedInOrder` | `NoFalseAlarm`, `NumberedInOrder` |
| | `NoDeadlock` | `NobodyStuck` |
| `ListenerProofs` | `TypeCorrect`, `AnswersAreRouted`, `OneOrder` | `TypeOK`, `AnswersGoHome`, `SameOrder` |
| | `BroadcastsReachAll`, `AcknowledgesAreTrue` | `ReachesAll`, `AcknowledgedWhenHeard` |
| | `NoClientForgotten` | `NobodyForgotten` |
| | `ReceptionIsKept` | `IsReception` (Listener implements Reception) |
| | `ListenerUsesMailbox` | `Spec => Mail!MailSpec` (Listener implements Mailbox) |
| `CodecProofs` | `TransmissionRoundTrip`, `JobRoundTrip`, `ResultRoundTrip` | parsing undoes formatting |
| `TransportProofs` | `TypeCorrect`, `ReadsAreWhole`, `Faithful` | `TypeOK`, `WholeReads`, `HeardAsSaid` |
| `LogBufferProofs` | `PositionFinds`, `AdmitType` | search and admission, with the lemmas on where each entry of a log came from |

Each premise is there because the code needs it, and is a hazard of its own.
`MaxLogs # 0` and `SameMax`: eviction tests for *equality* with `--max`
(`manager.rs:224`), so `--max 0` never evicts, and neither does a log loaded
while it is longer; `SameMax` says that there is neither. `NoForce`: no client sends
`--force`, which lets a Close be signalled again. `NoWrap`: the
counter does not wrap around, given the ids in the files, those that clients make
up and the number of calls, and the file the first session starts from has no id
twice, nor 0; clients may name any id of this or an earlier session. `ShortTimeouts`: `--auto-close`, and no
timeout above 65535 ms, which the cast to `u16` would shorten (`manager.rs:280`).
`Polite`: `NoForce`, `SameMax` and a bus that takes every signal. `Calm`: no I/O
error, no `--force`, no Read whose `skip + count` wraps around; `PanicsForCause`
says that these are the only causes there are.

The argument of each:

* *NeverNoop* is not inductive: popping a job and having one unit less needs
  more jobs than units. The invariant is `Mail!Matched`: the list is exactly as
  long as the units sent plus those still owed.
* *DirtyCoversChanges* and *IdleIsSaved* share the invariant `SavedInv`: while
  a job executes or is about to flush, an empty list means that its own pop
  emptied it (`wasEmpty`), because everybody else only appends, so a change it
  finds unsaved is written now; and at every other point an empty list comes
  with a log that is not dirty. `IdleIsSaved` alone says nothing of the steps
  in between and is not inductive.
* *MarksStay*, *NeverSignalledAgain*, *UniqueIds*, *ExpiresWhenDue* and
  *KeepsPromise* rest on `Order`: notifications queue in the order of their
  Notify calls, and each of those in the log or the file came before all of
  them, so that no call is in two places or in one place twice. The steps are
  sorted by what they do to the log (`LogSteps`: admit, close, mark read, write,
  restart) and to the queue (`QueueSteps`), and each invariant is kept by each
  kind. `Remembered` adds that what the file calls closed is closed in the
  log; `Numbered`, that a queued replacement meets no id that is fresh later, unless it
  is in `ahead`;
  `AllFit`, that timeouts survive the cast.
* *KeepsPromise* maps a notification to queued, open, closed or gone. Admitting
  is the hard step: `AdmitFrom` and `AdmitLoses` show that a replacement and an
  eviction together give up at most one other entry, whatever
  `swap_remove_back` moves.
* *PanicsForCause* needs that the manager always finds a job (`Mail!Matched`),
  and that a window of the log is cut where the log ends (`PanickingWindow`),
  so that only `end < start` is out of range. `ManagerSurvives` adds
  `Within(S)`: all queued and executing jobs are of a set that holds what the
  daemon itself queues and what clients send.
* *OpenIsArmed* is the safety half of `EventuallyExpires`. Timers go by id, and
  a replacement takes over the id of what it replaced, so the witness is not the
  thread an entry was admitted with but any thread of its id that wakes late
  enough. With `Timely` (no queued notification comes from the future) admission
  starts such a thread; `ArmedStays` follows it from sleep to queue to execution,
  where the Close finds the entry since an id that was not replaced ahead of the
  counter names one (`Numbered`, hence the premise `NoWrap`), and `EntryFrom` says that all entries but the admitted one
  come from an entry with the same id, time and timeout.
* *QueryTrueUntilGone* traces each answer to the entry it came from
  (`AnswerOfEntry`); an id outside `ahead` makes it the only one, and `AdmitLoses` says which
  two entries an admission can give up.
* In `JobThreads`, `HasJob` says that the manager has a job in hand exactly
  between its pop and its return, and `Once` that each job is in the list or in
  hand at most once, and not before it was pushed. Counting units against jobs, with
  the unit the manager holds (`Mail!Matched`), gives `NeverNoop`. `Newest` says
  that a Notify call that has its number and is not in the list has the highest;
  it holds because handlers share one thread. `Held` says that
  somebody has the mutex exactly between taking it and giving it back, and so is
  at a point where it waits for nobody (`HolderProceeds`); `CauseStays`, that a
  manager that is gone and a task that choked stay so, which makes every alarm true. As a handler waits for
  nothing but the mutex, every wait ends after two links at the latest (`NobodyStuck`).
* In `Listener`, `Apart` says that two requests have one pid only if the daemon
  is done with one of them, and `Awaited` that a client is in the table under its
  pid until a task takes it out. `Waited` adds that what was pushed and has no task
  is in the list, and that a task that is done has answered; together they leave
  no state in which a client waits and nobody works for it but that of the refused
  answer, where the client is still in the table (`NobodyForgotten`, the safety half
  of `EveryRequestAnswered`). `Serial` says that one broadcast at a time has
  the lock and is the last one in every inbox it is in; `Recorded` ties its locals
  to what the watchers got. For *IsReception*, `Enrolled` says that a broadcast
  deals with no watcher outside the table, and that no more is open than is on a
  list; `Unserved`, that a client has got nothing before the task with its answer is
  done, so that it is served once. Then a write to an open watcher is `Hear`, one
  to a deaf watcher a stutter, and `End` is `Finish`: all it forgets are deaf.
* In `Transport`, `Framing` says that a message passes to the socket whole or
  not at all, and `Delivery` that the chunks read, the socket and what is still to be
  written make up the message; `CodecProofs` turns the text back into what was said.

Only model-checked: liveness (`EventuallyExpires`, `EventuallySaved`,
`EveryJobServed`, `DeathSpreads`, `EveryRequestAnswered`, `EveryBroadcastEnds`,
`EveryReadEnds`, `WatcherCatchesUp`), which is out of TLAPS's reach. What they need of
each state is proved: `OpenIsArmed`, `NobodyStuck` and `NobodyForgotten` say that
somebody is always about to take the next step, and fairness does the rest. Every
other property that a passing run checks is proved.

## 5. Not modelled

* **Startup before the bus name is taken**: building the runtimes, reading the
  command line, removing an old socket. A failure there ends the process before
  any thread of the model exists. Loading the log is part of `Manager`, but a start
  that cannot back up or rewrite a log file that does not parse panics
  (`manager.rs:115-143`) and is no session; it leaves a torn file or none, and the
  next start loads nothing either way.
* **A thread that cannot be started**: `thread::spawn` panics then
  (`jobs/broadcast.rs:51`), and with it the manager.
* **Argument parsing, the logger, and the getters of the D-Bus object**: they
  keep no state and nothing depends on them.
* **The wall clock.** One clock stands for the monotonic and the wall clock, so
  an Expired close that is dropped because the wall clock was set back is listed
  as a hazard but not reached.
* **Builds with overflow checks.** Arithmetic wraps as in a release build.
* **Messages that the kernel splits.** A message longer than one piece of the
  socket can be read short; `WholeReads` and `HeardAsSaid` take `Whole` as their
  premise, and `transport` runs with longer messages too, for the liveness
  properties.
* **Reuse of a pid** while the daemon still works for its last owner.
* **The Listener after a panic**: a poisoned list and a dead manager are in
  `JobThreads` and `Manager`, not in `Listener`.
* **The JSON of notifications**, which the log file and `read` carry: it is one
  text of tokens, and a file parses or it does not.

What could come next: a second clock, and the composition of `Listener` and `Transport`, in which the
failure of the trailing empty write becomes the failure of a transmission.
