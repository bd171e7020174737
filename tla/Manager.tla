------------------------------ MODULE Manager ------------------------------
(***************************************************************************)
(* The manager thread and everything that feeds it: the D-Bus object that  *)
(* numbers notifications (src/src/server/dbus.rs), the job queue           *)
(* (Mailbox), LogsManager::exec and every Job::execute                     *)
(* (src/src/server/manager.rs, src/src/server/jobs/), the auto-close timer *)
(* threads that Broadcast starts, and the log file.                        *)
(*                                                                         *)
(* The Listener is seen from here as an environment: listener tasks push   *)
(* the jobs of client processes, and answer a transmitted notification     *)
(* with an Acknowledge job when a watcher that is not silent got it.       *)
(*                                                                         *)
(* The daemon may be killed at any point, and a next session started.      *)
(*                                                                         *)
(* LoadUnmarked, UnboundedFreshId, DrainList, EmptyBeforePop,              *)
(* FlushForgets, StartsTimerUnlessReplacement, CloseIgnoredIfUnknown and   *)
(* ExecuteAcknowledgeClean are slips, as in LogBuffer: likely mistakes in  *)
(* the definition below them, used by nothing.                             *)
(***************************************************************************)
EXTENDS LogBuffer, FiniteSets

CONSTANTS
    Timeouts,     \* expire_timeout values that D-Bus clients pass
    ForeignIds,   \* ids clients name that no session from Init on gave them
    ClientJobs,   \* jobs that client processes send through the Listener
    Watched,      \* whether some watcher may be listening without --silent
    InitialDisks, \* contents of the log file when the daemon starts
    Faults,       \* what may fail, a subset of {"disk", "socket", "bus"}
    MaxCalls,     \* bound: Notify calls, those recorded in the log included
    MaxRequests,  \* bound: other jobs sent by clients (D-Bus and socket)
    MaxTime,      \* bound: the clock stops here, or when the last timer has woken
    MaxRestarts   \* bound: crashes that a next session follows

ASSUME ConfigAssumption ==
    /\ MaxLogs \in Nat
    /\ AutoClose \in BOOLEAN
    /\ DefaultTimeout \in Nat
    /\ NidMod \in Nat \ {0}
    /\ MillisMod \in Nat \ {0}

ASSUME BoundsAssumption ==
    /\ Timeouts \subseteq Int
    /\ ForeignIds \subseteq Nid
    /\ Watched \in BOOLEAN
    /\ Faults \subseteq {"disk", "socket", "bus"}
    /\ MaxCalls \in Nat
    /\ MaxRequests \in Nat
    /\ MaxTime \in Nat
    /\ MaxRestarts \in Nat

Call == 1 .. MaxCalls

-----------------------------------------------------------------------------
(* Jobs and their results.  A job's Desc carries a pid and flags.  The pid  *)
(* only says whom the Listener answers, so it is left out; of the flags,    *)
(* each job keeps the one it looks at.                                      *)

Reason == {"expired", "dismissed", "called"}

Job ==
    [cmd : {"broadcast"}, event : Notification]
        \cup [cmd : {"close"}, id : Nid, reason : Reason, force : BOOLEAN]
        \cup [cmd : {"read"}, start : Nat, end : Nat, silent : BOOLEAN]
        \cup [cmd : {"query", "acknowledge"}, id : Nid]
        \cup [cmd : {"action", "activation"}, id : Nid, force : BOOLEAN]

\* No command of the client makes a Broadcast.
ASSUME JobsAssumption == ClientJobs \subseteq {j \in Job : j.cmd # "broadcast"}

NoJob == [cmd |-> "none"]

Broadcast(n) == [cmd |-> "broadcast", event |-> n]
CloseJob(nid, why, forced) == [cmd |-> "close", id |-> nid, reason |-> why, force |-> forced]
Acknowledge(nid) == [cmd |-> "acknowledge", id |-> nid]

\* `notifs-piper read count --skip skip`: the sum is a u16.
ReadRequest(count, skip, quiet) ==
    [cmd |-> "read", start |-> skip, end |-> (skip + count) % MillisMod, silent |-> quiet]

\* FulfilledJob: Ok(None), the notification broadcast, the log entries read,
\* the answer to a query, an event for the watchers, or an error.
Result ==
    [kind : {"none", "error"}]
        \cup [kind : {"notification"}, call : Nat, id : Nid]
        \cup [kind : {"logs"}, logs : Seq(Notification)]
        \cup [kind : {"answer"}, closed : BOOLEAN]
        \cup [kind : {"event"}, event : {"cls", "act", "acv"}, id : Nid]

NoResult == [kind |-> "none"]

-----------------------------------------------------------------------------
(* The log file.  fs::write truncates before it writes, so a file can be    *)
(* torn; a torn file does not parse.                                        *)

Disk == [state : {"absent", "torn", "whole"}, logs : Seq(Notification)]

Saved(buf) == [state |-> "whole", logs |-> buf]
Torn == [state |-> "torn", logs |-> <<>>]

ASSUME DiskAssumption == InitialDisks \subseteq Disk

\* A file holds each notification once, and only one that parses holds any.
ASSUME FilesAssumption ==
    \A d \in InitialDisks :
        /\ \A i, j \in DOMAIN d.logs : d.logs[i].call = d.logs[j].call => i = j
        /\ d.state # "whole" => d.logs = <<>>

LoadUnmarked(d) ==
    IF d.state = "whole" THEN [i \in DOMAIN d.logs |-> [d.logs[i] EXCEPT !.closed = FALSE]]
    ELSE <<>>

\* parse_logs, and what `new` makes of its errors.
LoadLogs(d) == IF d.state = "whole" THEN d.logs ELSE <<>>

\* A file that does not parse is moved to a backup and replaced by "[]".  A start
\* that fails to do so panics before it has a thread: it is no session, and the
\* next one loads nothing either way.
AfterLoad(d) == IF d.state = "torn" THEN Saved(<<>>) ELSE d

-----------------------------------------------------------------------------
VARIABLES
    counter,     \* Notifications.counter
    list, signals, unsignalled,  \* SyncList and channel (Mailbox)
    buffer,      \* LogsManager.logs_buffer
    dirty,       \* LogsManager.dirty
    disk,        \* the file logs_path
    at,          \* where the manager thread is
    job,         \* the job it popped
    wasEmpty,    \* `empty` in exec: the pop left the list empty
    result,      \* the FulfilledJob of the job
    timers,      \* sleeping auto-close threads
    delivering,  \* notifications transmitted, not yet handled by the Listener
    now,         \* the clock, in milliseconds
    issued,      \* ids D-Bus clients were given, by any session
    ahead,       \* ids replaced before the counter had reached them (history)
    calls,       \* Notify calls so far
    requests,    \* other client jobs so far
    emitted,     \* NotificationClosed signals sent for the c-th Notify call
    restarts,    \* sessions before this one
    earlier      \* Notify calls of the sessions before this one (history)

Mail == INSTANCE Mailbox

mailVars == <<list, signals, unsignalled>>
logVars == <<buffer, dirty, disk>>
execVars == <<at, job, wasEmpty, result>>
idVars == <<counter, issued, ahead>>
countVars == <<idVars, calls, requests, restarts, earlier>>
outVars == <<timers, delivering, emitted>>
vars == <<mailVars, logVars, execVars, countVars, outVars, now>>

Where == {"recv", "execute", "flush", "writing", "reply", "panicked"}

TypeOK ==
    /\ counter \in Nid /\ issued \subseteq Nid /\ ahead \subseteq Nid
    /\ list \in Seq(Job) /\ signals \in Nat /\ unsignalled \in Nat
    /\ buffer \in Seq(Notification) /\ dirty \in BOOLEAN /\ disk \in Disk
    /\ at \in Where /\ wasEmpty \in BOOLEAN /\ result \in Result
    /\ job \in Job \cup {NoJob} /\ (at \in {"execute", "flush", "writing", "reply"} => job \in Job)
    /\ timers \subseteq [call : Nat, id : Nid, wake : Nat]
    /\ delivering \subseteq [kind : {"notification"}, call : Nat, id : Nid]
    /\ now \in Nat
    /\ calls \in 0 .. MaxCalls /\ requests \in 0 .. MaxRequests
    /\ emitted \in [Call -> Nat]
    /\ restarts \in 0 .. MaxRestarts /\ earlier \in 0 .. MaxCalls

IsLargest(m, S) == (S = {} /\ m = 0) \/ (m \in S /\ \A n \in S : n <= m)

\* server::start: LogsManager::new loads the log, the D-Bus object starts
\* counting from the largest id in it.
Init ==
    /\ Mail!MailInit
    /\ \E d \in InitialDisks : buffer = LoadLogs(d) /\ disk = AfterLoad(d)
    /\ counter \in {m \in Nid : IsLargest(m, Ids(buffer))}
    /\ issued = 1 .. counter /\ ahead = {}
    /\ calls \in {m \in 0 .. MaxCalls : IsLargest(m, Calls(buffer))}
    /\ dirty = FALSE
    /\ at = "recv" /\ job = NoJob /\ wasEmpty = FALSE /\ result = NoResult
    /\ timers = {} /\ delivering = {} /\ now = 0 /\ requests = 0
    /\ restarts = 0 /\ earlier = calls
    /\ emitted = [c \in Call |-> 0]

\* The process is killed, whatever its threads were doing, and started again.
\* Its queue, its threads and the counter are gone with it, but its D-Bus clients
\* live on, and keep the ids it gave them.
Restart ==
    /\ restarts < MaxRestarts
    /\ restarts' = restarts + 1 /\ earlier' = calls
    /\ buffer' = LoadLogs(disk) /\ disk' = AfterLoad(disk) /\ dirty' = FALSE
    /\ counter' \in {m \in Nid : IsLargest(m, Ids(buffer'))}
    /\ list' = <<>> /\ signals' = 0 /\ unsignalled' = 0
    /\ at' = "recv" /\ job' = NoJob /\ wasEmpty' = FALSE /\ result' = NoResult
    /\ timers' = {} /\ delivering' = {}
    /\ UNCHANGED <<issued, ahead, calls, requests, emitted, now>>

-----------------------------------------------------------------------------
(* Producers.  Once the manager thread has panicked a send fails and the    *)
(* sender panics too (JobThreads); only Restart follows that here.          *)

Alive == at # "panicked"

UnboundedFreshId == counter + 1

\* The counter is a u32, which wraps in a release build.
FreshId == (counter + 1) % NidMod

\* D-Bus Notify: the counter does not notice the ids that are replaced.
Notify(replaces, timeout) ==
    /\ Alive /\ calls < MaxCalls
    /\ IF replaces = 0
       THEN counter' = FreshId /\ issued' = issued \cup {FreshId} /\ UNCHANGED ahead
       ELSE /\ ahead' = IF replaces > counter THEN ahead \cup {replaces} ELSE ahead
            /\ UNCHANGED <<counter, issued>>
    /\ LET nid == IF replaces = 0 THEN FreshId ELSE replaces
       IN Mail!PushAndSignal(Broadcast(
             [call |-> calls + 1, id |-> nid, time |-> now, read |-> FALSE,
              closed |-> FALSE, replaces |-> replaces, timeout |-> timeout]))
    /\ calls' = calls + 1
    /\ UNCHANGED <<logVars, execVars, outVars, now, requests, restarts, earlier>>

\* Ids a client can name: one that some session gave it, one of a session
\* before Init, or one that it made up.
Known == issued \cup ForeignIds

\* D-Bus CloseNotification.
CloseNotification(nid) ==
    /\ Alive /\ requests < MaxRequests
    /\ Mail!PushAndSignal(CloseJob(nid, "called", FALSE))
    /\ requests' = requests + 1
    /\ UNCHANGED <<logVars, execVars, outVars, now, idVars, calls, restarts, earlier>>

\* A listener task pushes the job a client process sent.
ClientRequest(j) ==
    /\ Alive /\ requests < MaxRequests
    /\ Mail!Push(j)
    /\ requests' = requests + 1
    /\ UNCHANGED <<logVars, execVars, outVars, now, idVars, calls, restarts, earlier>>

\* A listener task has written a notification to the watchers; if one that is
\* not silent took it, the task pushes an Acknowledge of its id.  Without such
\* a watcher a transmitted notification has no more effect.
DeliverUnread(r) ==
    /\ Alive
    /\ delivering' = delivering \ {r}
    /\ UNCHANGED <<mailVars, logVars, execVars, countVars, timers, emitted, now>>

DeliverRead(r) ==
    /\ Alive
    /\ delivering' = delivering \ {r}
    /\ Mail!Push(Acknowledge(r.id))
    /\ UNCHANGED <<logVars, execVars, countVars, timers, emitted, now>>

\* An auto-close thread wakes up and pushes its Close.
TimerFires(t) ==
    /\ Alive
    /\ now >= t.wake
    /\ timers' = timers \ {t}
    /\ Mail!Push(CloseJob(t.id, "expired", FALSE))
    /\ UNCHANGED <<logVars, execVars, countVars, delivering, emitted, now>>

\* A listener task or a timer thread sends the unit for what it pushed.
SignalManager ==
    /\ Alive
    /\ Mail!Signal
    /\ UNCHANGED <<logVars, execVars, countVars, outVars, now>>

Tick ==
    /\ now < MaxTime \/ \E t \in timers : now < t.wake
    /\ now' = now + 1
    /\ UNCHANGED <<mailVars, logVars, execVars, countVars, outVars>>

-----------------------------------------------------------------------------
(* The manager thread: LogsManager::exec, once per unit received.           *)

DrainList == <<>>
AfterPop == Tail(list)

EmptyBeforePop == list = <<>>
EmptyAfterPop == AfterPop = <<>>

\* Receive a unit and pop a job.  exec's Noop, no job to pop, is
\* `unreachable!` in the manager loop.
Receive ==
    /\ at = "recv"
    /\ signals > 0
    /\ signals' = signals - 1
    /\ IF list = <<>>
       THEN /\ at' = "panicked"
            /\ UNCHANGED <<list, job, wasEmpty>>
       ELSE /\ at' = "execute"
            /\ list' = AfterPop
            /\ job' = Head(list)
            /\ wasEmpty' = EmptyAfterPop
    /\ UNCHANGED <<unsignalled, logVars, countVars, outVars, now, result>>

Executing(cmd) == at = "execute" /\ job.cmd = cmd

Finish(res) ==
    /\ at' = "flush"
    /\ result' = res
    /\ UNCHANGED <<mailVars, job, wasEmpty, disk, countVars, now>>

StartsTimerUnlessReplacement(n) == AutoClose /\ HasTimeout(n.timeout) /\ n.replaces = 0
StartsTimer(n) == AutoClose /\ HasTimeout(n.timeout)

\* The thread is started first, and runs once the notification is in the log.
ExecuteBroadcast ==
    /\ Executing("broadcast")
    /\ buffer' = Admit(buffer, job.event)
    /\ dirty' = TRUE
    /\ timers' = timers \cup
        (IF StartsTimer(job.event)
         THEN {[call |-> job.event.call, id |-> job.event.id,
                wake |-> now + Millis(job.event.timeout)]}
         ELSE {})
    /\ Finish([kind |-> "notification", call |-> job.event.call, id |-> job.event.id])
    /\ UNCHANGED <<delivering, emitted>>

CloseIgnoredIfUnknown == Position(buffer, job.id) = 0

\* Close is ignored when the notification is unknown or closed already...
CloseIgnored == Position(buffer, job.id) = 0 \/ QueryAnswer(buffer, job.id)

\* ... and an Expired one when the notification is not due.
CloseEarly ==
    /\ job.reason = "expired"
    /\ Position(buffer, job.id) # 0
    /\ NotDue(buffer[Position(buffer, job.id)], now)

ExecuteCloseDropped ==
    /\ Executing("close")
    /\ \/ CloseIgnored /\ ~job.force
       \/ ~CloseIgnored /\ CloseEarly
    /\ Finish(NoResult)
    /\ UNCHANGED <<buffer, dirty, outVars>>

\* `ne.unwrap()`: --force let an unknown id through.
ExecuteCloseUnknown ==
    /\ Executing("close")
    /\ job.force /\ Position(buffer, job.id) = 0
    /\ at' = "panicked"
    /\ UNCHANGED <<mailVars, logVars, countVars, outVars, now, job, wasEmpty, result>>

\* Otherwise it is marked, and then signalled on the bus.  If that fails the
\* watchers are still told, or get the error when there was no runtime.
ExecuteClose ==
    /\ Executing("close")
    /\ ~CloseIgnored \/ (job.force /\ Position(buffer, job.id) # 0)
    /\ ~CloseEarly
    /\ buffer' = MarkClosed(buffer, Position(buffer, job.id))
    /\ dirty' = TRUE
    /\ LET c == buffer[Position(buffer, job.id)].call
           event == [kind |-> "event", event |-> "cls", id |-> job.id]
       IN \/ /\ emitted' = [emitted EXCEPT ![c] = @ + 1]
             /\ Finish(event)
          \/ /\ "bus" \in Faults
             /\ UNCHANGED emitted
             /\ Finish(event) \/ Finish([kind |-> "error"])
    /\ UNCHANGED <<timers, delivering>>

ExecuteRead ==
    /\ Executing("read")
    /\ IF WindowPanics(buffer, job.start, job.end)
       THEN /\ at' = "panicked"
            /\ UNCHANGED <<mailVars, logVars, countVars, now, job, wasEmpty, result>>
       ELSE LET marks == ~job.silent /\ Window(buffer, job.start, job.end) # {}
                after == IF marks THEN MarkWindowRead(buffer, job.start, job.end) ELSE buffer
            IN /\ buffer' = after
               /\ dirty' = (dirty \/ marks)
               /\ Finish([kind |-> "logs", logs |-> ReadLogs(after, job.start, job.end)])
    /\ UNCHANGED outVars

ExecuteQuery ==
    /\ Executing("query")
    /\ Finish([kind |-> "answer", closed |-> QueryAnswer(buffer, job.id)])
    /\ UNCHANGED <<buffer, dirty, outVars>>

\* ActionInvoked and ActivationToken: a signal on the bus, then an event; the
\* watchers get the event when the bus refuses the signal, too, but the error
\* when there was no runtime to send it with.
ExecuteSignal ==
    /\ Executing("action") \/ Executing("activation")
    /\ IF CloseIgnored /\ ~job.force
       THEN Finish(NoResult)
       ELSE \/ Finish([kind |-> "event", event |-> IF job.cmd = "action" THEN "act" ELSE "acv",
                       id |-> job.id])
            \/ "bus" \in Faults /\ Finish([kind |-> "error"])
    /\ UNCHANGED <<buffer, dirty, outVars>>

ExecuteAcknowledgeClean ==
    /\ Executing("acknowledge")
    /\ buffer' = ReadNotification(buffer, job.id)
    /\ Finish(NoResult)
    /\ UNCHANGED <<dirty, outVars>>

ExecuteAcknowledge ==
    /\ Executing("acknowledge")
    /\ buffer' = ReadNotification(buffer, job.id)
    /\ dirty' = TRUE
    /\ Finish(NoResult)
    /\ UNCHANGED outVars

FlushForgets ==
    /\ at = "flush"
    /\ dirty' = FALSE
    /\ IF wasEmpty /\ dirty THEN disk' = Torn /\ at' = "writing"
       ELSE UNCHANGED disk /\ at' = "reply"
    /\ UNCHANGED <<mailVars, buffer, job, wasEmpty, result, countVars, outVars, now>>

\* After the job: write the log when the pop had emptied the list.
Flush ==
    /\ at = "flush"
    /\ IF wasEmpty /\ dirty
       THEN /\ dirty' = FALSE
            /\ disk' = Torn
            /\ at' = "writing"
       ELSE /\ at' = "reply"
            /\ UNCHANGED <<dirty, disk>>
    /\ UNCHANGED <<mailVars, buffer, job, wasEmpty, result, countVars, outVars, now>>

FinishWrite ==
    /\ at = "writing"
    /\ disk' = Saved(buffer)
    /\ at' = "reply"
    /\ UNCHANGED <<mailVars, buffer, dirty, job, wasEmpty, result, countVars, outVars, now>>

\* Send the result to the Listener, unless it is Ok(None).  Only notifications
\* make the Listener push a job in return.
Transmitted == IF Watched /\ result.kind = "notification" THEN {result} ELSE {}

Reply ==
    /\ at = "reply"
    /\ delivering' = delivering \cup Transmitted
    /\ at' = "recv" /\ job' = NoJob /\ wasEmpty' = FALSE /\ result' = NoResult
    /\ UNCHANGED <<mailVars, logVars, countVars, timers, emitted, now>>

\* An io::Error of fs::write, before or after it truncated the file, or of the
\* connection to the Listener, before or after the Listener has the data, makes
\* exec return Err and the manager thread panic.
WriteFails ==
    /\ "disk" \in Faults
    /\ (at = "flush" /\ wasEmpty /\ dirty) \/ at = "writing"
    /\ dirty' = FALSE
    /\ at' = "panicked"
    /\ UNCHANGED <<mailVars, buffer, disk, job, wasEmpty, result, countVars, outVars, now>>

SendFails ==
    /\ "socket" \in Faults
    /\ at = "reply" /\ result # NoResult
    /\ \/ UNCHANGED delivering
       \/ delivering' = delivering \cup Transmitted
    /\ at' = "panicked"
    /\ UNCHANGED <<mailVars, logVars, job, wasEmpty, result, countVars, timers, emitted, now>>

-----------------------------------------------------------------------------
Execute ==
    \/ ExecuteBroadcast
    \/ ExecuteCloseDropped
    \/ ExecuteCloseUnknown
    \/ ExecuteClose
    \/ ExecuteRead
    \/ ExecuteQuery
    \/ ExecuteSignal
    \/ ExecuteAcknowledge

ManagerStep == Receive \/ Execute \/ Flush \/ FinishWrite \/ Reply

Client ==
    \/ \E nid \in {0} \cup Known, timeout \in Timeouts : Notify(nid, timeout)
    \/ \E nid \in Known : CloseNotification(nid)
    \/ \E j \in ClientJobs : ClientRequest(j)

Next ==
    \/ Client
    \/ \E r \in delivering : DeliverUnread(r) \/ DeliverRead(r)
    \/ \E t \in timers : TimerFires(t)
    \/ SignalManager
    \/ Tick
    \/ ManagerStep
    \/ WriteFails
    \/ SendFails
    \/ Restart

Spec == Init /\ [][Next]_vars

\* The manager thread, the threads and tasks that owe it a unit, the sleeping
\* threads and the clock all proceed; clients and watchers need not.
FairSpec ==
    /\ Spec
    /\ WF_vars(ManagerStep)
    /\ WF_vars(SignalManager)
    /\ WF_vars(Tick)
    /\ WF_vars(\E t \in timers : TimerFires(t))

-----------------------------------------------------------------------------
(* Properties.                                                              *)

\* exec never returns Noop, which the manager loop calls unreachable: whenever
\* a unit is waiting on the channel, a job is waiting in the SyncList
\* (mod.rs:114).
NeverNoop == signals > 0 => list # <<>>

\* An unsaved change always has `dirty` set, whatever job made it: whoever
\* reads the file while the manager is not writing it and dirty is not set
\* reads the log (every set_dirty in manager.rs and close.rs:98).
DirtyCoversChanges ==
    at \notin {"writing", "panicked"} /\ ~dirty => LoadLogs(disk) = buffer

\* "when the SyncList becomes empty, this LogsManager will write to the
\* logs_path": a manager with nothing to do has saved its log, although only
\* the job whose pop emptied the list flushes (manager.rs:293-308).
IdleIsSaved == at = "recv" /\ list = <<>> => LoadLogs(disk) = buffer

\* "we must guarantee that it is not 0" (dbus.rs:115): no notification gets the
\* id 0, and two entries of the log never share an id, though replacements queue
\* up and race with evictions, closes and crashes (dbus.rs:114-120,
\* broadcast.rs:24-26).  The one exception is an id that a client replaced while
\* the counter was behind it, such as one that a session before the crash gave
\* it and the file never held: the counter comes by, and hands it out again.
UniqueIds ==
    /\ 0 \notin Ids(buffer)
    /\ \A i, j \in DOMAIN buffer :
        buffer[i].id = buffer[j].id => i = j \/ buffer[i].id \in ahead

\* Once the log and the file hold no more than --max notifications they never do
\* again, over replacements, evictions and crashes, if --max is not 0
\* (manager.rs:223-229).
WithinMax == Len(buffer) <= MaxLogs /\ Len(LoadLogs(disk)) <= MaxLogs
StaysBounded == [][WithinMax => WithinMax']_vars

\* The manager thread dies of nothing but an I/O error, a forced Close of a
\* notification it no longer has, or a Read whose skip + count wrapped around:
\* never of an empty queue, and never of a window that outruns a log which
\* shrank after the client chose it (mod.rs:114-125, close.rs:65, manager.rs:188).
PanicsForCause ==
    [][Alive /\ ~Alive' =>
        \/ at \in {"flush", "writing"} /\ "disk" \in Faults
        \/ at = "reply" /\ "socket" \in Faults
        \/ Executing("close") /\ job.force /\ job.id \notin Ids(buffer)
        \/ Executing("read") /\ job.end < job.start]_vars

\* As long as a session has a notification in the log no job unmarks it: not
\* read again once read, not open again once closed (manager.rs:177-179).
MarksStay ==
    [][\A i \in DOMAIN buffer, j \in DOMAIN buffer' :
        buffer[i].call = buffer'[j].call /\ restarts' = restarts =>
            /\ buffer[i].read => buffer'[j].read
            /\ buffer[i].closed => buffer'[j].closed]_vars

\* What is left of "any `true` result will still be `true`, no matter how much
\* time has passed" (README.md:46): a session takes a true answer back only when
\* it gives the notification up, for one that replaces it or as the last one of a
\* full log (manager.rs:212-229), or when its id was replaced ahead of the counter
\* and is handed out again.
QueryTrueUntilGone ==
    [][\A nid \in Ids(buffer) :
        QueryAnswer(buffer, nid) /\ ~QueryAnswer(buffer', nid) /\ restarts' = restarts =>
            /\ Executing("broadcast")
            /\ \/ job.event.replaces = nid
               \/ Len(buffer) = MaxLogs /\ buffer[MaxLogs].id = nid
               \/ nid \in ahead]_vars

\* The manager implements Lifecycle.
LoggedAs(buf, c) ==
    IF c \notin Calls(buf) THEN "gone"
    ELSE IF \E i \in DOMAIN buf : buf[i].call = c /\ buf[i].closed THEN "closed"
    ELSE "open"

StatusOf(c) ==
    IF c > calls THEN "unsent"
    ELSE IF \/ \E i \in DOMAIN list : list[i].cmd = "broadcast" /\ list[i].event.call = c
            \/ Executing("broadcast") /\ job.event.call = c
         THEN "queued"
    ELSE LoggedAs(buffer, c)

Life == INSTANCE Lifecycle WITH
    LogLimit <- MaxLogs,
    status <- [c \in Call |-> StatusOf(c)],
    saved <- [c \in Call |-> LoggedAs(LoadLogs(disk), c)]

\* What happens to the notification of each Notify call, in the queue, the log,
\* the file and on the bus, before and after a crash, is what Lifecycle promises
\* (Broadcast, Close, eviction, exec's write and LogsManager::new).
KeepsPromise == Life!LifeSpec

\* "you may not use a notification id which has previously been closed"
\* (README.md:37): once the mark of a closed notification has reached the file,
\* no session signals its closure again.  Before that a crash forgets the mark
\* though the signal is on the bus (close.rs:98-108).
NeverSignalledAgain ==
    [][\A i \in DOMAIN disk.logs :
        disk.logs[i].closed =>
            emitted'[disk.logs[i].call] = emitted[disk.logs[i].call]]_vars

\* A notification expires no earlier than the timeout its client asked for,
\* even when the thread that closes it was started for one it replaced
\* (close.rs:69-89).
ExpiresWhenDue ==
    [][\A i \in DOMAIN buffer :
        Executing("close") /\ job.reason = "expired" /\ restarts' = restarts
            /\ ~buffer[i].closed /\ buffer'[i].closed =>
                /\ HasTimeout(buffer[i].timeout)
                /\ now >= buffer[i].time + (IF buffer[i].timeout = -1 THEN DefaultTimeout
                                             ELSE buffer[i].timeout)]_vars

\* "Automatically closes a notification after timeout" (cli.rs:33), as far as
\* safety goes: with --auto-close, an open notification of this session that has
\* a timeout has a thread that sleeps until it is due, or an expired Close in the
\* queue or in the manager's hands that will find it due, whatever thread of a
\* notification that it replaced woke up first (broadcast.rs:36-61).  Where an id
\* is there twice, as UniqueIds allows, a Close finds only one of the two.
Due(n) == n.time + Millis(n.timeout)
WillExpire(n) ==
    \/ \E t \in timers : t.id = n.id /\ t.wake >= Due(n)
    \/ /\ now >= Due(n)
       /\ \/ CloseJob(n.id, "expired", FALSE) \in {list[k] : k \in DOMAIN list}
          \/ at = "execute" /\ job = CloseJob(n.id, "expired", FALSE)

OpenIsArmed ==
    AutoClose => \A i \in DOMAIN buffer :
        buffer[i].call > earlier /\ ~buffer[i].closed /\ HasTimeout(buffer[i].timeout)
            /\ buffer[i].id \notin ahead => WillExpire(buffer[i])

IsOpen(c) == \E i \in DOMAIN buffer : buffer[i].call = c /\ ~buffer[i].closed

Expires(c) ==
    \E i \in DOMAIN buffer : buffer[i].call = c /\ ~buffer[i].closed
                              /\ HasTimeout(buffer[i].timeout)

\* "Automatically closes a notification after timeout" (cli.rs:33): with
\* --auto-close, one with a timeout does not stay open in the log for ever.
EventuallyExpires == AutoClose => \A c \in Call : Expires(c) ~> ~IsOpen(c)

\* A change of the log reaches the file once clients pause (manager.rs:300).
EventuallySaved == dirty ~> LoadLogs(disk) = buffer

\* "you will read n notifications from the logs (most recent to less)"
\* (README.md:25): the log, read from its front, never steps to a later call.
MostRecentFirst ==
    \A i, j \in DOMAIN buffer : i < j => buffer[i].call > buffer[j].call

\* "There is, however, a maximum number of notifications that can be stored at
\* all times" (README.md:15): the log does not grow beyond --max.
GrowsWithinMax == [][Len(buffer') > Len(buffer) => Len(buffer') <= MaxLogs]_vars

\* "notifications will be marked as `read` once they are either read with
\* `notifs-piper read` or `notifs-piper watch`" (README.md:29): an Acknowledge
\* marks none that the Listener has yet to hand to a watcher.
MarkedOnceRead ==
    [][\A i \in DOMAIN buffer :
        Executing("acknowledge") /\ ~buffer[i].read /\ buffer'[i].read =>
            \A r \in delivering : r.call # buffer[i].call]_vars

\* "you may use the --force option to force the signal to be emitted", meant
\* for a notification the daemon no longer stores (README.md:44).
ForcedCloseIsSignalled ==
    [][Executing("close") /\ job.force /\ at' # "execute" => result'.kind = "event"]_vars
=============================================================================
