------------------------------ MODULE Listener ------------------------------
(***************************************************************************)
(* The Listener (src/src/server/listener.rs): one task per connection, the *)
(* table of processes that wait for an answer, the table of processes that *)
(* watch, and the client processes at the other end (src/src/main.rs).     *)
(*                                                                         *)
(* A connection carries a request, a signal or a watch of a client, or, in *)
(* the other direction, what the manager thread transmits: the answer to a *)
(* request, or a broadcast to the watchers.  The manager is reduced to     *)
(* taking jobs in order and transmitting what they yield.  A task yields   *)
(* at every await, so every await and every lock is a step of its own.     *)
(* A job is named after the client or the notification it comes from.      *)
(*                                                                         *)
(* Framing is left to Transport: what one write sends one read gets, but   *)
(* for what the manager transmits and read refuses.  A notification read   *)
(* in part, at which the SyncList is poisoned, is left to JobThreads, like *)
(* the death of the manager.                                               *)
(*                                                                         *)
(* SharedKey, PushUnregistered, AlwaysFree, StopAtFailure, RetryFailed,    *)
(* NeverFull and HearsLast are slips: likely mistakes in the definition    *)
(* below them, used by nothing.                                            *)
(***************************************************************************)
EXTENDS Naturals, Sequences, FiniteSets

CONSTANTS
    Requests,       \* client processes that wait for an answer (read, query)
    Signallers,     \* client processes that do not (signal)
    Notifications,  \* notifications that arrive over D-Bus
    Watchers,       \* client processes that watch
    Silent,         \* the watchers with --silent
    Pid,            \* process ids
    Killable,       \* the requests that may be killed while they wait
    Unreadable,     \* jobs whose result the Listener may fail to read
    PipeSize,       \* how many transmissions an unread socket holds
    MaxStarted      \* bound: processes that run and notifications that arrive

Items == Notifications \cup Signallers
Acknowledge(n) == <<"acknowledge", n>>
Acknowledges == {Acknowledge(n) : n \in Notifications}
Jobs == Requests \cup Items \cup Acknowledges
Nobody == <<"nobody">>

ASSUME NamesAssumption ==
    /\ Requests \cap Items = {} /\ Notifications \cap Signallers = {}
    /\ (Requests \cup Items) \cap Acknowledges = {}
    /\ Nobody \notin Jobs \cup Watchers \cup Pid

ASSUME ProcessesAssumption ==
    /\ Silent \subseteq Watchers
    /\ Killable \subseteq Requests
    /\ Unreadable \subseteq Requests \cup Items
    /\ PipeSize \in Nat \ {0}
    /\ MaxStarted \in Nat

VARIABLES
    process,     \* process[c]: the client process of a request
    pid,         \* pid[c]: its process id
    intake,      \* intake[c]: the task that reads a request or a signal
    received,    \* received[c]: the request whose answer c has got
    active,      \* active_processes: whose stream is kept under each pid
    list, signals, unsignalled,  \* SyncList and channel (Mailbox)
    notified,    \* notifications that have arrived
    task,        \* task[j]: the task that transmits what job j yielded
    stream,      \* stream[c]: whose stream that task took out of `active`
    cast,        \* cast[b]: the locals of the task that broadcasts b
    watch,       \* watch[w]: a watcher's process
    enrolling,   \* watchers whose task has yet to put them into `listening`
    listening,   \* listening_processes
    inbox,       \* inbox[w]: everything written to watcher w
    unread       \* unread[w]: how much of that w has not read

Mail == INSTANCE Mailbox WITH Job <- Jobs

clientVars == <<process, pid, intake, received>>
mailVars == <<list, signals, unsignalled>>
outVars == <<task, stream, cast>>
watcherVars == <<watch, enrolling, listening, inbox, unread>>
vars == <<clientVars, active, mailVars, notified, outVars, watcherVars>>

\* `rest`: the watchers still to be written to; `writing`: the one that has the
\* data while the empty write that ends it is to come; `heard`: the code's
\* `read`; `old`: those that could not be written to.
Locals == [rest : SUBSET Watchers, writing : Watchers \cup {Nobody},
           heard : BOOLEAN, old : SUBSET Watchers]
NoLocals == [rest |-> {}, writing |-> Nobody, heard |-> FALSE, old |-> {}]

TypeOK ==
    /\ process \in [Requests -> {"unborn", "waiting", "exited"}]
    /\ pid \in [Requests -> Pid \cup {Nobody}]
    /\ intake \in [Requests \cup Signallers -> {"none", "reading", "registered", "pushed"}]
    /\ received \in [Requests -> Requests \cup {Nobody}]
    /\ active \in [Pid -> Requests \cup {Nobody}]
    /\ list \in Seq(Jobs) /\ signals \in Nat /\ unsignalled \in Nat
    /\ notified \subseteq Notifications
    /\ task \in [Requests \cup Items ->
                {"none", "accepted", "refused", "taken", "locked", "done", "panicked"}]
    /\ stream \in [Requests -> Requests \cup {Nobody}]
    /\ cast \in [Items -> Locals]
    /\ watch \in [Watchers -> {"unborn", "open", "exited"}]
    /\ enrolling \subseteq Watchers /\ listening \subseteq Watchers
    /\ inbox \in [Watchers -> Seq(Items)]
    /\ unread \in [Watchers -> 0 .. PipeSize]

Init ==
    /\ process = [c \in Requests |-> "unborn"]
    /\ pid = [c \in Requests |-> Nobody]
    /\ intake = [c \in Requests \cup Signallers |-> "none"]
    /\ received = [c \in Requests |-> Nobody]
    /\ active = [p \in Pid |-> Nobody]
    /\ Mail!MailInit
    /\ notified = {}
    /\ task = [j \in Requests \cup Items |-> "none"]
    /\ stream = [c \in Requests |-> Nobody]
    /\ cast = [b \in Items |-> NoLocals]
    /\ watch = [w \in Watchers |-> "unborn"]
    /\ enrolling = {} /\ listening = {}
    /\ inbox = [w \in Watchers |-> <<>>]
    /\ unread = [w \in Watchers |-> 0]

-----------------------------------------------------------------------------
(* Client processes.                                                        *)

MayStart ==
    Cardinality({c \in Requests : process[c] # "unborn"})
        + Cardinality({s \in Signallers : intake[s] # "none"})
        + Cardinality({w \in Watchers : watch[w] # "unborn"})
        + Cardinality(notified) < MaxStarted

\* A pid may be reused when its process is gone.  The kernel hands pids out in
\* a cycle: that of a killed client is not reused while the daemon works for it.
Reusable(p) ==
    \A d \in Requests : pid[d] = p => process[d] = "exited" /\ task[d] \in {"done", "refused"}

\* A new process sends its request.
Ask(c, p) ==
    /\ MayStart /\ process[c] = "unborn" /\ Reusable(p)
    /\ process' = [process EXCEPT ![c] = "waiting"]
    /\ pid' = [pid EXCEPT ![c] = p]
    /\ intake' = [intake EXCEPT ![c] = "reading"]
    /\ UNCHANGED <<received, active, mailVars, notified, outVars, watcherVars>>

\* It reads the answer, prints it and exits, or it is killed before.
Exit(c) ==
    /\ process[c] = "waiting"
    /\ received[c] # Nobody \/ c \in Killable
    /\ process' = [process EXCEPT ![c] = "exited"]
    /\ UNCHANGED <<pid, intake, received, active, mailVars, notified, outVars, watcherVars>>

\* A signal is sent and not waited for.
SendSignal(s) ==
    /\ MayStart /\ intake[s] = "none"
    /\ intake' = [intake EXCEPT ![s] = "reading"]
    /\ UNCHANGED <<process, pid, received, active, mailVars, notified, outVars, watcherVars>>

CallWatch(w) ==
    /\ MayStart /\ watch[w] = "unborn"
    /\ watch' = [watch EXCEPT ![w] = "open"]
    /\ enrolling' = enrolling \cup {w}
    /\ UNCHANGED <<clientVars, active, mailVars, notified, outVars, listening, inbox, unread>>

HangUp(w) ==
    /\ watch[w] = "open"
    /\ watch' = [watch EXCEPT ![w] = "exited"]
    /\ UNCHANGED <<clientVars, active, mailVars, notified, outVars, enrolling, listening, inbox, unread>>

\* The loop of `notifs-piper watch`.
WatcherReads(w) ==
    /\ watch[w] = "open" /\ unread[w] > 0
    /\ unread' = [unread EXCEPT ![w] = @ - 1]
    /\ UNCHANGED <<clientVars, active, mailVars, notified, outVars, watch, enrolling, listening, inbox>>

-----------------------------------------------------------------------------
(* Tasks that take in a request, a signal or a watch.                       *)

SharedKey(c) == CHOOSE p \in Pid : TRUE
Key(c) == pid[c]

\* The stream goes into the table before the job goes into the list.  All
\* signallers use pid 0, under which no answer is ever looked up; their
\* streams are left out.
Register(c) ==
    /\ intake[c] = "reading"
    /\ intake' = [intake EXCEPT ![c] = "registered"]
    /\ active' = IF c \in Requests THEN [active EXCEPT ![Key(c)] = c] ELSE active
    /\ UNCHANGED <<process, pid, received, mailVars, notified, outVars, watcherVars>>

PushUnregistered(c) ==
    /\ intake[c] \in {"reading", "registered"}
    /\ intake' = [intake EXCEPT ![c] = "pushed"]
    /\ Mail!Push(c)
    /\ UNCHANGED <<process, pid, received, active, notified, outVars, watcherVars>>

PushRequest(c) ==
    /\ intake[c] = "registered"
    /\ intake' = [intake EXCEPT ![c] = "pushed"]
    /\ Mail!Push(c)
    /\ UNCHANGED <<process, pid, received, active, notified, outVars, watcherVars>>

\* notify_manager!, for a request, a signal or an Acknowledge.
NotifyManager ==
    /\ Mail!Signal
    /\ UNCHANGED <<clientVars, active, notified, outVars, watcherVars>>

AlwaysFree == TRUE

\* A broadcast holds the lock of listening_processes while it is "locked".
LockFree == \A b \in Items : task[b] # "locked"

Enrol(w) ==
    /\ w \in enrolling /\ LockFree
    /\ enrolling' = enrolling \ {w}
    /\ listening' = listening \cup {w}
    /\ UNCHANGED <<clientVars, active, mailVars, notified, outVars, watch, inbox, unread>>

-----------------------------------------------------------------------------
(* The D-Bus object and the manager thread.                                 *)

Notify(n) ==
    /\ MayStart /\ n \notin notified
    /\ notified' = notified \cup {n}
    /\ Mail!PushAndSignal(n)
    /\ UNCHANGED <<clientVars, active, outVars, watcherVars>>

\* Requests and broadcasts always yield something to transmit, a signal may be
\* ignored, an Acknowledge yields nothing.  If the transmission cannot be read,
\* as when a chunk ends within a character, its task reports that to the manager,
\* who does not listen, and ends: the stream stays in the table (listener.rs:39,
\* 135-139).
Execute ==
    /\ Mail!Take
    /\ LET j == Head(list)
       IN \/ /\ j \notin Acknowledges
             /\ task' = [task EXCEPT ![j] = "accepted"]
          \/ /\ j \in Unreadable
             /\ task' = [task EXCEPT ![j] = "refused"]
          \/ /\ j \in Acknowledges \cup Signallers
             /\ UNCHANGED task
    /\ UNCHANGED <<clientVars, active, notified, stream, cast, watcherVars>>

-----------------------------------------------------------------------------
(* Tasks that transmit an answer.                                           *)

Find(c) ==
    /\ task[c] = "accepted"
    /\ task' = [task EXCEPT ![c] = "taken"]
    /\ stream' = [stream EXCEPT ![c] = active[Key(c)]]
    /\ active' = [active EXCEPT ![Key(c)] = Nobody]
    /\ UNCHANGED <<clientVars, mailVars, notified, cast, watcherVars>>

\* `stream.unwrap()`.  A client that is gone is only reported.
Answer(c) ==
    /\ task[c] = "taken"
    /\ task' = [task EXCEPT ![c] = IF stream[c] = Nobody THEN "panicked" ELSE "done"]
    /\ received' = IF stream[c] # Nobody /\ process[stream[c]] = "waiting"
                   THEN [received EXCEPT ![stream[c]] = c] ELSE received
    /\ UNCHANGED <<process, pid, intake, active, mailVars, notified, stream, cast, watcherVars>>

-----------------------------------------------------------------------------
(* Tasks that broadcast, one watcher after the other.                       *)

Begin(b) ==
    /\ task[b] = "accepted" /\ LockFree
    /\ task' = [task EXCEPT ![b] = "locked"]
    /\ cast' = [cast EXCEPT ![b].rest = listening]
    /\ UNCHANGED <<clientVars, active, mailVars, notified, stream, watcherVars>>

StopAtFailure(b, w) ==
    cast' = [cast EXCEPT ![b].rest = {}, ![b].writing = Nobody, ![b].old = @ \cup {w}]

RetryFailed(b, w) == cast' = [cast EXCEPT ![b].writing = Nobody]

\* Writing to w failed.
Fail(b, w) ==
    cast' = [cast EXCEPT ![b].rest = @ \ {w}, ![b].writing = Nobody, ![b].old = @ \cup {w}]

NeverFull(w) == TRUE
HasRoom(w) == unread[w] < PipeSize

\* A full socket makes the task wait, with the lock.
WriteData(b, w) ==
    /\ task[b] = "locked" /\ cast[b].writing = Nobody /\ w \in cast[b].rest
    /\ \/ /\ watch[w] = "exited"
          /\ Fail(b, w)
          /\ UNCHANGED <<inbox, unread>>
       \/ /\ watch[w] = "open" /\ HasRoom(w)
          /\ cast' = [cast EXCEPT ![b].rest = @ \ {w}, ![b].writing = w]
          /\ inbox' = [inbox EXCEPT ![w] = Append(@, b)]
          /\ unread' = [unread EXCEPT ![w] = @ + 1]
    /\ UNCHANGED <<clientVars, active, mailVars, notified, task, stream, watch, enrolling, listening>>

HearsLast(b, w) == w \notin Silent
Hears(b, w) == cast[b].heard \/ w \notin Silent

\* The empty write that ends `write`.
EndWrite(b, w) ==
    /\ task[b] = "locked" /\ cast[b].writing = w
    /\ \/ /\ watch[w] = "exited"
          /\ Fail(b, w)
       \/ /\ watch[w] = "open"
          /\ cast' = [cast EXCEPT ![b].writing = Nobody, ![b].heard = Hears(b, w)]
    /\ UNCHANGED <<clientVars, active, mailVars, notified, task, stream, watcherVars>>

\* The lock is held until the Acknowledge has been pushed.
End(b) ==
    /\ task[b] = "locked" /\ cast[b].rest = {} /\ cast[b].writing = Nobody
    /\ listening' = listening \ cast[b].old
    /\ task' = [task EXCEPT ![b] = "done"]
    /\ IF cast[b].heard /\ b \in Notifications
       THEN Mail!Push(Acknowledge(b)) ELSE UNCHANGED mailVars
    /\ cast' = [cast EXCEPT ![b] = NoLocals]
    /\ UNCHANGED <<clientVars, active, notified, stream, watch, enrolling, inbox, unread>>

-----------------------------------------------------------------------------
Intake(c) == Register(c) \/ PushRequest(c)
Transmit(c) == Find(c) \/ Answer(c)
Broadcast(b) == Begin(b) \/ End(b) \/ \E w \in Watchers : WriteData(b, w) \/ EndWrite(b, w)

Next ==
    \/ \E c \in Requests : (\E p \in Pid : Ask(c, p)) \/ Exit(c) \/ Transmit(c)
    \/ \E s \in Signallers : SendSignal(s)
    \/ \E c \in Requests \cup Signallers : Intake(c)
    \/ \E w \in Watchers : CallWatch(w) \/ HangUp(w) \/ WatcherReads(w) \/ Enrol(w)
    \/ \E n \in Notifications : Notify(n)
    \/ \E b \in Items : Broadcast(b)
    \/ NotifyManager
    \/ Execute

Spec == Init /\ [][Next]_vars

\* Tasks and the manager proceed, and a watcher prints what it gets unless it
\* hangs up; nobody need ask, watch, notify or exit.
FairSpec ==
    /\ Spec
    /\ WF_vars(NotifyManager)
    /\ WF_vars(Execute)
    /\ \A c \in Requests \cup Signallers : WF_vars(Intake(c))
    /\ \A c \in Requests : WF_vars(Transmit(c))
    /\ \A b \in Items : WF_vars(Broadcast(b))
    /\ \A w \in Watchers : WF_vars(WatcherReads(w))

-----------------------------------------------------------------------------
(* Properties.                                                              *)

\* A client gets the answer to its own request, though pids are reused and
\* answers are transmitted by tasks that overtake each other, and no task finds
\* that the client it answers is not in the table (listener.rs:174, 247-254).
AnswersGoHome ==
    /\ \A c \in Requests : received[c] \in {c, Nobody}
    /\ \A c \in Requests : task[c] # "panicked"

Before(s, a, b) == \E i, j \in DOMAIN s : i < j /\ s[i] = a /\ s[j] = b

\* All watchers get broadcasts in one order, although the tasks that write
\* them run at the same time: a broadcast keeps the table locked over its
\* awaits (listener.rs:190-206).
SameOrder ==
    \A v, w \in Watchers, a, b \in Items :
        ~(Before(inbox[v], a, b) /\ Before(inbox[w], b, a))

Has(w, b) == \E i \in DOMAIN inbox[w] : inbox[w][i] = b

\* A broadcast reaches every process in the table, and those alone leave it
\* that have hung up, whichever of them fail on the way (listener.rs:196-206).
ReachesAll ==
    [][\A b \in Items : task[b] = "locked" /\ task'[b] = "done" =>
        \A w \in listening :
            IF w \in listening' THEN Has(w, b)
            ELSE watch[w] = "exited"]_vars

\* A notification is acknowledged just if a watcher that is not silent got it;
\* one that got it and hung up before the empty write may go uncounted
\* (listener.rs:203, 218-241).
AcknowledgedWhenHeard ==
    [][\A n \in Notifications : task[n] = "locked" /\ task'[n] = "done" =>
        LET hearers == {w \in Watchers \ Silent : Has(w, n)}
        IN IF list' = list THEN \A w \in hearers : watch[w] = "exited"
           ELSE hearers # {} /\ list' = Append(list, Acknowledge(n))]_vars

\* Somebody works for c: its request is being read; or it is in the table and
\* its request registered, listed or handed to a task; or a task has its stream.
UnderWay(c) ==
    \/ intake[c] = "reading"
    \/ /\ active[Key(c)] = c
       /\ \/ intake[c] = "registered"
          \/ \E i \in DOMAIN list : list[i] = c
          \/ task[c] = "accepted"
    \/ task[c] = "taken" /\ stream[c] = c

\* Its answer could not be read, so it is in the table and nobody works for it.
Abandoned(c) == task[c] = "refused" /\ active[Key(c)] = c

\* No client is forgotten: one without its answer is where some task will find
\* it, unless the answer was refused (listener.rs:39, 135-139), and every listed
\* job has a unit on the channel or one to come (listener.rs:174-184, 247-256).
NobodyForgotten ==
    /\ \A c \in Requests :
            process[c] = "waiting" => received[c] = c \/ UnderWay(c) \/ Abandoned(c)
    /\ Mail!Matched

\* What Reception calls the states of a client and of a watcher.
ClientState(c) ==
    CASE process[c] = "unborn" -> "idle"
      [] process[c] = "exited" -> "gone"
      [] process[c] = "waiting" ->
            IF received[c] = c THEN "served"
            ELSE IF received[c] = Nobody THEN "asking" ELSE "misled"

WatcherState(w) ==
    IF w \in listening THEN IF watch[w] = "exited" THEN "deaf" ELSE "present"
    ELSE IF watch[w] = "exited" /\ w \notin enrolling THEN "gone" ELSE "away"

Locking(b) == task[b] = "locked"
Unwritten == {w \in listening : \E b \in Items : Locking(b) /\ ~Has(w, b)}

R == INSTANCE Reception WITH
        Client <- Requests, Watcher <- Watchers, Item <- Items, Silence <- Nobody,
        client <- [c \in Requests |-> ClientState(c)],
        watcher <- [w \in Watchers |-> WatcherState(w)],
        onAir <- IF LockFree THEN Nobody ELSE CHOOSE b \in Items : Locking(b),
        aired <- {b \in Items : task[b] \in {"locked", "done"}},
        pending <- Unwritten,
        heard <- inbox

\* The tables, tasks and locks implement Reception: answers are given once, and
\* to who asked; a watcher hears every broadcast from its enrolment until it
\* hangs up, in order and without a gap (listener.rs:164-256).
IsReception == R!ReceptionSpec

\* Every client that asked gets its answer, unless it is killed, or the Listener
\* refuses what the manager transmits: nobody tells the client, and it waits for
\* ever (listener.rs:39, 135-139).  One refusal costs no other client its answer.
EveryRequestAnswered ==
    \A c \in Requests :
        process[c] = "waiting" ~> process[c] = "exited" \/ received[c] = c \/ task[c] = "refused"

\* No broadcast waits for ever on the lock or on a watcher that keeps printing,
\* once it has been read.
EveryBroadcastEnds == \A b \in Items : task[b] = "accepted" ~> task[b] = "done"
=============================================================================
