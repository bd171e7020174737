---------------------------- MODULE JobThreads ----------------------------
(***************************************************************************)
(* The threads that share the SyncList, lock by lock: D-Bus handlers       *)
(* (src/src/server/dbus.rs), listener tasks (src/src/server/listener.rs),  *)
(* auto-close threads (src/src/server/jobs/broadcast.rs) and the manager   *)
(* thread (src/src/server/mod.rs, src/src/server/manager.rs).  It          *)
(* implements Mailbox, whose steps are the ones Manager takes.             *)
(*                                                                         *)
(* Every producer pushes one job, so a job is named after its producer.    *)
(* There are two locks: the mutex of the SyncList, and the lock zbus puts  *)
(* around the D-Bus object: a handler with &mut self (Notify) holds it for *)
(* writing, and ObjectServer::interface takes it for reading.  D-Bus       *)
(* handlers share one thread, and a std Mutex blocks the thread.           *)
(*                                                                         *)
(* The daemon starts with the bus name taken and the socket not yet bound, *)
(* and the manager may die: of a panic in a job, of an io error, of a      *)
(* Listener that is not there to connect to, or of a poisoned mutex.       *)
(* Others find out when they send, and poison the mutex or tell the accept *)
(* loop, whose return ends the process.  So does an error of accept.       *)
(*                                                                         *)
(* The results of the manager come back to the Listener, whose task for a  *)
(* broadcast may push a job in its turn, an Acknowledge.  If it then       *)
(* cannot parse the notification, it panics with the guard: with a live    *)
(* manager, this is the only way to poison the mutex.                      *)
(*                                                                         *)
(* AlwaysFree, PushFront, GoneOrFull, Unreported, ReceiveSpuriously,       *)
(* DrainList and KeepGuard are slips: likely mistakes in the definition    *)
(* below them, used by nothing.                                            *)
(***************************************************************************)
EXTENDS Naturals, Sequences, FiniteSets

CONSTANTS
    NotifyCalls,  \* D-Bus Notify calls
    TimedCalls,   \* those whose notification has a timeout
    HeardCalls,   \* those whose broadcast reaches a watcher that acknowledges
    LongCalls,    \* those of them whose result may be read only in part
    CloseCalls,   \* D-Bus CloseNotification calls
    ClientTasks,  \* listener tasks with a job of a client process
    MaxBegun      \* bound on the calls and client jobs of a behaviour

ASSUME ProducersAssumption ==
    /\ TimedCalls \subseteq NotifyCalls
    /\ HeardCalls \subseteq NotifyCalls /\ LongCalls \subseteq HeardCalls
    /\ IsFiniteSet(NotifyCalls) /\ IsFiniteSet(CloseCalls) /\ IsFiniteSet(ClientTasks)
    /\ NotifyCalls \cap CloseCalls = {}
    /\ (NotifyCalls \cup CloseCalls) \cap ClientTasks = {}
    /\ MaxBegun \in Nat

\* The auto-close thread that the broadcast of Notify call p starts.
Timer(p) == <<"timer", p>>
Timers == {Timer(p) : p \in TimedCalls}

\* The listener task with the result of that broadcast.
Ack(p) == <<"ack", p>>
Acks == {Ack(p) : p \in HeardCalls}

ASSUME ThreadsAssumption ==
    (Timers \cup Acks) \cap (NotifyCalls \cup CloseCalls \cup ClientTasks) = {}

Handlers == NotifyCalls \cup CloseCalls
ListenerTasks == ClientTasks \cup Acks
Producers == Handlers \cup ListenerTasks \cup Timers

Man == <<"manager">>
Free == <<"free">>
Poisoned == <<"poisoned">>  \* free, but every lock() is an error
Loop == <<"loop">>          \* the accept loop, which blocks the D-Bus thread

ASSUME NamesAssumption == Producers \cap {Man, Free, Poisoned, Loop} = {}

VARIABLES
    pc,       \* where each producer is
    mutex,    \* who holds the mutex of the SyncList
    list,     \* the SyncList
    signals,  \* units sent on the channel and not received
    mpc,      \* where the manager thread is
    job,      \* the job it has popped
    number,   \* number[p]: the counter value Notify call p took
    executed, \* jobs executed so far
    loop,     \* where the accept loop of the Listener is
    backlog,  \* jobs whose results wait to be accepted
    reported, \* a listener task has told the accept loop to abort
    ended     \* the process has ended

daemon == <<loop, backlog, reported, ended>>
vars == <<pc, mutex, list, signals, mpc, job, number, executed, daemon>>

\* "unheard": its job is in the list, but the channel was closed.  "choked": it
\* could not parse the notification, and had the mutex.
ProducerAt == {"unstarted", "called", "locked", "pushed", "sent", "unlocked", "done",
               "unheard", "panicked", "choked"}
ManagerAt == {"recv", "lock", "pop", "guard", "execute", "emit", "reply",
              "panicked", "lockedOut", "dead"}
LoopAt == {"binding", "failed", "check", "accept", "over"}

TypeOK ==
    /\ pc \in [Producers -> ProducerAt]
    /\ mutex \in Producers \cup {Man, Free, Poisoned}
    /\ list \in Seq(Producers)
    /\ signals \in Nat
    /\ mpc \in ManagerAt
    /\ job \in Producers \cup {Free}
    /\ number \in [NotifyCalls -> Nat]
    /\ executed \subseteq Producers
    /\ loop \in LoopAt
    /\ backlog \subseteq Producers
    /\ reported \in BOOLEAN /\ ended \in BOOLEAN

Init ==
    /\ pc = [p \in Producers |-> "unstarted"]
    /\ mutex = Free
    /\ list = <<>>
    /\ signals = 0
    /\ mpc = "recv"
    /\ job = Free
    /\ number = [p \in NotifyCalls |-> 0]
    /\ executed = {}
    /\ loop = "binding" /\ backlog = {}
    /\ reported = FALSE /\ ended = FALSE

At(p, where) == pc[p] = where /\ ~ended
ManagerIs(where) == mpc = where /\ ~ended
LoopIs(where) == loop = where /\ ~ended

-----------------------------------------------------------------------------
(* Producers.                                                               *)

\* A handler that is on the D-Bus thread.
Running(p) == pc[p] \in {"called", "locked", "pushed", "sent"}

\* Notify has the lock of the D-Bus object for writing.
InterfaceWriteHeld == \E p \in NotifyCalls : Running(p)

AlwaysFree == TRUE

\* One thread for all handlers, and none of them awaits.
DbusThreadFree == \A p \in Handlers : ~Running(p)

Goto(p, where) == pc' = [pc EXCEPT ![p] = where]

MayBegin == Cardinality({p \in Handlers \cup ClientTasks : pc[p] # "unstarted"}) < MaxBegun

Enter(p) ==
    /\ p \in Handlers /\ At(p, "unstarted") /\ MayBegin
    /\ DbusThreadFree
    /\ Goto(p, "called")
    /\ number' = IF p \in NotifyCalls
                 THEN [number EXCEPT ![p] =
                        1 + Cardinality({q \in NotifyCalls : number[q] # 0})]
                 ELSE number
    /\ UNCHANGED <<mutex, list, signals, mpc, job, executed, daemon>>

Lock(p) ==
    /\ At(p, "called") /\ mutex = Free
    /\ mutex' = p
    /\ Goto(p, "locked")
    /\ UNCHANGED <<list, signals, mpc, job, number, executed, daemon>>

Unreported(p) == reported

\* Only listener tasks tell the accept loop before they panic.
Reported(p) == reported \/ p \in ListenerTasks

\* acquire_lock_panic!, or the unwrap of a timer thread.
FindPoisoned(p) ==
    /\ At(p, "called") /\ mutex = Poisoned
    /\ Goto(p, "panicked")
    /\ reported' = Reported(p)
    /\ UNCHANGED <<mutex, list, signals, mpc, job, number, executed, loop, backlog, ended>>

\* serde_json::from_str(..).unwrap(), evaluated under the guard of the push.
Choke(p) ==
    /\ \E c \in LongCalls : p = Ack(c)
    /\ At(p, "locked")
    /\ mutex' = Poisoned
    /\ Goto(p, "choked")
    /\ UNCHANGED <<list, signals, mpc, job, number, executed, daemon>>

PushFront(p) ==
    /\ At(p, "locked")
    /\ list' = <<p>> \o list
    /\ Goto(p, "pushed")
    /\ UNCHANGED <<mutex, signals, mpc, job, number, executed, daemon>>

Push(p) ==
    /\ At(p, "locked")
    /\ list' = Append(list, p)
    /\ Goto(p, "pushed")
    /\ UNCHANGED <<mutex, signals, mpc, job, number, executed, daemon>>

\* push_job sends while its guard lives; the others lock for one statement.
SendsLocked(p) == p \in Handlers

Gone == mpc \in {"panicked", "lockedOut", "dead"}

GoneOrFull == Gone \/ signals > 0

\* The receiver dies with the manager thread; nothing else makes send fail.
ChannelClosed == Gone

Send(p) ==
    /\ At(p, IF SendsLocked(p) THEN "pushed" ELSE "unlocked")
    /\ ~ChannelClosed
    /\ signals' = signals + 1
    /\ Goto(p, IF SendsLocked(p) THEN "sent" ELSE "done")
    /\ UNCHANGED <<mutex, list, mpc, job, number, executed, daemon>>

\* A handler panics with its guard, a listener task after it has reported the
\* death; a timer thread ignores the error.
SendFails(p) ==
    /\ At(p, IF SendsLocked(p) THEN "pushed" ELSE "unlocked")
    /\ ChannelClosed
    /\ Goto(p, "unheard")
    /\ mutex' = IF SendsLocked(p) THEN Poisoned ELSE mutex
    /\ reported' = Reported(p)
    /\ UNCHANGED <<list, signals, mpc, job, number, executed, loop, backlog, ended>>

Unlock(p) ==
    /\ At(p, IF SendsLocked(p) THEN "sent" ELSE "pushed")
    /\ mutex' = Free
    /\ Goto(p, IF SendsLocked(p) THEN "done" ELSE "unlocked")
    /\ UNCHANGED <<list, signals, mpc, job, number, executed, daemon>>

Continue(p) ==
    Lock(p) \/ FindPoisoned(p) \/ Choke(p) \/ Push(p) \/ Send(p) \/ SendFails(p) \/ Unlock(p)

-----------------------------------------------------------------------------
(* The accept loop of the Listener, and the end of the process.             *)

Bind ==
    /\ LoopIs("binding")
    /\ loop' \in {"check", "failed"}
    /\ UNCHANGED <<pc, mutex, list, signals, mpc, job, number, executed, backlog, reported, ended>>

\* abort.try_recv, once per turn of the loop.
Check ==
    /\ LoopIs("check")
    /\ loop' = IF reported THEN "over" ELSE "accept"
    /\ UNCHANGED <<pc, mutex, list, signals, mpc, job, number, executed, backlog, reported, ended>>

\* A client process has connected to send its job.
Accept(p) ==
    /\ p \in ClientTasks /\ At(p, "unstarted") /\ MayBegin
    /\ loop = "accept" /\ loop' = "check"
    /\ Goto(p, "called")
    /\ UNCHANGED <<mutex, list, signals, mpc, job, number, executed, backlog, reported, ended>>

\* A result of the manager: its task has something to push if a watcher heard a
\* notification.  If the result cannot be read at all, the task only ends.
AcceptResult(p) ==
    /\ LoopIs("accept") /\ p \in backlog
    /\ loop' = "check"
    /\ backlog' = backlog \ {p}
    /\ \/ p \in HeardCalls /\ Goto(Ack(p), "called")
       \/ p \notin HeardCalls \ LongCalls /\ UNCHANGED pc
    /\ UNCHANGED <<mutex, list, signals, mpc, job, number, executed, reported, ended>>

\* accept().await?, as when the process has no file descriptor left.
AcceptFails ==
    /\ LoopIs("accept")
    /\ loop' = "failed"
    /\ UNCHANGED <<pc, mutex, list, signals, mpc, job, number, executed, backlog, reported, ended>>

\* listen().await.unwrap() panics, block_on(job) returns to unreachable!.  It
\* runs on the D-Bus thread.
EndProcess ==
    /\ LoopIs("over") \/ LoopIs("failed")
    /\ DbusThreadFree
    /\ ended' = TRUE
    /\ UNCHANGED <<pc, mutex, list, signals, mpc, job, number, executed, loop, backlog, reported>>

LoopStep == Bind \/ Check \/ (\E p \in Producers : AcceptResult(p)) \/ EndProcess

-----------------------------------------------------------------------------
(* The manager thread.                                                      *)

ReceiveSpuriously ==
    /\ ManagerIs("recv")
    /\ signals' = signals - 1
    /\ mpc' = "lock"
    /\ UNCHANGED <<pc, mutex, list, job, number, executed, daemon>>

Receive ==
    /\ ManagerIs("recv") /\ signals > 0
    /\ signals' = signals - 1
    /\ mpc' = "lock"
    /\ UNCHANGED <<pc, mutex, list, job, number, executed, daemon>>

ManagerLock ==
    /\ ManagerIs("lock") /\ mutex = Free
    /\ mutex' = Man
    /\ mpc' = "pop"
    /\ UNCHANGED <<pc, list, signals, job, number, executed, daemon>>

\* exec panics.
ManagerLockedOut ==
    /\ ManagerIs("lock") /\ mutex = Poisoned
    /\ mpc' = "lockedOut"
    /\ UNCHANGED <<pc, mutex, list, signals, job, number, executed, daemon>>

DrainList == <<>>
AfterPop == Tail(list)

\* Without a job exec returns Noop, and the loop panics.
Pop ==
    /\ ManagerIs("pop")
    /\ IF list = <<>>
       THEN /\ mpc' = "panicked" /\ mutex' = Free
            /\ UNCHANGED <<list, job>>
       ELSE /\ mpc' = "guard" /\ job' = Head(list) /\ list' = AfterPop
            /\ UNCHANGED mutex
    /\ UNCHANGED <<pc, signals, number, executed, daemon>>

KeepGuard ==
    /\ ManagerIs("guard")
    /\ mpc' = "execute"
    /\ UNCHANGED <<pc, mutex, list, signals, job, number, executed, daemon>>

\* drop(vd)
DropGuard ==
    /\ ManagerIs("guard")
    /\ mutex' = Free
    /\ mpc' = "execute"
    /\ UNCHANGED <<pc, list, signals, job, number, executed, daemon>>

\* With --auto-close, a Broadcast starts a thread if there is a timeout.
ExecuteBroadcast ==
    /\ ManagerIs("execute") /\ job \in NotifyCalls
    /\ mpc' = "reply"
    /\ IF job \in TimedCalls THEN Goto(Timer(job), "called") ELSE UNCHANGED pc
    /\ UNCHANGED <<mutex, list, signals, job, number, executed, daemon>>

\* Other jobs may emit a D-Bus signal, for which they need the D-Bus object.
\* Two of them can panic: a forced Close, and a Read that overflows.
ExecuteOther ==
    /\ ManagerIs("execute") /\ job \notin NotifyCalls
    /\ \/ mpc' \in {"emit", "reply"} /\ UNCHANGED job
       \/ mpc' = "dead" /\ job' = Free
    /\ UNCHANGED <<pc, mutex, list, signals, number, executed, daemon>>

Emit ==
    /\ ManagerIs("emit") /\ ~InterfaceWriteHeld
    /\ mpc' = "reply"
    /\ UNCHANGED <<pc, mutex, list, signals, job, number, executed, daemon>>

\* Write the log, connect to the Listener with the answer if there is one,
\* return from exec.  The guard would be dropped here had exec not done so
\* before.
Return ==
    /\ ManagerIs("reply")
    /\ \/ loop \in {"check", "accept"} /\ backlog' = backlog \cup {job}
       \/ job \notin NotifyCalls /\ UNCHANGED backlog
    /\ mpc' = "recv"
    /\ executed' = executed \cup {job}
    /\ job' = Free
    /\ mutex' = IF mutex = Man THEN Free ELSE mutex
    /\ UNCHANGED <<pc, list, signals, number, loop, reported, ended>>

\* The write to the log, the connection or the write to the socket fails.
ReturnError ==
    /\ ManagerIs("reply")
    /\ mpc' = "dead" /\ job' = Free
    /\ mutex' = IF mutex = Man THEN Poisoned ELSE mutex
    /\ UNCHANGED <<pc, list, signals, number, executed, daemon>>

ManagerStep ==
    \/ Receive \/ ManagerLock \/ ManagerLockedOut \/ Pop \/ DropGuard
    \/ ExecuteBroadcast \/ ExecuteOther \/ Emit \/ Return \/ ReturnError

Next ==
    \/ \E p \in Producers : Enter(p) \/ Accept(p) \/ Continue(p)
    \/ ManagerStep
    \/ LoopStep \/ AcceptFails

Spec == Init /\ [][Next]_vars

\* Every thread that can take a step takes one; clients need not call, and accept
\* need not fail.
FairSpec ==
    /\ Spec
    /\ WF_vars(ManagerStep) /\ WF_vars(LoopStep)
    /\ \A p \in Producers : WF_vars(Continue(p))

-----------------------------------------------------------------------------
(* Properties.                                                              *)

\* "This should never happen. Exec is only activated once the sync list has a
\* job." (mod.rs:114-118): no interleaving of producers makes exec a Noop.
NeverNoop == mpc # "panicked"

Unsent == {p \in Producers :
            pc[p] \in {"pushed", "unheard"} \cup (IF SendsLocked(p) THEN {} ELSE {"unlocked"})}

\* The manager has a unit in hand and has not popped the job for it.
Owed == IF mpc \in {"lock", "pop", "lockedOut"} THEN 1 ELSE 0

Mail == INSTANCE Mailbox WITH
    Job <- Producers,
    signals <- signals + Owed,
    unsignalled <- Cardinality(Unsent)

\* The locks, pushes, sends and pops of all threads add up to Mailbox, the
\* queue that the rest of the daemon is written against.
IsMailbox == Mail!MailSpec

\* Notify answers its callers with growing ids, and broadcasts are queued in
\* that order, although taking the number and pushing the job are two steps
\* (dbus.rs:114-141).
NumberedInOrder ==
    \A i, j \in DOMAIN list :
        i < j /\ list[i] \in NotifyCalls /\ list[j] \in NotifyCalls =>
            number[list[i]] < number[list[j]]

\* The threads that x waits for: holders of the mutex, Notify handlers with the
\* lock of the D-Bus object, handlers on the thread that is to end the process.
Waits(x) ==
    IF x \in Producers THEN IF pc[x] = "called" THEN {mutex} \ {Free, Poisoned} ELSE {}
    ELSE IF x = Man
    THEN IF mpc = "lock" THEN {mutex} \ {Free, Poisoned}
         ELSE IF mpc = "emit" THEN {p \in NotifyCalls : Running(p)} ELSE {}
    ELSE IF loop \in {"over", "failed"} THEN {p \in Handlers : Running(p)} ELSE {}

\* x is in the middle of its work, and waits for nobody.
Proceeds(x) ==
    /\ Waits(x) = {}
    /\ \/ x \in Producers /\ pc[x] \in {"called", "locked", "pushed", "sent", "unlocked"}
       \/ x = Man /\ mpc \in {"lock", "pop", "guard", "execute", "emit", "reply"}

\* No lock is waited for in a circle, or held by a thread that has finished:
\* whoever a thread waits for proceeds, or waits for such as proceed.  The
\* manager needs the D-Bus object while Notify, which has it, needs the mutex
\* (manager.rs:295, close.rs:108-115, dbus.rs:84-91).
NobodyStuck ==
    \A x \in Producers \cup {Man, Loop} : \A y \in Waits(x) :
        \/ Proceeds(y)
        \/ Waits(y) # {} /\ \A z \in Waits(y) : Proceeds(z)

\* A listener task could not parse a notification, and poisoned the mutex.
Choked == \E p \in LongCalls : pc[Ack(p)] = "choked"

\* Whatever order the threads run in, no thread waits for ever on another, and
\* every job that was begun is executed: the mutex and the lock of the D-Bus
\* object are never waited for in a circle (manager.rs:295, close.rs:108-115).
\* When the manager is gone, or a listener task has choked, the job is not
\* executed, but still nobody is left waiting for a lock: a thread that panics
\* with the mutex gives it up.
EveryJobServed ==
    \A p \in Producers :
        pc[p] = "called" ~>
            \/ p \in executed
            \/ (Gone \/ Choked) /\ pc[p] \in {"done", "unheard", "panicked", "choked"}
            \/ ended

\* A thread panics, the mutex is poisoned, the accept loop is told to abort or
\* does so only when the manager is gone: a timer thread may unwrap the lock
\* since then "we have bigger problems" (broadcast.rs:53-54), and an alarm never
\* takes the daemon down by mistake (listener.rs:146-150, dbus.rs:87-90).  There
\* is one exception, although "the serde_json::from_str will not fail"
\* (listener.rs:220-223): with a notification that was read in part it does.
\* That accept fails (listener.rs:122) raises no alarm, but ends the process.
NoFalseAlarm ==
    (mutex = Poisoned \/ reported \/ loop = "over"
        \/ \E p \in Producers : pc[p] \in {"unheard", "panicked"}) => Gone \/ Choked

\* A client whose job met a dead manager is left without an answer, but not for
\* longer than until the next client connects: that turns the accept loop, which
\* finds the abort and ends the process, whatever the D-Bus thread waits for
\* (listener.rs:117-123, mod.rs:139-142).
DeathSpreads ==
    \A p, q \in ClientTasks :
        []((pc[p] \in {"unheard", "panicked"} /\ pc[q] = "unstarted" /\ <>(pc[q] # "unstarted"))
            => <>ended)
=============================================================================
