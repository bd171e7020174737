------------------------ MODULE ManagerPromiseProofs ------------------------
(***************************************************************************)
(* Manager implements Lifecycle, step by step, for any number of calls,    *)
(* requests and restarts.  The status of a notification is read off the    *)
(* queue, the log and the file; `Order` says that each is in at most one   *)
(* place, so a step of the manager moves at most one of them, except for   *)
(* the one that an admitted notification evicts or replaces.               *)
(***************************************************************************)
EXTENDS ManagerHistoryProofs

\* Clients do not use --force, the bus takes every signal, and --max has not
\* been lowered under the log that the daemon finds.
Polite == NoForce /\ "bus" \notin Faults /\ SameMax

-----------------------------------------------------------------------------
(* Where a notification is.                                                 *)

Queued(c) ==
    \/ \E k \in Waiting : list[k].event.call = c
    \/ Executing("broadcast") /\ job.event.call = c

\* A notification is not closed before it is in the log.
Opened ==
    /\ \A k \in Waiting : ~list[k].event.closed
    /\ Executing("broadcast") => ~job.event.closed

LEMMA StatusIs ==
    /\ \A c : StatusOf(c) = IF c > calls THEN "unsent"
                            ELSE IF Queued(c) THEN "queued" ELSE LoggedAs(buffer, c)
    /\ \A c : StatusOf(c)' = IF c > calls' THEN "unsent"
                             ELSE IF Queued(c)' THEN "queued" ELSE LoggedAs(buffer', c)
BY DEF StatusOf, Queued, Waiting, Executing, LoggedAs, Calls

LEMMA LoggedIs ==
    ASSUME NEW buf, NEW c
    PROVE  /\ LoggedAs(buf, c) \in {"open", "closed", "gone"}
           /\ LoggedAs(buf, c) = "gone" <=> c \notin Calls(buf)
           /\ LoggedAs(buf, c) = "closed" <=>
                c \in Calls(buf) /\ \E i \in DOMAIN buf : buf[i].call = c /\ buf[i].closed
BY DEF LoggedAs

LEMMA NotQueued ==
    ASSUME TypeOK, Order, NEW c \in Logged PROVE c <= calls /\ ~Queued(c)
<1>1. c \in Nat /\ c <= calls
  BY OrderTypes DEF Order
<1>2. \A k \in Waiting : list[k].event.call \in Nat /\ c < list[k].event.call
  BY OrderTypes DEF Order, Latest
<1>3. Executing("broadcast") => job.event.call \in Nat /\ c < job.event.call
  BY OrderTypes DEF Order, Latest
<1> QED  BY <1>1, <1>2, <1>3 DEF Queued

\* The notifications that Lifecycle calls kept are those of the log.
KeptAreLogged ==
    \A c \in Call : StatusOf(c) \in {"open", "closed"} <=> c \in Calls(buffer)

LEMMA KeptIsLog == TypeOK /\ Order => KeptAreLogged
<1> SUFFICES ASSUME TypeOK, Order, NEW c \in Call
             PROVE  StatusOf(c) \in {"open", "closed"} <=> c \in Calls(buffer)
  BY DEF KeptAreLogged
<1>1. CASE c \in Calls(buffer)
  <2>1. c <= calls /\ ~Queued(c) /\ c \in Nat /\ calls \in Nat
    BY <1>1, NotQueued, OrderTypes DEF Logged
  <2>2. ~ (c > calls)
    BY <2>1
  <2> QED  BY <1>1, <2>1, <2>2, StatusIs, LoggedIs
<1>2. CASE c \notin Calls(buffer)
  BY <1>2, StatusIs, LoggedIs
<1> QED  BY <1>1, <1>2

LEMMA CallsBounded ==
    ASSUME NEW buf \in Seq(Notification), Len(buf) <= MaxLogs
    PROVE  IsFiniteSet(Calls(buf)) /\ Cardinality(Calls(buf)) <= MaxLogs
<1> DEFINE S == 1 .. Len(buf)
           f == [i \in S |-> buf[i].call]
<1>1. Len(buf) \in Nat /\ DOMAIN buf = S
  OBVIOUS
<1>2. f \in Surjection(S, Calls(buf))
  BY <1>1 DEF Surjection, Calls
<1>3. IsFiniteSet(S) /\ Cardinality(S) = Len(buf)
  <2>1. /\ IsFiniteSet(1 .. Len(buf))
        /\ Cardinality(1 .. Len(buf)) = IF 1 > Len(buf) THEN 0 ELSE Len(buf) - 1 + 1
    BY <1>1, FS_Interval
  <2> QED  BY <1>1, <2>1
<1> HIDE DEF f, S
<1>4. IsFiniteSet(Calls(buf)) /\ Cardinality(Calls(buf)) <= Len(buf)
  BY <1>2, <1>3, FS_Surjection
<1>5. Cardinality(Calls(buf)) \in Nat
  BY <1>4, FS_CardinalityType
<1> QED  BY <1>1, <1>4, <1>5, ConfigAssumption DEF ConfigAssumption

LEMMA SameCardinality == \A S : Life!Cardinality(S) = Cardinality(S)
BY DEF Life!Cardinality, Cardinality

LEMMA AtMostOne ==
    ASSUME NEW S, \A x, y \in S : x = y PROVE Cardinality(S) <= 1
<1>1. CASE S = {}
  BY <1>1, FS_EmptySet
<1>2. ASSUME NEW x \in S PROVE Cardinality(S) <= 1
  <2>1. S = {x}
    BY <1>2
  <2> QED  BY <2>1, FS_Singleton
<1> QED  BY <1>1, <1>2

-----------------------------------------------------------------------------
(* What moves it.                                                           *)

LEMMA BroadcastEnds ==
    ASSUME TypeOK, [Next]_vars, Executing("broadcast")
    PROVE  ExecuteBroadcast \/ Restart \/ UNCHANGED <<at, job>>
<1>1. at = "execute" /\ job.cmd = "broadcast"
  BY DEF Executing
<1>2. CASE \/ Client \/ Tick \/ SignalManager
           \/ \E r \in delivering : DeliverUnread(r) \/ DeliverRead(r)
           \/ \E t \in timers : TimerFires(t)
           \/ UNCHANGED vars
  BY <1>2 DEF Client, Notify, CloseNotification, ClientRequest, Tick, SignalManager,
      DeliverUnread, DeliverRead, TimerFires, vars, execVars
<1>3. ~ (Receive \/ Flush \/ FinishWrite \/ Reply \/ WriteFails \/ SendFails)
  BY <1>1 DEF Receive, Flush, FinishWrite, Reply, WriteFails, SendFails
<1>4. Execute => ExecuteBroadcast
  BY <1>1 DEF Execute, ExecuteCloseDropped, ExecuteCloseUnknown, ExecuteClose, ExecuteRead,
      ExecuteQuery, ExecuteSignal, ExecuteAcknowledge, Executing
<1> QED  BY <1>2, <1>3, <1>4 DEF Next, ManagerStep

LEMMA QueuedStays ==
    ASSUME TypeOK, [Next]_vars, ~ExecuteBroadcast, ~Restart,
           \A nid \in {0} \cup Known, timeout \in Timeouts : ~Notify(nid, timeout)
    PROVE  calls' = calls /\ \A c : Queued(c)' <=> Queued(c)
<1>1. ASSUME NEW j, Asks(j) PROVE calls' = calls /\ \A c : Queued(c)' <=> Queued(c)
  <2>1. Waiting' = Waiting /\ \A k \in Waiting : list'[k] = list[k]
    BY <1>1, AskedQueues
  <2>2. UNCHANGED <<at, job, calls>>
    BY <1>1 DEF Asks, execVars
  <2> QED  BY <2>1, <2>2 DEF Queued, Executing
<1>2. CASE Pops
  <2>1. /\ at = "recv" /\ at' = "execute" /\ job' = list[1] /\ 1 \in DOMAIN list
        /\ \A k \in Waiting' : k + 1 \in Waiting /\ list'[k] = list[k + 1]
    BY <1>2, PoppedQueues DEF Pops, Waiting
  <2>2. ASSUME NEW k \in Waiting, k # 1 PROVE k - 1 \in Waiting' /\ list'[k - 1] = list[k]
    <3>1. list \in Seq(Job) /\ list' = Tail(list) /\ list # <<>> /\ k \in DOMAIN list
      BY <1>2 DEF TypeOK, Pops, Waiting
    <3>2. k \in 2 .. Len(list) /\ Len(list) \in Nat \ {0}
      BY <2>2, <3>1
    <3>3. k - 1 \in 1 .. Len(list) - 1 /\ (k - 1) + 1 = k
      BY <3>2
    <3>4. Len(list') = Len(list) - 1 /\ DOMAIN list' = 1 .. Len(list')
      BY <3>1
    <3>5. list'[k - 1] = list[(k - 1) + 1]
      BY <3>1, <3>3, <3>4
    <3> QED  BY <3>3, <3>4, <3>5 DEF Waiting
  <2>3. 1 \in Waiting <=> Executing("broadcast")'
    BY <2>1 DEF Executing, Waiting
  <2>4. ASSUME NEW c, Queued(c) PROVE Queued(c)'
    <3>1. PICK k \in Waiting : list[k].event.call = c
      BY <2>1, <2>4 DEF Queued, Executing
    <3>2. CASE k = 1
      BY <2>1, <2>3, <3>1, <3>2 DEF Queued
    <3>3. CASE k # 1
      BY <2>2, <3>1, <3>3 DEF Queued
    <3> QED  BY <3>2, <3>3
  <2>5. ASSUME NEW c, Queued(c)' PROVE Queued(c)
    <3>1. CASE \E k \in Waiting' : list'[k].event.call = c
      BY <2>1, <3>1 DEF Queued
    <3>2. CASE Executing("broadcast")' /\ job'.event.call = c
      BY <2>1, <2>3, <3>2 DEF Queued
    <3> QED  BY <2>5, <3>1, <3>2 DEF Queued
  <2> QED  BY <1>2, <2>4, <2>5 DEF Pops
<1>3. CASE Works
  <2>1. UNCHANGED <<list, calls>> /\ Waiting' = Waiting
    BY <1>3 DEF Works, Waiting
  <2>2. Executing("broadcast")' => Executing("broadcast") /\ job' = job
    BY <1>3 DEF Works, Executing
  <2>3. Executing("broadcast") => UNCHANGED <<at, job>>
    BY BroadcastEnds
  <2>4. Executing("broadcast") => Executing("broadcast")' /\ job' = job
    BY <2>3 DEF Executing
  <2> QED  BY <2>1, <2>2, <2>4 DEF Queued
<1> QED  BY <1>1, <1>2, <1>3, QueueSteps

LEMMA OpenedInit == Init => Opened
BY DEF Init, Mail!MailInit, Opened, Waiting, Executing

LEMMA OpenedStep == TypeOK /\ Opened /\ [Next]_vars => Opened'
<1> SUFFICES ASSUME TypeOK, Opened, [Next]_vars PROVE Opened'
  OBVIOUS
<1>1. ASSUME NEW nid \in {0} \cup Known, NEW timeout \in Timeouts, Notify(nid, timeout)
      PROVE  Opened'
  <2> PICK last \in Nat : last = Len(list) + 1
    BY DEF TypeOK
  <2>1. /\ Waiting' = Waiting \cup {last} /\ UNCHANGED execVars
        /\ \A k \in DOMAIN list : list'[k] = list[k]
    BY <1>1, NotifyQueues
  <2>2. ~list'[last].event.closed
    <3> DEFINE n == [call |-> calls + 1, id |-> IF nid = 0 THEN FreshId ELSE nid, time |-> now,
                     read |-> FALSE, closed |-> FALSE, replaces |-> nid, timeout |-> timeout]
    <3>1. list'[last] = Broadcast(n)
      BY <1>1, NotifyQueues
    <3>2. Broadcast(n).event = n /\ ~n.closed
      BY DEF Broadcast
    <3> HIDE DEF n
    <3> QED  BY <3>1, <3>2
  <2>3. \A k \in Waiting : list'[k] = list[k]
    BY <2>1 DEF Waiting
  <2>4. UNCHANGED <<at, job>>
    BY <2>1 DEF execVars
  <2> QED  BY <2>1, <2>2, <2>3, <2>4 DEF Opened, Executing
<1>2. ASSUME NEW j, Asks(j) PROVE Opened'
  <2>1. Waiting' = Waiting /\ \A k \in Waiting : list'[k] = list[k]
    BY <1>2, AskedQueues
  <2>2. UNCHANGED <<at, job>>
    BY <1>2 DEF Asks, execVars
  <2> QED  BY <2>1, <2>2 DEF Opened, Executing
<1>3. CASE Pops
  BY <1>3, PoppedQueues DEF Opened, Executing, Waiting
<1>4. CASE Works
  BY <1>4 DEF Works, Opened, Executing, Waiting
<1>5. CASE Restart
  BY <1>5 DEF Restart, Opened, Executing, Waiting
<1> QED  BY <1>1, <1>2, <1>3, <1>4, <1>5, QueueSteps

-----------------------------------------------------------------------------
(* Each kind of step is one of Lifecycle's.                                 *)

statuses == [c \in Call |-> StatusOf(c)]
filed == [c \in Call |-> LoggedAs(LoadLogs(disk), c)]

LEMMA Still ==
    ASSUME calls' = calls, \A c : Queued(c)' <=> Queued(c),
           \A c \in Call : LoggedAs(buffer', c) = LoggedAs(buffer, c)
    PROVE  statuses' = statuses
BY StatusIs DEF statuses

LEMMA NotifyPromised ==
    ASSUME TypeOK, Order,
           NEW nid \in {0} \cup Known, NEW timeout \in Timeouts, Notify(nid, timeout)
    PROVE  \E c \in Call : Life!Notify(c)
<1> PICK c \in Call : c = calls + 1
  <2>1. calls \in 0 .. MaxCalls /\ calls < MaxCalls /\ MaxCalls \in Nat
    BY BoundsAssumption DEF Notify, TypeOK, BoundsAssumption
  <2> QED  BY <2>1 DEF Call
<1> PICK last \in Nat : last = Len(list) + 1
  BY DEF TypeOK
<1>1. /\ calls' = calls + 1 /\ Untouched /\ UNCHANGED execVars
      /\ Waiting' = Waiting \cup {last}
      /\ \A k \in DOMAIN list : list'[k] = list[k]
  BY NotifyQueues
<1>2. list'[last].event.call = c
  <2> DEFINE n == [call |-> calls + 1, id |-> IF nid = 0 THEN FreshId ELSE nid, time |-> now,
                   read |-> FALSE, closed |-> FALSE, replaces |-> nid, timeout |-> timeout]
  <2>1. list'[last] = Broadcast(n)
    BY NotifyQueues
  <2>2. Broadcast(n).event.call = c
    BY DEF Broadcast
  <2> HIDE DEF n
  <2> QED  BY <2>1, <2>2
<1>3. \A d : Queued(d)' <=> Queued(d) \/ d = c
  <2>1. \A k \in Waiting : list'[k] = list[k]
    BY <1>1 DEF Waiting
  <2>2. UNCHANGED <<at, job>>
    BY <1>1 DEF execVars
  <2> QED  BY <1>1, <1>2, <2>1, <2>2 DEF Queued, Executing
<1>4. UNCHANGED <<buffer, disk, emitted>> /\ calls \in Nat
  BY <1>1 DEF Untouched, logVars, TypeOK
<1>5. \A d \in Call : d \in Nat /\ (d > calls' <=> d > calls /\ d # c) /\ (d < c <=> ~ (d > calls))
  BY <1>1, <1>4 DEF Call
<1>6. StatusOf(c) = "unsent" /\ \A d \in Call : d < c => StatusOf(d) # "unsent"
  BY <1>5, StatusIs, LoggedIs
<1>7. \A d \in Call : StatusOf(d)' = IF d = c THEN "queued" ELSE StatusOf(d)
  BY <1>3, <1>4, <1>5, StatusIs
<1>8. statuses' = [statuses EXCEPT ![c] = "queued"]
  BY <1>7 DEF statuses
<1>9. filed' = filed
  BY <1>4 DEF filed
<1> QED  BY <1>4, <1>6, <1>8, <1>9 DEF Life!Notify, Life!Call, Call, statuses, filed

LEMMA SavePromised ==
    ASSUME TypeOK, Order, [Next]_vars, Writes, Flush \/ FinishWrite
    PROVE  Life!Save
<1>1. UNCHANGED <<buffer, emitted>> /\ disk' \in {Torn, Saved(buffer)}
  BY DEF Writes
<1>2. statuses' = statuses
  <2>1. at \in {"flush", "writing"}
    BY DEF Flush, FinishWrite
  <2>2. ~ExecuteBroadcast /\ ~Executing("broadcast")
    BY <2>1 DEF ExecuteBroadcast, Executing
  <2>3. at' # "execute" /\ UNCHANGED <<list, calls>>
    BY DEF Flush, FinishWrite, mailVars, countVars
  <2>4. \A c : Queued(c)' <=> Queued(c)
    BY <2>2, <2>3 DEF Queued, Waiting, Executing
  <2> QED  BY <1>1, <2>3, <2>4, Still
<1>3. LoadLogs(disk') \in {<<>>, buffer}
  BY <1>1 DEF Torn, Saved, LoadLogs
<1>4. \A c : LoggedAs(<<>>, c) = "gone"
  BY DEF LoggedAs, Calls
<1>5. \A c \in Call : LoggedAs(buffer, c) = IF c \in Calls(buffer) THEN StatusOf(c) ELSE "gone"
  BY StatusIs, LoggedIs, NotQueued, OrderTypes DEF Logged
<1>6. \A c \in Call : StatusOf(c) \in {"open", "closed"} <=> c \in Calls(buffer)
  BY KeptIsLog DEF KeptAreLogged
<1>7. filed' \in {Life!Nothing, Life!Snapshot(statuses)}
  <2>1. CASE LoadLogs(disk') = <<>>
    <3>1. filed' = [c \in Call |-> "gone"]
      BY <1>4, <2>1 DEF filed
    <3> QED  BY <3>1 DEF Life!Nothing, Life!Call, Call
  <2>2. CASE LoadLogs(disk') = buffer
    <3>1. filed' = [c \in Call |-> LoggedAs(buffer, c)]
      BY <2>2 DEF filed
    <3> QED  BY <1>5, <1>6, <3>1 DEF Life!Snapshot, Life!Kept, Life!Call, Call, statuses
  <2> QED  BY <1>3, <2>1, <2>2
<1> QED  BY <1>1, <1>2, <1>7 DEF Life!Save, statuses, filed

LEMMA RestartPromised ==
    ASSUME TypeOK, Order, Restart PROVE Life!Restart
<1>1. buffer' = LoadLogs(disk) /\ LoadLogs(disk') = LoadLogs(disk) /\ UNCHANGED <<calls, emitted>>
  BY DEF Restart, LoadLogs, AfterLoad, Saved
<1>2. \A c : ~Queued(c)'
  BY DEF Restart, Queued, Waiting, Executing
<1>3. \A c \in Call : StatusOf(c)' = IF StatusOf(c) = "unsent" THEN "unsent"
                                      ELSE LoggedAs(LoadLogs(disk), c)
  BY <1>1, <1>2, StatusIs, LoggedIs
<1>4. statuses' = [c \in Call |-> IF statuses[c] = "unsent" THEN "unsent" ELSE filed[c]]
  BY <1>3 DEF statuses, filed
<1>5. filed' = filed
  BY <1>1 DEF filed
<1> QED  BY <1>1, <1>4, <1>5 DEF Life!Restart, Life!Call, Call, statuses, filed

\* The first Close that is not ignored marks the notification and signals it.
LEMMA ClosePromised ==
    ASSUME Polite, TypeOK, Order, Within(Unforced), [Next]_vars, Closes
    PROVE  \E c \in Call : Life!Close(c)
<1> DEFINE pos == Position(buffer, job.id)
<1> PICK c : c = buffer[pos].call
  OBVIOUS
<1>1. /\ buffer \in Seq(Notification) /\ pos \in DOMAIN buffer
      /\ buffer' = MarkClosed(buffer, pos) /\ Marked(buffer, buffer')
      /\ UNCHANGED disk /\ ExecuteClose
  BY DEF Closes, TypeOK
<1>2. ~buffer[pos].closed
  <2>1. ~job.force
    BY <1>1 DEF ExecuteClose, Executing, Within, Unforced, Forced
  <2> QED  BY <1>1, <2>1 DEF ExecuteClose, CloseIgnored, QueryAnswer
<1>3. emitted' = [emitted EXCEPT ![c] = @ + 1] /\ UNCHANGED calls
  BY <1>1 DEF ExecuteClose, Polite, Finish, countVars
<1>4. \A d : Queued(d)' <=> Queued(d)
  <2>1. at = "execute" /\ job.cmd = "close" /\ at' = "flush" /\ UNCHANGED list
    BY <1>1 DEF ExecuteClose, Executing, Finish, mailVars
  <2> QED  BY <2>1 DEF Queued, Waiting, Executing
<1> HIDE DEF pos
<1>5. c \in Calls(buffer) /\ c \in Call
  BY <1>1, LoggedCalls DEF Calls, Logged
<1>6. Distinct(buffer)
  BY DEF Order
<1>7. buffer'[pos].closed /\ \A i \in DOMAIN buffer : i # pos => buffer'[i] = buffer[i]
  BY <1>1, CloseMarks
<1>8. \A d : LoggedAs(buffer', d) = IF d = c THEN "closed" ELSE LoggedAs(buffer, d)
  <2>1. Calls(buffer') = Calls(buffer)
    BY <1>1, MarkedCalls
  <2>2. LoggedAs(buffer', c) = "closed"
    BY <1>1, <1>5, <1>7, <2>1 DEF LoggedAs, Marked
  <2>3. ASSUME NEW d, d # c PROVE LoggedAs(buffer', d) = LoggedAs(buffer, d)
    <3>1. \A i \in DOMAIN buffer : buffer[i].call = d => buffer'[i] = buffer[i]
      BY <1>7, <2>3
    <3>2. \A i \in DOMAIN buffer : buffer'[i].call = buffer[i].call
      BY <1>1 DEF Marked
    <3>3. DOMAIN buffer' = DOMAIN buffer
      BY <1>1 DEF Marked
    <3>4. (\E i \in DOMAIN buffer' : buffer'[i].call = d /\ buffer'[i].closed)
            <=> (\E i \in DOMAIN buffer : buffer[i].call = d /\ buffer[i].closed)
      BY <3>1, <3>2, <3>3
    <3> QED  BY <2>1, <3>4 DEF LoggedAs
  <2> QED  BY <2>2, <2>3
<1>9. ~Queued(c) /\ c <= calls
  BY <1>5, NotQueued DEF Logged
<1>10. ~ (c > calls)
  BY <1>5, <1>9, OrderTypes DEF Logged
<1>11. StatusOf(c) = "open" /\ StatusOf(c)' = "closed"
  <2>1. LoggedAs(buffer, c) = "open"
    BY <1>1, <1>2, <1>5, <1>6 DEF LoggedAs, Distinct
  <2> QED  BY <1>3, <1>4, <1>8, <1>9, <1>10, <2>1, StatusIs
<1>12. \A d : d # c => StatusOf(d)' = StatusOf(d)
  BY <1>3, <1>4, <1>8, StatusIs
<1>13. statuses' = [statuses EXCEPT ![c] = "closed"]
  BY <1>11, <1>12 DEF statuses
<1>14. filed' = filed
  BY <1>1 DEF filed
<1> QED  BY <1>3, <1>5, <1>11, <1>13, <1>14 DEF Life!Close, Life!Call, Call, statuses, filed

\* Admitting a notification gives up the one it replaces, or the last of a full
\* log, never both.
LEMMA AdmitPromised ==
    ASSUME Polite, TypeOK, Order, Opened, WithinMax, [Next]_vars, Admits, ExecuteBroadcast
    PROVE  \E c \in Call : Life!AdmitNext(c)
<1> DEFINE n == job.event
<1> PICK c : c = n.call
  OBVIOUS
<1>1. /\ buffer \in Seq(Notification) /\ n \in Notification /\ Executing("broadcast")
      /\ buffer' = Admit(buffer, n) /\ UNCHANGED <<disk, emitted>>
  BY DEF Admits, TypeOK
<1>2. /\ MaxLogs \in Nat \ {0} /\ Len(buffer) <= MaxLogs /\ Len(buffer') <= MaxLogs
      /\ buffer' \in Seq(Notification)
  BY <1>1, AdmitType, ConfigAssumption
     DEF Polite, SameMax, WithinMax, ConfigAssumption
<1>3. /\ TypeOK' /\ Order' /\ calls \in Nat /\ c \in Nat /\ c <= calls /\ ~n.closed
      /\ \A d \in Logged : d < c
      /\ \A k \in Waiting : c < list[k].event.call /\ list[k].event.call \in Nat
  BY <1>1, StepType, OrderStep, OrderTypes DEF Order, Latest, Opened
<1>4. c \in Call /\ c \notin Calls(buffer)
  <2>1. c \in Nat \ {0} /\ calls \in 0 .. MaxCalls
    BY <1>1 DEF Notification, TypeOK
  <2>2. c \in 1 .. MaxCalls
    BY <1>3, <2>1, BoundsAssumption DEF BoundsAssumption
  <2>3. c \notin Logged
    BY <1>3
  <2> QED  BY <2>2, <2>3 DEF Call, Logged
<1>5. at' = "flush" /\ UNCHANGED <<list, calls>>
  BY DEF ExecuteBroadcast, Finish, mailVars, countVars
<1>6. \A d : Queued(d) <=> Queued(d)' \/ d = c
  BY <1>1, <1>5 DEF Queued, Waiting, Executing
<1>7. ~Queued(c)'
  BY <1>3, <1>5 DEF Queued, Waiting, Executing
<1> HIDE DEF n
<1>8. /\ 1 \in DOMAIN buffer' /\ buffer'[1] = n
      /\ \A k \in DOMAIN buffer' : k # 1 => \E i \in DOMAIN buffer : buffer'[k] = buffer[i]
  BY <1>1, AdmitFrom
<1>9. PICK x : \A i \in DOMAIN buffer :
        i # x => \E k \in DOMAIN buffer' : k # 1 /\ buffer'[k] = buffer[i]
  <2>1. \E x \in Nat : \A i \in DOMAIN buffer :
          i # x => \E k \in DOMAIN Admit(buffer, n) : k # 1 /\ Admit(buffer, n)[k] = buffer[i]
    BY <1>1, <1>2, AdmitLoses
  <2> QED  BY <1>1, <2>1
<1>10. Distinct(buffer) /\ Distinct(buffer')
  BY <1>3 DEF Order
<1>11. c \in Calls(buffer') /\ Calls(buffer') \subseteq Calls(buffer) \cup {c}
  BY <1>8 DEF Calls
<1>12. LoggedAs(buffer', c) = "open"
  BY <1>3, <1>8, <1>10, <1>11 DEF LoggedAs, Distinct
<1> DEFINE lost == Calls(buffer) \ Calls(buffer')
<1>13. ASSUME NEW d, d # c
       PROVE  LoggedAs(buffer', d) = IF d \in lost THEN "gone" ELSE LoggedAs(buffer, d)
  <2>1. CASE d \in Calls(buffer) /\ d \in Calls(buffer')
    <3>1. PICK k \in DOMAIN buffer' : buffer'[k].call = d
      BY <2>1 DEF Calls
    <3>2. k # 1
      BY <1>8, <1>13, <3>1
    <3>3. PICK i \in DOMAIN buffer : buffer'[k] = buffer[i]
      BY <1>8, <3>1, <3>2
    <3>4. (\E j \in DOMAIN buffer' : buffer'[j].call = d /\ buffer'[j].closed)
            <=> buffer[i].closed
      BY <1>10, <3>1, <3>3 DEF Distinct
    <3>5. (\E j \in DOMAIN buffer : buffer[j].call = d /\ buffer[j].closed)
            <=> buffer[i].closed
      BY <1>10, <3>1, <3>3 DEF Distinct
    <3> QED  BY <2>1, <3>4, <3>5 DEF LoggedAs
  <2>2. CASE d \notin Calls(buffer')
    BY <2>2, LoggedIs
  <2>3. CASE d \notin Calls(buffer)
    BY <1>11, <1>13, <2>3, LoggedIs
  <2> QED  BY <2>1, <2>2, <2>3
<1>14. Cardinality(lost) <= 1
  <2>1. ASSUME NEW d \in lost PROVE x \in DOMAIN buffer /\ d = buffer[x].call
    <3>1. PICK i \in DOMAIN buffer : buffer[i].call = d
      BY DEF Calls
    <3>2. i = x
      <4> SUFFICES ASSUME i # x PROVE d \in Calls(buffer')
        OBVIOUS
      <4>1. PICK k \in DOMAIN buffer' : buffer'[k] = buffer[i]
        BY <1>9
      <4> QED  BY <3>1, <4>1 DEF Calls
    <3> QED  BY <3>1, <3>2
  <2> HIDE DEF lost
  <2>2. \A y, z \in lost : y = z
    BY <2>1
  <2> QED  BY <2>2, AtMostOne
<1>15. \A d \in Call : StatusOf(d) \in {"open", "closed"} <=> d \in Calls(buffer)
  BY KeptIsLog DEF KeptAreLogged
<1>16. \A d \in Call : StatusOf(d)' \in {"open", "closed"} <=> d \in Calls(buffer')
  <2>1. (TypeOK /\ Order)' => KeptAreLogged'
    BY KeptIsLog, PTL
  <2> QED  BY <1>3, <2>1 DEF KeptAreLogged
<1>17. StatusOf(c) = "queued" /\ StatusOf(c)' = "open"
  <2>1. ~ (c > calls)
    BY <1>3
  <2> QED  BY <1>5, <1>6, <1>7, <1>12, <2>1, StatusIs
<1>18. \A d \in Call : StatusOf(d) = "queued" => c <= d
  <2>1. ASSUME NEW d, Queued(d) PROVE c <= d
    <3>1. CASE d = c
      BY <1>3, <3>1
    <3>2. CASE \E k \in Waiting : list[k].event.call = d
      BY <1>3, <3>2
    <3>3. job.event.call = c
      BY DEF n
    <3> QED  BY <2>1, <3>1, <3>2, <3>3 DEF Queued
  <2> QED  BY <2>1, StatusIs, LoggedIs
<1>19. \A d \in Call : d # c => StatusOf(d)' = IF d \in lost THEN "gone" ELSE StatusOf(d)
  <2>1. \A d \in lost : ~ (d > calls) /\ ~Queued(d)
    <3>1. \A d \in lost : d \in Logged
      BY DEF Logged
    <3>2. \A d \in Logged : d \in Nat /\ d <= calls /\ ~Queued(d)
      BY NotQueued, OrderTypes
    <3>3. \A d \in Logged : ~ (d > calls)
      BY <1>3, <3>2
    <3> QED  BY <3>1, <3>2, <3>3
  <2> HIDE DEF lost
  <2> QED  BY <1>5, <1>6, <1>13, <2>1, StatusIs
<1>20. \A S : (\A d : d \in S <=> d \in Call /\ d \in Calls(buffer')) => Cardinality(S) <= MaxLogs
  <2> SUFFICES ASSUME NEW S, \A d : d \in S <=> d \in Call /\ d \in Calls(buffer')
               PROVE  Cardinality(S) <= MaxLogs
    OBVIOUS
  <2>1. Calls(buffer') \subseteq Call
    BY <1>4, <1>11, LoggedCalls DEF Logged
  <2>2. S = Calls(buffer')
    BY <2>1
  <2> QED  BY <1>2, <2>2, CallsBounded
<1>21. lost \in SUBSET Life!Kept(statuses)
  BY <1>15, LoggedCalls DEF Life!Kept, Life!Call, Call, statuses, Logged
<1>22. statuses' = [d \in Call |-> IF d = c THEN "open"
                                   ELSE IF d \in lost THEN "gone" ELSE statuses[d]]
  BY <1>17, <1>19 DEF statuses
<1>23. Cardinality(Life!Kept(statuses')) <= MaxLogs
  BY <1>16, <1>20 DEF Life!Kept, Life!Call, Call, statuses
<1>24. filed' = filed
  BY <1>1 DEF filed
<1> HIDE DEF lost
<1>25. statuses[c] = "queued" /\ \A d \in Call : statuses[d] = "queued" => c <= d
  BY <1>4, <1>17, <1>18 DEF statuses
<1>26. \E S \in SUBSET Life!Kept(statuses) :
         /\ Cardinality(S) <= 1
         /\ statuses' = [d \in Call |-> IF d = c THEN "open"
                                        ELSE IF d \in S THEN "gone" ELSE statuses[d]]
  BY <1>14, <1>21, <1>22
<1>27. Life!AdmitNext(c)
  BY <1>1, <1>23, <1>24, <1>25, <1>26, SameCardinality
     DEF Life!AdmitNext, Life!Call, Call, statuses, filed
<1> QED  BY <1>4, <1>27

LEMMA PromiseInit ==
    ASSUME SameMax PROVE Init => Life!LifeInit
<1> SUFFICES ASSUME Init PROVE Life!LifeInit
  OBVIOUS
<1>1. TypeOK /\ Order /\ WithinMax
  BY InitType, OrderInit, BoundedInit
<1>2. buffer = LoadLogs(disk)
  BY DEF Init, LoadLogs, AfterLoad, Saved
<1>3. \A c : ~Queued(c)
  BY DEF Init, Mail!MailInit, Queued, Waiting, Executing
<1>4. \A c \in Call : StatusOf(c) \in {"open", "closed"} <=> c \in Calls(buffer)
  BY <1>1, KeptIsLog DEF KeptAreLogged
<1>5. calls \in Nat /\ Calls(buffer) \subseteq Call /\ Call \subseteq Nat
  BY <1>1, LoggedCalls, OrderTypes DEF Logged, Call
<1>6. \A c, d \in Call : c < d /\ StatusOf(c) = "unsent" => StatusOf(d) = "unsent"
  BY <1>3, <1>5, StatusIs, LoggedIs
<1>7. \A c \in Call : StatusOf(c) \in {"unsent", "open", "closed", "gone"}
  BY <1>3, StatusIs, LoggedIs
<1>8. filed = Life!Snapshot(statuses)
  <2>1. \A c \in Call : LoggedAs(buffer, c) = IF c \in Calls(buffer) THEN StatusOf(c) ELSE "gone"
    BY <1>1, StatusIs, LoggedIs, NotQueued, <1>5 DEF Logged
  <2> QED  BY <1>2, <1>4, <2>1 DEF Life!Snapshot, Life!Kept, Life!Call, Call, statuses, filed
<1>9. Cardinality(Life!Kept(statuses)) <= MaxLogs
  <2>1. Life!Kept(statuses) = Calls(buffer)
    BY <1>4, <1>5 DEF Life!Kept, Life!Call, Call, statuses
  <2> QED  BY <1>1, <2>1, CallsBounded DEF WithinMax, TypeOK
<1>10. emitted = [c \in Call |-> 0]
  BY DEF Init
<1>11. statuses \in [Call -> Life!Status \ {"queued"}]
  BY <1>7 DEF Life!Status, statuses
<1>12. \A c, d \in Call : c < d /\ statuses[c] = "unsent" => statuses[d] = "unsent"
  BY <1>6 DEF statuses
<1> QED  BY <1>8, <1>9, <1>10, <1>11, <1>12, SameCardinality
         DEF Life!LifeInit, Life!Call, Call, statuses, filed

LEMMA PromiseStep ==
    ASSUME Polite
    PROVE  TypeOK /\ Order /\ Opened /\ Within(Unforced) /\ WithinMax /\ [Next]_vars
             => [Life!LifeNext]_(Life!lifeVars)
<1> SUFFICES ASSUME TypeOK, Order, Opened, Within(Unforced), WithinMax, [Next]_vars
             PROVE  Life!LifeNext \/ UNCHANGED Life!lifeVars
  OBVIOUS
<1>1. ASSUME NEW nid \in {0} \cup Known, NEW timeout \in Timeouts, Notify(nid, timeout)
      PROVE  Life!LifeNext
  BY <1>1, NotifyPromised DEF Life!LifeNext, Life!Call, Call
<1>2. CASE Admits /\ ExecuteBroadcast
  BY <1>2, AdmitPromised DEF Life!LifeNext, Life!Call, Call
<1>3. CASE Closes
  BY <1>3, ClosePromised DEF Life!LifeNext, Life!Call, Call
<1>4. CASE Writes /\ (Flush \/ FinishWrite)
  BY <1>4, SavePromised DEF Life!LifeNext
<1>5. CASE Restart
  BY <1>5, RestartPromised DEF Life!LifeNext
<1>6. ASSUME OnlyReads, ~ExecuteBroadcast, ~Restart,
             \A nid \in {0} \cup Known, timeout \in Timeouts : ~Notify(nid, timeout)
      PROVE  UNCHANGED Life!lifeVars
  <2>1. UNCHANGED <<disk, emitted>> /\ Marked(buffer, buffer') /\ SameClosed(buffer, buffer')
    BY <1>6 DEF OnlyReads
  <2>2. \A c : LoggedAs(buffer', c) = LoggedAs(buffer, c)
    BY <2>1 DEF LoggedAs, Calls, Marked, SameClosed
  <2>3. statuses' = statuses
    BY <1>6, <2>2, QueuedStays, Still
  <2>4. filed' = filed
    BY <2>1 DEF filed
  <2> QED  BY <2>1, <2>3, <2>4 DEF Life!lifeVars, statuses, filed
<1>7. ExecuteBroadcast => Admits \/ ~OnlyReads
  BY JobFields DEF ExecuteBroadcast, Executing, Admits, Finish, TypeOK
<1> QED  BY <1>1, <1>2, <1>3, <1>4, <1>5, <1>6, <1>7, LogSteps

\* Whatever the queue, the threads, the timers and the crashes do, what becomes
\* of each notification is what Lifecycle promises (broadcast.rs:20-41,
\* close.rs:58-108, manager.rs:54-150, 223-229 and 293-328).
THEOREM PromiseIsKept == Polite => (Spec => KeepsPromise)
<1> SUFFICES ASSUME Polite PROVE Spec => KeepsPromise
  OBVIOUS
<1>1. SameMax /\ MaxLogs # 0 /\ NoForce
  BY DEF Polite, SameMax
<1>2. Init => Within(Unforced)
  BY WithinInit
<1> QED  BY <1>1, <1>2, InitType, StepType, OrderInit, OrderStep, OpenedInit, OpenedStep,
            UnforcedStep, BoundedInit, BoundedStep, PromiseInit, PromiseStep, PTL
         DEF Spec, KeepsPromise, Life!LifeSpec
=============================================================================
