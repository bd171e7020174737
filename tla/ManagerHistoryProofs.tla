------------------------ MODULE ManagerHistoryProofs ------------------------
(***************************************************************************)
(* What becomes of each notification over the steps of Manager: marks      *)
(* stay, ids are unique, nothing is signalled twice or expires early.  All *)
(* of it rests on one invariant, `Order`: notifications are admitted in    *)
(* the order of their Notify calls.                                        *)
(***************************************************************************)
EXTENDS ManagerProofs, FiniteSetTheorems

USE ConfigAssumption, BoundsAssumption, JobsAssumption, DiskAssumption, FilesAssumption
USE DEF idVars

-----------------------------------------------------------------------------
(* The kinds of steps, as far as the log and the file are concerned...      *)

\* A log that differs in marks only, none of which is taken back.
Marked(buf, new) ==
    /\ DOMAIN new = DOMAIN buf
    /\ \A i \in DOMAIN buf :
        /\ new[i].call = buf[i].call /\ new[i].id = buf[i].id
        /\ new[i].time = buf[i].time /\ new[i].timeout = buf[i].timeout
        /\ buf[i].read => new[i].read
        /\ buf[i].closed => new[i].closed

SameClosed(buf, new) == \A i \in DOMAIN buf : new[i].closed = buf[i].closed

LEMMA ReadMarks ==
    ASSUME NEW buf \in Seq(Notification), NEW S
    PROVE  LET new == [i \in DOMAIN buf |->
                         IF i \in S THEN [buf[i] EXCEPT !.read = TRUE] ELSE buf[i]]
           IN Marked(buf, new) /\ SameClosed(buf, new)
<1>1. \A i \in DOMAIN buf : buf[i] \in Notification
  OBVIOUS
<1>2. \A m \in Notification :
         LET r == [m EXCEPT !.read = TRUE]
         IN r.call = m.call /\ r.id = m.id /\ r.time = m.time /\ r.timeout = m.timeout
            /\ r.read = TRUE /\ r.closed = m.closed
  BY DEF Notification
<1> QED  BY <1>1, <1>2 DEF Marked, SameClosed

LEMMA CloseMarks ==
    ASSUME NEW buf \in Seq(Notification), NEW pos \in DOMAIN buf
    PROVE  /\ Marked(buf, MarkClosed(buf, pos))
           /\ MarkClosed(buf, pos)[pos].closed
           /\ \A i \in DOMAIN buf : i # pos => MarkClosed(buf, pos)[i] = buf[i]
<1>1. buf[pos] \in Notification
  OBVIOUS
<1>2. LET r == [buf[pos] EXCEPT !.closed = TRUE]
      IN r.call = buf[pos].call /\ r.id = buf[pos].id /\ r.time = buf[pos].time
         /\ r.timeout = buf[pos].timeout /\ r.read = buf[pos].read /\ r.closed = TRUE
  BY <1>1 DEF Notification
<1>3. MarkClosed(buf, pos) = [buf EXCEPT ![pos] = [buf[pos] EXCEPT !.closed = TRUE]]
  BY DEF MarkClosed
<1> QED  BY <1>2, <1>3 DEF Marked

\* The steps that mark entries closed, or read.
Closes ==
    /\ ExecuteClose
    /\ Position(buffer, job.id) \in DOMAIN buffer
    /\ buffer' = MarkClosed(buffer, Position(buffer, job.id))
    /\ Marked(buffer, buffer')
    /\ UNCHANGED disk

OnlyReads ==
    /\ Marked(buffer, buffer') /\ SameClosed(buffer, buffer')
    /\ UNCHANGED <<disk, emitted>>

Admits ==
    /\ Executing("broadcast") /\ job.event \in Notification
    /\ buffer' = Admit(buffer, job.event)
    /\ UNCHANGED <<disk, emitted>>

Writes == disk' \in {Torn, Saved(buffer)} /\ UNCHANGED <<buffer, emitted>>

LEMMA LogSteps ==
    ASSUME TypeOK, [Next]_vars
    PROVE  \/ Admits /\ ExecuteBroadcast
           \/ Closes
           \/ OnlyReads
           \/ Writes /\ (Flush \/ FinishWrite)
           \/ Restart
<1>1. buffer \in Seq(Notification)
  BY DEF TypeOK
<1>2. ASSUME UNCHANGED <<buffer, disk, emitted>> PROVE OnlyReads
  BY <1>2 DEF OnlyReads, Marked, SameClosed
<1>3. CASE ExecuteBroadcast
  <2>1. job.event \in Notification
    BY <1>3, JobFields DEF TypeOK, ExecuteBroadcast, Executing
  <2> QED  BY <1>3, <2>1 DEF Admits, ExecuteBroadcast, Finish
<1>4. CASE ExecuteClose
  <2>1. Position(buffer, job.id) \in DOMAIN buffer
    <3>1. Position(buffer, job.id) # 0
      BY <1>4 DEF ExecuteClose, CloseIgnored
    <3> QED  BY <1>1, <3>1, PositionType
  <2>2. buffer' = MarkClosed(buffer, Position(buffer, job.id)) /\ UNCHANGED disk
    BY <1>4 DEF ExecuteClose, Finish
  <2>3. Marked(buffer, buffer')
    BY <1>1, <2>1, <2>2, CloseMarks
  <2> QED  BY <1>4, <2>1, <2>2, <2>3 DEF Closes
<1>5. CASE ExecuteRead
  <2>1. \/ buffer' = buffer
        \/ buffer' = MarkWindowRead(buffer, job.start, job.end)
    BY <1>5 DEF ExecuteRead, logVars
  <2>2. UNCHANGED <<disk, emitted>>
    BY <1>5 DEF ExecuteRead, Finish, logVars, outVars
  <2>3. CASE buffer' = buffer
    BY <1>2, <2>2, <2>3
  <2>4. CASE buffer' = MarkWindowRead(buffer, job.start, job.end)
    BY <1>1, <2>2, <2>4, ReadMarks DEF OnlyReads, MarkWindowRead
  <2> QED  BY <2>1, <2>3, <2>4
<1>6. CASE ExecuteAcknowledge
  <2>1. buffer' = [i \in DOMAIN buffer |->
            IF i \in {Position(buffer, job.id)} THEN [buffer[i] EXCEPT !.read = TRUE]
            ELSE buffer[i]]
    BY <1>6 DEF ExecuteAcknowledge, ReadNotification
  <2>2. UNCHANGED <<disk, emitted>>
    BY <1>6 DEF ExecuteAcknowledge, Finish, outVars
  <2> QED  BY <1>1, <2>1, <2>2, ReadMarks DEF OnlyReads
<1>7. CASE \/ Client \/ Tick \/ SignalManager
           \/ \E r \in delivering : DeliverUnread(r) \/ DeliverRead(r)
           \/ \E t \in timers : TimerFires(t)
  BY <1>2, <1>7 DEF Client, Notify, CloseNotification, ClientRequest, Tick, SignalManager,
      DeliverUnread, DeliverRead, TimerFires, logVars, outVars
<1>8. CASE Receive \/ Reply \/ WriteFails \/ SendFails
  BY <1>2, <1>8 DEF Receive, Reply, WriteFails, SendFails, logVars, outVars
<1>9. CASE ExecuteCloseDropped \/ ExecuteCloseUnknown \/ ExecuteQuery \/ ExecuteSignal
  BY <1>2, <1>9 DEF ExecuteCloseDropped, ExecuteCloseUnknown, ExecuteQuery, ExecuteSignal,
      Finish, logVars, outVars
<1>10. CASE UNCHANGED vars
  BY <1>2, <1>10 DEF vars, logVars, outVars
<1>11. CASE Flush
  <2>1. CASE wasEmpty /\ dirty
    BY <1>11, <2>1 DEF Flush, Writes, outVars
  <2>2. CASE ~(wasEmpty /\ dirty)
    BY <1>2, <1>11, <2>2 DEF Flush, outVars
  <2> QED  BY <2>1, <2>2
<1>12. CASE FinishWrite
  BY <1>12 DEF FinishWrite, Writes, outVars
<1> QED  BY <1>3, <1>4, <1>5, <1>6, <1>7, <1>8, <1>9, <1>10, <1>11, <1>12
         DEF Next, ManagerStep, Execute

-----------------------------------------------------------------------------
(* ... and the kinds of steps as far as the queue is concerned.             *)

Untouched == UNCHANGED <<logVars, emitted>>

Forced(j) == j.cmd = "close" /\ j.force

\* Somebody other than Notify pushes a job.
Asks(j) ==
    /\ list' = Append(list, j)
    /\ j \in Job /\ j.cmd # "broadcast"
    /\ j \in ClientJobs \/ (j.cmd # "read" /\ ~Forced(j))
    /\ UNCHANGED <<execVars, calls, idVars, restarts>> /\ Untouched

Pops ==
    /\ list # <<>>
    /\ list' = Tail(list) /\ job' = Head(list) /\ at = "recv" /\ at' = "execute"
    /\ UNCHANGED <<calls, idVars, restarts>> /\ Untouched

Works ==
    /\ UNCHANGED <<list, calls, idVars, restarts>>
    /\ at' = "execute" => at = "execute" /\ job' = job /\ Untouched

LEMMA QueueSteps ==
    ASSUME TypeOK, [Next]_vars
    PROVE  \/ \E nid \in {0} \cup Known, timeout \in Timeouts : Notify(nid, timeout)
           \/ \E j : Asks(j)
           \/ Pops
           \/ Works
           \/ Restart
<1>1. ASSUME NEW nid \in Known, CloseNotification(nid) PROVE \E j : Asks(j)
  <2> DEFINE j == CloseJob(nid, "called", FALSE)
  <2>1. j \in Job
    <3>1. nid \in Nid
      BY DEF TypeOK, Known, Nid
    <3> QED  BY <3>1, MadeJobs DEF Reason
  <2>2. j.cmd = "close" /\ ~Forced(j)
    BY DEF CloseJob, Forced
  <2> HIDE DEF j
  <2>3. Asks(j)
    BY <1>1, <2>1, <2>2 DEF CloseNotification, Mail!PushAndSignal, Asks, Untouched, outVars, j
  <2> QED  BY <2>3
<1>2. ASSUME NEW j \in ClientJobs, ClientRequest(j) PROVE Asks(j)
  <2>1. j \in Job /\ j.cmd # "broadcast"
    OBVIOUS
  <2> QED  BY <1>2, <2>1 DEF ClientRequest, Mail!Push, Asks, Untouched, outVars
<1>3. ASSUME NEW r \in delivering, DeliverRead(r) PROVE \E j : Asks(j)
  <2> DEFINE j == Acknowledge(r.id)
  <2>1. j \in Job
    BY MadeJobs DEF TypeOK
  <2>2. j.cmd = "acknowledge" /\ ~Forced(j)
    BY DEF Acknowledge, Forced
  <2> HIDE DEF j
  <2>3. Asks(j)
    BY <1>3, <2>1, <2>2 DEF DeliverRead, Mail!Push, Asks, Untouched, countVars, j
  <2> QED  BY <2>3
<1>4. ASSUME NEW t \in timers, TimerFires(t) PROVE \E j : Asks(j)
  <2> DEFINE j == CloseJob(t.id, "expired", FALSE)
  <2>1. j \in Job
    BY MadeJobs DEF TypeOK, Reason
  <2>2. j.cmd = "close" /\ ~Forced(j)
    BY DEF CloseJob, Forced
  <2> HIDE DEF j
  <2>3. Asks(j)
    BY <1>4, <2>1, <2>2 DEF TimerFires, Mail!Push, Asks, Untouched, countVars, j
  <2> QED  BY <2>3
<1>5. CASE Receive
  <2>1. CASE list = <<>>
    BY <1>5, <2>1 DEF Receive, Works, countVars
  <2>2. CASE list # <<>>
    BY <1>5, <2>2 DEF Receive, AfterPop, Pops, Untouched, countVars, outVars
  <2> QED  BY <2>1, <2>2
<1>6. CASE \/ Tick \/ SignalManager \/ UNCHANGED vars
           \/ \E r \in delivering : DeliverUnread(r)
  BY <1>6 DEF Tick, SignalManager, DeliverUnread, Mail!Signal, Works, Untouched, vars,
      mailVars, execVars, countVars, outVars
<1>7. CASE Execute
  <2>1. at' \in {"flush", "panicked"} /\ UNCHANGED <<list, calls, idVars, restarts>>
    BY <1>7 DEF Execute, ExecuteBroadcast, ExecuteCloseDropped, ExecuteCloseUnknown,
        ExecuteClose, ExecuteRead, ExecuteQuery, ExecuteSignal, ExecuteAcknowledge,
        Finish, mailVars, countVars
  <2> QED  BY <2>1 DEF Works
<1>8. CASE Flush \/ FinishWrite \/ Reply \/ WriteFails \/ SendFails
  <2>1. at' \in {"writing", "reply", "recv", "panicked"} /\ UNCHANGED <<list, calls, idVars, restarts>>
    BY <1>8 DEF Flush, FinishWrite, Reply, WriteFails, SendFails, mailVars, countVars
  <2> QED  BY <2>1 DEF Works
<1> QED  BY <1>1, <1>2, <1>3, <1>4, <1>5, <1>6, <1>7, <1>8 DEF Next, ManagerStep, Client

-----------------------------------------------------------------------------
(* Order.  Every notification is in the log once and in the file once, and  *)
(* everything queued is later than everything there.                        *)

Distinct(buf) == \A i, j \in DOMAIN buf : buf[i].call = buf[j].call => i = j

\* The calls whose notifications have reached the log or the file.
Logged == Calls(buffer) \cup Calls(disk.logs)

\* Where Broadcast jobs wait.
Waiting == {k \in DOMAIN list : list[k].cmd = "broadcast"}

Latest(n) == n.call <= calls /\ \A c \in Logged : c < n.call

Order ==
    /\ Distinct(buffer) /\ Distinct(disk.logs)
    /\ disk.state # "whole" => disk.logs = <<>>
    /\ \A c \in Logged : c <= calls
    /\ \A k \in Waiting : Latest(list[k].event)
    /\ \A k, l \in Waiting : k < l => list[k].event.call < list[l].event.call
    /\ Executing("broadcast") =>
        Latest(job.event) /\ \A k \in Waiting : job.event.call < list[k].event.call

LEMMA LoadedIsFile ==
    ASSUME NEW d, d.state # "whole" => d.logs = <<>>
    PROVE  /\ LoadLogs(d) = d.logs
           /\ AfterLoad(d).logs = d.logs
           /\ AfterLoad(d).state # "whole" => AfterLoad(d).logs = <<>>
BY DEF LoadLogs, AfterLoad, Saved

LEMMA QueueEnds ==
    ASSUME NEW S, NEW q \in Seq(S)
    PROVE  /\ \A e \in S : /\ Append(q, e) \in Seq(S)
                           /\ DOMAIN Append(q, e) = 1 .. Len(q) + 1
                           /\ \A k \in DOMAIN q : Append(q, e)[k] = q[k]
                           /\ Append(q, e)[Len(q) + 1] = e
           /\ q # <<>> => /\ Head(q) = q[1] /\ 1 \in DOMAIN q
                          /\ \A k \in DOMAIN Tail(q) : k + 1 \in DOMAIN q /\ Tail(q)[k] = q[k + 1]
           /\ DOMAIN q = 1 .. Len(q) /\ Len(q) \in Nat
<1>1. \A e \in S : /\ Append(q, e) \in Seq(S)
                   /\ DOMAIN Append(q, e) = 1 .. Len(q) + 1
                   /\ \A k \in DOMAIN q : Append(q, e)[k] = q[k]
                   /\ Append(q, e)[Len(q) + 1] = e
  OBVIOUS
<1>2. ASSUME q # <<>>
      PROVE  /\ Head(q) = q[1] /\ 1 \in DOMAIN q
             /\ \A k \in DOMAIN Tail(q) : k + 1 \in DOMAIN q /\ Tail(q)[k] = q[k + 1]
  <2>1. Len(q) \in Nat \ {0} /\ DOMAIN q = 1 .. Len(q)
    BY <1>2
  <2>2. Tail(q) \in Seq(S) /\ Len(Tail(q)) = Len(q) - 1
    BY <1>2
  <2>3. DOMAIN Tail(q) = 1 .. Len(q) - 1
    BY <2>2
  <2>4. \A k \in 1 .. Len(q) - 1 : Tail(q)[k] = q[k + 1]
    BY <1>2
  <2> QED  BY <1>2, <2>1, <2>3, <2>4
<1> QED  BY <1>1, <1>2

LEMMA OrderInit == Init => Order
<1> SUFFICES ASSUME Init PROVE Order
  OBVIOUS
<1>1. PICK d \in InitialDisks : buffer = LoadLogs(d) /\ disk = AfterLoad(d)
  BY DEF Init
<1>2. d.state # "whole" => d.logs = <<>>
  BY DEF FilesAssumption
<1>3. buffer = d.logs /\ disk.logs = d.logs /\ (disk.state # "whole" => disk.logs = <<>>)
  BY <1>1, <1>2, LoadedIsFile
<1>4. Distinct(d.logs)
  BY DEF FilesAssumption, Distinct
<1>5. \A c \in Calls(buffer) : c <= calls
  BY DEF Init, IsLargest
<1>6. list = <<>> /\ at = "recv"
  BY DEF Init, Mail!MailInit
<1>7. Waiting = {}
  BY <1>6 DEF Waiting
<1> QED  BY <1>3, <1>4, <1>5, <1>6, <1>7 DEF Order, Logged, Executing

\* What a step adds to the log and the file.
LEMMA AdmitCalls ==
    ASSUME NEW buf \in Seq(Notification), NEW n \in Notification, Distinct(buf),
           n.call \notin Calls(buf)
    PROVE  Distinct(Admit(buf, n)) /\ Calls(Admit(buf, n)) \subseteq Calls(buf) \cup {n.call}
<1> DEFINE new == Admit(buf, n)
           from(k) == Came(buf, n, k)
<1>1. /\ new[1] = n
      /\ \A k \in DOMAIN new : k # 1 => from(k) \in DOMAIN buf /\ new[k] = buf[from(k)]
      /\ \A k, l \in DOMAIN new : k # 1 /\ l # 1 /\ from(k) = from(l) => k = l
  BY AdmitFrom
<1> HIDE DEF new, from
<1>2. \A k \in DOMAIN new : k # 1 => new[k].call \in Calls(buf)
  BY <1>1 DEF Calls
<1>3. ASSUME NEW k \in DOMAIN new, NEW l \in DOMAIN new, new[k].call = new[l].call
      PROVE  k = l
  <2>1. CASE k # 1 /\ l # 1
    BY <1>1, <1>3, <2>1 DEF Distinct
  <2>2. CASE k = 1 \/ l = 1
    BY <1>1, <1>2, <1>3, <2>2
  <2> QED  BY <2>1, <2>2
<1>4. Calls(new) \subseteq Calls(buf) \cup {n.call}
  BY <1>1, <1>2 DEF Calls
<1> QED  BY <1>3, <1>4 DEF Distinct, new

LEMMA MarkedCalls ==
    ASSUME NEW buf, NEW new, Marked(buf, new)
    PROVE  Calls(new) = Calls(buf) /\ Ids(new) = Ids(buf) /\ (Distinct(buf) => Distinct(new))
BY DEF Marked, Calls, Ids, Distinct

LEMMA OrderOfLog ==
    ASSUME TypeOK, Order, [Next]_vars
    PROVE  /\ Distinct(buffer') /\ Distinct(disk.logs')
           /\ disk.state' # "whole" => disk.logs' = <<>>
           /\ Logged' \subseteq Logged \cup (IF Admits THEN {job.event.call} ELSE {})
<1>1. buffer \in Seq(Notification) /\ Distinct(buffer) /\ Distinct(disk.logs)
      /\ (disk.state # "whole" => disk.logs = <<>>)
  BY DEF TypeOK, Order
<1>2. CASE Admits
  <2>1. job.event.call \notin Calls(buffer)
    <3>1. Latest(job.event) /\ job.event \in Notification
      BY <1>2 DEF Admits, Order
    <3> QED  BY <3>1 DEF Latest, Logged, Notification
  <2>2. Distinct(buffer') /\ Calls(buffer') \subseteq Calls(buffer) \cup {job.event.call}
    BY <1>1, <1>2, <2>1, AdmitCalls DEF Admits
  <2>3. UNCHANGED disk
    BY <1>2 DEF Admits
  <2> QED  BY <1>1, <1>2, <2>2, <2>3 DEF Logged
<1>3. CASE Closes \/ OnlyReads
  <2>1. Marked(buffer, buffer') /\ UNCHANGED disk
    BY <1>3 DEF Closes, OnlyReads
  <2> QED  BY <1>1, <2>1, MarkedCalls DEF Logged
<1>4. CASE Writes
  <2>1. UNCHANGED buffer /\ disk' \in {Torn, Saved(buffer)}
    BY <1>4 DEF Writes
  <2>2. disk.logs' \in {<<>>, buffer} /\ (disk.state' # "whole" => disk.logs' = <<>>)
    BY <2>1 DEF Torn, Saved
  <2> QED  BY <1>1, <2>1, <2>2 DEF Logged, Distinct, Calls
<1>5. CASE Restart
  <2>1. buffer' = LoadLogs(disk) /\ disk' = AfterLoad(disk)
    BY <1>5 DEF Restart
  <2>2. buffer' = disk.logs /\ disk.logs' = disk.logs /\ (disk.state' # "whole" => disk.logs' = <<>>)
    BY <1>1, <2>1, LoadedIsFile
  <2> QED  BY <1>1, <2>2 DEF Logged
<1> QED  BY <1>2, <1>3, <1>4, <1>5, LogSteps

LEMMA OrderTypes ==
    ASSUME TypeOK
    PROVE  /\ calls \in Nat /\ Logged \subseteq Nat
           /\ \A k \in Waiting : list[k].event \in Notification /\ list[k].event.call \in Nat
           /\ Executing("broadcast") => job.event \in Notification /\ job.event.call \in Nat
<1>1. \A n \in Notification : n.call \in Nat
  BY DEF Notification
<1>2. calls \in Nat /\ list \in Seq(Job) /\ (Executing("broadcast") => job \in Job)
  BY DEF TypeOK, Executing
<1>3. \A buf \in Seq(Notification) : Calls(buf) \subseteq Nat
  BY <1>1 DEF Calls
<1>4. buffer \in Seq(Notification) /\ disk.logs \in Seq(Notification)
  BY DEF TypeOK, Disk
<1>5. \A k \in Waiting : list[k] \in Job /\ list[k].cmd = "broadcast"
  BY <1>2 DEF Waiting
<1>6. \A k \in Waiting : list[k].event \in Notification
  BY <1>5, JobFields
<1>7. Executing("broadcast") => job.event \in Notification
  BY <1>2, JobFields DEF Executing
<1> QED  BY <1>1, <1>2, <1>3, <1>4, <1>6, <1>7 DEF Logged

\* A Broadcast that joins the queue, one that leaves it, and one that stays.
LEMMA NotifyQueues ==
    ASSUME TypeOK, NEW nid \in {0} \cup Known, NEW timeout \in Timeouts, Notify(nid, timeout)
    PROVE  LET n == [call |-> calls + 1, id |-> IF nid = 0 THEN FreshId ELSE nid, time |-> now,
                     read |-> FALSE, closed |-> FALSE, replaces |-> nid, timeout |-> timeout]
               last == Len(list) + 1
           IN /\ calls' = calls + 1 /\ calls < MaxCalls
              /\ UNCHANGED <<execVars, restarts>> /\ Untouched
              /\ DOMAIN list' = 1 .. last /\ list'[last] = Broadcast(n)
              /\ \A k \in DOMAIN list : list'[k] = list[k]
              /\ Waiting' = Waiting \cup {last} /\ \A k \in Waiting : k < last
<1> DEFINE n == [call |-> calls + 1, id |-> IF nid = 0 THEN FreshId ELSE nid, time |-> now,
                 read |-> FALSE, closed |-> FALSE, replaces |-> nid, timeout |-> timeout]
<1>1. list' = Append(list, Broadcast(n)) /\ calls' = calls + 1 /\ calls < MaxCalls
  BY DEF Notify, Mail!PushAndSignal
<1>2. UNCHANGED <<execVars, restarts>> /\ Untouched
  BY DEF Notify, Untouched, outVars
<1>3. Broadcast(n).cmd = "broadcast"
  BY DEF Broadcast
<1> HIDE DEF n
<1>4. list \in Seq(Job) /\ DOMAIN list = 1 .. Len(list) /\ Len(list) \in Nat
  BY DEF TypeOK
<1>5. /\ DOMAIN list' = 1 .. Len(list) + 1
      /\ \A k \in DOMAIN list : list'[k] = list[k]
      /\ list'[Len(list) + 1] = Broadcast(n)
  BY <1>1, <1>4
<1>6. DOMAIN list' = DOMAIN list \cup {Len(list) + 1} /\ \A k \in DOMAIN list : k < Len(list) + 1
  BY <1>4, <1>5
<1>7. Waiting' = Waiting \cup {Len(list) + 1} /\ \A k \in Waiting : k < Len(list) + 1
  BY <1>3, <1>5, <1>6 DEF Waiting
<1> QED  BY <1>1, <1>2, <1>5, <1>7 DEF n

LEMMA AskedQueues ==
    ASSUME TypeOK, NEW j, Asks(j)
    PROVE  /\ Waiting' = Waiting
           /\ \A k \in Waiting : list'[k] = list[k]
           /\ \A k \in DOMAIN list' : list'[k] = j \/ (k \in DOMAIN list /\ list'[k] = list[k])
<1>1. list \in Seq(Job) /\ list' = Append(list, j) /\ j \in Job /\ j.cmd # "broadcast"
  BY DEF TypeOK, Asks
<1>2. DOMAIN list = 1 .. Len(list) /\ Len(list) \in Nat
  BY <1>1
<1>3. /\ DOMAIN list' = 1 .. Len(list) + 1
      /\ \A k \in DOMAIN list : list'[k] = list[k]
      /\ list'[Len(list) + 1] = j
  BY <1>1, <1>2
<1>4. DOMAIN list' = DOMAIN list \cup {Len(list) + 1}
  BY <1>2, <1>3
<1> QED  BY <1>1, <1>3, <1>4 DEF Waiting

LEMMA PoppedQueues ==
    ASSUME TypeOK, Pops
    PROVE  /\ 1 \in DOMAIN list /\ job' = list[1]
           /\ \A k \in DOMAIN list' : k + 1 \in DOMAIN list /\ list'[k] = list[k + 1]
           /\ \A k \in Waiting' : k + 1 \in Waiting /\ k \in Nat \ {0}
           /\ job'.cmd = "broadcast" => 1 \in Waiting
<1>1. list \in Seq(Job) /\ list # <<>> /\ list' = Tail(list) /\ job' = Head(list)
  BY DEF TypeOK, Pops
<1>2. job' = list[1] /\ 1 \in DOMAIN list
  BY <1>1, QueueEnds
<1>3. \A k \in DOMAIN list' : k + 1 \in DOMAIN list /\ list'[k] = list[k + 1]
  BY <1>1, QueueEnds
<1>4. \A k \in DOMAIN list' : k \in Nat \ {0}
  <2>1. list' \in Seq(Job)
    BY <1>1
  <2> QED  BY <2>1
<1> QED  BY <1>2, <1>3, <1>4 DEF Waiting

LEMMA OrderStep == TypeOK /\ Order /\ [Next]_vars => Order'
<1> SUFFICES ASSUME TypeOK, Order, [Next]_vars PROVE Order'
  OBVIOUS
<1>1. /\ Distinct(buffer') /\ Distinct(disk.logs')
      /\ disk.state' # "whole" => disk.logs' = <<>>
      /\ Logged' \subseteq Logged \cup (IF Admits THEN {job.event.call} ELSE {})
  BY OrderOfLog
<1>2. calls \in Nat /\ Logged \subseteq Nat /\ \A c \in Logged : c <= calls
  BY OrderTypes DEF Order
<1>3. \A k \in Waiting : /\ list[k].event.call \in Nat /\ list[k].event.call <= calls
                         /\ \A c \in Logged : c < list[k].event.call
  BY OrderTypes DEF Order, Latest
<1>4. \A k, l \in Waiting : k < l => list[k].event.call < list[l].event.call
  BY DEF Order
<1>5. Executing("broadcast") =>
        /\ job.event.call \in Nat /\ job.event.call <= calls
        /\ \A c \in Logged : c < job.event.call
        /\ \A k \in Waiting : job.event.call < list[k].event.call
  BY OrderTypes DEF Order, Latest
<1>6. ASSUME Untouched PROVE Logged' = Logged
  BY <1>6 DEF Untouched, logVars, Logged
<1>7. ASSUME /\ \A c \in Logged' : c <= calls'
             /\ \A k \in Waiting' : list'[k].event.call <= calls'
             /\ \A k \in Waiting' : \A c \in Logged' : c < list'[k].event.call
             /\ \A k, l \in Waiting' : k < l => list'[k].event.call < list'[l].event.call
             /\ Executing("broadcast")' =>
                  /\ job'.event.call <= calls' /\ \A c \in Logged' : c < job'.event.call
                  /\ \A k \in Waiting' : job'.event.call < list'[k].event.call
      PROVE  Order'
  BY <1>1, <1>7 DEF Order, Latest
<1>8. ASSUME NEW nid \in {0} \cup Known, NEW timeout \in Timeouts, Notify(nid, timeout)
      PROVE  Order'
  <2> DEFINE last == Len(list) + 1
  <2>1. /\ calls' = calls + 1 /\ Untouched /\ UNCHANGED execVars
        /\ Waiting' = Waiting \cup {last} /\ \A k \in Waiting : k < last
        /\ \A k \in DOMAIN list : list'[k] = list[k]
    BY <1>8, NotifyQueues
  <2>2. list'[last].event.call = calls + 1
    <3> DEFINE n == [call |-> calls + 1, id |-> IF nid = 0 THEN FreshId ELSE nid, time |-> now,
                     read |-> FALSE, closed |-> FALSE, replaces |-> nid, timeout |-> timeout]
    <3>1. list'[last] = Broadcast(n)
      BY <1>8, NotifyQueues
    <3>2. Broadcast(n).event.call = calls + 1
      BY DEF Broadcast
    <3> HIDE DEF n, last
    <3> QED  BY <3>1, <3>2
  <2>3. last \in Nat /\ Waiting \subseteq Nat /\ Waiting \subseteq DOMAIN list
    BY DEF TypeOK, Waiting
  <2>4. Logged' = Logged
    BY <1>6, <2>1
  <2> HIDE DEF last
  <2>5. \A k \in Waiting' : \/ k \in Waiting /\ list'[k].event.call = list[k].event.call
                            \/ k = last /\ list'[k].event.call = calls + 1
    BY <2>1, <2>2, <2>3
  <2>6. \A k \in Waiting' : list'[k].event.call <= calls'
    BY <1>2, <1>3, <2>1, <2>5
  <2>7. \A k \in Waiting' : \A c \in Logged' : c < list'[k].event.call
    <3>1. \A c \in Logged : c < calls + 1
      BY <1>2
    <3> QED  BY <1>3, <2>4, <2>5, <3>1
  <2>8. ASSUME NEW k \in Waiting', NEW l \in Waiting', k < l
        PROVE  list'[k].event.call < list'[l].event.call
    <3>1. k # last
      <4>1. \A m \in Waiting' : m \in Nat /\ m <= last
        BY <2>1, <2>3
      <4> QED  BY <2>3, <2>8, <4>1
    <3>2. k \in Waiting /\ list'[k].event.call = list[k].event.call
      BY <2>5, <3>1
    <3> QED  BY <1>2, <1>3, <1>4, <2>5, <2>8, <3>2
  <2>9. Executing("broadcast")' =>
          /\ job'.event.call <= calls' /\ \A c \in Logged' : c < job'.event.call
          /\ \A k \in Waiting' : job'.event.call < list'[k].event.call
    <3>1. UNCHANGED <<at, job>>
      BY <2>1 DEF execVars
    <3>2. Executing("broadcast")' => Executing("broadcast")
      BY <3>1 DEF Executing
    <3> QED  BY <1>2, <1>5, <2>1, <2>4, <2>5, <3>1, <3>2
  <2>10. \A c \in Logged' : c <= calls'
    BY <1>2, <2>1, <2>4
  <2> QED  BY <1>7, <2>6, <2>7, <2>8, <2>9, <2>10
<1>9. ASSUME NEW j, Asks(j) PROVE Order'
  <2>1. UNCHANGED <<execVars, calls>> /\ Untouched
    BY <1>9 DEF Asks
  <2>2. Logged' = Logged /\ Waiting' = Waiting /\ \A k \in Waiting : list'[k] = list[k]
    BY <1>6, <1>9, <2>1, AskedQueues
  <2>3. UNCHANGED <<at, job>>
    BY <2>1 DEF execVars
  <2>4. Executing("broadcast")' => Executing("broadcast")
    BY <2>3 DEF Executing
  <2> QED  BY <1>2, <1>3, <1>4, <1>5, <1>7, <2>1, <2>2, <2>3, <2>4
<1>10. CASE Pops
  <2>1. Logged' = Logged /\ UNCHANGED calls
    BY <1>6, <1>10 DEF Pops
  <2>2. /\ job' = list[1] /\ (job'.cmd = "broadcast" => 1 \in Waiting)
        /\ \A k \in Waiting' : k + 1 \in Waiting /\ k \in Nat \ {0} /\ list'[k] = list[k + 1]
    BY <1>10, PoppedQueues DEF Waiting
  <2>3. \A k \in Waiting' : list'[k].event.call = list[k + 1].event.call /\ k + 1 \in Waiting
    BY <2>2
  <2>4. \A k, l \in Waiting' : k < l => list'[k].event.call < list'[l].event.call
    BY <1>4, <2>2
  <2>5. Executing("broadcast")' =>
          /\ job'.event.call <= calls' /\ \A c \in Logged' : c < job'.event.call
          /\ \A k \in Waiting' : job'.event.call < list'[k].event.call
    <3>1. Executing("broadcast")' => 1 \in Waiting
      BY <2>2 DEF Executing
    <3>2. \A k \in Waiting' : k + 1 \in Waiting /\ 1 < k + 1
      BY <2>2
    <3> QED  BY <1>3, <1>4, <2>1, <2>2, <3>1, <3>2
  <2> QED  BY <1>2, <1>3, <1>7, <2>1, <2>3, <2>4, <2>5
<1>11. CASE Works
  <2>1. UNCHANGED <<list, calls>> /\ Waiting' = Waiting
    BY <1>11 DEF Works, Waiting
  <2>2. Executing("broadcast")' => Executing("broadcast") /\ job' = job /\ Untouched
    BY <1>11 DEF Works, Executing
  <2>3. CASE Admits
    <3>1. Executing("broadcast")
      BY <2>3 DEF Admits
    <3> QED  BY <1>1, <1>2, <1>3, <1>4, <1>5, <1>6, <1>7, <2>1, <2>2, <2>3, <3>1
  <2>4. CASE ~Admits
    BY <1>1, <1>2, <1>3, <1>4, <1>5, <1>7, <2>1, <2>2, <2>4
  <2> QED  BY <2>3, <2>4
<1>12. CASE Restart
  <2>1. list' = <<>> /\ at' = "recv" /\ UNCHANGED calls
    BY <1>12 DEF Restart
  <2>2. Waiting' = {} /\ ~Executing("broadcast")'
    BY <2>1 DEF Waiting, Executing
  <2>3. Admits => job.event.call <= calls
    BY <1>5 DEF Admits
  <2> QED  BY <1>1, <1>2, <1>7, <2>1, <2>2, <2>3
<1> QED  BY <1>8, <1>9, <1>10, <1>11, <1>12, QueueSteps

-----------------------------------------------------------------------------
(* Marks.                                                                   *)

LEMMA SameEntry ==
    ASSUME TypeOK, Order, [Next]_vars, restarts' = restarts,
           NEW i \in DOMAIN buffer, NEW j \in DOMAIN buffer', buffer[i].call = buffer'[j].call
    PROVE  (buffer[i].read => buffer'[j].read) /\ (buffer[i].closed => buffer'[j].closed)
<1>1. buffer \in Seq(Notification) /\ Distinct(buffer) /\ restarts \in Nat
  BY DEF TypeOK, Order
<1>2. CASE Admits
  <2> DEFINE n == job.event
  <2>1. n.call \notin Calls(buffer) /\ n \in Notification
    <3>1. Latest(n) /\ n \in Notification
      BY <1>2 DEF Admits, Order
    <3> QED  BY <3>1 DEF Latest, Logged, Notification
  <2>2. buffer' = Admit(buffer, n)
    BY <1>2 DEF Admits
  <2>3. CASE j = 1
    <3>1. buffer'[j].call = n.call
      BY <1>1, <2>1, <2>2, <2>3, AdmitFrom
    <3> QED  BY <2>1, <3>1 DEF Calls
  <2>4. CASE j # 1
    <3>1. Came(buffer, n, j) \in DOMAIN buffer /\ buffer'[j] = buffer[Came(buffer, n, j)]
      BY <1>1, <2>1, <2>2, <2>4, AdmitFrom
    <3> QED  BY <1>1, <3>1 DEF Distinct
  <2> QED  BY <2>3, <2>4
<1>3. CASE Closes \/ OnlyReads
  BY <1>1, <1>3 DEF Closes, OnlyReads, Marked, Distinct
<1>4. CASE Writes
  BY <1>1, <1>4 DEF Writes, Distinct
<1>5. CASE Restart
  BY <1>1, <1>5 DEF Restart
<1> QED  BY <1>2, <1>3, <1>4, <1>5, LogSteps

\* No job of a session takes a mark back, whatever it replaces, evicts or
\* marks itself (manager.rs:177-269).
THEOREM MarksAreKept == Spec => MarksStay
<1> DEFINE Stay == \A i \in DOMAIN buffer, j \in DOMAIN buffer' :
        buffer[i].call = buffer'[j].call /\ restarts' = restarts =>
            /\ buffer[i].read => buffer'[j].read
            /\ buffer[i].closed => buffer'[j].closed
<1>1. TypeOK /\ Order /\ [Next]_vars => [Stay]_vars
  BY SameEntry
<1> QED  BY <1>1, InitType, StepType, OrderInit, OrderStep, PTL DEF Spec, MarksStay

-----------------------------------------------------------------------------
(* One signal.  The file may say of a notification that it is closed only   *)
(* if the log of the session says so, too.                                  *)

\* Clients do not use --force.
NoForce == \A j \in ClientJobs : ~Forced(j)

\* Every job in the queue, or in the manager's hands, is one of S.
Within(S) ==
    /\ \A k \in DOMAIN list : list[k] \in S
    /\ at = "execute" => job \in S

Unforced == {j \in Job : ~Forced(j)}

Remembered ==
    \A i \in DOMAIN disk.logs, j \in DOMAIN buffer :
        disk.logs[i].call = buffer[j].call /\ disk.logs[i].closed => buffer[j].closed

LEMMA WithinInit == ASSUME NEW S PROVE Init => Within(S)
BY DEF Init, Mail!MailInit, Within

\* The daemon makes no Read and no forced Close itself, so what clients send
\* decides about those.
LEMMA WithinStep ==
    ASSUME NEW S, ClientJobs \subseteq S, {j \in Job : j.cmd # "read" /\ ~Forced(j)} \subseteq S,
           TypeOK, Within(S), [Next]_vars
    PROVE  Within(S)'
<1>1. ASSUME NEW nid \in {0} \cup Known, NEW timeout \in Timeouts, Notify(nid, timeout)
      PROVE  Within(S)'
  <2> DEFINE n == [call |-> calls + 1, id |-> IF nid = 0 THEN FreshId ELSE nid, time |-> now,
                   read |-> FALSE, closed |-> FALSE, replaces |-> nid, timeout |-> timeout]
  <2>1. /\ DOMAIN list' = 1 .. Len(list) + 1 /\ list'[Len(list) + 1] = Broadcast(n)
        /\ \A k \in DOMAIN list : list'[k] = list[k]
        /\ UNCHANGED execVars
    BY <1>1, NotifyQueues
  <2>2. Broadcast(n).cmd = "broadcast" /\ ~Forced(Broadcast(n))
    BY DEF Forced, Broadcast
  <2> HIDE DEF n
  <2>3. DOMAIN list = 1 .. Len(list) /\ Len(list) \in Nat
    BY DEF TypeOK
  <2>4. \A k \in DOMAIN list' : k = Len(list) + 1 \/ k \in DOMAIN list
    BY <2>1, <2>3
  <2>5. Broadcast(n) \in Job
    <3>1. TypeOK'
      BY StepType
    <3>2. list' \in Seq(Job) /\ Len(list) + 1 \in DOMAIN list'
      BY <2>1, <2>3, <3>1 DEF TypeOK
    <3> QED  BY <2>1, <3>2
  <2> QED  BY <2>1, <2>2, <2>4, <2>5 DEF Within, execVars
<1>2. ASSUME NEW j, Asks(j) PROVE Within(S)'
  <2>1. j \in S
    BY <1>2 DEF Asks
  <2>2. \A k \in DOMAIN list' : list'[k] = j \/ (k \in DOMAIN list /\ list'[k] = list[k])
    BY <1>2, AskedQueues
  <2>3. UNCHANGED execVars
    BY <1>2 DEF Asks
  <2> QED  BY <2>1, <2>2, <2>3 DEF Within, execVars
<1>3. CASE Pops
  <2>1. /\ 1 \in DOMAIN list /\ job' = list[1]
        /\ \A k \in DOMAIN list' : k + 1 \in DOMAIN list /\ list'[k] = list[k + 1]
    BY <1>3, PoppedQueues
  <2> QED  BY <2>1 DEF Within
<1>4. CASE Works
  BY <1>4 DEF Works, Within
<1>5. CASE Restart
  BY <1>5 DEF Restart, Within
<1> QED  BY <1>1, <1>2, <1>3, <1>4, <1>5, QueueSteps

LEMMA UnforcedStep == ASSUME NoForce PROVE TypeOK /\ Within(Unforced) /\ [Next]_vars => Within(Unforced)'
<1>1. ClientJobs \subseteq Unforced
  BY DEF NoForce, Unforced
<1>2. {j \in Job : j.cmd # "read" /\ ~Forced(j)} \subseteq Unforced
  BY DEF Unforced
<1> QED  BY <1>1, <1>2, WithinStep

\* No I/O fails, no client uses --force, and no Read wraps around.
Mild == {j \in Job : ~Forced(j) /\ (j.cmd = "read" => j.start <= j.end)}
Calm == Faults = {} /\ ClientJobs \subseteq Mild

LEMMA MildStep == ASSUME Calm PROVE TypeOK /\ Within(Mild) /\ [Next]_vars => Within(Mild)'
<1>1. {j \in Job : j.cmd # "read" /\ ~Forced(j)} \subseteq Mild
  BY DEF Mild
<1> QED  BY <1>1, WithinStep DEF Calm

\* Then the manager thread never panics, so no sender panics with it: whatever
\* is closed twice, read past the end of the log or replaced when it is gone
\* (mod.rs:114-125, close.rs:58-69, manager.rs:188).
THEOREM ManagerSurvives == Calm => (Spec => []Alive)
<1> SUFFICES ASSUME Calm PROVE Spec => []Alive
  OBVIOUS
<1>1. Init => Alive
  BY DEF Init, Alive
<1>2. ASSUME TypeOK, Mail!Matched, Within(Mild), Alive, [Next]_vars PROVE Alive'
  <2> SUFFICES ASSUME ~Alive' PROVE FALSE
    OBVIOUS
  <2>1. Causes
    BY <1>2, PanicStep
  <2>2. Executing("close") \/ Executing("read") => job \in Mild
    BY <1>2 DEF Within, Executing
  <2>3. \/ Executing("close") /\ job.force
        \/ Executing("read") /\ job.end < job.start
    BY <2>1 DEF Causes, Calm
  <2>4. Executing("read") => job.start \in Nat /\ job.end \in Nat
    BY <1>2, JobFields DEF Executing, TypeOK
  <2> QED  BY <2>2, <2>3, <2>4 DEF Mild, Forced, Executing
<1>3. TypeOK /\ Mail!Matched /\ Within(Mild) /\ Alive /\ [Next]_vars => Alive'
  BY <1>2
<1>4. Init => Within(Mild)
  BY WithinInit
<1> QED  BY <1>1, <1>3, <1>4, InitType, StepType, MatchedInit, MatchedStep, MildStep, PTL DEF Spec

LEMMA RememberedInit == Init => Remembered
<1> SUFFICES ASSUME Init PROVE Remembered
  OBVIOUS
<1>1. PICK d \in InitialDisks : buffer = LoadLogs(d) /\ disk = AfterLoad(d)
  BY DEF Init
<1>2. buffer = disk.logs
  BY <1>1, LoadedIsFile DEF FilesAssumption
<1>3. Distinct(buffer)
  BY OrderInit DEF Order
<1> QED  BY <1>2, <1>3 DEF Remembered, Distinct

LEMMA RememberedStep == TypeOK /\ Order /\ Remembered /\ [Next]_vars => Remembered'
<1> SUFFICES ASSUME TypeOK, Order, Remembered, [Next]_vars PROVE Remembered'
  OBVIOUS
<1>1. Distinct(buffer) /\ Distinct(disk.logs) /\ (disk.state # "whole" => disk.logs = <<>>)
  BY DEF Order
<1>2. CASE Admits
  <2> DEFINE n == job.event
  <2>1. buffer' = Admit(buffer, n) /\ n \in Notification /\ UNCHANGED disk
    BY <1>2 DEF Admits
  <2>2. \A i \in DOMAIN disk.logs : disk.logs[i].call # n.call
    <3>1. Latest(n) /\ n.call \in Nat
      BY <1>2, <2>1 DEF Admits, Order, Notification
    <3>2. \A i \in DOMAIN disk.logs : disk.logs[i].call \in Logged
      BY DEF Logged, Calls
    <3>3. \A c \in Logged : c < n.call
      BY <3>1 DEF Latest
    <3>4. ~(n.call < n.call)
      BY <3>1
    <3> QED  BY <3>2, <3>3, <3>4
  <2>3. buffer \in Seq(Notification)
    BY DEF TypeOK
  <2>4. \A j \in DOMAIN buffer' : \/ buffer'[j] = n
                                  \/ \E k \in DOMAIN buffer : buffer'[j] = buffer[k]
    BY <2>1, <2>3, AdmitFrom
  <2> QED  BY <2>1, <2>2, <2>4 DEF Remembered
<1>3. CASE Closes \/ OnlyReads
  BY <1>3 DEF Closes, OnlyReads, Marked, Remembered
<1>4. CASE Writes
  <2>1. UNCHANGED buffer /\ disk.logs' \in {<<>>, buffer}
    BY <1>4 DEF Writes, Torn, Saved
  <2> QED  BY <1>1, <2>1 DEF Remembered, Distinct
<1>5. CASE Restart
  <2>1. buffer' = disk.logs /\ disk.logs' = disk.logs
    BY <1>1, <1>5, LoadedIsFile DEF Restart
  <2> QED  BY <1>1, <2>1 DEF Remembered, Distinct
<1> QED  BY <1>2, <1>3, <1>4, <1>5, LogSteps

LEMMA LoggedCalls == ASSUME TypeOK, Order PROVE Logged \subseteq Call
<1>1. \A n \in Notification : n.call \in Nat \ {0}
  BY DEF Notification
<1>2. \A buf \in Seq(Notification) : Calls(buf) \subseteq Nat \ {0}
  BY <1>1 DEF Calls
<1>3. buffer \in Seq(Notification) /\ disk.logs \in Seq(Notification) /\ calls \in 0 .. MaxCalls
  BY DEF TypeOK, Disk
<1>4. \A c \in Logged : c \in Nat \ {0} /\ c <= calls
  BY <1>2, <1>3 DEF Logged, Order
<1> QED  BY <1>3, <1>4 DEF Call

\* Unless a client uses --force, a notification that the file calls closed is
\* not signalled again in any session (close.rs:58-108, manager.rs:54-150).
THEOREM SignalledOnce == NoForce => (Spec => NeverSignalledAgain)
<1> SUFFICES ASSUME NoForce PROVE Spec => NeverSignalledAgain
  OBVIOUS
<1> DEFINE Silent == \A i \in DOMAIN disk.logs :
        disk.logs[i].closed => emitted'[disk.logs[i].call] = emitted[disk.logs[i].call]
<1>1. ASSUME TypeOK, Order, Within(Unforced), Remembered, [Next]_vars PROVE Silent
  <2>1. CASE UNCHANGED emitted
    BY <2>1
  <2>2. CASE Closes
    <3> DEFINE pos == Position(buffer, job.id)
               c == buffer[pos].call
    <3>1. ~job.force
      BY <1>1, <2>2 DEF Closes, ExecuteClose, Executing, Within, Unforced, Forced
    <3>2. pos \in DOMAIN buffer /\ ~buffer[pos].closed
      BY <2>2, <3>1 DEF Closes, ExecuteClose, CloseIgnored, QueryAnswer
    <3>3. \A i \in DOMAIN disk.logs : disk.logs[i].closed => disk.logs[i].call # c
      BY <1>1, <3>2 DEF Remembered
    <3>4. UNCHANGED emitted \/ emitted' = [emitted EXCEPT ![c] = @ + 1]
      BY <2>2 DEF Closes, ExecuteClose
    <3>5. \A d \in Call : d # c => emitted'[d] = emitted[d]
      BY <1>1, <3>4 DEF TypeOK
    <3>6. \A i \in DOMAIN disk.logs : disk.logs[i].call \in Call
      BY <1>1, LoggedCalls DEF Logged, Calls
    <3> HIDE DEF c
    <3> QED  BY <3>3, <3>5, <3>6
  <2>3. CASE Admits \/ OnlyReads \/ Writes \/ Restart
    <3>1. UNCHANGED emitted
      BY <2>3 DEF Admits, OnlyReads, Writes, Restart
    <3> QED  BY <2>1, <3>1
  <2> QED  BY <1>1, <2>2, <2>3, LogSteps
<1>2. TypeOK /\ Order /\ Within(Unforced) /\ Remembered /\ [Next]_vars => [Silent]_vars
  BY <1>1
<1>3. Init => Within(Unforced)
  BY WithinInit
<1> QED  BY <1>2, <1>3, InitType, StepType, OrderInit, OrderStep, UnforcedStep,
            RememberedInit, RememberedStep, PTL DEF Spec, NeverSignalledAgain

-----------------------------------------------------------------------------
(* Unique ids.  They rest on the ids of queued replacements and fresh ids   *)
(* not meeting in the log, whatever is executed before.                     *)

OneIdBut(buf, S) ==
    \A i, j \in DOMAIN buf : buf[i].id = buf[j].id => i = j \/ buf[i].id \in S

\* The counter does not get as far as 2^32: ids were handed out one by one up to
\* now, but for a head start of `top`, of which the ids are that clients make up; no
\* id of the log the daemon starts with is 0 or there twice.
StartsBelow(top) ==
    /\ top + MaxCalls < NidMod
    /\ ForeignIds \subseteq 0 .. top
    /\ \A d \in InitialDisks :
        /\ OneIdBut(d.logs, {})
        /\ \A i \in DOMAIN d.logs : d.logs[i].id \in 1 .. top + d.logs[i].call

NoWrap == \E top \in Nat : StartsBelow(top)
Top == CHOOSE top \in Nat : StartsBelow(top)

\* Ids are handed out one by one, so they stay behind the calls.
Own(n) == n.id \in 1 .. Top + n.call

\* The counter has come by the id, or somebody was faster.
Passed(n) == n.id <= counter \/ n.id \in ahead

Fresh(n) == n.replaces = 0 /\ n.id \notin ahead

Fits(n) ==
    /\ Own(n) /\ Passed(n)
    /\ n.replaces \in {0, n.id}
    /\ Fresh(n) => n.id \notin Ids(buffer)

NumberedLog ==
    /\ OneIdBut(buffer, ahead) /\ OneIdBut(disk.logs, ahead)
    /\ counter <= Top + calls /\ issued \subseteq 0 .. Top + calls
    /\ \A i \in DOMAIN buffer : Own(buffer[i]) /\ Passed(buffer[i])
    /\ \A i \in DOMAIN disk.logs : Own(disk.logs[i])

Numbered ==
    /\ NumberedLog
    /\ \A k \in Waiting : Fits(list[k].event)
    /\ \A k, l \in Waiting :
        k < l /\ Fresh(list[l].event) => list[k].event.id # list[l].event.id
    /\ Executing("broadcast") =>
        /\ Fits(job.event)
        /\ \A k \in Waiting : Fresh(list[k].event) => job.event.id # list[k].event.id

LEMMA TopIs == NoWrap => Top \in Nat /\ StartsBelow(Top)
BY DEF NoWrap, Top

LEMMA CounterCovers ==
    ASSUME NoWrap, NEW buf \in Seq(Notification), NEW m \in Nid, IsLargest(m, Ids(buf)),
           NEW top \in Nat, \A i \in DOMAIN buf : Own(buf[i]) /\ buf[i].call <= top
    PROVE  m <= Top + top /\ \A i \in DOMAIN buf : buf[i].id <= m
<1>1. ASSUME NEW i \in DOMAIN buf PROVE buf[i].id \in Nat /\ buf[i].id <= Top + top
  <2>1. buf[i] \in Notification
    OBVIOUS
  <2>2. buf[i].call \in Nat /\ buf[i].id \in Nat
    BY <2>1 DEF Notification, Nid
  <2>3. buf[i].id <= Top + buf[i].call /\ buf[i].call <= top
    BY <2>2 DEF Own
  <2> QED  BY <2>2, <2>3, TopIs
<1>2. \A i \in DOMAIN buf : buf[i].id <= Top + top
  BY <1>1
<1>3. CASE Ids(buf) = {} /\ m = 0
  <2>1. \A i \in DOMAIN buf : buf[i].id \in Ids(buf)
    BY DEF Ids
  <2>2. m <= Top + top
    BY <1>3, TopIs
  <2> QED  BY <1>3, <2>1, <2>2
<1>4. CASE m \in Ids(buf) /\ \A x \in Ids(buf) : x <= m
  BY <1>2, <1>4 DEF Ids
<1> QED  BY <1>3, <1>4 DEF IsLargest

LEMMA NumberedInit == NoWrap /\ Init => Numbered
<1> SUFFICES ASSUME NoWrap, Init PROVE Numbered
  OBVIOUS
<1>1. PICK d \in InitialDisks : buffer = LoadLogs(d) /\ disk = AfterLoad(d)
  BY DEF Init
<1>2. buffer = d.logs /\ disk.logs = d.logs
  BY <1>1, LoadedIsFile DEF FilesAssumption
<1>3. /\ buffer \in Seq(Notification) /\ calls \in Nat /\ counter \in Nid
      /\ IsLargest(counter, Ids(buffer)) /\ IsLargest(calls, Calls(buffer))
      /\ issued = 1 .. counter /\ ahead = {}
  BY InitType DEF Init, TypeOK
<1>4. OneIdBut(d.logs, {}) /\ \A i \in DOMAIN d.logs : Own(d.logs[i])
  BY TopIs DEF StartsBelow, Own
<1>5. \A i \in DOMAIN buffer : buffer[i].call <= calls
  BY <1>3 DEF IsLargest, Calls
<1>6. counter <= Top + calls /\ \A i \in DOMAIN buffer : buffer[i].id <= counter
  BY <1>2, <1>3, <1>4, <1>5, CounterCovers
<1>7. Waiting = {} /\ ~Executing("broadcast")
  BY DEF Init, Mail!MailInit, Waiting, Executing
<1>8. issued \subseteq 0 .. Top + calls
  BY <1>3, <1>6, TopIs DEF Nid
<1> QED  BY <1>2, <1>3, <1>4, <1>6, <1>7, <1>8 DEF Numbered, NumberedLog, Passed

\* A replacement takes the place of the one entry with its id, and a fresh id
\* is not in the log (broadcast.rs:24-26).
LEMMA AdmitIds ==
    ASSUME NEW S, NEW buf \in Seq(Notification), NEW n \in Notification, OneIdBut(buf, S),
           n.replaces \in {0, n.id},
           n.replaces = 0 /\ n.id \notin S => n.id \notin Ids(buf)
    PROVE  /\ OneIdBut(Admit(buf, n), S)
           /\ \A k \in DOMAIN Admit(buf, n) : \/ Admit(buf, n)[k] = n
                                              \/ \E i \in DOMAIN buf : Admit(buf, n)[k] = buf[i]
<1> DEFINE new == Admit(buf, n)
           from(k) == Came(buf, n, k)
<1>1. /\ new[1] = n
      /\ \A k \in DOMAIN new : k # 1 =>
            /\ from(k) \in DOMAIN buf
            /\ new[k] = buf[from(k)]
            /\ n.replaces # 0 => from(k) # Position(buf, n.replaces)
      /\ \A k, l \in DOMAIN new : k # 1 /\ l # 1 /\ from(k) = from(l) => k = l
  BY AdmitFrom
<1> HIDE DEF new, from
<1>2. ASSUME NEW k \in DOMAIN new, k # 1, n.id \notin S PROVE new[k].id # n.id
  <2> SUFFICES ASSUME buf[from(k)].id = n.id PROVE FALSE
    BY <1>1, <1>2
  <2>1. from(k) \in DOMAIN buf /\ n.id \in Ids(buf)
    BY <1>1, <1>2 DEF Ids
  <2>2. n.replaces # 0 /\ n.replaces = n.id
    BY <1>2, <2>1
  <2>3. Position(buf, n.id) \in DOMAIN buf /\ buf[Position(buf, n.id)].id = n.id
    BY <2>1, PositionFinds
  <2>4. from(k) = Position(buf, n.id)
    BY <1>2, <2>1, <2>3 DEF OneIdBut
  <2> QED  BY <1>1, <1>2, <2>2, <2>4
<1>3. ASSUME NEW k \in DOMAIN new, NEW l \in DOMAIN new, new[k].id = new[l].id
      PROVE  k = l \/ new[k].id \in S
  <2>1. CASE k # 1 /\ l # 1
    BY <1>1, <1>3, <2>1 DEF OneIdBut
  <2>2. CASE k = 1 \/ l = 1
    BY <1>1, <1>2, <1>3, <2>2
  <2> QED  BY <2>1, <2>2
<1>4. \A k \in DOMAIN new : new[k] = n \/ \E i \in DOMAIN buf : new[k] = buf[i]
  BY <1>1
<1> QED  BY <1>3, <1>4 DEF OneIdBut, new

LEMMA NumberedStep ==
    ASSUME NoWrap PROVE TypeOK /\ Order /\ Numbered /\ [Next]_vars => Numbered'
<1> SUFFICES ASSUME TypeOK, Order, Numbered, [Next]_vars PROVE Numbered'
  OBVIOUS
<1>1. /\ OneIdBut(buffer, ahead) /\ OneIdBut(disk.logs, ahead)
      /\ counter <= Top + calls /\ issued \subseteq 0 .. Top + calls
      /\ \A i \in DOMAIN buffer : Own(buffer[i]) /\ Passed(buffer[i])
      /\ \A i \in DOMAIN disk.logs : Own(disk.logs[i])
      /\ disk.state # "whole" => disk.logs = <<>>
  BY DEF Numbered, NumberedLog, Order
<1>2. \A k \in Waiting : Fits(list[k].event) /\ list[k].event \in Notification
  BY OrderTypes DEF Numbered
<1>3. \A k, l \in Waiting :
        k < l /\ Fresh(list[l].event) => list[k].event.id # list[l].event.id
  BY DEF Numbered
<1>4. Executing("broadcast") =>
        /\ Fits(job.event)
        /\ \A k \in Waiting : Fresh(list[k].event) => job.event.id # list[k].event.id
  BY DEF Numbered
<1>5. ASSUME Untouched, UNCHANGED idVars
      PROVE  \A n : (Fits(n)' <=> Fits(n)) /\ (Fresh(n)' <=> Fresh(n))
  BY <1>5 DEF Untouched, logVars, Fits, Passed, Fresh
<1>6. counter \in Nat /\ calls \in Nat /\ Top \in Nat /\ StartsBelow(Top)
  BY TopIs DEF TypeOK, Nid
<1>7. ASSUME Untouched, UNCHANGED <<idVars, calls>> PROVE NumberedLog'
  BY <1>1, <1>7 DEF Untouched, logVars, NumberedLog, Passed
<1>8. ASSUME NEW nid \in {0} \cup Known, NEW timeout \in Timeouts, Notify(nid, timeout)
      PROVE  Numbered'
  <2> PICK last \in Nat : last = Len(list) + 1
    BY DEF TypeOK
  <2>1. /\ calls' = calls + 1 /\ calls < MaxCalls /\ Untouched /\ UNCHANGED execVars
        /\ Waiting' = Waiting \cup {last} /\ \A k \in Waiting : k < last
        /\ \A k \in DOMAIN list : list'[k] = list[k]
    BY <1>8, NotifyQueues
  <2>2. PICK n : /\ list'[last] = Broadcast(n)
                 /\ n.call = calls + 1 /\ n.replaces = nid
                 /\ n.id = IF nid = 0 THEN FreshId ELSE nid
    <3> DEFINE m == [call |-> calls + 1, id |-> IF nid = 0 THEN FreshId ELSE nid, time |-> now,
                     read |-> FALSE, closed |-> FALSE, replaces |-> nid, timeout |-> timeout]
    <3>1. list'[last] = Broadcast(m)
      BY <1>8, NotifyQueues
    <3>2. m.call = calls + 1 /\ m.replaces = nid /\ m.id = IF nid = 0 THEN FreshId ELSE nid
      OBVIOUS
    <3> HIDE DEF m
    <3> QED  BY <3>1, <3>2
  <2>3. list'[last].event = n
    BY <2>2 DEF Broadcast
  <2>4. nid \in 0 .. Top + calls
    BY <1>1, <1>6 DEF StartsBelow, Known
  <2>5. FreshId = counter + 1
    BY <1>1, <1>6, <2>1 DEF FreshId, StartsBelow
  <2>6. /\ counter' = IF nid = 0 THEN counter + 1 ELSE counter
        /\ issued' = IF nid = 0 THEN issued \cup {counter + 1} ELSE issued
        /\ ahead' = IF nid > counter THEN ahead \cup {nid} ELSE ahead
    BY <1>6, <1>8, <2>5 DEF Notify
  <2>7. n.call = calls + 1 /\ n.replaces = nid /\ n.id = IF nid = 0 THEN counter + 1 ELSE nid
    BY <2>2, <2>5
  <2>8. last \in Nat /\ Waiting \subseteq Nat /\ Waiting \subseteq DOMAIN list
    BY DEF TypeOK, Waiting
  <2>9. /\ counter' \in Nat /\ counter <= counter' /\ counter' <= Top + calls'
        /\ ahead \subseteq ahead' /\ UNCHANGED <<buffer, disk>>
    BY <1>1, <1>6, <2>1, <2>6 DEF Untouched, logVars
  <2>10. issued' \subseteq 0 .. Top + calls'
    <3>1. 0 .. Top + calls \subseteq 0 .. Top + calls' /\ counter + 1 \in 0 .. Top + calls'
      BY <1>1, <1>6, <2>1
    <3> QED  BY <1>1, <2>6, <3>1
  <2>11. \A m \in Notification : /\ Passed(m) => Passed(m)'
                                 /\ Fresh(m)' => Fresh(m)
                                 /\ Fits(m) => Fits(m)'
    <3>1. \A m \in Notification : m.id \in Nat
      BY DEF Notification, Nid
    <3>2. \A m \in Notification : m.id <= counter => m.id <= counter'
      BY <1>6, <2>9, <3>1
    <3>3. \A m \in Notification : (Passed(m) => Passed(m)') /\ (Fresh(m)' => Fresh(m))
      BY <2>9, <3>2 DEF Passed, Fresh
    <3> QED  BY <2>9, <3>3 DEF Fits
  <2>12. NumberedLog'
    <3>1. \A i \in DOMAIN buffer : buffer[i] \in Notification
      BY DEF TypeOK
    <3>2. \A i \in DOMAIN buffer : Own(buffer[i]) /\ Passed(buffer[i])'
      <4> SUFFICES ASSUME NEW i \in DOMAIN buffer, NEW m \in Notification, m = buffer[i]
                   PROVE  Own(m) /\ Passed(buffer[i])'
        BY <3>1
      <4>1. Own(m) /\ Passed(m)'
        BY <1>1, <2>11
      <4> QED  BY <2>9, <4>1 DEF Passed
    <3>3. OneIdBut(buffer', ahead') /\ OneIdBut(disk.logs', ahead')
      BY <1>1, <2>9 DEF OneIdBut
    <3> QED  BY <1>1, <2>9, <2>10, <3>2, <3>3 DEF NumberedLog
  <2>13. Fits(n)'
    <3>1. Own(n)
      BY <1>1, <1>6, <2>4, <2>7 DEF Own
    <3>2. Passed(n)' /\ n.replaces \in {0, n.id}
      BY <1>6, <2>4, <2>6, <2>7 DEF Passed
    <3>3. Fresh(n)' => n.id \notin Ids(buffer)
      <4>1. Fresh(n)' => n.id = counter + 1 /\ counter + 1 \notin ahead
        BY <2>7, <2>9 DEF Fresh
      <4>2. \A i \in DOMAIN buffer : buffer[i].id <= counter \/ buffer[i].id \in ahead
        BY <1>1 DEF Passed
      <4>3. counter + 1 \notin ahead => counter + 1 \notin Ids(buffer)
        BY <1>6, <4>2 DEF Ids
      <4> QED  BY <4>1, <4>3
    <3> QED  BY <2>9, <3>1, <3>2, <3>3 DEF Fits
  <2>14. \A k \in Waiting : list'[k] = list[k]
    BY <2>1, <2>8
  <2>15. \A m \in Notification : Fits(m) /\ Fresh(n)' => m.id # n.id
    <3>1. Fresh(n)' => n.id = counter + 1 /\ counter + 1 \notin ahead
      BY <2>7, <2>9 DEF Fresh
    <3>2. \A m \in Notification : m.id \in Nat
      BY DEF Notification, Nid
    <3> QED  BY <1>6, <3>1, <3>2 DEF Fits, Passed
  <2>16. \A k \in Waiting' : Fits(list[k].event)'
    <3>1. ASSUME NEW k \in Waiting, NEW m \in Notification, m = list[k].event, Fits(m)'
          PROVE  Fits(list[k].event)'
      BY <2>14, <3>1
    <3>2. \A k \in Waiting : Fits(list[k].event)'
      BY <1>2, <2>11, <3>1
    <3>3. Fits(list[last].event)'
      BY <2>3, <2>13
    <3> QED  BY <2>1, <3>2, <3>3
  <2>17. \A k \in Waiting : Fresh(list[k].event)' => Fresh(list[k].event)
    <3> SUFFICES ASSUME NEW k \in Waiting, NEW m \in Notification, m = list[k].event,
                        Fresh(list[k].event)'
                 PROVE  Fresh(m)
      BY <1>2
    <3>1. Fresh(m)'
      BY <2>14 DEF Fresh
    <3> QED  BY <2>11, <3>1
  <2>18. Fresh(list[last].event)' => Fresh(n)'
    BY <2>3 DEF Fresh
  <2>19. \A k, l \in Waiting' :
           k < l /\ Fresh(list[l].event)' => list'[k].event.id # list'[l].event.id
    <3>1. \A k \in Waiting' : k # last => k \in Waiting
      BY <2>1
    <3>2. \A k \in Waiting' : ~ (last < k)
      BY <2>1, <2>8
    <3>3. \A k \in Waiting : Fresh(list[last].event)' => list'[k].event.id # n.id
      BY <1>2, <2>14, <2>15, <2>18
    <3>4. \A k, l \in Waiting :
            k < l /\ Fresh(list[l].event)' => list'[k].event.id # list'[l].event.id
      BY <1>3, <2>14, <2>17
    <3> QED  BY <2>3, <3>1, <3>2, <3>3, <3>4
  <2>20. UNCHANGED <<at, job>>
    BY <2>1 DEF execVars
  <2>21. Executing("broadcast")' =>
          /\ Fits(job.event)'
          /\ \A k \in Waiting' : Fresh(list[k].event)' => job'.event.id # list'[k].event.id
    <3> SUFFICES ASSUME Executing("broadcast")
                 PROVE  /\ Fits(job.event)'
                        /\ \A k \in Waiting' :
                             Fresh(list[k].event)' => job'.event.id # list'[k].event.id
      BY <2>20 DEF Executing
    <3>1. PICK m \in Notification : m = job.event
      BY OrderTypes
    <3>2. Fits(m) /\ \A k \in Waiting : Fresh(list[k].event) => m.id # list[k].event.id
      BY <1>4, <3>1
    <3>3. Fits(job.event)'
      BY <2>11, <2>20, <3>1, <3>2
    <3>4. \A k \in Waiting : Fresh(list[k].event)' => m.id # list'[k].event.id
      BY <2>14, <2>17, <3>2
    <3>5. Fresh(list[last].event)' => m.id # n.id
      BY <2>15, <2>18, <3>2
    <3> QED  BY <2>1, <2>3, <2>20, <3>1, <3>3, <3>4, <3>5
  <2> QED  BY <2>12, <2>16, <2>19, <2>21 DEF Numbered
<1>9. ASSUME NEW j, Asks(j) PROVE Numbered'
  <2>1. UNCHANGED <<at, job, calls, idVars>> /\ Untouched
    BY <1>9 DEF Asks, execVars
  <2>2. Waiting' = Waiting /\ \A k \in Waiting : list'[k] = list[k]
    BY <1>9, AskedQueues
  <2>3. Executing("broadcast")' => Executing("broadcast")
    BY <2>1 DEF Executing
  <2>4. \A n : (Fits(n)' <=> Fits(n)) /\ (Fresh(n)' <=> Fresh(n))
    BY <1>5, <2>1
  <2>5. NumberedLog'
    BY <1>7, <2>1
  <2> QED  BY <1>2, <1>3, <1>4, <2>1, <2>2, <2>3, <2>4, <2>5 DEF Numbered
<1>10. CASE Pops
  <2>1. UNCHANGED <<calls, idVars>> /\ Untouched
    BY <1>10 DEF Pops
  <2>2. /\ job' = list[1] /\ (job'.cmd = "broadcast" => 1 \in Waiting)
        /\ \A k \in Waiting' : k + 1 \in Waiting /\ k \in Nat \ {0} /\ list'[k] = list[k + 1]
    BY <1>10, PoppedQueues DEF Waiting
  <2>3. \A n : (Fits(n)' <=> Fits(n)) /\ (Fresh(n)' <=> Fresh(n))
    BY <1>5, <2>1
  <2>4. NumberedLog'
    BY <1>7, <2>1
  <2>5. \A k \in Waiting' : Fits(list[k].event)'
    <3>1. \A k \in Waiting' : Fits(list[k + 1].event) /\ list'[k] = list[k + 1]
      BY <1>2, <2>2
    <3> QED  BY <2>3, <3>1
  <2>6. \A k \in Waiting' : Fresh(list[k].event)' => Fresh(list[k + 1].event)
    BY <2>2, <2>3
  <2>7. \A k, l \in Waiting' :
           k < l /\ Fresh(list[l].event)' => list'[k].event.id # list'[l].event.id
    <3>1. \A k, l \in Waiting' : k < l => k + 1 \in Waiting /\ l + 1 \in Waiting /\ k + 1 < l + 1
      BY <2>2
    <3> QED  BY <1>3, <2>2, <2>6, <3>1
  <2>8. Executing("broadcast")' =>
          /\ Fits(job.event)'
          /\ \A k \in Waiting' : Fresh(list[k].event)' => job'.event.id # list'[k].event.id
    <3>1. Executing("broadcast")' => 1 \in Waiting
      BY <2>2 DEF Executing
    <3>2. \A k \in Waiting' : k + 1 \in Waiting /\ 1 < k + 1
      BY <2>2
    <3> QED  BY <1>2, <1>3, <2>2, <2>3, <2>6, <3>1, <3>2
  <2> QED  BY <2>4, <2>5, <2>7, <2>8 DEF Numbered
<1>11. CASE Works
  <2>1. UNCHANGED <<list, calls, idVars>> /\ Waiting' = Waiting
    BY <1>11 DEF Works, Waiting
  <2>2. Executing("broadcast")' => Executing("broadcast") /\ job' = job /\ Untouched
    BY <1>11 DEF Works, Executing
  <2>3. ASSUME Ids(buffer') \subseteq Ids(buffer) \cup (IF Admits THEN {job.event.id} ELSE {}),
               /\ OneIdBut(buffer', ahead) /\ OneIdBut(disk.logs', ahead)
               /\ \A i \in DOMAIN buffer' : Own(buffer'[i]) /\ Passed(buffer[i])'
               /\ \A i \in DOMAIN disk.logs' : Own(disk.logs'[i])
        PROVE  Numbered'
    <3>1. \A k \in Waiting : Fits(list[k].event)'
      <4>1. \A k \in Waiting : Admits /\ Fresh(list[k].event) => job.event.id # list[k].event.id
        BY <1>4 DEF Admits
      <4> QED  BY <1>2, <2>1, <2>3, <4>1 DEF Fits, Passed, Fresh
    <3>2. Executing("broadcast")' => Fits(job.event)'
      BY <1>4, <1>5, <2>1, <2>2
    <3>3. NumberedLog'
      BY <1>1, <2>1, <2>3 DEF NumberedLog
    <3>4. \A k \in Waiting : Fresh(list[k].event)' <=> Fresh(list[k].event)
      BY <2>1 DEF Fresh
    <3> QED  BY <1>3, <1>4, <2>1, <2>2, <3>1, <3>2, <3>3, <3>4 DEF Numbered
  <2>4. CASE Admits
    <3>1. /\ buffer' = Admit(buffer, job.event) /\ job.event \in Notification /\ UNCHANGED disk
          /\ Fits(job.event) /\ buffer \in Seq(Notification)
      BY <1>4, <2>4 DEF Admits, TypeOK
    <3>2. /\ OneIdBut(buffer', ahead)
          /\ \A k \in DOMAIN buffer' : \/ buffer'[k] = job.event
                                       \/ \E i \in DOMAIN buffer : buffer'[k] = buffer[i]
      BY <1>1, <3>1, AdmitIds DEF Fits, Fresh
    <3>3. Ids(buffer') \subseteq Ids(buffer) \cup {job.event.id}
      BY <3>2 DEF Ids
    <3>4. \A k \in DOMAIN buffer' : Own(buffer'[k]) /\ Passed(buffer[k])'
      BY <1>1, <2>1, <3>1, <3>2 DEF Fits, Passed
    <3> QED  BY <1>1, <2>3, <2>4, <3>1, <3>2, <3>3, <3>4
  <2>5. CASE Closes \/ OnlyReads
    <3>1. Marked(buffer, buffer') /\ UNCHANGED disk
      BY <2>5 DEF Closes, OnlyReads
    <3>2. Ids(buffer') = Ids(buffer)
      BY <3>1, MarkedCalls
    <3>3. OneIdBut(buffer', ahead)
      BY <1>1, <3>1 DEF Marked, OneIdBut
    <3>4. \A i \in DOMAIN buffer' : Own(buffer'[i]) /\ Passed(buffer[i])'
      BY <1>1, <2>1, <3>1 DEF Marked, Own, Passed
    <3> QED  BY <1>1, <2>3, <3>1, <3>2, <3>3, <3>4
  <2>6. CASE Writes
    <3>1. UNCHANGED buffer /\ disk.logs' \in {<<>>, buffer}
      BY <2>6 DEF Writes, Torn, Saved
    <3>2. OneIdBut(disk.logs', ahead) /\ \A i \in DOMAIN disk.logs' : Own(disk.logs'[i])
      BY <1>1, <3>1 DEF OneIdBut
    <3>3. \A i \in DOMAIN buffer' : Own(buffer'[i]) /\ Passed(buffer[i])'
      BY <1>1, <2>1, <3>1 DEF Passed
    <3> QED  BY <1>1, <2>3, <3>1, <3>2, <3>3
  <2>7. ~Restart
    BY <1>11 DEF Works, Restart, TypeOK
  <2> QED  BY <2>4, <2>5, <2>6, <2>7, LogSteps
<1>12. CASE Restart
  <2>1. /\ buffer' = disk.logs /\ disk.logs' = disk.logs
        /\ UNCHANGED <<calls, issued, ahead>>
    BY <1>1, <1>12, LoadedIsFile DEF Restart
  <2>2. Waiting' = {} /\ ~Executing("broadcast")'
    BY <1>12 DEF Restart, Waiting, Executing
  <2>3. disk.logs \in Seq(Notification) /\ counter' \in Nid /\ IsLargest(counter', Ids(disk.logs))
    BY <1>12, <2>1 DEF TypeOK, Disk, Restart
  <2>4. \A i \in DOMAIN disk.logs : disk.logs[i].call <= calls
    BY DEF Order, Logged, Calls
  <2>5. counter' <= Top + calls /\ \A i \in DOMAIN disk.logs : disk.logs[i].id <= counter'
    BY <1>1, <1>6, <2>3, <2>4, CounterCovers
  <2>6. NumberedLog'
    BY <1>1, <2>1, <2>5 DEF NumberedLog, Passed
  <2> QED  BY <2>2, <2>6 DEF Numbered
<1> QED  BY <1>8, <1>9, <1>10, <1>11, <1>12, QueueSteps

\* No notification has the id 0, and only ids that were replaced ahead of the
\* counter are in the log twice, though replacements queue up, race with evictions
\* and closes, and follow crashes (dbus.rs:114-120, broadcast.rs:24-26); clients
\* may make ids up, as long as the counter cannot get to 2^32.
THEOREM IdsAreUnique == NoWrap => (Spec => []UniqueIds)
<1> SUFFICES ASSUME NoWrap PROVE Spec => []UniqueIds
  OBVIOUS
<1>1. ASSUME Numbered PROVE UniqueIds
  <2>1. OneIdBut(buffer, ahead) /\ \A i \in DOMAIN buffer : Own(buffer[i])
    BY <1>1 DEF Numbered, NumberedLog
  <2>2. 0 \notin Ids(buffer)
    BY <2>1 DEF Own, Ids
  <2> QED  BY <2>1, <2>2 DEF OneIdBut, UniqueIds
<1> QED  BY <1>1, InitType, StepType, OrderInit, OrderStep, NumberedInit, NumberedStep, PTL DEF Spec

-----------------------------------------------------------------------------
(* Expiry.  The double check of Close is exact for timeouts that fit a u16. *)

Fitting(n) == n.timeout < MillisMod

\* --auto-close, and clients ask for at most 65535 ms.
ShortTimeouts ==
    /\ AutoClose
    /\ \A t \in Timeouts : t < MillisMod
    /\ \A d \in InitialDisks : \A i \in DOMAIN d.logs : Fitting(d.logs[i])

AllFit ==
    /\ \A i \in DOMAIN buffer : Fitting(buffer[i])
    /\ \A i \in DOMAIN disk.logs : Fitting(disk.logs[i])
    /\ \A k \in Waiting : Fitting(list[k].event)
    /\ Executing("broadcast") => Fitting(job.event)

LEMMA AllFitInit == ShortTimeouts /\ Init => AllFit
<1> SUFFICES ASSUME ShortTimeouts, Init PROVE AllFit
  OBVIOUS
<1>1. PICK d \in InitialDisks : buffer = LoadLogs(d) /\ disk = AfterLoad(d)
  BY DEF Init
<1>2. buffer = d.logs /\ disk.logs = d.logs
  BY <1>1, LoadedIsFile DEF FilesAssumption
<1>3. \A i \in DOMAIN d.logs : Fitting(d.logs[i])
  BY DEF ShortTimeouts
<1>4. Waiting = {} /\ ~Executing("broadcast")
  BY DEF Init, Mail!MailInit, Waiting, Executing
<1> QED  BY <1>2, <1>3, <1>4 DEF AllFit

LEMMA AllFitStep ==
    ASSUME ShortTimeouts PROVE TypeOK /\ Order /\ AllFit /\ [Next]_vars => AllFit'
<1> SUFFICES ASSUME TypeOK, Order, AllFit, [Next]_vars PROVE AllFit'
  OBVIOUS
<1>1. /\ \A i \in DOMAIN buffer' : Fitting(buffer'[i])
      /\ \A i \in DOMAIN disk.logs' : Fitting(disk.logs'[i])
  <2>1. CASE Admits
    <3>1. /\ buffer' = Admit(buffer, job.event) /\ buffer \in Seq(Notification)
          /\ job.event \in Notification /\ Fitting(job.event) /\ UNCHANGED disk
      BY <2>1 DEF Admits, TypeOK, AllFit
    <3>2. \A k \in DOMAIN buffer' : \/ buffer'[k] = job.event
                                    \/ \E i \in DOMAIN buffer : buffer'[k] = buffer[i]
      BY <3>1, AdmitFrom
    <3> QED  BY <3>1, <3>2 DEF AllFit
  <2>2. CASE Closes \/ OnlyReads
    BY <2>2 DEF Closes, OnlyReads, Marked, AllFit, Fitting
  <2>3. CASE Writes
    BY <2>3 DEF Writes, Torn, Saved, AllFit
  <2>4. CASE Restart
    BY <2>4, LoadedIsFile DEF Restart, AllFit, Order
  <2> QED  BY <2>1, <2>2, <2>3, <2>4, LogSteps
<1>2. ASSUME NEW nid \in {0} \cup Known, NEW timeout \in Timeouts, Notify(nid, timeout)
      PROVE  AllFit'
  <2> PICK last \in Nat : last = Len(list) + 1
    BY DEF TypeOK
  <2>1. /\ Waiting' = Waiting \cup {last} /\ UNCHANGED execVars
        /\ \A k \in DOMAIN list : list'[k] = list[k]
    BY <1>2, NotifyQueues
  <2>2. Fitting(list'[last].event)
    <3> DEFINE n == [call |-> calls + 1, id |-> IF nid = 0 THEN FreshId ELSE nid, time |-> now,
                     read |-> FALSE, closed |-> FALSE, replaces |-> nid, timeout |-> timeout]
    <3>1. list'[last] = Broadcast(n)
      BY <1>2, NotifyQueues
    <3>2. Broadcast(n).event = n /\ n.timeout = timeout /\ timeout < MillisMod
      BY DEF Broadcast, ShortTimeouts
    <3> HIDE DEF n
    <3> QED  BY <3>1, <3>2 DEF Fitting
  <2>3. \A k \in Waiting : list'[k] = list[k]
    BY <2>1 DEF Waiting
  <2>4. UNCHANGED <<at, job>>
    BY <2>1 DEF execVars
  <2> QED  BY <1>1, <2>1, <2>2, <2>3, <2>4 DEF AllFit, Executing
<1>3. ASSUME NEW j, Asks(j) PROVE AllFit'
  <2>1. Waiting' = Waiting /\ \A k \in Waiting : list'[k] = list[k]
    BY <1>3, AskedQueues
  <2>2. UNCHANGED <<at, job>>
    BY <1>3 DEF Asks, execVars
  <2> QED  BY <1>1, <2>1, <2>2 DEF AllFit, Executing
<1>4. CASE Pops
  BY <1>1, <1>4, PoppedQueues DEF AllFit, Executing, Waiting
<1>5. CASE Works
  BY <1>1, <1>5 DEF Works, AllFit, Executing, Waiting
<1>6. CASE Restart
  BY <1>1, <1>6 DEF Restart, AllFit, Executing, Waiting
<1> QED  BY <1>2, <1>3, <1>4, <1>5, <1>6, QueueSteps

LEMMA MillisExact ==
    ASSUME NEW t \in Int, HasTimeout(t), t < MillisMod
    PROVE  Millis(t) = IF t = -1 THEN DefaultTimeout ELSE t
<1>1. CASE t = -1
  BY <1>1 DEF Millis
<1>2. CASE t # -1
  <2>1. t \in 0 .. MillisMod - 1 /\ MillisMod \in Nat \ {0}
    BY <1>2 DEF HasTimeout, ConfigAssumption
  <2>2. t % MillisMod = t
    BY <2>1
  <2> QED  BY <1>2, <2>2 DEF Millis
<1> QED  BY <1>1, <1>2

\* A notification is not expired before its own time, whatever thread of a
\* notification that it replaced wakes up first (close.rs:69-89).
THEOREM ExpiredWhenDue == ShortTimeouts => (Spec => ExpiresWhenDue)
<1> SUFFICES ASSUME ShortTimeouts PROVE Spec => ExpiresWhenDue
  OBVIOUS
<1> DEFINE Over(i) == /\ HasTimeout(buffer[i].timeout)
                      /\ now >= buffer[i].time + (IF buffer[i].timeout = -1 THEN DefaultTimeout
                                                   ELSE buffer[i].timeout)
           InTime == \A i \in DOMAIN buffer :
                Executing("close") /\ job.reason = "expired" /\ restarts' = restarts
                    /\ ~buffer[i].closed /\ buffer'[i].closed => Over(i)
<1>1. ASSUME TypeOK, AllFit, [Next]_vars PROVE InTime
  <2> SUFFICES ASSUME NEW i \in DOMAIN buffer, Executing("close"), job.reason = "expired",
                      restarts' = restarts, ~buffer[i].closed, buffer'[i].closed
               PROVE  Over(i)
    OBVIOUS
  <2>1. Closes
    <3>1. ~Admits
      BY DEF Admits, Executing
    <3>2. ~OnlyReads /\ ~Writes
      BY DEF OnlyReads, Writes, SameClosed
    <3>3. ~Restart
      BY <1>1 DEF Restart, TypeOK
    <3> QED  BY <1>1, <3>1, <3>2, <3>3, LogSteps
  <2>2. buffer \in Seq(Notification) /\ now \in Nat
    BY <1>1 DEF TypeOK
  <2>3. i = Position(buffer, job.id) /\ i # 0
    BY <2>1, <2>2, CloseMarks DEF Closes
  <2>4. buffer[i] \in Notification /\ Fitting(buffer[i])
    BY <1>1, <2>2 DEF AllFit
  <2>5. ~NotDue(buffer[i], now)
    BY <2>1, <2>3 DEF Closes, ExecuteClose, CloseEarly
  <2>6. /\ HasTimeout(buffer[i].timeout)
        /\ ~ (now < Millis(buffer[i].timeout) + buffer[i].time)
    BY <2>5 DEF NotDue, ShortTimeouts
  <2>7. buffer[i].timeout \in Int /\ buffer[i].time \in Nat /\ buffer[i].timeout < MillisMod
    BY <2>4 DEF Notification, Fitting
  <2>8. Millis(buffer[i].timeout) = IF buffer[i].timeout = -1 THEN DefaultTimeout
                                    ELSE buffer[i].timeout
    BY <2>6, <2>7, MillisExact
  <2>9. DefaultTimeout \in Nat
    BY DEF ConfigAssumption
  <2> QED  BY <2>2, <2>6, <2>7, <2>8, <2>9
<1>2. TypeOK /\ AllFit /\ [Next]_vars => [InTime]_vars
  BY <1>1
<1> QED  BY <1>2, InitType, StepType, OrderInit, OrderStep, AllFitInit, AllFitStep, PTL
         DEF Spec, ExpiresWhenDue

-----------------------------------------------------------------------------
(* Auto-close.  A thread outlives the notification it was started for when  *)
(* that is replaced, so what keeps a notification armed is not its thread   *)
(* but that no thread with its id can use up the last chance to close it.   *)

\* No notification comes from the future.
Timely ==
    /\ \A k \in Waiting : list[k].event.time <= now
    /\ Executing("broadcast") => job.event.time <= now

LEMMA TimelyInit == Init => Timely
BY DEF Init, Mail!MailInit, Timely, Waiting, Executing

LEMMA TimelyStep == TypeOK /\ Timely /\ [Next]_vars => Timely'
<1> SUFFICES ASSUME TypeOK, Timely, [Next]_vars PROVE Timely'
  OBVIOUS
<1>1. now \in Nat /\ now' \in Nat /\ now <= now'
  <2>1. now' = now \/ now' = now + 1
    BY DEF Next, Client, Notify, CloseNotification, ClientRequest, Tick, SignalManager,
        DeliverUnread, DeliverRead, TimerFires, ManagerStep, Receive, Execute, ExecuteBroadcast,
        ExecuteCloseDropped, ExecuteCloseUnknown, ExecuteClose, ExecuteRead, ExecuteQuery,
        ExecuteSignal, ExecuteAcknowledge, Finish, Flush, FinishWrite, Reply, WriteFails,
        SendFails, Restart, outVars, vars
  <2> QED  BY <2>1 DEF TypeOK
<1>2. /\ \A k \in Waiting : list[k].event.time \in Nat /\ list[k].event.time <= now'
      /\ Executing("broadcast") => job.event.time \in Nat /\ job.event.time <= now'
  <2>1. \A n \in Notification : n.time \in Nat
    BY DEF Notification
  <2>2. \A k \in Waiting : list[k].event.time \in Nat
    BY <2>1, OrderTypes
  <2>3. Executing("broadcast") => job.event.time \in Nat
    BY <2>1, OrderTypes
  <2> QED  BY <1>1, <2>2, <2>3 DEF Timely
<1>3. ASSUME NEW nid \in {0} \cup Known, NEW timeout \in Timeouts, Notify(nid, timeout)
      PROVE  Timely'
  <2> PICK last : last = Len(list) + 1
    OBVIOUS
  <2>1. /\ Waiting' = Waiting \cup {last} /\ UNCHANGED execVars
        /\ \A k \in DOMAIN list : list'[k] = list[k]
    BY <1>3, NotifyQueues
  <2>2. list'[last].event.time = now
    <3> DEFINE n == [call |-> calls + 1, id |-> IF nid = 0 THEN FreshId ELSE nid, time |-> now,
                     read |-> FALSE, closed |-> FALSE, replaces |-> nid, timeout |-> timeout]
    <3>1. list'[last] = Broadcast(n)
      BY <1>3, NotifyQueues
    <3>2. Broadcast(n).event.time = now
      BY DEF Broadcast
    <3> HIDE DEF n
    <3> QED  BY <3>1, <3>2
  <2>3. \A k \in Waiting : list'[k] = list[k]
    BY <2>1 DEF Waiting
  <2>4. UNCHANGED <<at, job>>
    BY <2>1 DEF execVars
  <2> QED  BY <1>1, <1>2, <2>1, <2>2, <2>3, <2>4 DEF Timely, Executing
<1>4. ASSUME NEW j, Asks(j) PROVE Timely'
  <2>1. Waiting' = Waiting /\ \A k \in Waiting : list'[k] = list[k]
    BY <1>4, AskedQueues
  <2>2. UNCHANGED <<at, job>>
    BY <1>4 DEF Asks, execVars
  <2> QED  BY <1>2, <2>1, <2>2 DEF Timely, Executing
<1>5. CASE Pops
  BY <1>2, <1>5, PoppedQueues DEF Timely, Executing, Waiting
<1>6. CASE Works
  BY <1>2, <1>6 DEF Works, Timely, Executing, Waiting
<1>7. CASE Restart
  BY <1>7 DEF Restart, Timely, Executing, Waiting
<1> QED  BY <1>3, <1>4, <1>5, <1>6, <1>7, QueueSteps

\* An entry of the log is the notification just broadcast, or was there before.
LEMMA EntryFrom ==
    ASSUME TypeOK, [Next]_vars, ~Restart, NEW k \in DOMAIN buffer'
    PROVE  \/ ExecuteBroadcast /\ job.event \in Notification /\ buffer'[k] = job.event
           \/ \E i \in DOMAIN buffer :
                /\ buffer'[k].call = buffer[i].call /\ buffer'[k].id = buffer[i].id
                /\ buffer'[k].time = buffer[i].time /\ buffer'[k].timeout = buffer[i].timeout
                /\ buffer[i].closed => buffer'[k].closed
                /\ Closes /\ i = Position(buffer, job.id) => buffer'[k].closed
<1>1. buffer \in Seq(Notification)
  BY DEF TypeOK
<1>2. CASE Admits /\ ExecuteBroadcast
  <2>1. job.event \in Notification /\ buffer' = Admit(buffer, job.event) /\ ~Closes
    BY <1>2 DEF Admits, Closes, ExecuteClose, Executing
  <2>2. buffer'[k] = job.event \/ \E i \in DOMAIN buffer : buffer'[k] = buffer[i]
    BY <1>1, <2>1, AdmitFrom
  <2> QED  BY <1>2, <2>1, <2>2
<1>3. CASE Closes
  <2>1. k \in DOMAIN buffer /\ Marked(buffer, buffer')
    BY <1>3 DEF Closes, Marked
  <2>2. k = Position(buffer, job.id) => buffer'[k].closed
    BY <1>1, <1>3, CloseMarks DEF Closes
  <2> QED  BY <2>1, <2>2 DEF Marked
<1>4. CASE OnlyReads /\ ~Closes
  BY <1>4 DEF OnlyReads, Marked
<1>5. CASE Writes /\ (Flush \/ FinishWrite)
  <2>1. buffer' = buffer /\ ~Closes
    BY <1>5 DEF Writes, Flush, FinishWrite, Closes, ExecuteClose, Executing
  <2> QED  BY <2>1
<1> QED  BY <1>2, <1>3, <1>4, <1>5, LogSteps

LEMMA AppendedJob ==
    ASSUME TypeOK, NEW j \in Job, list' = Append(list, j)
    PROVE  \E k \in DOMAIN list' : list'[k] = j
<1>1. list \in Seq(Job) /\ Len(list) \in Nat
  BY DEF TypeOK
<1>2. Append(list, j)[Len(list) + 1] = j /\ DOMAIN Append(list, j) = 1 .. Len(list) + 1
  BY <1>1
<1>3. Len(list) + 1 \in 1 .. Len(list) + 1
  BY <1>1
<1> QED  BY <1>2, <1>3

\* What is armed stays so, until it is closed (close.rs:58-89).
LEMMA ArmedStays ==
    ASSUME TypeOK, [Next]_vars, ~Restart, AutoClose,
           NEW n \in Notification, NEW i \in DOMAIN buffer,
           \A j \in DOMAIN buffer : buffer[j].id = n.id => j = i,
           n = buffer[i], ~n.closed, HasTimeout(n.timeout), WillExpire(n)
    PROVE  WillExpire(n)' \/ (Closes /\ i = Position(buffer, job.id))
<1> DEFINE last == CloseJob(n.id, "expired", FALSE)
           Coming == last \in {list[k] : k \in DOMAIN list}
           Kept == \A k \in DOMAIN list : k \in DOMAIN list' /\ list'[k] = list[k]
<1>1. /\ list \in Seq(Job) /\ buffer \in Seq(Notification) /\ now \in Nat
      /\ timers \subseteq [call : Nat, id : Nid, wake : Nat]
  BY DEF TypeOK
<1>2. Due(n) \in Nat
  <2>1. n.time \in Nat /\ n.timeout \in Int
    BY DEF Notification
  <2>2. Millis(n.timeout) \in Nat
    BY <2>1, MillisType DEF HasTimeout
  <2> QED  BY <2>1, <2>2 DEF Due
<1>3. \A j : list' = list \/ list' = Append(list, j) => Kept
  BY <1>1
<1>4. last.cmd = "close" /\ last.reason = "expired" /\ last.id = n.id /\ ~last.force
  BY DEF CloseJob
<1>5. ASSUME Kept PROVE Coming => Coming'
  BY <1>5
<1>6. \/ \E t \in timers : t.id = n.id /\ t.wake >= Due(n)
      \/ now >= Due(n) /\ Coming
      \/ now >= Due(n) /\ at = "execute" /\ job = last
  BY DEF WillExpire
<1>7. /\ (\E t \in timers' : t.id = n.id /\ t.wake >= Due(n)) => WillExpire(n)'
      /\ now' >= Due(n) /\ Coming' => WillExpire(n)'
      /\ now' >= Due(n) /\ at' = "execute" /\ job' = last => WillExpire(n)'
  BY DEF WillExpire, Due
<1> HIDE DEF last, Kept
<1>8. CASE \/ Client \/ SignalManager \/ UNCHANGED vars
           \/ \E r \in delivering : DeliverUnread(r) \/ DeliverRead(r)
  <2>1. UNCHANGED <<timers, now, at, job>>
    BY <1>8 DEF Client, Notify, CloseNotification, ClientRequest, SignalManager,
        DeliverUnread, DeliverRead, execVars, outVars, vars
  <2>2. list' = list \/ \E j : list' = Append(list, j)
    BY <1>8 DEF Client, Notify, CloseNotification, ClientRequest, SignalManager,
        DeliverUnread, DeliverRead, mailVars, vars, Mail!Push, Mail!PushAndSignal, Mail!Signal
  <2>3. Coming => Coming'
    BY <1>3, <1>5, <2>2
  <2> HIDE DEF Coming
  <2> QED  BY <1>6, <1>7, <2>1, <2>3
<1>9. ASSUME NEW t \in timers, TimerFires(t) PROVE WillExpire(n)'
  <2>1. /\ now >= t.wake /\ timers' = timers \ {t}
        /\ list' = Append(list, CloseJob(t.id, "expired", FALSE))
        /\ UNCHANGED <<now, at, job>>
    BY <1>9 DEF TimerFires, Mail!Push, execVars
  <2>2. Coming => Coming'
    BY <1>3, <1>5, <2>1
  <2>3. t.id = n.id /\ t.wake >= Due(n) => now >= Due(n) /\ Coming'
    <3>1. \E k \in DOMAIN list' : list'[k] = CloseJob(t.id, "expired", FALSE)
      <4>1. CloseJob(t.id, "expired", FALSE) \in Job
        BY <1>1, MadeJobs DEF Reason
      <4> QED  BY <2>1, <4>1, AppendedJob
    <3>2. t.id = n.id => Coming'
      BY <3>1 DEF last
    <3>3. t.wake >= Due(n) => now >= Due(n)
      BY <1>1, <1>2, <2>1
    <3> QED  BY <3>2, <3>3
  <2> HIDE DEF Coming
  <2> QED  BY <1>6, <1>7, <2>1, <2>2, <2>3
<1>10. CASE Tick
  <2>1. UNCHANGED <<timers, list, at, job>> /\ now' = now + 1
    BY <1>10 DEF Tick, mailVars, execVars, outVars
  <2>2. now >= Due(n) => now' >= Due(n)
    BY <1>1, <1>2, <2>1
  <2> QED  BY <1>6, <1>7, <2>1, <2>2
<1>11. CASE Receive
  <2>1. UNCHANGED <<timers, now>> /\ at = "recv"
    BY <1>11 DEF Receive, outVars
  <2>2. CASE list = <<>>
    <3>1. UNCHANGED list
      BY <1>11, <2>2 DEF Receive
    <3> QED  BY <1>6, <1>7, <2>1, <3>1
  <2>3. CASE list # <<>>
    <3>1. list' = Tail(list) /\ job' = Head(list) /\ at' = "execute"
      BY <1>11, <2>3 DEF Receive, AfterPop
    <3>2. Coming => job' = last \/ Coming'
      <4> SUFFICES ASSUME NEW k \in DOMAIN list, list[k] = last, k # 1
                   PROVE  Coming'
        BY <1>1, <2>3, <3>1
      <4>1. k - 1 \in DOMAIN Tail(list) /\ Tail(list)[k - 1] = list[k]
        BY <1>1, <2>3
      <4> QED  BY <3>1, <4>1 DEF last
    <3> HIDE DEF Coming
    <3> QED  BY <1>6, <1>7, <2>1, <3>1, <3>2
  <2> QED  BY <2>2, <2>3
<1>12. CASE Execute
  <2>1. at = "execute" /\ UNCHANGED <<list, now>>
    BY <1>12 DEF Execute, ExecuteBroadcast, ExecuteCloseDropped, ExecuteCloseUnknown,
        ExecuteClose, ExecuteRead, ExecuteQuery, ExecuteSignal, ExecuteAcknowledge,
        Executing, Finish, mailVars
  <2>2. timers \subseteq timers'
    BY <1>12 DEF Execute, ExecuteBroadcast, ExecuteCloseDropped, ExecuteCloseUnknown,
        ExecuteClose, ExecuteRead, ExecuteQuery, ExecuteSignal, ExecuteAcknowledge, outVars
  <2>3. ASSUME now >= Due(n), job = last
        PROVE  Closes /\ i = Position(buffer, job.id)
    <3>1. Position(buffer, job.id) = i
      <4>1. n.id \in Ids(buffer)
        BY DEF Ids
      <4> QED  BY <1>1, <1>4, <2>3, <4>1, PositionFinds
    <3>2. i # 0 /\ buffer[i] = n
      BY <1>1
    <3>3. ~CloseIgnored
      BY <3>1, <3>2 DEF CloseIgnored, QueryAnswer
    <3>4. ~CloseEarly
      <4>1. n.time \in Nat /\ Millis(n.timeout) \in Nat
        BY MillisType DEF HasTimeout, Notification
      <4>2. ~(now < Millis(n.timeout) + n.time)
        BY <1>1, <2>3, <4>1 DEF Due
      <4> QED  BY <3>1, <3>2, <4>2 DEF CloseEarly, NotDue
    <3>5. ExecuteClose
      BY <1>4, <1>12, <2>3, <3>3, <3>4 DEF Execute, ExecuteBroadcast, ExecuteCloseDropped,
          ExecuteCloseUnknown, ExecuteRead, ExecuteQuery, ExecuteSignal, ExecuteAcknowledge,
          Executing
    <3>6. ~Admits /\ ~Restart /\ ~(Writes /\ (Flush \/ FinishWrite))
      BY <3>5 DEF Admits, ExecuteClose, Executing, Flush, FinishWrite
    <3>7. Closes
      <4>1. Position(buffer, job.id) \in DOMAIN buffer
        BY <3>1
      <4>2. buffer' = MarkClosed(buffer, Position(buffer, job.id)) /\ UNCHANGED disk
        BY <3>5 DEF ExecuteClose, Finish
      <4>3. Marked(buffer, buffer')
        BY <1>1, <4>1, <4>2, CloseMarks
      <4> QED  BY <3>5, <4>1, <4>2, <4>3 DEF Closes
    <3> QED  BY <3>1, <3>7
  <2>4. Coming => Coming'
    BY <2>1 DEF last
  <2> HIDE DEF Coming
  <2> QED  BY <1>6, <1>7, <2>1, <2>2, <2>3, <2>4
<1>13. CASE Flush \/ FinishWrite \/ Reply \/ WriteFails \/ SendFails
  <2>1. UNCHANGED <<timers, now, list>> /\ at # "execute"
    BY <1>13 DEF Flush, FinishWrite, Reply, WriteFails, SendFails, mailVars, outVars
  <2> QED  BY <1>6, <1>7, <2>1
<1> QED  BY <1>8, <1>9, <1>10, <1>11, <1>12, <1>13 DEF Next, ManagerStep

LEMMA ArmedInit == Init => OpenIsArmed
<1> SUFFICES ASSUME Init, NEW i \in DOMAIN buffer, buffer[i].call > earlier PROVE FALSE
  BY DEF OpenIsArmed
<1>1. buffer \in Seq(Notification) /\ calls \in Nat /\ earlier = calls
  BY InitType DEF Init, TypeOK
<1>2. buffer[i].call \in Nat /\ buffer[i].call <= calls
  <2>1. buffer[i] \in Notification /\ buffer[i].call \in Calls(buffer)
    BY <1>1 DEF Calls
  <2> QED  BY <2>1 DEF Init, IsLargest, Notification
<1> QED  BY <1>1, <1>2

LEMMA ArmedStep ==
    TypeOK /\ Order /\ Numbered /\ Timely /\ OpenIsArmed /\ [Next]_vars => OpenIsArmed'
<1> SUFFICES ASSUME TypeOK, Order, Numbered, Timely, OpenIsArmed, [Next]_vars, AutoClose,
                    NEW k \in DOMAIN buffer', buffer'[k].call > earlier', ~buffer'[k].closed,
                    HasTimeout(buffer'[k].timeout), buffer'[k].id \notin ahead'
             PROVE  WillExpire(buffer[k])'
  BY DEF OpenIsArmed
<1>1. buffer \in Seq(Notification) /\ OneIdBut(buffer, ahead)
  BY DEF TypeOK, Numbered, NumberedLog
<1>2. ~Restart
  <2> SUFFICES ASSUME Restart PROVE FALSE
    OBVIOUS
  <2>1. buffer' = disk.logs /\ earlier' = calls /\ calls \in Nat
    BY LoadedIsFile DEF Restart, Order, TypeOK
  <2>2. buffer'[k].call <= calls /\ buffer'[k].call \in Nat
    BY <2>1, OrderTypes DEF Order, Logged, Calls
  <2> QED  BY <2>1, <2>2
<1>3. earlier' = earlier /\ ahead \subseteq ahead'
  BY <1>2 DEF Next, Client, Notify, CloseNotification, ClientRequest, Tick, SignalManager,
      DeliverUnread, DeliverRead, TimerFires, ManagerStep, Receive, Execute, ExecuteBroadcast,
      ExecuteCloseDropped, ExecuteCloseUnknown, ExecuteClose, ExecuteRead, ExecuteQuery,
      ExecuteSignal, ExecuteAcknowledge, Finish, Flush, FinishWrite, Reply, WriteFails,
      SendFails, countVars, vars
<1>4. ASSUME NEW n, n.id = buffer'[k].id, n.time = buffer'[k].time,
             n.timeout = buffer'[k].timeout, WillExpire(n)'
      PROVE  WillExpire(buffer[k])'
  BY <1>4 DEF WillExpire, Due
<1>5. CASE ExecuteBroadcast /\ job.event \in Notification /\ buffer'[k] = job.event
  <2> PICK n \in Notification : n = job.event
    BY <1>5
  <2>1. n.time <= now /\ now \in Nat /\ n.time \in Nat /\ n.timeout \in Int
    BY <1>5 DEF Timely, TypeOK, ExecuteBroadcast, Notification
  <2>2. StartsTimer(n) /\ Millis(n.timeout) \in Nat
    BY <1>5, <2>1, MillisType DEF StartsTimer, HasTimeout
  <2>3. [call |-> n.call, id |-> n.id, wake |-> now + Millis(n.timeout)] \in timers'
    BY <1>5, <2>2 DEF ExecuteBroadcast
  <2>4. now + Millis(n.timeout) >= Due(n)
    BY <2>1, <2>2 DEF Due
  <2>5. WillExpire(n)'
    BY <2>3, <2>4 DEF WillExpire, Due
  <2> QED  BY <1>4, <1>5, <2>5
<1>6. ASSUME NEW i \in DOMAIN buffer,
             buffer'[k].call = buffer[i].call, buffer'[k].id = buffer[i].id,
             buffer'[k].time = buffer[i].time, buffer'[k].timeout = buffer[i].timeout,
             ~buffer[i].closed, ~(Closes /\ i = Position(buffer, job.id))
      PROVE  WillExpire(buffer[k])'
  <2> PICK n \in Notification : n = buffer[i]
    BY <1>1
  <2>1. WillExpire(n) /\ n.id \notin ahead
    BY <1>3, <1>6 DEF OpenIsArmed
  <2>2. \A j \in DOMAIN buffer : buffer[j].id = n.id => j = i
    BY <1>1, <2>1 DEF OneIdBut
  <2>3. WillExpire(n)'
    BY <1>2, <1>6, <2>1, <2>2, ArmedStays
  <2> QED  BY <1>4, <1>6, <2>3
<1> QED  BY <1>2, <1>5, <1>6, EntryFrom

\* As long as the counter cannot get to 2^32, no notification of a session whose id
\* was not replaced ahead of the counter loses its last chance to be closed when its
\* time comes, though threads of what it replaced wake up early and Closes of its id
\* come late (broadcast.rs:36-61, close.rs:58-89).
THEOREM OpenStaysArmed == NoWrap => (Spec => []OpenIsArmed)
<1> SUFFICES ASSUME NoWrap PROVE Spec => []OpenIsArmed
  OBVIOUS
<1> QED  BY InitType, StepType, OrderInit, OrderStep, NumberedInit, NumberedStep,
            TimelyInit, TimelyStep, ArmedInit, ArmedStep, PTL DEF Spec

-----------------------------------------------------------------------------
(* Answers.                                                                 *)

LEMMA AnswerOfEntry ==
    ASSUME NEW S, NEW buf \in Seq(Notification), OneIdBut(buf, S),
           NEW k \in DOMAIN buf, buf[k].id \notin S
    PROVE  Position(buf, buf[k].id) = k /\ QueryAnswer(buf, buf[k].id) = buf[k].closed
<1>1. buf[k].id \in Ids(buf) /\ k # 0 /\ buf[k] \in Notification
  BY DEF Ids
<1>2. Position(buf, buf[k].id) = k
  BY <1>1, PositionFinds DEF OneIdBut
<1> QED  BY <1>1, <1>2 DEF QueryAnswer, Notification

\* Marks neither move an entry nor take a true answer back.
LEMMA AnswerOfMarked ==
    ASSUME NEW buf \in Seq(Notification), NEW new \in Seq(Notification), Marked(buf, new),
           NEW nid, QueryAnswer(buf, nid)
    PROVE  QueryAnswer(new, nid)
<1>1. nid \in Ids(buf)
  BY DEF QueryAnswer, Position
<1>2. nid \in Ids(new)
  BY <1>1 DEF Marked, Ids
<1> DEFINE i == Position(buf, nid)
           j == Position(new, nid)
<1>3. /\ i \in DOMAIN buf /\ buf[i].id = nid /\ \A k \in DOMAIN buf : buf[k].id = nid => i <= k
      /\ j \in DOMAIN new /\ new[j].id = nid /\ \A k \in DOMAIN new : new[k].id = nid => j <= k
  BY <1>1, <1>2, PositionFinds
<1>4. i = j
  <2>1. DOMAIN new = DOMAIN buf /\ \A k \in DOMAIN buf : new[k].id = buf[k].id
    BY DEF Marked
  <2>2. i \in Nat /\ j \in Nat
    BY <1>3
  <2>3. i <= j /\ j <= i
    BY <1>3, <2>1
  <2> HIDE DEF i, j
  <2> QED  BY <2>2, <2>3
<1>5. i # 0 /\ buf[i].closed
  BY DEF QueryAnswer
<1>6. new[i].closed
  BY <1>3, <1>5 DEF Marked
<1> QED  BY <1>4, <1>5, <1>6 DEF QueryAnswer

\* As long as the counter cannot get to 2^32 and --max is what it was, a true
\* answer is taken back only with the notification it was about, or where an id
\* replaced ahead of the counter is there twice (manager.rs:177-179 and 212-229).
THEOREM AnswersStayTrue == NoWrap /\ SameMax => (Spec => QueryTrueUntilGone)
<1> SUFFICES ASSUME NoWrap, SameMax PROVE Spec => QueryTrueUntilGone
  OBVIOUS
<1> DEFINE Gone(nid) ==
        /\ Executing("broadcast")
        /\ \/ job.event.replaces = nid
           \/ Len(buffer) = MaxLogs /\ buffer[MaxLogs].id = nid
           \/ nid \in ahead
           Kept == \A nid \in Ids(buffer) :
                QueryAnswer(buffer, nid) /\ ~QueryAnswer(buffer', nid) /\ restarts' = restarts
                    => Gone(nid)
<1>1. ASSUME TypeOK, Order, Numbered, WithinMax, [Next]_vars PROVE Kept
  <2> SUFFICES ASSUME NEW i \in DOMAIN buffer, QueryAnswer(buffer, buffer[i].id),
                      ~QueryAnswer(buffer', buffer[i].id), restarts' = restarts
               PROVE  Gone(buffer[i].id)
    BY DEF Ids
  <2>1. /\ buffer \in Seq(Notification) /\ buffer' \in Seq(Notification)
        /\ OneIdBut(buffer, ahead) /\ restarts \in Nat
        /\ Len(buffer) <= MaxLogs /\ MaxLogs \in Nat \ {0}
    BY <1>1, StepType DEF TypeOK, Numbered, NumberedLog, WithinMax, SameMax, ConfigAssumption
  <2>2. Admits /\ ExecuteBroadcast
    <3>1. ~Restart
      BY <2>1 DEF Restart
    <3>2. ~Closes /\ ~OnlyReads
      BY <2>1, AnswerOfMarked DEF Closes, OnlyReads
    <3>3. ~Writes
      BY DEF Writes
    <3> QED  BY <1>1, <3>1, <3>2, <3>3, LogSteps
  <2>3. CASE buffer[i].id \in ahead
    BY <2>2, <2>3 DEF Admits
  <2>4. CASE buffer[i].id \notin ahead
    <3> DEFINE n == job.event
    <3>1. n \in Notification /\ buffer' = Admit(buffer, n) /\ Executing("broadcast")
      BY <2>2 DEF Admits
    <3>2. OneIdBut(buffer', ahead)
      <4>1. UNCHANGED ahead
        BY <2>2 DEF ExecuteBroadcast, Finish, countVars
      <4>2. OneIdBut(buffer', ahead')
        BY <1>1, NumberedStep DEF Numbered, NumberedLog
      <4> QED  BY <4>1, <4>2
    <3>3. buffer[i].closed
      BY <2>1, <2>4, AnswerOfEntry
    <3>4. ASSUME NEW k \in DOMAIN buffer', buffer'[k].id = buffer[i].id PROVE ~buffer'[k].closed
      BY <2>1, <2>4, <3>2, <3>4, AnswerOfEntry
    <3>5. Lost(buffer, n, i)
      BY <2>1, <3>1, <3>3, <3>4, AdmitKeeps
    <3>6. CASE n.replaces # 0 /\ Position(buffer, n.replaces) # 0
      <4>1. i = Position(buffer, n.replaces)
        BY <3>5, <3>6 DEF Lost
      <4>2. n.replaces \in Ids(buffer)
        BY <3>6 DEF Position
      <4>3. buffer[i].id = n.replaces
        BY <2>1, <4>1, <4>2, PositionFinds
      <4> QED  BY <3>1, <4>3
    <3>7. CASE n.replaces = 0 \/ Position(buffer, n.replaces) = 0
      BY <3>1, <3>5, <3>7 DEF Lost
    <3> QED  BY <3>6, <3>7
  <2> QED  BY <2>3, <2>4
<1>2. TypeOK /\ Order /\ Numbered /\ WithinMax /\ [Next]_vars => [Kept]_vars
  BY <1>1
<1>3. MaxLogs # 0
  BY DEF SameMax
<1> QED  BY <1>2, <1>3, InitType, StepType, OrderInit, OrderStep, NumberedInit, NumberedStep,
            BoundedInit, BoundedStep, PTL DEF Spec, QueryTrueUntilGone
=============================================================================
