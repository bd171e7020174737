--------------------------- MODULE ManagerProofs ---------------------------
(***************************************************************************)
(* Invariants of Manager, for any number of clients, calls, jobs and       *)
(* faults, any --max and any timeouts.                                     *)
(***************************************************************************)
EXTENDS Manager, LogBufferProofs

USE ConfigAssumption, BoundsAssumption, JobsAssumption, DiskAssumption
USE DEF idVars

-----------------------------------------------------------------------------
(* The type invariant.                                                      *)

\* The fields of a job that each Job::execute uses.
LEMMA JobFields ==
    ASSUME NEW j \in Job
    PROVE  /\ j.cmd = "broadcast" => j.event \in Notification
           /\ j.cmd \in {"close", "query", "action", "activation", "acknowledge"} => j.id \in Nid
           /\ j.cmd = "read" => j.start \in Nat /\ j.end \in Nat
BY DEF Job

\* Jobs made by the daemon itself are jobs.
LEMMA MadeJobs ==
    /\ \A n \in Notification : Broadcast(n) \in Job
    /\ \A nid \in Nid, why \in Reason : CloseJob(nid, why, FALSE) \in Job
    /\ \A nid \in Nid : Acknowledge(nid) \in Job
BY DEF Broadcast, CloseJob, Acknowledge, Job

LEMMA FreshIdType == counter \in Nid => FreshId \in Nid
BY DEF FreshId, Nid

LEMMA MillisType == \A t \in Int : t >= -1 => Millis(t) \in Nat
BY DEF Millis

\* Whatever is on the disk loads as a log (manager.rs:54-150).
LEMMA LoadLogsType == \A d \in Disk : LoadLogs(d) \in Seq(Notification) /\ AfterLoad(d) \in Disk
BY DEF LoadLogs, AfterLoad, Saved, Disk

LEMMA InitType == Init => TypeOK
<1> SUFFICES ASSUME Init PROVE TypeOK
  OBVIOUS
<1>1. buffer \in Seq(Notification) /\ disk \in Disk
  BY LoadLogsType DEF Init
<1>2. list \in Seq(Job) /\ signals \in Nat /\ unsignalled \in Nat
  BY DEF Init, Mail!MailInit
<1>3. result \in Result
  BY DEF Init, NoResult, Result
<1>4. counter \in Nid /\ calls \in 0 .. MaxCalls /\ now \in Nat /\ requests \in 0 .. MaxRequests
      /\ restarts \in 0 .. MaxRestarts /\ earlier \in 0 .. MaxCalls
  BY DEF Init
<1>5. at \in Where /\ dirty \in BOOLEAN /\ wasEmpty \in BOOLEAN
      /\ job \in Job \cup {NoJob}
      /\ at \notin {"execute", "flush", "writing", "reply"}
  BY DEF Init, Where
<1>6. timers = {} /\ delivering = {} /\ emitted \in [Call -> Nat]
  BY DEF Init
<1>7. issued \subseteq Nid /\ ahead \subseteq Nid
  BY <1>4 DEF Init, Nid
<1> QED  BY <1>1, <1>2, <1>3, <1>4, <1>5, <1>6, <1>7 DEF TypeOK

\* The steps of producers keep the queue typed.
LEMMA PushType ==
    ASSUME list \in Seq(Job), signals \in Nat, unsignalled \in Nat,
           NEW j \in Job, Mail!Push(j) \/ Mail!PushAndSignal(j)
    PROVE  list' \in Seq(Job) /\ signals' \in Nat /\ unsignalled' \in Nat
<1>1. Append(list, j) \in Seq(Job)
  OBVIOUS
<1> QED  BY <1>1 DEF Mail!Push, Mail!PushAndSignal

LEMMA ProducerType ==
    ASSUME TypeOK,
           \/ Client
           \/ \E r \in delivering : DeliverUnread(r) \/ DeliverRead(r)
           \/ \E t \in timers : TimerFires(t)
           \/ SignalManager
           \/ Tick
    PROVE  TypeOK'
<1> USE DEF TypeOK
<1>1. Known \subseteq Nid
  BY DEF Known, Nid
<1>2. ASSUME NEW nid \in {0} \cup Known, NEW timeout \in Timeouts, Notify(nid, timeout)
      PROVE  TypeOK'
  <2> DEFINE id == IF nid = 0 THEN FreshId ELSE nid
             n == [call |-> calls + 1, id |-> id, time |-> now, read |-> FALSE,
                   closed |-> FALSE, replaces |-> nid, timeout |-> timeout]
  <2>1. id \in Nid /\ nid \in Nid /\ counter' \in Nid
    BY <1>1, <1>2, FreshIdType DEF Notify, Nid
  <2>5. issued' \subseteq Nid /\ ahead' \subseteq Nid
    BY <1>2, <2>1, FreshIdType DEF Notify
  <2>2. n \in Notification
    BY <2>1 DEF Notification
  <2>3. Mail!PushAndSignal(Broadcast(n))
    BY <1>2 DEF Notify
  <2> HIDE DEF n
  <2>4. list' \in Seq(Job) /\ signals' \in Nat /\ unsignalled' \in Nat
    BY <2>2, <2>3, MadeJobs, PushType
  <2> QED  BY <1>2, <2>1, <2>4, <2>5 DEF Notify, logVars, execVars, outVars
<1>3. ASSUME NEW nid \in Known, CloseNotification(nid)
      PROVE  TypeOK'
  <2>1. CloseJob(nid, "called", FALSE) \in Job
    BY <1>1, MadeJobs DEF Reason
  <2>2. list' \in Seq(Job) /\ signals' \in Nat /\ unsignalled' \in Nat
    BY <1>3, <2>1, PushType DEF CloseNotification
  <2> QED  BY <1>3, <2>2 DEF CloseNotification, logVars, execVars, outVars
<1>4. ASSUME NEW j \in ClientJobs, ClientRequest(j)
      PROVE  TypeOK'
  <2>1. list' \in Seq(Job) /\ signals' \in Nat /\ unsignalled' \in Nat
    BY <1>4, PushType DEF ClientRequest
  <2> QED  BY <1>4, <2>1 DEF ClientRequest, logVars, execVars, outVars
<1>5. ASSUME NEW r \in delivering, DeliverUnread(r)
      PROVE  TypeOK'
  BY <1>5 DEF DeliverUnread, mailVars, logVars, execVars, countVars
<1>6. ASSUME NEW r \in delivering, DeliverRead(r)
      PROVE  TypeOK'
  <2>1. Acknowledge(r.id) \in Job
    BY MadeJobs
  <2>2. list' \in Seq(Job) /\ signals' \in Nat /\ unsignalled' \in Nat
    BY <1>6, <2>1, PushType DEF DeliverRead
  <2> QED  BY <1>6, <2>2 DEF DeliverRead, logVars, execVars, countVars
<1>7. ASSUME NEW t \in timers, TimerFires(t)
      PROVE  TypeOK'
  <2>1. CloseJob(t.id, "expired", FALSE) \in Job
    BY MadeJobs DEF Reason
  <2>2. list' \in Seq(Job) /\ signals' \in Nat /\ unsignalled' \in Nat
    BY <1>7, <2>1, PushType DEF TimerFires
  <2> QED  BY <1>7, <2>2 DEF TimerFires, logVars, execVars, countVars
<1>8. CASE SignalManager
  BY <1>8 DEF SignalManager, Mail!Signal, logVars, execVars, countVars, outVars
<1>9. CASE Tick
  BY <1>9 DEF Tick, mailVars, logVars, execVars, countVars, outVars
<1> QED  BY <1>2, <1>3, <1>4, <1>5, <1>6, <1>7, <1>8, <1>9 DEF Client

\* The steps of the manager thread and its failures keep the state typed.
LEMMA FinishType ==
    ASSUME TypeOK, at = "execute", NEW res \in Result, Finish(res)
    PROVE  /\ at' \in Where /\ result' \in Result /\ wasEmpty' \in BOOLEAN
           /\ job' \in Job /\ disk' \in Disk /\ now' \in Nat
           /\ list' \in Seq(Job) /\ signals' \in Nat /\ unsignalled' \in Nat
           /\ counter' \in Nid /\ calls' \in 0 .. MaxCalls /\ requests' \in 0 .. MaxRequests
           /\ restarts' \in 0 .. MaxRestarts /\ earlier' \in 0 .. MaxCalls
           /\ issued' \subseteq Nid /\ ahead' \subseteq Nid
BY DEF TypeOK, Finish, Where, mailVars, countVars

LEMMA ExecuteType == ASSUME TypeOK, Execute PROVE TypeOK'
<1>1. at = "execute" /\ job \in Job
  BY DEF Execute, TypeOK, Executing, ExecuteBroadcast, ExecuteCloseDropped, ExecuteCloseUnknown,
         ExecuteClose, ExecuteRead, ExecuteQuery, ExecuteSignal, ExecuteAcknowledge
<1>2. buffer \in Seq(Notification) /\ disk \in Disk /\ dirty \in BOOLEAN
      /\ timers \subseteq [call : Nat, id : Nid, wake : Nat]
      /\ delivering \subseteq [kind : {"notification"}, call : Nat, id : Nid]
      /\ emitted \in [Call -> Nat] /\ now \in Nat
  BY DEF TypeOK
<1> DEFINE BufferTyped == buffer' \in Seq(Notification) /\ dirty' \in BOOLEAN
           OutTyped == /\ timers' \subseteq [call : Nat, id : Nid, wake : Nat]
                       /\ delivering' \subseteq [kind : {"notification"}, call : Nat, id : Nid]
                       /\ emitted' \in [Call -> Nat]
<1>3. ASSUME NEW res \in Result, Finish(res), BufferTyped, OutTyped
      PROVE  TypeOK'
  <2>1. /\ at' \in Where /\ result' \in Result /\ wasEmpty' \in BOOLEAN
        /\ job' \in Job /\ disk' \in Disk /\ now' \in Nat
        /\ list' \in Seq(Job) /\ signals' \in Nat /\ unsignalled' \in Nat
        /\ counter' \in Nid /\ calls' \in 0 .. MaxCalls /\ requests' \in 0 .. MaxRequests
        /\ restarts' \in 0 .. MaxRestarts /\ earlier' \in 0 .. MaxCalls
        /\ issued' \subseteq Nid /\ ahead' \subseteq Nid
    BY <1>1, <1>3, FinishType
  <2> QED  BY <1>3, <2>1 DEF TypeOK
<1>4. CASE ExecuteBroadcast
  <2> DEFINE n == job.event
             res == [kind |-> "notification", call |-> n.call, id |-> n.id]
             thread == [call |-> n.call, id |-> n.id, wake |-> now + Millis(n.timeout)]
  <2>1. n \in Notification
    BY <1>1, <1>4, JobFields DEF ExecuteBroadcast, Executing
  <2>2. n.call \in Nat /\ n.id \in Nid /\ n.timeout \in Int
    BY <2>1 DEF Notification
  <2>3. BufferTyped
    BY <1>2, <1>4, <2>1, AdmitType DEF ExecuteBroadcast
  <2>4. StartsTimer(n) => thread \in [call : Nat, id : Nid, wake : Nat]
    <3>1. StartsTimer(n) => Millis(n.timeout) \in Nat
      BY <2>2, MillisType DEF StartsTimer, HasTimeout
    <3> QED  BY <1>2, <2>2, <3>1
  <2>5. OutTyped
    BY <1>2, <1>4, <2>4 DEF ExecuteBroadcast
  <2>6. res \in Result /\ Finish(res)
    BY <1>4, <2>2 DEF ExecuteBroadcast, Result
  <2> QED  BY <1>3, <2>3, <2>5, <2>6
<1>5. CASE ExecuteCloseDropped
  <2>1. BufferTyped /\ OutTyped
    BY <1>2, <1>5 DEF ExecuteCloseDropped, outVars
  <2>2. NoResult \in Result /\ Finish(NoResult)
    BY <1>5 DEF ExecuteCloseDropped, NoResult, Result
  <2> QED  BY <1>3, <2>1, <2>2
<1>6. CASE ExecuteCloseUnknown
  BY <1>1, <1>6 DEF ExecuteCloseUnknown, TypeOK, Where, mailVars, logVars, countVars, outVars
<1>7. CASE ExecuteClose
  <2> DEFINE pos == Position(buffer, job.id)
  <2>1. job.id \in Nid
    BY <1>1, <1>7, JobFields DEF ExecuteClose, Executing
  <2>2. pos \in DOMAIN buffer
    <3>1. pos # 0
      BY <1>7 DEF ExecuteClose, CloseIgnored
    <3> QED  BY <1>2, <3>1, PositionType
  <2>3. BufferTyped
    BY <1>2, <1>7, <2>2, MarkClosedType DEF ExecuteClose
  <2>4. OutTyped
    <3>1. CASE emitted' = [emitted EXCEPT ![buffer[pos].call] = @ + 1]
      <4>1. emitted' \in [Call -> Nat]
        <5> DEFINE c == buffer[pos].call
        <5>1. \A d \in Call : emitted'[d] = IF d = c THEN emitted[d] + 1 ELSE emitted[d]
          BY <1>2, <3>1
        <5>2. \A d \in Call : emitted[d] \in Nat
          BY <1>2
        <5>3. emitted' = [d \in Call |-> emitted'[d]]
          BY <1>2, <3>1
        <5> HIDE DEF c
        <5>4. \A d \in Call : emitted'[d] \in Nat
          BY <5>1, <5>2
        <5> QED  BY <5>3, <5>4
      <4> QED  BY <1>2, <1>7, <4>1 DEF ExecuteClose
    <3>2. CASE UNCHANGED emitted
      BY <1>2, <1>7, <3>2 DEF ExecuteClose
    <3> QED  BY <1>7, <3>1, <3>2 DEF ExecuteClose
  <2>5. \E res \in Result : Finish(res)
    <3> DEFINE event == [kind |-> "event", event |-> "cls", id |-> job.id]
               error == [kind |-> "error"]
    <3>1. event \in Result /\ error \in Result
      BY <2>1 DEF Result
    <3>2. Finish(event) \/ Finish(error)
      BY <1>7 DEF ExecuteClose
    <3> QED  BY <3>1, <3>2
  <2> QED  BY <1>3, <2>3, <2>4, <2>5
<1>8. CASE ExecuteRead
  <2>1. job.start \in Nat /\ job.end \in Nat
    BY <1>1, <1>8, JobFields DEF ExecuteRead, Executing
  <2>2. OutTyped
    BY <1>2, <1>8 DEF ExecuteRead, outVars
  <2>3. CASE WindowPanics(buffer, job.start, job.end)
    BY <1>1, <1>8, <2>2, <2>3 DEF ExecuteRead, TypeOK, Where, mailVars, logVars, countVars
  <2>4. CASE ~WindowPanics(buffer, job.start, job.end)
    <3> DEFINE marks == ~job.silent /\ Window(buffer, job.start, job.end) # {}
               after == IF marks THEN MarkWindowRead(buffer, job.start, job.end) ELSE buffer
               res == [kind |-> "logs", logs |-> ReadLogs(after, job.start, job.end)]
    <3>1. after \in Seq(Notification)
      BY <1>2, MarkWindowReadType
    <3>2. BufferTyped
      <4>1. buffer' = after /\ dirty' = (dirty \/ marks)
        BY <1>8, <2>4 DEF ExecuteRead
      <4>2. dirty' \in BOOLEAN
        BY <4>1, Zenon
      <4> QED  BY <3>1, <4>1, <4>2
    <3>3. res \in Result
      <4> HIDE DEF after
      <4>1. ReadLogs(after, job.start, job.end) \in Seq(Notification)
        BY <2>1, <3>1, ReadLogsType
      <4> QED  BY <4>1 DEF Result
    <3>4. Finish(res)
      BY <1>8, <2>4 DEF ExecuteRead
    <3> QED  BY <1>3, <2>2, <3>2, <3>3, <3>4
  <2> QED  BY <2>3, <2>4
<1>9. CASE ExecuteQuery
  <2> DEFINE res == [kind |-> "answer", closed |-> QueryAnswer(buffer, job.id)]
  <2>1. BufferTyped /\ OutTyped
    BY <1>2, <1>9 DEF ExecuteQuery, outVars
  <2>2. QueryAnswer(buffer, job.id) \in BOOLEAN
    BY Zenon DEF QueryAnswer
  <2>3. res \in Result
    BY <2>2 DEF Result
  <2>4. Finish(res)
    BY <1>9 DEF ExecuteQuery
  <2> QED  BY <1>3, <2>1, <2>3, <2>4
<1>10. CASE ExecuteSignal
  <2> DEFINE name == IF job.cmd = "action" THEN "act" ELSE "acv"
             event == [kind |-> "event", event |-> name, id |-> job.id]
  <2>1. BufferTyped /\ OutTyped
    BY <1>2, <1>10 DEF ExecuteSignal, outVars
  <2>2. job.id \in Nid
    BY <1>1, <1>10, JobFields DEF ExecuteSignal, Executing
  <2>3. event \in Result /\ NoResult \in Result /\ [kind |-> "error"] \in Result
    BY <2>2 DEF Result, NoResult
  <2>4. Finish(event) \/ Finish(NoResult) \/ Finish([kind |-> "error"])
    BY <1>10 DEF ExecuteSignal
  <2> QED  BY <1>3, <2>1, <2>3, <2>4
<1>11. CASE ExecuteAcknowledge
  <2>1. BufferTyped /\ OutTyped
    BY <1>2, <1>11, ReadNotificationType DEF ExecuteAcknowledge, outVars
  <2>2. NoResult \in Result /\ Finish(NoResult)
    BY <1>11 DEF ExecuteAcknowledge, NoResult, Result
  <2> QED  BY <1>3, <2>1, <2>2
<1> QED  BY <1>4, <1>5, <1>6, <1>7, <1>8, <1>9, <1>10, <1>11 DEF Execute

LEMMA ManagerType ==
    ASSUME TypeOK, Receive \/ Flush \/ FinishWrite \/ Reply \/ WriteFails \/ SendFails
    PROVE  TypeOK'
<1> USE DEF TypeOK, Where
<1>1. CASE Receive
  <2>1. CASE list = <<>>
    BY <1>1, <2>1 DEF Receive, logVars, countVars, outVars
  <2>2. CASE list # <<>>
    <3>1. Head(list) \in Job /\ Tail(list) \in Seq(Job)
      BY <2>2
    <3>2. list' = Tail(list) /\ job' = Head(list) /\ at' = "execute"
      BY <1>1, <2>2 DEF Receive, AfterPop
    <3>3. wasEmpty' = EmptyAfterPop
      BY <1>1, <2>2 DEF Receive
    <3>4. wasEmpty' \in BOOLEAN
      BY <3>3, Zenon DEF EmptyAfterPop
    <3> QED  BY <1>1, <3>1, <3>2, <3>4 DEF Receive, logVars, countVars, outVars
  <2> QED  BY <2>1, <2>2
<1>2. CASE Flush
  <2>1. Torn \in Disk
    BY DEF Torn, Disk
  <2>2. /\ dirty' \in BOOLEAN /\ disk' \in Disk /\ at' \in {"writing", "reply"}
    BY <1>2, <2>1 DEF Flush
  <2> QED  BY <1>2, <2>2 DEF Flush, mailVars, countVars, outVars
<1>3. CASE FinishWrite
  BY <1>3 DEF FinishWrite, Saved, Disk, mailVars, countVars, outVars
<1>4. Transmitted \subseteq [kind : {"notification"}, call : Nat, id : Nid]
  <2>1. result \in Result /\ result.kind = "notification" =>
            result \in [kind : {"notification"}, call : Nat, id : Nid]
    BY DEF Result
  <2> QED  BY <2>1 DEF Transmitted
<1>5. CASE Reply
  BY <1>4, <1>5 DEF Reply, Result, NoResult, mailVars, logVars, countVars
<1>6. CASE WriteFails
  BY <1>6 DEF WriteFails, mailVars, countVars, outVars
<1>7. CASE SendFails
  BY <1>4, <1>7 DEF SendFails, mailVars, logVars, countVars
<1> QED  BY <1>1, <1>2, <1>3, <1>5, <1>6, <1>7

LEMMA RestartType == ASSUME TypeOK, Restart PROVE TypeOK'
<1> USE DEF TypeOK
<1>1. buffer' \in Seq(Notification) /\ disk' \in Disk
  BY LoadLogsType DEF Restart
<1>2. list' \in Seq(Job) /\ signals' \in Nat /\ unsignalled' \in Nat
  BY DEF Restart
<1>3. result' \in Result
  BY DEF Restart, NoResult, Result
<1>4. /\ counter' \in Nid /\ restarts' \in 0 .. MaxRestarts /\ earlier' \in 0 .. MaxCalls
      /\ UNCHANGED <<issued, ahead, calls, requests, emitted, now>>
  BY DEF Restart
<1>5. at' = "recv" /\ dirty' = FALSE /\ wasEmpty' = FALSE /\ job' = NoJob /\ timers' = {} /\ delivering' = {}
  BY DEF Restart
<1> QED  BY <1>1, <1>2, <1>3, <1>4, <1>5 DEF Where

LEMMA StepType == TypeOK /\ [Next]_vars => TypeOK'
<1>1. ASSUME TypeOK, Next PROVE TypeOK'
  BY <1>1, ProducerType, ExecuteType, ManagerType, RestartType DEF Next, ManagerStep
<1>2. ASSUME TypeOK, UNCHANGED vars PROVE TypeOK'
  BY <1>2 DEF TypeOK, vars, mailVars, logVars, execVars, countVars, outVars
<1> QED  BY <1>1, <1>2

\* Every variable keeps its type, whatever clients ask for and whatever fails.
THEOREM TypeCorrect == Spec => []TypeOK
BY InitType, StepType, PTL DEF Spec

-----------------------------------------------------------------------------
(* No Noop.  `Matched` of Mailbox is the inductive form: one job for every  *)
(* unit sent or owed.                                                       *)

LEMMA MatchedInit == Init => Mail!Matched
BY DEF Init, Mail!MailInit, Mail!Matched

LEMMA MatchedStep == TypeOK /\ Mail!Matched /\ [Next]_vars => Mail!Matched'
<1> SUFFICES ASSUME TypeOK, Mail!Matched, [Next]_vars PROVE Mail!Matched'
  OBVIOUS
<1> USE DEF Mail!Matched
<1>1. list \in Seq(Job) /\ signals \in Nat /\ unsignalled \in Nat
  BY DEF TypeOK
<1>2. ASSUME NEW j, j \in Job, Mail!Push(j) \/ Mail!PushAndSignal(j)
      PROVE  Mail!Matched'
  <2>1. Len(Append(list, j)) = Len(list) + 1
    BY <1>1, <1>2
  <2> QED  BY <1>1, <1>2, <2>1 DEF Mail!Push, Mail!PushAndSignal
<1>3. ASSUME UNCHANGED mailVars PROVE Mail!Matched'
  BY <1>3 DEF mailVars
<1>4. CASE Receive
  <2>1. CASE list = <<>>
    BY <1>1, <1>4, <2>1 DEF Receive
  <2>2. CASE list # <<>>
    <3>1. Len(Tail(list)) = Len(list) - 1
      BY <1>1, <2>2
    <3> QED  BY <1>1, <1>4, <2>2, <3>1 DEF Receive, AfterPop
  <2> QED  BY <2>1, <2>2
<1>5. CASE Client
  <2>1. ASSUME NEW nid \in {0} \cup Known, NEW timeout \in Timeouts, Notify(nid, timeout)
        PROVE  Mail!Matched'
    <3>1. PICK j : list' = Append(list, j) /\ signals' = signals + 1 /\ unsignalled' = unsignalled
      BY <2>1 DEF Notify, Mail!PushAndSignal
    <3>2. Len(list') = Len(list) + 1
      BY <1>1, <3>1
    <3> QED  BY <1>1, <3>1, <3>2
  <2>2. ASSUME NEW nid \in Known, CloseNotification(nid) PROVE Mail!Matched'
    BY <1>1, <2>2 DEF CloseNotification, Mail!PushAndSignal
  <2>3. ASSUME NEW j \in ClientJobs, ClientRequest(j) PROVE Mail!Matched'
    BY <1>2, <2>3 DEF ClientRequest
  <2> QED  BY <1>5, <2>1, <2>2, <2>3 DEF Client
<1>6. ASSUME NEW r \in delivering, DeliverUnread(r) \/ DeliverRead(r) PROVE Mail!Matched'
  <2>1. CASE DeliverUnread(r)
    BY <1>3, <2>1 DEF DeliverUnread
  <2>2. CASE DeliverRead(r)
    BY <1>1, <2>2 DEF DeliverRead, Mail!Push
  <2> QED  BY <1>6, <2>1, <2>2
<1>7. ASSUME NEW t \in timers, TimerFires(t) PROVE Mail!Matched'
  BY <1>1, <1>7 DEF TimerFires, Mail!Push
<1>8. CASE SignalManager
  BY <1>1, <1>8 DEF SignalManager, Mail!Signal
<1>9. CASE Tick \/ Execute \/ Flush \/ FinishWrite \/ Reply \/ WriteFails \/ SendFails
  <2>1. UNCHANGED mailVars
    BY <1>9 DEF Tick, Execute, ExecuteBroadcast, ExecuteCloseDropped, ExecuteCloseUnknown,
        ExecuteClose, ExecuteRead, ExecuteQuery, ExecuteSignal, ExecuteAcknowledge, Finish,
        Flush, FinishWrite, Reply, WriteFails, SendFails
  <2> QED  BY <1>3, <2>1
<1>10. CASE UNCHANGED vars
  BY <1>3, <1>10 DEF vars
<1>11. CASE Restart
  BY <1>11 DEF Restart
<1> QED  BY <1>4, <1>5, <1>6, <1>7, <1>8, <1>9, <1>10, <1>11 DEF Next, ManagerStep

\* exec never returns Noop: the channel never holds more units than the list
\* holds jobs, whatever producers interleave (mod.rs:114).
THEOREM NoopUnreachable == Spec => []NeverNoop
<1>1. TypeOK /\ Mail!Matched => NeverNoop
  BY DEF TypeOK, Mail!Matched, NeverNoop
<1> QED  BY <1>1, InitType, StepType, MatchedInit, MatchedStep, PTL DEF Spec

-----------------------------------------------------------------------------
(* Panics.                                                                  *)

\* `position` fails only for an id that is not in the log.
LEMMA UnknownIds ==
    ASSUME NEW buf \in Seq(Notification), NEW nid, Position(buf, nid) = 0
    PROVE  nid \notin Ids(buf)
<1> SUFFICES ASSUME nid \in Ids(buf) PROVE FALSE
  OBVIOUS
<1>1. Position(buf, nid) \in DOMAIN buf
  BY PositionFinds
<1> QED  BY <1>1

\* A window is cut at the end of the log on both sides, so only its own order
\* counts (manager.rs:188).
LEMMA PanickingWindow ==
    ASSUME NEW buf \in Seq(Notification), NEW start \in Nat, NEW end \in Nat,
           WindowPanics(buf, start, end)
    PROVE  end < start
BY DEF WindowPanics, Smaller

Causes ==
    \/ at \in {"flush", "writing"} /\ "disk" \in Faults
    \/ at = "reply" /\ "socket" \in Faults
    \/ Executing("close") /\ job.force /\ job.id \notin Ids(buffer)
    \/ Executing("read") /\ job.end < job.start

LEMMA PanicStep ==
    ASSUME TypeOK, Mail!Matched, [Next]_vars, Alive, ~Alive' PROVE Causes
<1>1. buffer \in Seq(Notification) /\ (at = "execute" => job \in Job)
  BY DEF TypeOK
<1>2. at # "panicked" /\ at' = "panicked"
  BY DEF Alive
<1>3. CASE \/ Client \/ Tick \/ SignalManager \/ UNCHANGED vars
           \/ \E r \in delivering : DeliverUnread(r) \/ DeliverRead(r)
           \/ \E t \in timers : TimerFires(t)
  <2>1. UNCHANGED execVars
    BY <1>3 DEF Client, Notify, CloseNotification, ClientRequest, Tick, SignalManager,
        DeliverUnread, DeliverRead, TimerFires, vars
  <2> QED  BY <1>2, <2>1 DEF execVars
<1>4. CASE Receive
  <2>1. list = <<>> /\ signals > 0
    BY <1>2, <1>4 DEF Receive
  <2>2. signals \in Nat /\ unsignalled \in Nat /\ Len(list) = 0
    BY <2>1 DEF TypeOK
  <2> QED  BY <2>1, <2>2 DEF Mail!Matched
<1>5. CASE ExecuteCloseUnknown
  BY <1>1, <1>5, UnknownIds DEF ExecuteCloseUnknown, Causes
<1>6. CASE ExecuteRead
  <2>1. WindowPanics(buffer, job.start, job.end)
    BY <1>2, <1>6 DEF ExecuteRead, Finish
  <2>2. job.start \in Nat /\ job.end \in Nat /\ Executing("read")
    BY <1>1, <1>6, JobFields DEF ExecuteRead, Executing
  <2> QED  BY <1>1, <2>1, <2>2, PanickingWindow DEF Causes
<1>7. CASE \/ ExecuteBroadcast \/ ExecuteCloseDropped \/ ExecuteClose
           \/ ExecuteQuery \/ ExecuteSignal \/ ExecuteAcknowledge
  BY <1>2, <1>7 DEF ExecuteBroadcast, ExecuteCloseDropped, ExecuteClose, ExecuteQuery,
      ExecuteSignal, ExecuteAcknowledge, Finish
<1>8. CASE Flush \/ FinishWrite \/ Reply \/ Restart
  BY <1>2, <1>8 DEF Flush, FinishWrite, Reply, Restart
<1>9. CASE WriteFails \/ SendFails
  BY <1>9 DEF WriteFails, SendFails, Causes
<1> QED  BY <1>3, <1>4, <1>5, <1>6, <1>7, <1>8, <1>9 DEF Next, ManagerStep, Execute

\* The manager thread panics for no cause but the four that PanicsForCause
\* names, whatever its queue and its log have become since a job was made
\* (mod.rs:114-125, close.rs:65, manager.rs:188).
THEOREM PanicsHaveCauses == Spec => PanicsForCause
<1>1. TypeOK /\ Mail!Matched /\ [Next]_vars => [Alive /\ ~Alive' => Causes]_vars
  BY PanicStep
<1>2. [Alive /\ ~Alive' => Causes]_vars
        <=> [Alive /\ ~Alive' =>
                \/ at \in {"flush", "writing"} /\ "disk" \in Faults
                \/ at = "reply" /\ "socket" \in Faults
                \/ Executing("close") /\ job.force /\ job.id \notin Ids(buffer)
                \/ Executing("read") /\ job.end < job.start]_vars
  BY DEF Causes
<1> QED  BY <1>1, <1>2, InitType, StepType, MatchedInit, MatchedStep, PTL
         DEF Spec, PanicsForCause

-----------------------------------------------------------------------------
(* The length of the log.                                                   *)

\* An earlier session ran with the same --max, which was not 0.
SameMax == MaxLogs # 0 /\ \A d \in InitialDisks : Len(LoadLogs(d)) <= MaxLogs

LEMMA BoundedInit == SameMax /\ Init => WithinMax
<1> SUFFICES ASSUME SameMax, Init PROVE WithinMax
  OBVIOUS
<1>1. PICK d \in InitialDisks : buffer = LoadLogs(d) /\ disk = AfterLoad(d)
  BY DEF Init
<1>2. LoadLogs(AfterLoad(d)) = LoadLogs(d)
  BY DEF LoadLogs, AfterLoad, Saved
<1> QED  BY <1>1, <1>2 DEF SameMax, WithinMax

\* A crash makes the file the log, so the file has to be bounded, too.
LEMMA BoundedStep ==
    ASSUME MaxLogs # 0 PROVE TypeOK /\ WithinMax /\ [Next]_vars => WithinMax'
<1> SUFFICES ASSUME TypeOK, WithinMax, [Next]_vars PROVE WithinMax'
  OBVIOUS
<1>1. buffer \in Seq(Notification) /\ MaxLogs \in Nat \ {0} /\ Len(buffer) <= MaxLogs
      /\ Len(LoadLogs(disk)) <= MaxLogs
  BY DEF TypeOK, WithinMax, ConfigAssumption
<1>2. ASSUME UNCHANGED buffer, UNCHANGED disk PROVE WithinMax'
  BY <1>2 DEF WithinMax
<1>3. ASSUME UNCHANGED disk, Len(buffer') <= MaxLogs PROVE WithinMax'
  BY <1>1, <1>3 DEF WithinMax
<1>4. CASE ExecuteBroadcast
  <2>1. job.event \in Notification
    BY <1>4, JobFields DEF TypeOK, ExecuteBroadcast, Executing
  <2>2. buffer' = Admit(buffer, job.event)
    BY <1>4 DEF ExecuteBroadcast
  <2>3. UNCHANGED disk
    BY <1>4 DEF ExecuteBroadcast, Finish
  <2> QED  BY <1>1, <1>3, <2>1, <2>2, <2>3, AdmitType
<1>5. CASE ExecuteClose
  <2>1. Position(buffer, job.id) \in DOMAIN buffer
    <3>1. Position(buffer, job.id) # 0
      BY <1>5 DEF ExecuteClose, CloseIgnored
    <3> QED  BY <1>1, <3>1, PositionType
  <2>2. buffer' = MarkClosed(buffer, Position(buffer, job.id))
    BY <1>5 DEF ExecuteClose
  <2>3. UNCHANGED disk
    BY <1>5 DEF ExecuteClose, Finish
  <2> QED  BY <1>1, <1>3, <2>1, <2>2, <2>3, MarkClosedType
<1>6. CASE ExecuteRead
  <2>1. \/ buffer' = buffer
        \/ buffer' = MarkWindowRead(buffer, job.start, job.end)
    BY <1>6 DEF ExecuteRead, logVars
  <2>2. UNCHANGED disk
    BY <1>6 DEF ExecuteRead, Finish, logVars
  <2> QED  BY <1>1, <1>3, <2>1, <2>2, MarkWindowReadType
<1>7. CASE ExecuteAcknowledge
  <2>1. buffer' = ReadNotification(buffer, job.id)
    BY <1>7 DEF ExecuteAcknowledge
  <2>2. UNCHANGED disk
    BY <1>7 DEF ExecuteAcknowledge, Finish
  <2> QED  BY <1>1, <1>3, <2>1, <2>2, ReadNotificationType
<1>8. CASE \/ Client \/ Tick \/ SignalManager
           \/ \E r \in delivering : DeliverUnread(r) \/ DeliverRead(r)
           \/ \E t \in timers : TimerFires(t)
  BY <1>2, <1>8 DEF Client, Notify, CloseNotification, ClientRequest, Tick, SignalManager,
      DeliverUnread, DeliverRead, TimerFires, logVars
<1>9. CASE Receive \/ Reply \/ WriteFails \/ SendFails
  BY <1>2, <1>9 DEF Receive, Reply, WriteFails, SendFails, logVars
<1>10. CASE ExecuteCloseDropped \/ ExecuteCloseUnknown \/ ExecuteQuery \/ ExecuteSignal
  BY <1>2, <1>10 DEF ExecuteCloseDropped, ExecuteCloseUnknown, ExecuteQuery, ExecuteSignal,
      Finish, logVars
<1>11. CASE UNCHANGED vars
  BY <1>2, <1>11 DEF vars, logVars
<1>12. CASE Flush \/ FinishWrite \/ Restart
  <2>1. buffer' \in {buffer, LoadLogs(disk)}
    BY <1>12 DEF Flush, FinishWrite, Restart
  <2>2. disk' \in {disk, Torn, Saved(buffer), AfterLoad(disk)}
    BY <1>12 DEF Flush, FinishWrite, Restart
  <2>3. \A d \in {disk, Torn, Saved(buffer), AfterLoad(disk)} : Len(LoadLogs(d)) <= MaxLogs
    BY <1>1 DEF LoadLogs, AfterLoad, Saved, Torn
  <2> QED  BY <1>1, <2>1, <2>2, <2>3 DEF WithinMax
<1> QED  BY <1>4, <1>5, <1>6, <1>7, <1>8, <1>9, <1>10, <1>11, <1>12 DEF Next, ManagerStep, Execute

\* Once a daemon whose --max is not 0 has no more than --max notifications in its
\* log and its file, it never has, whatever crashes.  It may have more to begin
\* with, and then the log keeps growing: the code evicts only when the log is
\* exactly --max long (manager.rs:224).
THEOREM LogStaysBounded == MaxLogs # 0 => (Spec => StaysBounded)
<1> SUFFICES ASSUME MaxLogs # 0 PROVE Spec => StaysBounded
  OBVIOUS
<1>1. TypeOK /\ [Next]_vars => [WithinMax => WithinMax']_vars
  BY BoundedStep
<1> QED  BY <1>1, InitType, StepType, PTL DEF Spec, StaysBounded

-----------------------------------------------------------------------------
(* The log file.  That an idle manager has saved its log is not inductive:  *)
(* it rests on `wasEmpty` staying true as long as nobody pushes a job, and  *)
(* on `dirty` covering every change in between.                             *)

SavedInv ==
    /\ DirtyCoversChanges
    /\ list = <<>> /\ at \in {"execute", "flush"} => wasEmpty
    /\ list = <<>> /\ at \in {"recv", "reply", "writing"} => ~dirty

LEMMA SavedInit == Init => SavedInv
<1> SUFFICES ASSUME Init PROVE SavedInv
  OBVIOUS
<1>1. buffer = LoadLogs(disk)
  BY DEF Init, LoadLogs, AfterLoad, Saved
<1>2. at = "recv" /\ dirty = FALSE
  BY DEF Init
<1> QED  BY <1>1, <1>2 DEF SavedInv, DirtyCoversChanges

LEMMA SavedStep == TypeOK /\ SavedInv /\ [Next]_vars => SavedInv'
<1> SUFFICES ASSUME TypeOK, SavedInv, [Next]_vars PROVE SavedInv'
  OBVIOUS
<1> USE DEF SavedInv, DirtyCoversChanges
<1>1. list \in Seq(Job) /\ dirty \in BOOLEAN /\ wasEmpty \in BOOLEAN
  BY DEF TypeOK
<1>2. CASE UNCHANGED vars
  BY <1>2 DEF vars, mailVars, logVars, execVars
<1>3. CASE \/ Client \/ Tick \/ SignalManager
           \/ \E r \in delivering : DeliverUnread(r) \/ DeliverRead(r)
           \/ \E t \in timers : TimerFires(t)
  <2>1. UNCHANGED <<logVars, execVars>>
    BY <1>3 DEF Client, Notify, CloseNotification, ClientRequest, Tick, SignalManager,
        DeliverUnread, DeliverRead, TimerFires
  <2>2. list' = <<>> => list = <<>>
    <3>1. \A j : Append(list, j) # <<>>
      BY <1>1
    <3>2. list' = list \/ \E j : list' = Append(list, j)
      BY <1>3 DEF Client, Notify, CloseNotification, ClientRequest, Tick, SignalManager,
          DeliverUnread, DeliverRead, TimerFires, mailVars,
          Mail!Push, Mail!PushAndSignal, Mail!Signal
    <3> QED  BY <3>1, <3>2
  <2> QED  BY <2>1, <2>2 DEF logVars, execVars
<1>4. CASE Receive
  <2>1. CASE list = <<>>
    BY <1>4, <2>1 DEF Receive, logVars
  <2>2. CASE list # <<>>
    <3>1. list' = Tail(list) /\ at' = "execute"
      BY <1>4, <2>2 DEF Receive, AfterPop
    <3>2. list' = <<>> => wasEmpty'
      BY <1>4, <2>2, Zenon DEF Receive, EmptyAfterPop, AfterPop
    <3>3. DirtyCoversChanges'
      BY <1>4, <3>1 DEF Receive, logVars
    <3> QED  BY <3>1, <3>2, <3>3
  <2> QED  BY <2>1, <2>2
<1>5. CASE Execute
  <2>1. at' \in {"flush", "panicked"} /\ at = "execute" /\ UNCHANGED <<list, wasEmpty, disk>>
    BY <1>5 DEF Execute, ExecuteBroadcast, ExecuteCloseDropped, ExecuteCloseUnknown,
        ExecuteClose, ExecuteRead, ExecuteQuery, ExecuteSignal, ExecuteAcknowledge,
        Executing, Finish, mailVars, logVars
  <2>2. ~dirty' => buffer' = buffer /\ ~dirty
    <3>1. CASE ExecuteRead
      <4> DEFINE marks == ~job.silent /\ Window(buffer, job.start, job.end) # {}
      <4>1. \/ UNCHANGED <<buffer, dirty>>
            \/ /\ buffer' = IF marks THEN MarkWindowRead(buffer, job.start, job.end) ELSE buffer
               /\ dirty' = (dirty \/ marks)
        BY <3>1 DEF ExecuteRead, logVars
      <4> HIDE DEF marks
      <4>2. ~dirty' => UNCHANGED <<buffer, dirty>> \/ (~marks /\ ~dirty)
        BY <4>1, Zenon
      <4> QED  BY <4>1, <4>2
    <3>2. CASE ~ExecuteRead
      BY <1>5, <3>2 DEF Execute, ExecuteBroadcast, ExecuteCloseDropped, ExecuteCloseUnknown,
          ExecuteClose, ExecuteQuery, ExecuteSignal, ExecuteAcknowledge, logVars
    <3> QED  BY <3>1, <3>2
  <2> QED  BY <2>1, <2>2
<1>6. CASE Flush
  BY <1>6 DEF Flush, mailVars
<1>7. CASE FinishWrite
  <2>1. LoadLogs(Saved(buffer)) = buffer
    BY DEF LoadLogs, Saved
  <2> QED  BY <1>7, <2>1 DEF FinishWrite, mailVars
<1>8. CASE Reply
  BY <1>8 DEF Reply, mailVars, logVars
<1>9. CASE WriteFails \/ SendFails
  BY <1>9 DEF WriteFails, SendFails
<1>10. CASE Restart
  <2>1. LoadLogs(AfterLoad(disk)) = LoadLogs(disk)
    BY DEF LoadLogs, AfterLoad, Saved
  <2> QED  BY <1>10, <2>1 DEF Restart
<1> QED  BY <1>2, <1>3, <1>4, <1>5, <1>6, <1>7, <1>8, <1>9, <1>10 DEF Next, ManagerStep

\* A change nobody has written yet always has `dirty` set (manager.rs:209-308).
THEOREM DirtyIsComplete == Spec => []DirtyCoversChanges
<1>1. SavedInv => DirtyCoversChanges
  BY DEF SavedInv
<1> QED  BY <1>1, InitType, StepType, SavedInit, SavedStep, PTL DEF Spec

\* A manager with nothing to do has saved its log, whatever order jobs came in
\* and whether or not each changed something (manager.rs:293-308).
THEOREM IdleLogIsSaved == Spec => []IdleIsSaved
<1>1. SavedInv => IdleIsSaved
  BY DEF SavedInv, DirtyCoversChanges, IdleIsSaved
<1> QED  BY <1>1, InitType, StepType, SavedInit, SavedStep, PTL DEF Spec
=============================================================================
