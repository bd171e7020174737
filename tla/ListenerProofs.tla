--------------------------- MODULE ListenerProofs ---------------------------
(***************************************************************************)
(* What holds of the Listener for any numbers of clients, watchers,        *)
(* notifications and pids: answers go home, watchers agree on the order of *)
(* broadcasts, a broadcast reaches the whole table, and an Acknowledge     *)
(* means that somebody got the notification.                               *)
(***************************************************************************)
EXTENDS Listener, TLAPS

USE NamesAssumption, ProcessesAssumption

-----------------------------------------------------------------------------
(* Typing.                                                                  *)

LEMMA JobsAre ==
    /\ Requests \subseteq Jobs /\ Items \subseteq Jobs /\ Acknowledges \subseteq Jobs
    /\ \A j \in Jobs : j \notin Acknowledges <=> j \in Requests \cup Items
    /\ \A n \in Notifications : Acknowledge(n) \in Acknowledges
    /\ \A b \in Items : b \notin Requests
    /\ \A b \in Items : b \in Notifications <=> b \notin Signallers
BY DEF Jobs, Items, Acknowledges

\* What Push, PushAndSignal and Take do to a list.
LEMMA ListType ==
    ASSUME list \in Seq(Jobs), signals \in Nat, unsignalled \in Nat
    PROVE  /\ \A j \in Jobs : Mail!Push(j) \/ Mail!PushAndSignal(j) =>
                /\ list' \in Seq(Jobs) /\ signals' \in Nat /\ unsignalled' \in Nat
                /\ Len(list) \in Nat /\ Len(list') = Len(list) + 1
                /\ \A i \in 1 .. Len(list') :
                      IF i = Len(list) + 1 THEN list'[i] = j
                      ELSE i \in 1 .. Len(list) /\ list'[i] = list[i]
           /\ Mail!Signal => signals' \in Nat /\ unsignalled' \in Nat /\ list' = list
           /\ Mail!Take =>
                /\ list' \in Seq(Jobs) /\ signals' \in Nat /\ unsignalled' \in Nat
                /\ Len(list) \in Nat \ {0} /\ Len(list') = Len(list) - 1
                /\ Head(list) = list[1] /\ list[1] \in Jobs
                /\ \A i \in 1 .. Len(list') : list'[i] = list[i + 1] /\ i + 1 \in 1 .. Len(list)
<1>1. \A j \in Jobs : Mail!Push(j) \/ Mail!PushAndSignal(j) =>
        /\ list' \in Seq(Jobs) /\ signals' \in Nat /\ unsignalled' \in Nat
        /\ Len(list) \in Nat /\ Len(list') = Len(list) + 1
        /\ \A i \in 1 .. Len(list') :
              IF i = Len(list) + 1 THEN list'[i] = j
              ELSE i \in 1 .. Len(list) /\ list'[i] = list[i]
  BY DEF Mail!Push, Mail!PushAndSignal
<1>2. Mail!Signal => signals' \in Nat /\ unsignalled' \in Nat /\ list' = list
  BY DEF Mail!Signal
<1>3. ASSUME Mail!Take
      PROVE  /\ list' \in Seq(Jobs) /\ signals' \in Nat /\ unsignalled' \in Nat
             /\ Len(list) \in Nat \ {0} /\ Len(list') = Len(list) - 1
             /\ Head(list) = list[1] /\ list[1] \in Jobs
             /\ \A i \in 1 .. Len(list') : list'[i] = list[i + 1] /\ i + 1 \in 1 .. Len(list)
  <2>1. list' = Tail(list) /\ list # <<>> /\ signals' \in Nat /\ unsignalled' \in Nat
    BY <1>3 DEF Mail!Take
  <2>2. /\ Len(list) \in Nat \ {0} /\ Len(Tail(list)) = Len(list) - 1 /\ Tail(list) \in Seq(Jobs)
        /\ Head(list) = list[1] /\ list[1] \in Jobs
    BY <2>1
  <2>3. \A i \in 1 .. Len(Tail(list)) : Tail(list)[i] = list[i + 1] /\ i + 1 \in 1 .. Len(list)
    BY <2>1, <2>2
  <2> QED  BY <2>1, <2>2, <2>3
<1> QED  BY <1>1, <1>2, <1>3

\* Who has sent a request has a pid, as have all whose request is on its way.
Named ==
    /\ \A c \in Requests : process[c] = "unborn" => intake[c] = "none"
    /\ \A c \in Requests : intake[c] # "none" \/ task[c] # "none" => pid[c] \in Pid
    /\ \A i \in 1 .. Len(list) : list[i] \in Requests => pid[list[i]] \in Pid

LEMMA ClientType ==
    ASSUME TypeOK, Named, NEW c \in Requests \cup Signallers,
           \/ c \in Requests /\ ((\E p \in Pid : Ask(c, p)) \/ Exit(c) \/ Transmit(c))
           \/ c \in Signallers /\ SendSignal(c)
           \/ Intake(c)
    PROVE  TypeOK'
<1> USE DEF TypeOK, clientVars, mailVars, outVars, watcherVars
<1>1. CASE c \in Requests /\ \E p \in Pid : Ask(c, p)
  BY <1>1 DEF Ask
<1>2. CASE c \in Requests /\ Exit(c)
  BY <1>2 DEF Exit
<1>3. CASE c \in Requests /\ Find(c)
  <2>1. pid[c] \in Pid
    BY <1>3 DEF Find, Named
  <2> QED  BY <1>3, <2>1 DEF Find, Key
<1>4. CASE c \in Requests /\ Answer(c)
  BY <1>4 DEF Answer
<1>5. CASE c \in Signallers /\ SendSignal(c)
  BY <1>5 DEF SendSignal
<1>6. CASE Register(c)
  BY <1>6 DEF Register
<1>7. CASE PushRequest(c)
  <2>1. c \in Jobs
    BY DEF Jobs, Items
  <2> QED  BY <1>7, <2>1, ListType DEF PushRequest
<1> QED  BY <1>1, <1>2, <1>3, <1>4, <1>5, <1>6, <1>7 DEF Intake, Transmit

LEMMA WatcherType ==
    ASSUME TypeOK, NEW w \in Watchers, CallWatch(w) \/ HangUp(w) \/ WatcherReads(w) \/ Enrol(w)
    PROVE  TypeOK'
<1> USE DEF TypeOK, clientVars, mailVars, outVars
<1>1. CASE CallWatch(w)
  BY <1>1 DEF CallWatch
<1>2. CASE HangUp(w)
  BY <1>2 DEF HangUp
<1>3. CASE WatcherReads(w)
  BY <1>3 DEF WatcherReads
<1>4. CASE Enrol(w)
  BY <1>4 DEF Enrol
<1> QED  BY <1>1, <1>2, <1>3, <1>4

\* What the steps of a broadcast do to its locals, field by field.
LEMMA CastSteps ==
    ASSUME TypeOK, NEW b \in Items
    PROVE  /\ cast[b] \in Locals
           /\ Begin(b) =>
                /\ cast' \in [Items -> Locals]
                /\ \A a \in Items : a # b => cast'[a] = cast[a]
                /\ cast'[b].rest = listening /\ cast'[b].writing = cast[b].writing
                /\ cast'[b].heard = cast[b].heard /\ cast'[b].old = cast[b].old
           /\ \A w \in Watchers : Fail(b, w) =>
                /\ cast' \in [Items -> Locals]
                /\ \A a \in Items : a # b => cast'[a] = cast[a]
                /\ cast'[b].rest = cast[b].rest \ {w} /\ cast'[b].writing = Nobody
                /\ cast'[b].heard = cast[b].heard /\ cast'[b].old = cast[b].old \cup {w}
           /\ \A w \in Watchers :
                cast' = [cast EXCEPT ![b].rest = @ \ {w}, ![b].writing = w] =>
                /\ cast' \in [Items -> Locals]
                /\ \A a \in Items : a # b => cast'[a] = cast[a]
                /\ cast'[b].rest = cast[b].rest \ {w} /\ cast'[b].writing = w
                /\ cast'[b].heard = cast[b].heard /\ cast'[b].old = cast[b].old
           /\ \A w \in Watchers :
                cast' = [cast EXCEPT ![b].writing = Nobody, ![b].heard = Hears(b, w)] =>
                /\ cast' \in [Items -> Locals]
                /\ \A a \in Items : a # b => cast'[a] = cast[a]
                /\ cast'[b].rest = cast[b].rest /\ cast'[b].writing = Nobody
                /\ cast'[b].heard = Hears(b, w) /\ cast'[b].old = cast[b].old
           /\ End(b) =>
                /\ cast' \in [Items -> Locals]
                /\ \A a \in Items : a # b => cast'[a] = cast[a]
                /\ cast'[b] = NoLocals
<1> USE DEF TypeOK, Locals
<1>1. cast[b] \in Locals /\ NoLocals \in Locals
  BY DEF NoLocals
<1>2. ASSUME NEW l \in Locals, cast' = [cast EXCEPT ![b] = l]
      PROVE  cast' \in [Items -> Locals] /\ cast'[b] = l /\ \A a \in Items : a # b => cast'[a] = cast[a]
  BY <1>2
<1>3. ASSUME Begin(b)
      PROVE  /\ cast' \in [Items -> Locals]
             /\ \A a \in Items : a # b => cast'[a] = cast[a]
             /\ cast'[b].rest = listening /\ cast'[b].writing = cast[b].writing
             /\ cast'[b].heard = cast[b].heard /\ cast'[b].old = cast[b].old
  BY <1>1, <1>3 DEF Begin
<1>4. ASSUME NEW w \in Watchers, Fail(b, w)
      PROVE  /\ cast' \in [Items -> Locals]
             /\ \A a \in Items : a # b => cast'[a] = cast[a]
             /\ cast'[b].rest = cast[b].rest \ {w} /\ cast'[b].writing = Nobody
             /\ cast'[b].heard = cast[b].heard /\ cast'[b].old = cast[b].old \cup {w}
  <2> DEFINE l == [cast[b] EXCEPT !.rest = @ \ {w}, !.writing = Nobody, !.old = @ \cup {w}]
  <2>1. cast' = [cast EXCEPT ![b] = l]
    BY <1>4 DEF Fail
  <2>2. /\ l \in Locals
        /\ l.rest = cast[b].rest \ {w} /\ l.writing = Nobody
        /\ l.heard = cast[b].heard /\ l.old = cast[b].old \cup {w}
    BY <1>1
  <2> HIDE DEF l
  <2>3. cast' \in [Items -> Locals] /\ cast'[b] = l /\ \A a \in Items : a # b => cast'[a] = cast[a]
    BY <1>2, <2>1, <2>2
  <2> QED  BY <2>2, <2>3
<1>5. ASSUME NEW w \in Watchers, cast' = [cast EXCEPT ![b].rest = @ \ {w}, ![b].writing = w]
      PROVE  /\ cast' \in [Items -> Locals]
             /\ \A a \in Items : a # b => cast'[a] = cast[a]
             /\ cast'[b].rest = cast[b].rest \ {w} /\ cast'[b].writing = w
             /\ cast'[b].heard = cast[b].heard /\ cast'[b].old = cast[b].old
  BY <1>1, <1>5
<1>6. ASSUME NEW w \in Watchers,
             cast' = [cast EXCEPT ![b].writing = Nobody, ![b].heard = Hears(b, w)]
      PROVE  /\ cast' \in [Items -> Locals]
             /\ \A a \in Items : a # b => cast'[a] = cast[a]
             /\ cast'[b].rest = cast[b].rest /\ cast'[b].writing = Nobody
             /\ cast'[b].heard = Hears(b, w) /\ cast'[b].old = cast[b].old
  BY <1>1, <1>6 DEF Hears
<1>7. ASSUME End(b)
      PROVE  /\ cast' \in [Items -> Locals]
             /\ \A a \in Items : a # b => cast'[a] = cast[a]
             /\ cast'[b] = NoLocals
  BY <1>1, <1>2, <1>7 DEF End
<1> QED  BY <1>1, <1>3, <1>4, <1>5, <1>6, <1>7

LEMMA BroadcastType ==
    ASSUME TypeOK, NEW b \in Items, Broadcast(b)
    PROVE  TypeOK'
<1> USE DEF TypeOK, clientVars, mailVars, outVars, watcherVars
<1>1. CASE Begin(b)
  BY <1>1, CastSteps DEF Begin
<1>2. CASE End(b)
  <2>1. list' \in Seq(Jobs) /\ signals' \in Nat /\ unsignalled' \in Nat
    BY <1>2, ListType, JobsAre DEF End
  <2> QED  BY <1>2, <2>1, CastSteps DEF End
<1>3. ASSUME NEW w \in Watchers, WriteData(b, w) PROVE TypeOK'
  <2>1. CASE watch[w] = "exited" /\ Fail(b, w)
    BY <1>3, <2>1, CastSteps DEF WriteData
  <2>2. CASE watch[w] = "open"
    <3>1. watch[w] # "exited" /\ unread[w] \in 0 .. PipeSize /\ unread[w] < PipeSize
      BY <1>3, <2>2 DEF WriteData, HasRoom
    <3>2. unread' \in [Watchers -> 0 .. PipeSize]
      BY <1>3, <3>1 DEF WriteData
    <3>3. inbox' \in [Watchers -> Seq(Items)]
      <4>1. Append(inbox[w], b) \in Seq(Items)
        OBVIOUS
      <4>2. inbox' = [inbox EXCEPT ![w] = Append(@, b)]
        BY <1>3, <3>1 DEF WriteData
      <4> QED  BY <4>1, <4>2
    <3>4. cast' \in [Items -> Locals]
      BY <1>3, <3>1, CastSteps DEF WriteData
    <3> QED  BY <1>3, <3>2, <3>3, <3>4 DEF WriteData
  <2> QED  BY <1>3, <2>1, <2>2 DEF WriteData
<1>4. ASSUME NEW w \in Watchers, EndWrite(b, w) PROVE TypeOK'
  BY <1>4, CastSteps DEF EndWrite
<1> QED  BY <1>1, <1>2, <1>3, <1>4 DEF Broadcast

LEMMA ManagerType ==
    ASSUME TypeOK, (\E n \in Notifications : Notify(n)) \/ NotifyManager \/ Execute
    PROVE  TypeOK'
<1> USE DEF TypeOK, clientVars, mailVars, outVars, watcherVars
<1>1. ASSUME NEW n \in Notifications, Notify(n) PROVE TypeOK'
  BY <1>1, ListType, JobsAre DEF Notify, Items
<1>2. CASE NotifyManager
  BY <1>2, ListType DEF NotifyManager
<1>3. CASE Execute
  <2>1. Head(list) \in Jobs /\ list' \in Seq(Jobs) /\ signals' \in Nat /\ unsignalled' \in Nat
    BY <1>3, ListType DEF Execute
  <2>2. task' \in [Requests \cup Items ->
                    {"none", "accepted", "refused", "taken", "locked", "done", "panicked"}]
    BY <1>3, <2>1, JobsAre DEF Execute
  <2> QED  BY <1>3, <2>1, <2>2 DEF Execute
<1> QED  BY <1>1, <1>2, <1>3

LEMMA TypeStep == TypeOK /\ Named /\ [Next]_vars => TypeOK'
<1> SUFFICES ASSUME TypeOK, Named, [Next]_vars PROVE TypeOK'
  OBVIOUS
<1>1. CASE UNCHANGED vars
  BY <1>1 DEF TypeOK, vars, clientVars, mailVars, outVars, watcherVars
<1> QED  BY <1>1, ClientType, WatcherType, BroadcastType, ManagerType DEF Next

\* The steps that concern Named, and the following invariants about jobs: all
\* others leave the list, the requests' pids and the states of tasks alone.
jobVars == <<pid, intake, list, task, notified>>

LEMMA QuietSteps ==
  TypeOK =>
    /\ \A c \in Requests : Exit(c) =>
            /\ UNCHANGED <<jobVars, active, stream, received>>
            /\ \A d \in Requests : /\ process'[d] \in {"unborn", "waiting"} => process'[d] = process[d]
                                   /\ process[d] = "exited" => process'[d] = "exited"
    /\ \A w \in Watchers : CallWatch(w) \/ HangUp(w) \/ WatcherReads(w) \/ Enrol(w)
            => UNCHANGED <<process, jobVars, active, stream, received>>
    /\ \A b \in Items, w \in Watchers : WriteData(b, w) \/ EndWrite(b, w)
            => UNCHANGED <<process, jobVars, active, stream, received>>
    /\ NotifyManager => UNCHANGED <<process, jobVars, active, stream, received>>
BY DEF TypeOK, Exit, CallWatch, HangUp, WatcherReads, Enrol, WriteData, EndWrite, NotifyManager,
       Mail!Signal, jobVars, clientVars, mailVars, outVars, watcherVars

LEMMA NamedStep == TypeOK /\ Named /\ [Next]_vars => Named'
<1> SUFFICES ASSUME TypeOK, Named, [Next]_vars PROVE Named'
  OBVIOUS
<1> USE DEF TypeOK, Named, clientVars, mailVars, outVars, watcherVars
<1>1. ASSUME UNCHANGED jobVars,
             \A d \in Requests : process'[d] = "unborn" => process[d] = "unborn"
      PROVE  Named'
  BY <1>1 DEF jobVars
<1>2. ASSUME NEW c \in Requests, NEW p \in Pid, Ask(c, p) PROVE Named'
  <2>1. /\ pid'[c] = p /\ process'[c] # "unborn"
        /\ \A d \in Requests : d # c =>
              pid'[d] = pid[d] /\ intake'[d] = intake[d] /\ process'[d] = process[d]
    BY <1>2 DEF Ask
  <2>2. UNCHANGED <<list, task>>
    BY <1>2 DEF Ask
  <2> QED  BY <2>1, <2>2
<1>3. ASSUME NEW c \in Requests, Find(c) \/ Answer(c) PROVE Named'
  BY <1>3 DEF Find, Answer
<1>4. ASSUME NEW s \in Signallers, SendSignal(s) PROVE Named'
  BY <1>4 DEF SendSignal, Items
<1>5. ASSUME NEW c \in Requests \cup Signallers, Register(c) PROVE Named'
  BY <1>5 DEF Register, Items
<1>6. ASSUME NEW c \in Requests \cup Signallers, PushRequest(c) PROVE Named'
  <2>1. c \in Jobs
    BY DEF Jobs, Items
  <2>2. c \in Requests => pid[c] \in Pid
    BY <1>6 DEF PushRequest
  <2>3. /\ Len(list) \in Nat /\ Len(list') = Len(list) + 1
        /\ \A i \in 1 .. Len(list') :
              IF i = Len(list) + 1 THEN list'[i] = c
              ELSE i \in 1 .. Len(list) /\ list'[i] = list[i]
    BY <1>6, <2>1, ListType DEF PushRequest
  <2>4. \A i \in 1 .. Len(list') : list'[i] \in Requests => pid[list'[i]] \in Pid
    BY <2>2, <2>3
  <2>5. \A d \in Requests : intake'[d] # "none" => intake[d] # "none"
    BY <1>6 DEF PushRequest
  <2> QED  BY <1>6, <2>4, <2>5 DEF PushRequest
<1>7. ASSUME NEW n \in Notifications, Notify(n) PROVE Named'
  <2>1. n \in Jobs /\ n \notin Requests
    BY JobsAre DEF Items
  <2>2. /\ Len(list) \in Nat /\ Len(list') = Len(list) + 1
        /\ \A i \in 1 .. Len(list') :
              IF i = Len(list) + 1 THEN list'[i] = n
              ELSE i \in 1 .. Len(list) /\ list'[i] = list[i]
    BY <1>7, <2>1, ListType DEF Notify
  <2> QED  BY <1>7, <2>1, <2>2 DEF Notify
<1>8. CASE Execute
  <2>1. /\ Head(list) = list[1] /\ list[1] \in Jobs /\ 1 \in 1 .. Len(list)
        /\ \A i \in 1 .. Len(list') : list'[i] = list[i + 1] /\ i + 1 \in 1 .. Len(list)
    BY <1>8, ListType DEF Execute
  <2>2. \A i \in 1 .. Len(list') : list'[i] \in Requests => pid[list'[i]] \in Pid
    BY <2>1
  <2>3. \A c \in Requests : task'[c] # "none" => task[c] # "none" \/ c = list[1]
    BY <1>8, <2>1, JobsAre DEF Execute
  <2> QED  BY <1>8, <2>1, <2>2, <2>3 DEF Execute
<1>9. ASSUME NEW b \in Items, Begin(b) \/ End(b) PROVE Named'
  <2>1. \A c \in Requests : task'[c] = task[c]
    BY <1>9, JobsAre DEF Begin, End
  <2>2. UNCHANGED <<pid, intake>>
    BY <1>9 DEF Begin, End
  <2>3. \/ UNCHANGED list
        \/ /\ Len(list) \in Nat /\ Len(list') = Len(list) + 1
           /\ \A i \in 1 .. Len(list') :
                 IF i = Len(list) + 1 THEN list'[i] \in Acknowledges
                 ELSE i \in 1 .. Len(list) /\ list'[i] = list[i]
    BY <1>9, ListType, JobsAre DEF Begin, End
  <2>4. UNCHANGED process
    BY <1>9 DEF Begin, End
  <2>5. \A i \in 1 .. Len(list') : list'[i] \in Requests => pid'[list'[i]] \in Pid
    BY <2>2, <2>3, JobsAre
  <2> QED  BY <2>1, <2>2, <2>4, <2>5
<1>10. CASE UNCHANGED vars
  BY <1>1, <1>10 DEF vars, jobVars
<1>11. ASSUME NEW c \in Requests, Exit(c) PROVE Named'
  BY <1>1, <1>11, QuietSteps
<1> QED
  BY <1>1, <1>2, <1>3, <1>4, <1>5, <1>6, <1>7, <1>8, <1>9, <1>10, <1>11, QuietSteps
     DEF Next, Intake, Transmit, Broadcast

LEMMA TypeInit == Init => TypeOK /\ Named
<1> SUFFICES ASSUME Init PROVE TypeOK /\ Named
  OBVIOUS
<1>1. list = <<>> /\ signals \in Nat /\ unsignalled \in Nat
  BY DEF Init, Mail!MailInit
<1>2. cast \in [Items -> Locals]
  BY DEF Init, NoLocals, Locals
<1>3. inbox \in [Watchers -> Seq(Items)] /\ unread \in [Watchers -> 0 .. PipeSize]
  BY DEF Init
<1>4. TypeOK
  BY <1>1, <1>2, <1>3 DEF Init, TypeOK
<1> QED  BY <1>1, <1>4 DEF Init, Named

LEMMA TypeInvariant == Spec => [](TypeOK /\ Named)
BY TypeInit, TypeStep, NamedStep, PTL DEF Spec

\* Every variable keeps its type, for any numbers of processes, watchers and
\* notifications.
THEOREM TypeCorrect == Spec => []TypeOK
BY TypeInvariant, PTL

-----------------------------------------------------------------------------
(* Every request, signal and notification is executed at most once.         *)

Begun(j) == IF j \in Notifications THEN j \in notified ELSE intake[j] = "pushed"

Queued(j) == \E i \in 1 .. Len(list) : list[i] = j

Once ==
    /\ \A j \in Requests \cup Items : Queued(j) => Begun(j) /\ task[j] = "none"
    /\ \A j \in Requests \cup Items : task[j] # "none" => Begun(j)
    /\ \A i, k \in 1 .. Len(list) : list[i] = list[k] /\ list[i] \notin Acknowledges => i = k

\* A step that lets a task proceed, or begins nothing that has begun.
LEMMA OnceKept ==
    ASSUME Once, UNCHANGED list,
           \A j \in Requests \cup Items : Begun(j) => Begun(j)',
           \A j \in Requests \cup Items : task'[j] # task[j] => task[j] # "none"
    PROVE  Once'
<1>1. \A j : Queued(j)' <=> Queued(j)
  BY DEF Queued
<1>2. \A j \in Requests \cup Items : Queued(j)' => Begun(j)' /\ task'[j] = "none"
  BY <1>1 DEF Once
<1>3. \A j \in Requests \cup Items : task'[j] # "none" => Begun(j)'
  BY DEF Once
<1> QED  BY <1>2, <1>3 DEF Once

\* A step that puts job j into the list.
LEMMA OncePushed ==
    ASSUME TypeOK, Once, NEW j \in Jobs,
           \A k \in Requests \cup Items : task'[k] # task[k] => task[k] # "none",
           Mail!Push(j) \/ Mail!PushAndSignal(j),
           j \notin Acknowledges => ~Begun(j) /\ Begun(j)',
           \A k \in Requests \cup Items : Begun(k) => Begun(k)'
    PROVE  Once'
<1>1. /\ Len(list) \in Nat /\ Len(list') = Len(list) + 1
      /\ \A i \in 1 .. Len(list') :
            IF i = Len(list) + 1 THEN list'[i] = j
            ELSE i \in 1 .. Len(list) /\ list'[i] = list[i]
  BY ListType DEF TypeOK
<1>2. \A k : Queued(k)' => Queued(k) \/ k = j
  BY <1>1 DEF Queued
<1>3. \A k \in Requests \cup Items : k \notin Acknowledges
  BY JobsAre
<1>4. j \in Requests \cup Items => task[j] = "none" /\ ~Queued(j)
  BY <1>3 DEF Once
<1>5. \A k \in Requests \cup Items : Queued(k)' => Begun(k)' /\ task'[k] = "none"
  BY <1>2, <1>3, <1>4 DEF Once
<1>6. \A i, k \in 1 .. Len(list') : list'[i] = list'[k] /\ list'[i] \notin Acknowledges => i = k
  <2>1. \A i \in 1 .. Len(list) : j \notin Acknowledges => list[i] # j
    BY <1>4, JobsAre DEF Queued
  <2> QED  BY <1>1, <2>1 DEF Once
<1>7. \A k \in Requests \cup Items : task'[k] # "none" => Begun(k)'
  BY DEF Once
<1> QED  BY <1>5, <1>6, <1>7 DEF Once

LEMMA OnceExecuted ==
    ASSUME TypeOK, Once, Execute
    PROVE  Once'
<1>1. /\ Len(list) \in Nat \ {0} /\ Len(list') = Len(list) - 1
      /\ Head(list) = list[1] /\ list[1] \in Jobs
      /\ \A i \in 1 .. Len(list') : list'[i] = list[i + 1] /\ i + 1 \in 1 .. Len(list)
  BY ListType DEF Execute, TypeOK
<1>2. /\ \A j \in Requests \cup Items : j # list[1] => task'[j] = task[j]
      /\ UNCHANGED <<notified, intake>>
  BY <1>1, JobsAre DEF Execute, TypeOK, clientVars
<1>3. \A j : Queued(j)' => Queued(j)
  BY <1>1 DEF Queued
<1>4. \A j \in Requests \cup Items : j \notin Acknowledges
  BY JobsAre
<1>5. list[1] \notin Acknowledges => Queued(list[1]) /\ ~(\E i \in 1 .. Len(list') : list'[i] = list[1])
  BY <1>1 DEF Queued, Once
<1>6. \A j \in Requests \cup Items : Begun(j)' <=> Begun(j)
  BY <1>2 DEF Begun
<1>7. \A j \in Requests \cup Items : Queued(j)' => j # list[1]
  BY <1>4, <1>5 DEF Queued
<1>8. \A j \in Requests \cup Items : Queued(j)' => Begun(j)' /\ task'[j] = "none"
  BY <1>2, <1>3, <1>6, <1>7 DEF Once
<1>9. \A j \in Requests \cup Items : task'[j] # "none" => Begun(j)'
  BY <1>2, <1>4, <1>5, <1>6 DEF Once
<1>10. \A i, k \in 1 .. Len(list') : list'[i] = list'[k] /\ list'[i] \notin Acknowledges => i = k
  BY <1>1 DEF Once
<1> QED  BY <1>8, <1>9, <1>10 DEF Once

LEMMA OnceStep == TypeOK /\ Named /\ Once /\ [Next]_vars => Once'
<1> SUFFICES ASSUME TypeOK, Named, Once, [Next]_vars PROVE Once'
  OBVIOUS
<1> USE DEF TypeOK, clientVars, mailVars, outVars, watcherVars
<1>1. ASSUME UNCHANGED jobVars PROVE Once'
  BY <1>1, OnceKept DEF jobVars, Begun
<1>2. ASSUME NEW c \in Requests, NEW p \in Pid, Ask(c, p) PROVE Once'
  <2>1. \A j \in Requests \cup Items : Begun(j) => Begun(j)'
    BY <1>2 DEF Ask, Begun, Named
  <2> QED  BY <1>2, <2>1, OnceKept DEF Ask
<1>3. ASSUME NEW c \in Requests, Find(c) \/ Answer(c) PROVE Once'
  BY <1>3, OnceKept DEF Find, Answer, Begun
<1>4. ASSUME NEW s \in Signallers, SendSignal(s) PROVE Once'
  BY <1>4, OnceKept DEF SendSignal, Begun
<1>5. ASSUME NEW c \in Requests \cup Signallers, Register(c) PROVE Once'
  BY <1>5, OnceKept DEF Register, Begun
<1>6. ASSUME NEW c \in Requests \cup Signallers, PushRequest(c) PROVE Once'
  <2>1. c \in Jobs /\ c \notin Notifications
    BY JobsAre DEF Jobs, Items
  <2>2. ~Begun(c) /\ Begun(c)' /\ \A k \in Requests \cup Items : Begun(k) => Begun(k)'
    BY <1>6, <2>1 DEF PushRequest, Begun
  <2> QED  BY <1>6, <2>1, <2>2, OncePushed DEF PushRequest
<1>7. ASSUME NEW n \in Notifications, Notify(n) PROVE Once'
  <2>1. n \in Jobs
    BY DEF Jobs, Items
  <2>2. ~Begun(n) /\ Begun(n)' /\ \A k \in Requests \cup Items : Begun(k) => Begun(k)'
    BY <1>7 DEF Notify, Begun
  <2> QED  BY <1>7, <2>1, <2>2, OncePushed DEF Notify
<1>8. CASE Execute
  BY <1>8, OnceExecuted
<1>9. ASSUME NEW b \in Items, Begin(b) PROVE Once'
  BY <1>9, OnceKept DEF Begin, Begun
<1>10. ASSUME NEW b \in Items, End(b) PROVE Once'
  <2>1. /\ \A k \in Requests \cup Items : task'[k] # task[k] => task[k] # "none"
        /\ \A k \in Requests \cup Items : Begun(k) => Begun(k)'
    BY <1>10 DEF End, Begun
  <2>2. CASE UNCHANGED mailVars
    BY <1>10, <2>1, <2>2, OnceKept
  <2>3. CASE b \in Notifications /\ Mail!Push(Acknowledge(b))
    BY <2>1, <2>3, OncePushed, JobsAre
  <2> QED  BY <1>10, <2>2, <2>3 DEF End
<1>11. CASE UNCHANGED vars
  BY <1>1, <1>11 DEF vars, jobVars
<1> QED
  BY <1>1, <1>2, <1>3, <1>4, <1>5, <1>6, <1>7, <1>8, <1>9, <1>10, <1>11, QuietSteps
     DEF Next, Intake, Transmit, Broadcast

LEMMA OnceInvariant == Spec => [](TypeOK /\ Named /\ Once)
<1>1. Init => Once
  BY DEF Init, Mail!MailInit, Once, Queued
<1> QED  BY <1>1, TypeInvariant, OnceStep, PTL DEF Spec

-----------------------------------------------------------------------------
(* Answers.                                                                 *)

\* Its process and the task with its answer have ended.
Over(c) == process[c] = "exited" /\ task[c] \in {"done", "refused"}

\* Two requests have one pid only if one of them is over.
Apart ==
    \A c, d \in Requests :
        c # d /\ pid[c] = pid[d] /\ pid[c] # Nobody => Over(c) \/ Over(d)

\* No task has taken its stream out of the table.
Kept(c) == task[c] \in {"none", "accepted"} \/ (task[c] = "refused" /\ process[c] = "waiting")

\* From its entry in the table until a task takes it out, a client is there
\* under its pid.
Awaited ==
    /\ \A c \in Requests :
          intake[c] \in {"registered", "pushed"} /\ Kept(c) => active[pid[c]] = c
    /\ \A c \in Requests : task[c] = "taken" => stream[c] = c

AnswersInv == Apart /\ Awaited /\ AnswersGoHome

\* Who is on its way has begun, in the words of this part.
LEMMA Stages ==
    ASSUME TypeOK, Once, NEW c \in Requests
    PROVE  /\ task[c] # "none" => intake[c] = "pushed"
           /\ Queued(c) => intake[c] = "pushed" /\ task[c] = "none"
BY DEF Once, Begun, TypeOK, Items

LEMMA AnswersAsked ==
    ASSUME TypeOK, Named, Once, AnswersInv, NEW c \in Requests, NEW p \in Pid, Ask(c, p)
    PROVE  AnswersInv'
<1> USE DEF TypeOK, mailVars, outVars, watcherVars
<1>1. /\ pid'[c] = p /\ intake'[c] = "reading" /\ task[c] = "none"
      /\ \A d \in Requests : d # c =>
            pid'[d] = pid[d] /\ intake'[d] = intake[d] /\ process'[d] = process[d]
      /\ UNCHANGED <<active, task, stream, received>>
  BY Stages DEF Ask, Named
<1>2. \A d \in Requests : pid[d] = p => Over(d)
  BY DEF Ask, Reusable, Over
<1> USE DEF Over, Kept
<1>3. Apart'
  <2> SUFFICES ASSUME NEW d \in Requests, NEW e \in Requests,
                      d # e, pid'[d] = pid'[e], pid'[d] # Nobody
               PROVE  Over(d)' \/ Over(e)'
    BY <1>1 DEF Apart
  <2>1. CASE d = c \/ e = c
    BY <1>1, <1>2, <2>1
  <2>2. CASE d # c /\ e # c
    BY <1>1, <2>2 DEF AnswersInv, Apart
  <2> QED  BY <2>1, <2>2
<1>4. Awaited'
  BY <1>1 DEF AnswersInv, Awaited
<1>5. AnswersGoHome'
  BY <1>1 DEF AnswersInv, AnswersGoHome
<1> QED  BY <1>3, <1>4, <1>5 DEF AnswersInv

LEMMA AnswersRegistered ==
    ASSUME TypeOK, Named, Once, AnswersInv, NEW c \in Requests \cup Signallers, Register(c)
    PROVE  AnswersInv'
<1> USE DEF TypeOK, Over, Kept, mailVars, outVars, watcherVars
<1>1. CASE c \notin Requests
  BY <1>1, Stages DEF Register, AnswersInv, Apart, Awaited, AnswersGoHome
<1>2. CASE c \in Requests
  <2>1. pid[c] \in Pid /\ task[c] = "none" /\ pid[c] # Nobody
    BY <1>2, Stages DEF Register, Named
  <2>2. /\ active'[pid[c]] = c /\ \A p \in Pid : p # pid[c] => active'[p] = active[p]
        /\ \A d \in Requests : d # c => intake'[d] = intake[d]
        /\ UNCHANGED <<process, pid, task, stream, received>>
    BY <1>2, <2>1 DEF Register, Key
  <2>3. \A d \in Requests : d # c /\ ~Over(d) => pid[d] # pid[c]
    BY <1>2, <2>1 DEF AnswersInv, Apart
  <2>4. ASSUME NEW d \in Requests, intake'[d] \in {"registered", "pushed"},
               Kept(d)
        PROVE  active'[pid[d]] = d
    <3>1. CASE d = c
      BY <2>2, <3>1
    <3>2. CASE d # c
      <4>1. intake[d] = intake'[d] /\ pid[d] \in Pid /\ pid[d] # pid[c]
        BY <2>2, <2>3, <2>4, <3>2 DEF Named
      <4> QED  BY <2>2, <2>4, <4>1 DEF AnswersInv, Awaited
    <3> QED  BY <3>1, <3>2
  <2> QED  BY <2>2, <2>4 DEF AnswersInv, Apart, Awaited, AnswersGoHome
<1> QED  BY <1>1, <1>2

LEMMA AnswersFound ==
    ASSUME TypeOK, Named, Once, AnswersInv, NEW c \in Requests, Find(c)
    PROVE  AnswersInv'
<1> USE DEF TypeOK, Over, Kept, clientVars, mailVars, watcherVars
<1>1. pid[c] \in Pid /\ pid[c] # Nobody /\ intake[c] = "pushed"
  BY Stages DEF Find, Named
<1>2. active[pid[c]] = c
  BY <1>1 DEF Find, AnswersInv, Awaited
<1>3. /\ task'[c] = "taken" /\ stream'[c] = c
      /\ \A p \in Pid : p # pid[c] => active'[p] = active[p]
      /\ \A d \in Requests : d # c => task'[d] = task[d] /\ stream'[d] = stream[d]
      /\ UNCHANGED <<process, pid, intake, received>>
  BY <1>1, <1>2 DEF Find, Key
<1>4. \A d \in Requests : d # c /\ ~Over(d) => pid[d] # pid[c]
  BY <1>1 DEF Find, AnswersInv, Apart
<1>5. Apart'
  BY <1>3, <1>4 DEF AnswersInv, Apart, Find
<1>6. Awaited'
  <2>1. ASSUME NEW d \in Requests, intake[d] \in {"registered", "pushed"},
               Kept(d)'
        PROVE  active'[pid[d]] = d
    <3>1. d # c /\ task[d] = task'[d] /\ pid[d] \in Pid /\ pid[d] # pid[c]
      BY <1>3, <1>4, <2>1 DEF Named
    <3> QED  BY <1>3, <2>1, <3>1 DEF AnswersInv, Awaited
  <2> QED  BY <1>3, <2>1 DEF AnswersInv, Awaited
<1>7. AnswersGoHome'
  BY <1>3 DEF AnswersInv, AnswersGoHome
<1> QED  BY <1>5, <1>6, <1>7 DEF AnswersInv

LEMMA AnswersWritten ==
    ASSUME TypeOK, Named, Once, AnswersInv, NEW c \in Requests, Answer(c)
    PROVE  AnswersInv'
<1> USE DEF TypeOK, Over, Kept, mailVars, watcherVars
<1>1. stream[c] = c /\ task[c] = "taken"
  BY DEF Answer, AnswersInv, Awaited
<1>2. /\ task'[c] = "done" /\ received'[c] \in {c, received[c]}
      /\ \A d \in Requests : d # c => task'[d] = task[d] /\ received'[d] = received[d]
      /\ UNCHANGED <<process, pid, intake, active, stream>>
  <2>1. stream[c] # Nobody
    BY <1>1 DEF Jobs
  <2> QED  BY <1>1, <2>1 DEF Answer
<1>3. Apart'
  BY <1>2 DEF AnswersInv, Apart
<1>4. Awaited'
  BY <1>2 DEF AnswersInv, Awaited
<1>5. AnswersGoHome'
  BY <1>2 DEF AnswersInv, AnswersGoHome
<1> QED  BY <1>3, <1>4, <1>5 DEF AnswersInv

LEMMA AnswersExecuted ==
    ASSUME TypeOK, Named, Once, AnswersInv, Execute
    PROVE  AnswersInv'
<1> USE DEF Over, Kept
<1>1. /\ Head(list) = list[1] /\ list[1] \in Jobs /\ 1 \in 1 .. Len(list)
  BY ListType DEF Execute, TypeOK
<1>2. /\ \A c \in Requests : c # list[1] => task'[c] = task[c]
      /\ \A c \in Requests : c = list[1] => task[c] = "none" /\ task'[c] \in {"accepted", "refused"}
      /\ UNCHANGED <<process, pid, intake, active, stream, received>>
  <2>1. \A c \in Requests : c \notin Acknowledges \cup Signallers
    BY JobsAre DEF Items
  <2>2. \A c \in Requests : c = list[1] => task[c] = "none"
    BY <1>1, Stages DEF Queued
  <2> QED  BY <1>1, <2>1, <2>2, JobsAre DEF Execute, TypeOK, clientVars
<1>3. Apart'
  BY <1>2 DEF AnswersInv, Apart
<1>4. Awaited'
  BY <1>2 DEF AnswersInv, Awaited
<1>5. AnswersGoHome'
  BY <1>2 DEF AnswersInv, AnswersGoHome
<1> QED  BY <1>3, <1>4, <1>5 DEF AnswersInv

LEMMA AnswersStep == TypeOK /\ Named /\ Once /\ AnswersInv /\ [Next]_vars => AnswersInv'
<1> SUFFICES ASSUME TypeOK, Named, Once, AnswersInv, [Next]_vars PROVE AnswersInv'
  OBVIOUS
<1> USE DEF Over, Kept, clientVars, mailVars, outVars, watcherVars
<1>1. ASSUME UNCHANGED <<pid, intake, active, stream, received>>,
             \A c \in Requests : /\ task'[c] = task[c]
                                 /\ process'[c] = "waiting" => process[c] = "waiting"
                                 /\ process[c] = "exited" => process'[c] = "exited"
      PROVE  AnswersInv'
  <2>1. \A c \in Requests : (Kept(c)' => Kept(c)) /\ (Over(c) => Over(c)')
    BY <1>1
  <2> HIDE DEF Kept, Over
  <2>2. Apart' /\ Awaited'
    BY <1>1, <2>1 DEF AnswersInv, Apart, Awaited
  <2> QED  BY <1>1, <2>2 DEF AnswersInv, AnswersGoHome
<1>2. ASSUME UNCHANGED <<process, jobVars, active, stream, received>> PROVE AnswersInv'
  BY <1>1, <1>2 DEF jobVars
<1>3. ASSUME NEW s \in Signallers, SendSignal(s) PROVE AnswersInv'
  <2>1. \A c \in Requests : intake'[c] = intake[c]
    BY <1>3 DEF SendSignal, TypeOK, Items
  <2> QED  BY <1>3, <2>1 DEF SendSignal, AnswersInv, Apart, Awaited, AnswersGoHome
<1>4. ASSUME NEW c \in Requests \cup Signallers, PushRequest(c) PROVE AnswersInv'
  <2>1. \A d \in Requests : intake'[d] = "pushed" => intake[d] \in {"registered", "pushed"}
    BY <1>4 DEF PushRequest, TypeOK
  <2>2. \A d \in Requests : intake'[d] = "registered" => intake[d] = "registered"
    BY <1>4 DEF PushRequest, TypeOK
  <2> QED  BY <1>4, <2>1, <2>2 DEF PushRequest, AnswersInv, Apart, Awaited, AnswersGoHome
<1>5. ASSUME NEW n \in Notifications, Notify(n) PROVE AnswersInv'
  BY <1>1, <1>5 DEF Notify
<1>6. ASSUME NEW b \in Items, Begin(b) \/ End(b) PROVE AnswersInv'
  <2>1. \A c \in Requests : task'[c] = task[c]
    BY <1>6, JobsAre DEF Begin, End, TypeOK
  <2> QED  BY <1>1, <1>6, <2>1 DEF Begin, End
<1>7. ASSUME NEW c \in Requests, Exit(c) PROVE AnswersInv'
  BY <1>1, <1>7, QuietSteps DEF jobVars
<1>8. CASE UNCHANGED vars
  BY <1>2, <1>8 DEF vars, jobVars
<1> QED
  BY <1>2, <1>3, <1>4, <1>5, <1>6, <1>7, <1>8, QuietSteps, AnswersAsked, AnswersRegistered,
     AnswersFound, AnswersWritten, AnswersExecuted
     DEF Next, Intake, Transmit, Broadcast

LEMMA AnswersInit == Init => AnswersInv
BY DEF Init, AnswersInv, Apart, Awaited, Kept, AnswersGoHome

\* A client gets the answer to its own request, and no task misses its client
\* in the table, however many clients there are and whatever pids are used
\* again (listener.rs:174, 247-254).
THEOREM AnswersAreRouted == Spec => []AnswersGoHome
BY AnswersInit, OnceInvariant, AnswersStep, PTL DEF Spec, AnswersInv

-----------------------------------------------------------------------------
(* Nobody is forgotten.                                                     *)

\* A step of the listener does to the list and the channel what Mailbox allows.
LEMMA MailSteps == [Next]_vars => [Mail!MailNext]_(Mail!mailVars)
<1> SUFFICES ASSUME [Next]_vars PROVE Mail!MailNext \/ UNCHANGED mailVars
  BY DEF mailVars, Mail!mailVars
<1>1. ASSUME NEW j \in Jobs, Mail!Push(j) \/ Mail!PushAndSignal(j) PROVE Mail!MailNext
  BY <1>1 DEF Mail!MailNext
<1>2. CASE Mail!Signal \/ Mail!Take
  BY <1>2 DEF Mail!MailNext
<1>3. ASSUME NEW c \in Requests,
             (\E p \in Pid : Ask(c, p)) \/ Exit(c) \/ Transmit(c)
      PROVE  UNCHANGED mailVars
  BY <1>3 DEF Ask, Exit, Transmit, Find, Answer
<1>4. ASSUME NEW s \in Signallers, SendSignal(s) PROVE UNCHANGED mailVars
  BY <1>4 DEF SendSignal
<1>5. ASSUME NEW c \in Requests \cup Signallers, Intake(c) PROVE Mail!MailNext \/ UNCHANGED mailVars
  <2>1. c \in Jobs
    BY DEF Jobs, Items
  <2> QED  BY <1>1, <1>5, <2>1 DEF Intake, Register, PushRequest
<1>6. ASSUME NEW w \in Watchers, CallWatch(w) \/ HangUp(w) \/ WatcherReads(w) \/ Enrol(w)
      PROVE  UNCHANGED mailVars
  BY <1>6 DEF CallWatch, HangUp, WatcherReads, Enrol
<1>7. ASSUME NEW n \in Notifications, Notify(n) PROVE Mail!MailNext
  BY <1>1, <1>7, JobsAre DEF Notify, Items
<1>8. ASSUME NEW b \in Items, Broadcast(b) PROVE Mail!MailNext \/ UNCHANGED mailVars
  <2>1. CASE End(b)
    BY <1>1, <2>1, JobsAre DEF End
  <2> QED  BY <1>8, <2>1 DEF Broadcast, Begin, WriteData, EndWrite
<1>9. CASE NotifyManager \/ Execute
  BY <1>2, <1>9 DEF NotifyManager, Execute
<1>10. CASE UNCHANGED vars
  BY <1>10 DEF vars
<1> QED  BY <1>3, <1>4, <1>5, <1>6, <1>7, <1>8, <1>9, <1>10 DEF Next

\* The tasks of the listener, the D-Bus object and the manager together use
\* the list and the channel as Mailbox says (listener.rs:143-184, 226-241).
THEOREM ListenerUsesMailbox == Spec => Mail!MailSpec
<1>1. Init => Mail!MailInit
  BY DEF Init
<1> QED  BY <1>1, MailSteps, PTL DEF Spec, Mail!MailSpec

LEMMA MatchedStep == TypeOK /\ Mail!Matched /\ [Next]_vars => Mail!Matched'
<1> SUFFICES ASSUME TypeOK, Mail!Matched, [Next]_vars PROVE Mail!Matched'
  OBVIOUS
<1> USE DEF TypeOK, Mail!Matched
<1>1. ASSUME NEW j \in Jobs, Mail!Push(j) \/ Mail!PushAndSignal(j) PROVE Mail!Matched'
  <2>1. Len(list') = Len(list) + 1
    BY <1>1, ListType
  <2> QED  BY <1>1, <2>1 DEF Mail!Push, Mail!PushAndSignal
<1>2. CASE Mail!Signal
  BY <1>2 DEF Mail!Signal
<1>3. CASE Mail!Take
  <2>1. Len(list) \in Nat /\ Len(list') = Len(list) - 1
    BY <1>3, ListType
  <2> QED  BY <1>3, <2>1 DEF Mail!Take
<1>4. CASE UNCHANGED Mail!mailVars
  BY <1>4 DEF Mail!mailVars
<1> QED  BY <1>1, <1>2, <1>3, <1>4, MailSteps DEF Mail!MailNext

\* Who waits has a task that reads its request; a job that was pushed and has
\* no task is in the list; a task that is done has answered who still waits.
Waited ==
    /\ \A c \in Requests : process[c] = "waiting" => intake[c] # "none"
    /\ \A c \in Requests : intake[c] = "pushed" /\ task[c] = "none" => Queued(c)
    /\ \A c \in Requests : task[c] = "done" /\ process[c] = "waiting" => received[c] = c
    /\ \A c \in Requests : task[c] # "locked"

\* A step that takes nothing off the list and leaves a request's tasks alone.
LEMMA WaitedKept ==
    ASSUME Waited, UNCHANGED received,
           \A c \in Requests :
              /\ process'[c] = "waiting" => process[c] = "waiting"
              /\ intake'[c] = intake[c] /\ task'[c] = task[c]
              /\ Queued(c) => Queued(c)'
    PROVE  Waited'
<1>1. ASSUME NEW c \in Requests
      PROVE  /\ process'[c] = "waiting" => intake'[c] # "none"
             /\ task'[c] = "done" /\ process'[c] = "waiting" => received'[c] = c
             /\ task'[c] # "locked"
  BY <1>1 DEF Waited
<1>2. ASSUME NEW c \in Requests, intake'[c] = "pushed", task'[c] = "none" PROVE Queued(c)'
  BY <1>2 DEF Waited
<1> QED  BY <1>1, <1>2 DEF Waited

LEMMA WaitedClient ==
    ASSUME TypeOK, Named, Once, AnswersInv, Waited, NEW c \in Requests,
           (\E p \in Pid : Ask(c, p)) \/ Exit(c) \/ Transmit(c)
    PROVE  Waited'
<1> USE DEF TypeOK, mailVars
<1>1. ASSUME NEW p \in Pid, Ask(c, p) PROVE Waited'
  <2>1. /\ intake'[c] = "reading" /\ task[c] = "none"
        /\ \A d \in Requests : d # c => process'[d] = process[d] /\ intake'[d] = intake[d]
        /\ UNCHANGED <<task, list, received>>
    BY <1>1, Stages DEF Ask, Named, outVars
  <2>2. \A d \in Requests : Queued(d)' <=> Queued(d)
    BY <2>1 DEF Queued
  <2> QED  BY <2>1, <2>2 DEF Waited
<1>2. CASE Exit(c)
  <2>1. \A d \in Requests : process'[d] = "waiting" => process[d] = "waiting"
    BY <1>2 DEF Exit
  <2> QED  BY <1>2, <2>1, WaitedKept DEF Exit, Queued, outVars
<1>3. CASE Find(c)
  BY <1>3 DEF Find, Waited, Queued, clientVars
<1>4. CASE Answer(c)
  <2>1. stream[c] = c /\ c # Nobody
    BY <1>4 DEF Answer, AnswersInv, Awaited, Jobs
  <2>2. /\ task'[c] = "done" /\ process[c] = "waiting" => received'[c] = c
        /\ \A d \in Requests : d # c => task'[d] = task[d] /\ received'[d] = received[d]
        /\ UNCHANGED <<process, intake, list>>
    BY <1>4, <2>1 DEF Answer
  <2>3. task'[c] = "done"
    BY <1>4, <2>1 DEF Answer
  <2> QED  BY <2>2, <2>3 DEF Waited, Queued
<1> QED  BY <1>1, <1>2, <1>3, <1>4 DEF Transmit

LEMMA WaitedPushed ==
    ASSUME TypeOK, Waited, NEW j \in Jobs, Mail!Push(j) \/ Mail!PushAndSignal(j)
    PROVE  /\ \A c \in Requests : Queued(c) => Queued(c)'
           /\ Queued(j)'
<1>1. /\ Len(list) \in Nat /\ Len(list') = Len(list) + 1
      /\ \A i \in 1 .. Len(list') :
            IF i = Len(list) + 1 THEN list'[i] = j
            ELSE i \in 1 .. Len(list) /\ list'[i] = list[i]
  BY ListType DEF TypeOK
<1>2. \A i \in 1 .. Len(list) : i \in 1 .. Len(list') /\ i # Len(list) + 1
  BY <1>1
<1>3. Len(list) + 1 \in 1 .. Len(list')
  BY <1>1
<1> QED  BY <1>1, <1>2, <1>3 DEF Queued

LEMMA WaitedExecuted ==
    ASSUME TypeOK, Waited, Execute
    PROVE  Waited'
<1>1. /\ Len(list) \in Nat \ {0} /\ Len(list') = Len(list) - 1
      /\ Head(list) = list[1] /\ list[1] \in Jobs
      /\ \A i \in 1 .. Len(list') : list'[i] = list[i + 1]
  BY ListType DEF Execute, TypeOK
<1>2. \A c \in Requests : Queued(c) => c = list[1] \/ Queued(c)'
  <2> SUFFICES ASSUME NEW i \in 1 .. Len(list), i # 1
               PROVE  \E k \in 1 .. Len(list') : list'[k] = list[i]
    BY DEF Queued
  <2>1. i - 1 \in 1 .. Len(list') /\ (i - 1) + 1 = i
    BY <1>1
  <2> QED  BY <1>1, <2>1
<1>3. /\ \A c \in Requests : c # list[1] => task'[c] = task[c]
      /\ \A c \in Requests : c = list[1] => task'[c] \in {"accepted", "refused"}
      /\ UNCHANGED <<process, intake, received>>
  <2>1. \A c \in Requests : c \notin Acknowledges \cup Signallers
    BY JobsAre DEF Items
  <2> QED  BY <1>1, <2>1, JobsAre DEF Execute, TypeOK, clientVars
<1> QED  BY <1>2, <1>3 DEF Waited

LEMMA WaitedStep ==
    TypeOK /\ Named /\ Once /\ AnswersInv /\ Waited /\ [Next]_vars => Waited'
<1> SUFFICES ASSUME TypeOK, Named, Once, AnswersInv, Waited, [Next]_vars PROVE Waited'
  OBVIOUS
<1> USE DEF TypeOK, clientVars, mailVars, outVars, watcherVars
<1>1. ASSUME UNCHANGED <<process, jobVars, active, stream, received>> PROVE Waited'
  BY <1>1, WaitedKept DEF jobVars, Queued
<1>2. ASSUME NEW s \in Signallers, SendSignal(s) PROVE Waited'
  <2>1. \A c \in Requests : intake'[c] = intake[c]
    BY <1>2 DEF SendSignal, Items
  <2> QED  BY <1>2, <2>1, WaitedKept DEF SendSignal, Queued
<1>3. ASSUME NEW c \in Requests \cup Signallers, Register(c) PROVE Waited'
  BY <1>3 DEF Register, Waited, Queued
<1>4. ASSUME NEW c \in Requests \cup Signallers, PushRequest(c) PROVE Waited'
  <2>1. c \in Jobs
    BY DEF Jobs, Items
  <2>2. Queued(c)' /\ \A d \in Requests : Queued(d) => Queued(d)'
    BY <1>4, <2>1, WaitedPushed DEF PushRequest
  <2>3. /\ \A d \in Requests : d # c => intake'[d] = intake[d]
        /\ \A d \in Requests : intake'[d] = "none" => intake[d] = "none"
        /\ UNCHANGED <<process, task, received>>
    BY <1>4 DEF PushRequest
  <2> QED  BY <2>2, <2>3 DEF Waited
<1>5. ASSUME NEW n \in Notifications, Notify(n) PROVE Waited'
  <2>1. \A d \in Requests : Queued(d) => Queued(d)'
    BY <1>5, WaitedPushed, JobsAre DEF Notify, Items
  <2> QED  BY <1>5, <2>1, WaitedKept DEF Notify
<1>6. ASSUME NEW b \in Items, Begin(b) \/ End(b) PROVE Waited'
  <2>1. \A c \in Requests : task'[c] = task[c]
    BY <1>6, JobsAre DEF Begin, End
  <2>2. \A d \in Requests : Queued(d) => Queued(d)'
    <3>1. CASE UNCHANGED list
      BY <3>1 DEF Queued
    <3>2. CASE b \in Notifications /\ Mail!Push(Acknowledge(b))
      BY <3>2, WaitedPushed, JobsAre
    <3> QED  BY <1>6, <3>1, <3>2 DEF Begin, End
  <2> QED  BY <1>6, <2>1, <2>2, WaitedKept DEF Begin, End
<1>7. CASE UNCHANGED vars
  BY <1>1, <1>7 DEF vars, jobVars
<1> QED
  BY <1>1, <1>2, <1>3, <1>4, <1>5, <1>6, <1>7, QuietSteps, WaitedClient, WaitedExecuted
     DEF Next, Intake, Broadcast

\* The invariants leave no room for a client that nobody works for.
LEMMA NobodyForgottenHolds ==
    ASSUME TypeOK, Named, Once, AnswersInv, Waited, Mail!Matched
    PROVE  NobodyForgotten
<1> SUFFICES ASSUME NEW c \in Requests, process[c] = "waiting", received[c] # c
             PROVE  UnderWay(c) \/ Abandoned(c)
  BY DEF NobodyForgotten
<1>1. /\ intake[c] \in {"reading", "registered", "pushed"}
      /\ task[c] \in {"none", "accepted", "refused", "taken"}
  BY JobsAre DEF TypeOK, Waited, AnswersInv, AnswersGoHome
<1>2. intake[c] = "registered" => task[c] = "none"
  BY <1>1, Stages
<1>3. intake[c] \in {"registered", "pushed"} /\ task[c] # "taken" => active[Key(c)] = c
  BY <1>1 DEF AnswersInv, Awaited, Kept, Key
<1>4. intake[c] = "pushed" /\ task[c] = "none" => \E i \in DOMAIN list : list[i] = c
  BY DEF Waited, Queued, TypeOK
<1>5. task[c] = "taken" => stream[c] = c
  BY DEF AnswersInv, Awaited
<1>6. task[c] = "refused" => intake[c] = "pushed"
  BY Stages
<1> QED  BY <1>1, <1>2, <1>3, <1>4, <1>5, <1>6 DEF UnderWay, Abandoned

\* No client is forgotten: whoever has no answer yet is where some task will find
\* it, unless the Listener refused the answer, and the manager has a unit for every job in the list
\* (listener.rs:174-184, 247-256).
THEOREM NoClientForgotten == Spec => []NobodyForgotten
<1>1. Init => AnswersInv /\ Waited /\ Mail!Matched
  BY AnswersInit DEF Init, Waited, Mail!MailInit, Mail!Matched
<1> QED
  BY <1>1, OnceInvariant, AnswersStep, WaitedStep, MatchedStep, NobodyForgottenHolds, PTL DEF Spec

-----------------------------------------------------------------------------
(* Broadcasts.                                                              *)

\* One broadcast at a time has the lock, and has not written to the watchers
\* that it has yet to write to.  What has not begun is in no inbox, and the
\* broadcast that has the lock is the last one in each inbox it is in.
Serial ==
    /\ \A a, b \in Items : task[a] = "locked" /\ task[b] = "locked" => a = b
    /\ \A b \in Items, w \in Watchers :
          task[b] \notin {"locked", "done"} => ~Has(w, b)
    /\ \A b \in Items, w \in Watchers :
          task[b] = "locked" /\ w \in cast[b].rest => ~Has(w, b)
    /\ \A b \in Items, w \in Watchers : \A i \in 1 .. Len(inbox[w]) :
          task[b] = "locked" /\ inbox[w][i] = b => i = Len(inbox[w])

\* What the locals of a broadcast record of the watchers.
Recorded ==
    /\ \A b \in Items : task[b] # "locked" => cast[b] = NoLocals
    /\ \A b \in Items : task[b] = "locked" =>
          /\ \A w \in listening : w \in cast[b].rest \/ w \in cast[b].old \/ Has(w, b)
          /\ \A w \in cast[b].old : watch[w] = "exited"
          /\ \A w \in Watchers : w = cast[b].writing => Has(w, b)
          /\ cast[b].heard => \E w \in Watchers \ Silent : Has(w, b)
          /\ ~cast[b].heard => \A w \in Watchers \ Silent :
                Has(w, b) => w = cast[b].writing \/ watch[w] = "exited"

BroadcastInv == Serial /\ SameOrder /\ Recorded

\* Steps that begin, write and end no broadcast.
LEMMA BroadcastKept ==
    ASSUME TypeOK, BroadcastInv, UNCHANGED <<cast, inbox>>,
           \A b \in Items : task'[b] = task[b] \/ {task[b], task'[b]} \subseteq {"none", "accepted", "refused"},
           \A w \in Watchers : watch[w] = "exited" => watch'[w] = "exited",
           LockFree \/ listening' \subseteq listening
    PROVE  BroadcastInv'
<1>1. \A b \in Items, w \in Watchers : Has(w, b)' <=> Has(w, b)
  BY DEF Has
<1>2. Serial'
  BY <1>1 DEF BroadcastInv, Serial
<1>3. SameOrder'
  BY DEF BroadcastInv, SameOrder, Before
<1>4. Recorded'
  BY <1>1 DEF BroadcastInv, Recorded, LockFree, TypeOK, Locals
<1> QED  BY <1>2, <1>3, <1>4 DEF BroadcastInv

LEMMA BroadcastBegun ==
    ASSUME TypeOK, BroadcastInv, NEW b \in Items, Begin(b)
    PROVE  BroadcastInv'
<1>1. /\ task[b] = "accepted" /\ task'[b] = "locked" /\ LockFree
      /\ \A a \in Items : a # b => task'[a] = task[a]
      /\ UNCHANGED <<inbox, watch, listening>>
  BY DEF Begin, TypeOK, watcherVars
<1>2. /\ cast[b] = NoLocals
      /\ \A a \in Items : a # b => cast'[a] = cast[a]
      /\ cast'[b].rest = listening /\ cast'[b].writing = Nobody
      /\ cast'[b].heard = FALSE /\ cast'[b].old = {}
  <2>1. cast[b] = NoLocals
    BY <1>1 DEF BroadcastInv, Recorded
  <2>2. /\ \A a \in Items : a # b => cast'[a] = cast[a]
        /\ cast'[b].rest = listening /\ cast'[b].writing = cast[b].writing
        /\ cast'[b].heard = cast[b].heard /\ cast'[b].old = cast[b].old
    BY CastSteps
  <2>3. NoLocals.writing = Nobody /\ NoLocals.heard = FALSE /\ NoLocals.old = {}
    BY DEF NoLocals
  <2> QED  BY <2>1, <2>2, <2>3
<1>3. \A a, w : Has(w, a)' <=> Has(w, a)
  BY <1>1 DEF Has
<1>4. \A w \in Watchers : ~Has(w, b)
  BY <1>1 DEF BroadcastInv, Serial
<1>5. \A w \in Watchers : \A i \in 1 .. Len(inbox[w]) : inbox[w][i] # b
  <2>1. \A w \in Watchers : DOMAIN inbox[w] = 1 .. Len(inbox[w])
    BY DEF TypeOK
  <2> QED  BY <1>4, <2>1 DEF Has
<1>6. Serial'
  <2>1. \A a \in Items : task'[a] = "locked" => a = b
    BY <1>1 DEF LockFree
  <2>2. \A a \in Items, w \in Watchers : task'[a] \notin {"locked", "done"} => ~Has(w, a)'
    BY <1>1, <1>3 DEF BroadcastInv, Serial
  <2>3. \A a \in Items, w \in Watchers :
            task'[a] = "locked" /\ w \in cast'[a].rest => ~Has(w, a)'
    BY <1>3, <1>4, <2>1
  <2>4. \A a \in Items, w \in Watchers : \A i \in 1 .. Len(inbox'[w]) :
            task'[a] = "locked" /\ inbox'[w][i] = a => i = Len(inbox'[w])
    BY <1>1, <1>5, <2>1
  <2> QED  BY <2>1, <2>2, <2>3, <2>4 DEF Serial
<1>7. SameOrder'
  BY <1>1 DEF BroadcastInv, SameOrder, Before
<1>8. Recorded'
  BY <1>1, <1>2, <1>3, <1>4 DEF BroadcastInv, Recorded
<1> QED  BY <1>6, <1>7, <1>8 DEF BroadcastInv

\* A watcher has hung up, and writing to it fails.
LEMMA BroadcastFailed ==
    ASSUME TypeOK, BroadcastInv, NEW b \in Items, NEW w \in Watchers,
           task[b] = "locked", watch[w] = "exited",
           w \in cast[b].rest \/ w = cast[b].writing,
           cast[b].writing \in {w, Nobody},
           Fail(b, w), UNCHANGED <<task, inbox, watch, listening>>
    PROVE  BroadcastInv'
<1>1. /\ \A a \in Items : a # b => cast'[a] = cast[a]
      /\ cast'[b].rest = cast[b].rest \ {w} /\ cast'[b].writing = Nobody
      /\ cast'[b].heard = cast[b].heard /\ cast'[b].old = cast[b].old \cup {w}
  BY CastSteps
<1>2. \A a, v : Has(v, a)' <=> Has(v, a)
  BY DEF Has
<1>3. Serial'
  BY <1>1, <1>2 DEF BroadcastInv, Serial
<1>4. SameOrder'
  BY DEF BroadcastInv, SameOrder, Before
<1>5. Recorded'
  <2>1. \A a \in Items : task[a] = "locked" => a = b
    BY DEF BroadcastInv, Serial
  <2>2. /\ \A v \in listening : v \in cast'[b].rest \/ v \in cast'[b].old \/ Has(v, b)
        /\ \A v \in cast'[b].old : watch[v] = "exited"
    BY <1>1 DEF BroadcastInv, Recorded
  <2>3. /\ cast'[b].heard => \E v \in Watchers \ Silent : Has(v, b)
        /\ ~cast'[b].heard => \A v \in Watchers \ Silent : Has(v, b) => watch[v] = "exited"
    BY <1>1 DEF BroadcastInv, Recorded
  <2> QED  BY <1>1, <1>2, <2>1, <2>2, <2>3 DEF BroadcastInv, Recorded
<1> QED  BY <1>3, <1>4, <1>5 DEF BroadcastInv

\* A watcher gets the data.
LEMMA BroadcastWritten ==
    ASSUME TypeOK, BroadcastInv, NEW b \in Items, NEW w \in Watchers,
           WriteData(b, w), watch[w] = "open"
    PROVE  BroadcastInv'
<1> USE DEF TypeOK
<1>1. /\ task[b] = "locked" /\ cast[b].writing = Nobody /\ w \in cast[b].rest
      /\ \A a \in Items : a # b => cast'[a] = cast[a]
      /\ cast'[b].rest = cast[b].rest \ {w} /\ cast'[b].writing = w
      /\ cast'[b].heard = cast[b].heard /\ cast'[b].old = cast[b].old
      /\ UNCHANGED <<task, watch, listening>>
  <2>1. cast' = [cast EXCEPT ![b].rest = @ \ {w}, ![b].writing = w]
    BY DEF WriteData
  <2>2. /\ task[b] = "locked" /\ cast[b].writing = Nobody /\ w \in cast[b].rest
        /\ UNCHANGED <<task, watch, listening>>
    BY DEF WriteData
  <2>3. cast \in [Items -> Locals]
    OBVIOUS
  <2>4. /\ \A a \in Items : a # b => cast'[a] = cast[a]
        /\ cast'[b].rest = cast[b].rest \ {w} /\ cast'[b].writing = w
        /\ cast'[b].heard = cast[b].heard /\ cast'[b].old = cast[b].old
    BY <2>1, <2>3 DEF Locals
  <2> QED  BY <2>2, <2>4
<1>2. /\ Len(inbox[w]) \in Nat /\ Len(inbox'[w]) = Len(inbox[w]) + 1
      /\ \A i \in 1 .. Len(inbox'[w]) :
            IF i = Len(inbox[w]) + 1 THEN inbox'[w][i] = b
            ELSE i \in 1 .. Len(inbox[w]) /\ inbox'[w][i] = inbox[w][i]
      /\ \A v \in Watchers : v # w => inbox'[v] = inbox[v]
      /\ DOMAIN inbox'[w] = 1 .. Len(inbox'[w]) /\ DOMAIN inbox[w] = 1 .. Len(inbox[w])
  <2>1. inbox' = [inbox EXCEPT ![w] = Append(@, b)] /\ inbox[w] \in Seq(Items)
    BY DEF WriteData
  <2> QED  BY <2>1
<1>3. /\ \A a \in Items, v \in Watchers : Has(v, a)' <=> Has(v, a) \/ (v = w /\ a = b)
      /\ ~Has(w, b)
  <2>1. ~Has(w, b)
    BY <1>1 DEF BroadcastInv, Serial
  <2>2. \A a \in Items : Has(w, a)' <=> Has(w, a) \/ a = b
    <3>1. Len(inbox[w]) + 1 \in 1 .. Len(inbox'[w]) /\ inbox'[w][Len(inbox[w]) + 1] = b
      BY <1>2
    <3>2. \A i \in 1 .. Len(inbox[w]) : i \in 1 .. Len(inbox'[w]) /\ inbox'[w][i] = inbox[w][i]
      BY <1>2
    <3>3. \A i \in 1 .. Len(inbox'[w]) : inbox'[w][i] = b \/
                (i \in 1 .. Len(inbox[w]) /\ inbox'[w][i] = inbox[w][i])
      BY <1>2
    <3> QED  BY <1>2, <3>1, <3>2, <3>3 DEF Has
  <2>3. \A a \in Items, v \in Watchers : v # w => (Has(v, a)' <=> Has(v, a))
    BY <1>2 DEF Has
  <2> QED  BY <2>1, <2>2, <2>3
<1>4. \A a \in Items : task[a] = "locked" => a = b
  BY <1>1 DEF BroadcastInv, Serial
<1>5. \A v \in Watchers : \A i \in 1 .. Len(inbox[v]) : inbox[v][i] = b => v # w /\ i = Len(inbox[v])
  BY <1>1, <1>2, <1>3 DEF BroadcastInv, Serial, Has
<1>6. Serial'
  <2>1. \A a \in Items, v \in Watchers : task'[a] \notin {"locked", "done"} => ~Has(v, a)'
    BY <1>1, <1>3 DEF BroadcastInv, Serial
  <2>2. \A a \in Items, v \in Watchers :
            task'[a] = "locked" /\ v \in cast'[a].rest => ~Has(v, a)'
    BY <1>1, <1>3, <1>4 DEF BroadcastInv, Serial
  <2>3. \A v \in Watchers : \A i \in 1 .. Len(inbox'[v]) : inbox'[v][i] = b => i = Len(inbox'[v])
    <3>1. \A i \in 1 .. Len(inbox'[w]) : inbox'[w][i] = b => i = Len(inbox'[w])
      <4>1. \A i \in 1 .. Len(inbox[w]) : inbox[w][i] # b
        BY <1>5
      <4> QED  BY <1>2, <4>1
    <3>2. \A v \in Watchers : v # w =>
            \A i \in 1 .. Len(inbox'[v]) : inbox'[v][i] = b => i = Len(inbox'[v])
      BY <1>2, <1>5
    <3> QED  BY <3>1, <3>2
  <2> QED  BY <1>1, <1>4, <2>1, <2>2, <2>3 DEF Serial
<1>7. SameOrder'
  <2> SUFFICES ASSUME NEW u \in Watchers, NEW v \in Watchers, NEW x \in Items, NEW y \in Items,
                      Before(inbox'[u], x, y), Before(inbox'[v], y, x)
               PROVE  FALSE
    BY DEF SameOrder
  <2>1. \A t \in Watchers, p, q \in Items :
            Before(inbox'[t], p, q) => Before(inbox[t], p, q) \/ (t = w /\ q = b)
    <3> SUFFICES ASSUME NEW p \in Items, NEW q \in Items, Before(inbox'[w], p, q), q # b
                 PROVE  Before(inbox[w], p, q)
      BY <1>2
    <3>1. PICK i, k \in 1 .. Len(inbox'[w]) : i < k /\ inbox'[w][i] = p /\ inbox'[w][k] = q
      BY <1>2 DEF Before
    <3>2. k # Len(inbox[w]) + 1
      BY <1>2, <3>1
    <3>3. i # Len(inbox[w]) + 1
      BY <1>2, <3>1, <3>2
    <3> QED  BY <1>2, <3>1, <3>2, <3>3 DEF Before
  <2>2. \A t \in Watchers, q \in Items : ~Before(inbox'[t], b, q)
    <3> SUFFICES ASSUME NEW t \in Watchers, NEW q \in Items, Before(inbox'[t], b, q)
                 PROVE  FALSE
      OBVIOUS
    <3>1. DOMAIN inbox'[t] = 1 .. Len(inbox'[t]) /\ Len(inbox'[t]) \in Nat
      BY <1>2
    <3>2. \A i \in 1 .. Len(inbox'[t]) : inbox'[t][i] = b => i = Len(inbox'[t])
      BY <1>1, <1>6 DEF Serial
    <3>3. PICK i, k \in 1 .. Len(inbox'[t]) : i < k /\ inbox'[t][i] = b
      BY <3>1 DEF Before
    <3> QED  BY <3>1, <3>2, <3>3
  <2>3. x # b /\ y # b
    BY <2>2
  <2>4. Before(inbox[u], x, y) /\ Before(inbox[v], y, x)
    BY <2>1, <2>3
  <2> QED  BY <2>4 DEF BroadcastInv, SameOrder
<1>8. Recorded'
  <2>1. /\ \A v \in listening : v \in cast[b].rest \/ v \in cast[b].old \/ Has(v, b)
        /\ \A v \in cast[b].old : watch[v] = "exited"
        /\ cast[b].heard => \E v \in Watchers \ Silent : Has(v, b)
        /\ ~cast[b].heard => \A v \in Watchers \ Silent : Has(v, b) => watch[v] = "exited"
    <3>1. \A v \in Watchers : v # Nobody
      OBVIOUS
    <3> QED  BY <1>1, <3>1 DEF BroadcastInv, Recorded
  <2>2. /\ \A v \in listening' : v \in cast'[b].rest \/ v \in cast'[b].old \/ Has(v, b)'
        /\ \A v \in cast'[b].old : watch'[v] = "exited"
        /\ Has(w, b)'
        /\ cast'[b].heard => \E v \in Watchers \ Silent : Has(v, b)'
        /\ ~cast'[b].heard => \A v \in Watchers \ Silent : Has(v, b)' => v = w \/ watch'[v] = "exited"
    BY <1>1, <1>3, <2>1
  <2>3. \A a \in Items : task'[a] # "locked" => cast'[a] = NoLocals
    BY <1>1 DEF BroadcastInv, Recorded
  <2> QED  BY <1>1, <1>4, <2>2, <2>3 DEF Recorded
<1> QED  BY <1>6, <1>7, <1>8 DEF BroadcastInv

\* It has read the data when the write ends.
LEMMA BroadcastHeard ==
    ASSUME TypeOK, BroadcastInv, NEW b \in Items, NEW w \in Watchers,
           EndWrite(b, w), watch[w] = "open"
    PROVE  BroadcastInv'
<1>1. /\ task[b] = "locked" /\ cast[b].writing = w
      /\ \A a \in Items : a # b => cast'[a] = cast[a]
      /\ cast'[b].rest = cast[b].rest /\ cast'[b].writing = Nobody
      /\ cast'[b].heard = Hears(b, w) /\ cast'[b].old = cast[b].old
      /\ UNCHANGED <<task, watch, listening, inbox>>
  <2>1. /\ task[b] = "locked" /\ cast[b].writing = w
        /\ cast' = [cast EXCEPT ![b].writing = Nobody, ![b].heard = Hears(b, w)]
        /\ UNCHANGED <<task, watch, listening, inbox>>
    BY DEF EndWrite, watcherVars
  <2>2. /\ \A a \in Items : a # b => cast'[a] = cast[a]
        /\ cast'[b].rest = cast[b].rest /\ cast'[b].writing = Nobody
        /\ cast'[b].heard = Hears(b, w) /\ cast'[b].old = cast[b].old
    <3>1. cast[b] \in Locals
      BY CastSteps
    <3> QED  BY <2>1, <3>1 DEF TypeOK, Locals, Hears
  <2> QED  BY <2>1, <2>2
<1>2. \A a, v : Has(v, a)' <=> Has(v, a)
  BY <1>1 DEF Has
<1>3. Serial'
  BY <1>1, <1>2 DEF BroadcastInv, Serial
<1>4. SameOrder'
  BY <1>1 DEF BroadcastInv, SameOrder, Before
<1>5. Recorded'
  <2>1. \A a \in Items : task[a] = "locked" => a = b
    BY <1>1 DEF BroadcastInv, Serial
  <2>2. Has(w, b) /\ w # Nobody /\ \A v \in Watchers : v # Nobody
    BY <1>1 DEF BroadcastInv, Recorded
  <2>3. /\ \A v \in listening : v \in cast'[b].rest \/ v \in cast'[b].old \/ Has(v, b)
        /\ \A v \in cast'[b].old : watch[v] = "exited"
    BY <1>1 DEF BroadcastInv, Recorded
  <2>4. cast'[b].heard => \E v \in Watchers \ Silent : Has(v, b)
    BY <1>1, <2>2 DEF BroadcastInv, Recorded, Hears
  <2>5. ~cast'[b].heard => \A v \in Watchers \ Silent : Has(v, b) => watch[v] = "exited"
    <3> SUFFICES ASSUME ~cast'[b].heard
                 PROVE  \A v \in Watchers \ Silent : Has(v, b) => watch[v] = "exited"
      OBVIOUS
    <3>1. ~cast[b].heard /\ w \in Silent
      BY <1>1 DEF Hears
    <3> QED  BY <1>1, <3>1 DEF BroadcastInv, Recorded
  <2>6. \A a \in Items : task[a] # "locked" => cast'[a] = NoLocals
    BY <1>1 DEF BroadcastInv, Recorded
  <2> QED  BY <1>1, <1>2, <2>1, <2>2, <2>3, <2>4, <2>5, <2>6 DEF Recorded
<1> QED  BY <1>3, <1>4, <1>5 DEF BroadcastInv

LEMMA BroadcastEnded ==
    ASSUME TypeOK, BroadcastInv, NEW b \in Items, End(b)
    PROVE  BroadcastInv'
<1>1. /\ task[b] = "locked" /\ task'[b] = "done"
      /\ \A a \in Items : a # b => task'[a] = task[a] /\ cast'[a] = cast[a]
      /\ cast'[b] = NoLocals
      /\ UNCHANGED <<watch, inbox>>
  BY CastSteps DEF End, TypeOK
<1>2. \A a, v : Has(v, a)' <=> Has(v, a)
  BY <1>1 DEF Has
<1>3. \A a \in Items : task'[a] # "locked"
  BY <1>1 DEF BroadcastInv, Serial
<1>4. Serial'
  BY <1>1, <1>2, <1>3 DEF BroadcastInv, Serial
<1>5. SameOrder'
  BY <1>1 DEF BroadcastInv, SameOrder, Before
<1>6. Recorded'
  BY <1>1, <1>3 DEF BroadcastInv, Recorded
<1> QED  BY <1>4, <1>5, <1>6 DEF BroadcastInv

LEMMA BroadcastStep == TypeOK /\ Named /\ Once /\ BroadcastInv /\ [Next]_vars => BroadcastInv'
<1> SUFFICES ASSUME TypeOK, Named, Once, BroadcastInv, [Next]_vars PROVE BroadcastInv'
  OBVIOUS
<1> USE DEF clientVars, mailVars, outVars, watcherVars
<1>1. ASSUME NEW c \in Requests \cup Signallers,
             \/ c \in Requests /\ ((\E p \in Pid : Ask(c, p)) \/ Exit(c) \/ Transmit(c))
             \/ c \in Signallers /\ SendSignal(c)
             \/ Intake(c)
      PROVE  BroadcastInv'
  <2>1. UNCHANGED <<cast, inbox, watch, listening>>
    BY <1>1 DEF Ask, Exit, Transmit, Find, Answer, SendSignal, Intake, Register, PushRequest
  <2>2. \A b \in Items : task'[b] = task[b]
    BY <1>1, JobsAre DEF TypeOK, Ask, Exit, Transmit, Find, Answer, SendSignal, Intake, Register, PushRequest
  <2> QED  BY <2>1, <2>2, BroadcastKept
<1>2. ASSUME NEW w \in Watchers, CallWatch(w) \/ HangUp(w) \/ WatcherReads(w) PROVE BroadcastInv'
  <2>1. /\ UNCHANGED <<cast, inbox, task, listening>>
        /\ \A v \in Watchers : watch[v] = "exited" => watch'[v] = "exited"
    BY <1>2 DEF TypeOK, CallWatch, HangUp, WatcherReads
  <2> QED  BY <2>1, BroadcastKept
<1>3. ASSUME NEW w \in Watchers, Enrol(w) PROVE BroadcastInv'
  BY <1>3, BroadcastKept DEF Enrol
<1>4. ASSUME NEW n \in Notifications, Notify(n) PROVE BroadcastInv'
  BY <1>4, BroadcastKept DEF Notify
<1>5. CASE NotifyManager
  BY <1>5, BroadcastKept DEF NotifyManager
<1>6. CASE Execute
  <2>1. list[1] = Head(list) /\ list[1] \in Jobs /\ 1 \in 1 .. Len(list)
    BY <1>6, ListType DEF Execute, TypeOK
  <2>2. \A b \in Items : b = list[1] => task[b] = "none"
    BY <2>1 DEF Once, Queued
  <2>3. \A b \in Items : task'[b] = task[b] \/ {task[b], task'[b]} \subseteq {"none", "accepted", "refused"}
    BY <1>6, <2>1, <2>2, JobsAre DEF Execute, TypeOK
  <2> QED  BY <1>6, <2>3, BroadcastKept DEF Execute
<1>7. ASSUME NEW b \in Items, NEW w \in Watchers, WriteData(b, w) PROVE BroadcastInv'
  <2>1. CASE watch[w] = "open"
    BY <1>7, <2>1, BroadcastWritten
  <2>2. CASE watch[w] = "exited" /\ Fail(b, w) /\ UNCHANGED inbox
    BY <1>7, <2>2, BroadcastFailed DEF WriteData
  <2> QED  BY <1>7, <2>1, <2>2 DEF WriteData
<1>8. ASSUME NEW b \in Items, NEW w \in Watchers, EndWrite(b, w) PROVE BroadcastInv'
  <2>1. CASE watch[w] = "open"
    BY <1>8, <2>1, BroadcastHeard
  <2>2. CASE watch[w] = "exited" /\ Fail(b, w)
    BY <1>8, <2>2, BroadcastFailed DEF EndWrite
  <2> QED  BY <1>8, <2>1, <2>2 DEF EndWrite
<1>9. CASE UNCHANGED vars
  BY <1>9, BroadcastKept DEF vars
<1> QED
  BY <1>1, <1>2, <1>3, <1>4, <1>5, <1>6, <1>7, <1>8, <1>9, BroadcastBegun, BroadcastEnded
     DEF Next, Broadcast

LEMMA BroadcastInit == Init => BroadcastInv
<1> SUFFICES ASSUME Init PROVE BroadcastInv
  OBVIOUS
<1>1. \A w \in Watchers : inbox[w] = <<>>
  BY DEF Init
<1>2. \A b \in Items : task[b] = "none" /\ cast[b] = NoLocals
  BY DEF Init
<1> QED  BY <1>1, <1>2 DEF BroadcastInv, Serial, Recorded, SameOrder, Before, Has

LEMMA BroadcastInvariant == Spec => [](TypeOK /\ Named /\ Once /\ BroadcastInv)
BY BroadcastInit, OnceInvariant, BroadcastStep, PTL DEF Spec

\* All watchers get broadcasts in one order, whatever tasks broadcast them and
\* however many watchers there are (listener.rs:190-206).
THEOREM OneOrder == Spec => []SameOrder
BY BroadcastInvariant, PTL DEF BroadcastInv

\* Only the end of a broadcast makes it "done".
LEMMA OnlyEnds ==
    ASSUME TypeOK, Named, Once, [Next]_vars, NEW b \in Items, task[b] = "locked", task'[b] = "done"
    PROVE  End(b)
<1> USE DEF TypeOK, clientVars, mailVars, outVars, watcherVars
<1>1. ASSUME NEW c \in Requests \cup Signallers,
             \/ c \in Requests /\ ((\E p \in Pid : Ask(c, p)) \/ Exit(c) \/ Transmit(c))
             \/ c \in Signallers /\ SendSignal(c)
             \/ Intake(c)
      PROVE  FALSE
  <2>1. task'[b] = task[b]
    BY <1>1, JobsAre DEF Ask, Exit, Transmit, Find, Answer, SendSignal, Intake, Register, PushRequest
  <2> QED  BY <2>1
<1>2. ASSUME NEW w \in Watchers, CallWatch(w) \/ HangUp(w) \/ WatcherReads(w) \/ Enrol(w) PROVE FALSE
  BY <1>2 DEF CallWatch, HangUp, WatcherReads, Enrol
<1>3. ~(\E n \in Notifications : Notify(n)) /\ ~NotifyManager /\ ~UNCHANGED vars
  BY DEF Notify, NotifyManager, vars
<1>4. ~Execute
  BY JobsAre DEF Execute
<1>5. ASSUME NEW a \in Items, Broadcast(a) PROVE End(b)
  <2>1. CASE Begin(a)
    BY <2>1 DEF Begin
  <2>2. ASSUME NEW w \in Watchers, WriteData(a, w) \/ EndWrite(a, w) PROVE FALSE
    BY <2>2 DEF WriteData, EndWrite
  <2>3. CASE End(a)
    BY <2>3 DEF End
  <2> QED  BY <1>5, <2>1, <2>2, <2>3 DEF Broadcast
<1> QED  BY <1>1, <1>2, <1>3, <1>4, <1>5 DEF Next

\* A broadcast reaches every process in the table, and only those that have
\* hung up leave it (listener.rs:196-206).
THEOREM BroadcastsReachAll == Spec => ReachesAll
<1>1. ASSUME TypeOK, Named, Once, BroadcastInv, [Next]_vars,
             NEW b \in Items, task[b] = "locked", task'[b] = "done", NEW w \in listening
      PROVE  IF w \in listening' THEN Has(w, b) ELSE watch[w] = "exited"
  <2>1. End(b)
    BY <1>1, OnlyEnds
  <2>2. cast[b].rest = {} /\ listening' = listening \ cast[b].old
    BY <2>1 DEF End
  <2> QED  BY <1>1, <2>2 DEF BroadcastInv, Recorded
<1>2. TypeOK /\ Named /\ Once /\ BroadcastInv /\ [Next]_vars =>
        [\A b \in Items : task[b] = "locked" /\ task'[b] = "done" =>
            \A w \in listening :
                IF w \in listening' THEN Has(w, b) ELSE watch[w] = "exited"]_vars
  BY <1>1
<1> QED  BY <1>2, BroadcastInvariant, PTL DEF Spec, ReachesAll

\* A notification is acknowledged just if a watcher that is not silent got it
\* (listener.rs:203, 218-241).
THEOREM AcknowledgesAreTrue == Spec => AcknowledgedWhenHeard
<1>1. ASSUME TypeOK, Named, Once, BroadcastInv, [Next]_vars,
             NEW n \in Notifications, task[n] = "locked", task'[n] = "done"
      PROVE  LET hearers == {w \in Watchers \ Silent : Has(w, n)}
             IN IF list' = list THEN \A w \in hearers : watch[w] = "exited"
                ELSE hearers # {} /\ list' = Append(list, Acknowledge(n))
  <2>1. n \in Items /\ End(n)
    BY <1>1, OnlyEnds DEF Items
  <2>2. cast[n].writing = Nobody
    BY <2>1 DEF End
  <2>3. CASE cast[n].heard
    <3>1. list' = Append(list, Acknowledge(n))
      BY <2>1, <2>3 DEF End, Mail!Push
    <3>2. list' # list
      BY <1>1, <3>1, JobsAre DEF TypeOK
    <3> QED  BY <1>1, <2>1, <2>3, <3>1, <3>2 DEF BroadcastInv, Recorded
  <2>4. CASE ~cast[n].heard
    <3>1. list' = list
      BY <2>1, <2>4 DEF End, mailVars
    <3>2. \A w \in Watchers : w # Nobody
      OBVIOUS
    <3> QED  BY <1>1, <2>1, <2>2, <2>4, <3>1, <3>2 DEF BroadcastInv, Recorded
  <2> QED  BY <2>3, <2>4
<1>2. TypeOK /\ Named /\ Once /\ BroadcastInv /\ [Next]_vars =>
        [\A n \in Notifications : task[n] = "locked" /\ task'[n] = "done" =>
            LET hearers == {w \in Watchers \ Silent : Has(w, n)}
            IN IF list' = list THEN \A w \in hearers : watch[w] = "exited"
               ELSE hearers # {} /\ list' = Append(list, Acknowledge(n))]_vars
  BY <1>1
<1> QED  BY <1>2, BroadcastInvariant, PTL DEF Spec, AcknowledgedWhenHeard

-----------------------------------------------------------------------------
(* Reception.                                                               *)

\* A watcher that has come is on one of two lists until it hangs up, and a
\* broadcast deals with watchers of the table only.
Enrolled ==
    /\ \A w \in Watchers : w \in enrolling => w \notin listening
    /\ \A w \in Watchers : watch[w] = "unborn" => w \notin enrolling /\ w \notin listening
    /\ \A w \in Watchers : watch[w] = "open" => w \in enrolling \/ w \in listening
    /\ \A b \in Items : task[b] = "locked" => \A w \in Watchers :
          w \in cast[b].rest \/ w \in cast[b].old \/ w = cast[b].writing => w \in listening

LEMMA EnrolledKept ==
    ASSUME Enrolled, UNCHANGED <<watch, enrolling, listening, cast>>,
           \A b \in Items : task'[b] = "locked" => task[b] = "locked"
    PROVE  Enrolled'
BY DEF Enrolled

LEMMA EnrolledWatcher ==
    ASSUME TypeOK, BroadcastInv, Enrolled, NEW w \in Watchers,
           CallWatch(w) \/ HangUp(w) \/ WatcherReads(w) \/ Enrol(w)
    PROVE  Enrolled'
<1> USE DEF TypeOK, outVars
<1>1. CASE CallWatch(w)
  BY <1>1 DEF CallWatch, Enrolled
<1>2. CASE HangUp(w)
  BY <1>2 DEF HangUp, Enrolled
<1>3. CASE WatcherReads(w)
  BY <1>3, EnrolledKept DEF WatcherReads
<1>4. CASE Enrol(w)
  BY <1>4 DEF Enrol, Enrolled, LockFree
<1> QED  BY <1>1, <1>2, <1>3, <1>4

LEMMA EnrolledBroadcast ==
    ASSUME TypeOK, BroadcastInv, Enrolled, NEW b \in Items, Broadcast(b)
    PROVE  Enrolled'
<1> USE DEF TypeOK
<1>1. \A w \in Watchers : w # Nobody
  OBVIOUS
<1>2. CASE Begin(b)
  <2>1. cast[b] = NoLocals /\ \A a \in Items : a # b => task'[a] = task[a] /\ task[a] # "locked"
    BY <1>2 DEF Begin, BroadcastInv, Recorded, LockFree
  <2>2. cast'[b].rest = listening /\ cast'[b].writing = Nobody /\ cast'[b].old = {}
    BY <1>2, <2>1, CastSteps DEF NoLocals
  <2> QED  BY <1>1, <1>2, <2>1, <2>2 DEF Begin, Enrolled, watcherVars
<1>3. ASSUME UNCHANGED <<task, watch, enrolling, listening>>,
             \A a \in Items : a # b => cast'[a] = cast[a],
             \A v \in Watchers :
                v \in cast'[b].rest \/ v \in cast'[b].old \/ v = cast'[b].writing => v \in listening
      PROVE  Enrolled'
  <2>1. ASSUME NEW a \in Items, task'[a] = "locked", NEW v \in Watchers,
               v \in cast'[a].rest \/ v \in cast'[a].old \/ v = cast'[a].writing
        PROVE  v \in listening'
    BY <1>3, <2>1 DEF Enrolled
  <2> QED  BY <1>3, <2>1 DEF Enrolled
<1>4. ASSUME task[b] = "locked"
      PROVE  \A v \in Watchers :
                v \in cast[b].rest \/ v \in cast[b].old \/ v = cast[b].writing => v \in listening
  BY <1>4 DEF Enrolled
<1>5. ASSUME NEW w \in Watchers, Fail(b, w), task[b] = "locked",
             w \in cast[b].rest \/ w = cast[b].writing,
             UNCHANGED <<task, watch, enrolling, listening>>
      PROVE  Enrolled'
  <2>1. /\ \A a \in Items : a # b => cast'[a] = cast[a]
        /\ cast'[b].rest = cast[b].rest \ {w} /\ cast'[b].writing = Nobody
        /\ cast'[b].old = cast[b].old \cup {w}
    BY <1>5, CastSteps
  <2> QED  BY <1>1, <1>3, <1>4, <1>5, <2>1
<1>6. ASSUME NEW w \in Watchers, WriteData(b, w) PROVE Enrolled'
  <2>1. CASE Fail(b, w)
    BY <1>5, <1>6, <2>1 DEF WriteData
  <2>2. CASE cast' = [cast EXCEPT ![b].rest = @ \ {w}, ![b].writing = w]
    <3>1. /\ \A a \in Items : a # b => cast'[a] = cast[a]
          /\ cast'[b].rest = cast[b].rest \ {w} /\ cast'[b].writing = w
          /\ cast'[b].old = cast[b].old
      <4> HIDE DEF TypeOK
      <4>1. /\ cast' \in [Items -> Locals]
            /\ \A a \in Items : a # b => cast'[a] = cast[a]
            /\ cast'[b].rest = cast[b].rest \ {w} /\ cast'[b].writing = w
            /\ cast'[b].heard = cast[b].heard /\ cast'[b].old = cast[b].old
        BY <2>2, CastSteps, Zenon
      <4> QED  BY <4>1
    <3>2. task[b] = "locked" /\ w \in cast[b].rest /\ UNCHANGED <<task, watch, enrolling, listening>>
      BY <1>6 DEF WriteData
    <3> QED  BY <1>3, <1>4, <3>1, <3>2
  <2> QED  BY <1>6, <2>1, <2>2 DEF WriteData
<1>7. ASSUME NEW w \in Watchers, EndWrite(b, w) PROVE Enrolled'
  <2>1. CASE Fail(b, w)
    BY <1>5, <1>7, <2>1 DEF EndWrite, watcherVars
  <2>2. CASE cast' = [cast EXCEPT ![b].writing = Nobody, ![b].heard = Hears(b, w)]
    <3>1. /\ \A a \in Items : a # b => cast'[a] = cast[a]
          /\ cast'[b].rest = cast[b].rest /\ cast'[b].writing = Nobody
          /\ cast'[b].old = cast[b].old
      <4> HIDE DEF TypeOK
      <4>1. /\ cast' \in [Items -> Locals]
            /\ \A a \in Items : a # b => cast'[a] = cast[a]
            /\ cast'[b].rest = cast[b].rest /\ cast'[b].writing = Nobody
            /\ cast'[b].heard = Hears(b, w) /\ cast'[b].old = cast[b].old
        BY <2>2, CastSteps, Zenon
      <4> QED  BY <4>1
    <3>2. task[b] = "locked" /\ UNCHANGED <<task, watch, enrolling, listening>>
      BY <1>7 DEF EndWrite, watcherVars
    <3> QED  BY <1>1, <1>3, <1>4, <3>1, <3>2
  <2> QED  BY <1>7, <2>1, <2>2 DEF EndWrite
<1>8. CASE End(b)
  <2>1. /\ \A a \in Items : task'[a] # "locked"
        /\ \A w \in cast[b].old : watch[w] = "exited"
    BY <1>8 DEF End, BroadcastInv, Serial, Recorded
  <2>2. listening' = listening \ cast[b].old /\ UNCHANGED <<watch, enrolling>>
    BY <1>8 DEF End
  <2> QED  BY <2>1, <2>2 DEF Enrolled
<1> QED  BY <1>2, <1>6, <1>7, <1>8 DEF Broadcast

\* What the other steps do to those that broadcast: nothing, or they hand a
\* broadcast to a task.
LEMMA OffAir ==
    ASSUME TypeOK, Named, Once,
           \/ \E c \in Requests : (\E p \in Pid : Ask(c, p)) \/ Exit(c) \/ Transmit(c)
           \/ \E s \in Signallers : SendSignal(s)
           \/ \E c \in Requests \cup Signallers : Intake(c)
           \/ \E n \in Notifications : Notify(n)
           \/ NotifyManager \/ Execute \/ UNCHANGED vars
    PROVE  /\ UNCHANGED <<cast, watch, enrolling, listening, inbox>>
           /\ \A b \in Items : task'[b] = task[b] \/ {task[b], task'[b]} \subseteq {"none", "accepted", "refused"}
<1> USE DEF TypeOK, clientVars, mailVars, outVars, watcherVars
<1>1. ASSUME NEW c \in Requests, (\E p \in Pid : Ask(c, p)) \/ Exit(c) \/ Transmit(c)
      PROVE  UNCHANGED <<cast, watcherVars>> /\ \A b \in Items : task'[b] = task[b]
  BY <1>1, JobsAre DEF Ask, Exit, Transmit, Find, Answer
<1>2. ASSUME \/ \E s \in Signallers : SendSignal(s)
             \/ \E c \in Requests \cup Signallers : Intake(c)
             \/ \E n \in Notifications : Notify(n)
             \/ NotifyManager \/ UNCHANGED vars
      PROVE  UNCHANGED <<task, cast, watcherVars>>
  BY <1>2 DEF SendSignal, Intake, Register, PushRequest, Notify, NotifyManager, vars
<1>3. CASE Execute
  <2>1. list[1] = Head(list) /\ list[1] \in Jobs /\ 1 \in 1 .. Len(list)
    BY <1>3, ListType DEF Execute
  <2>2. \A b \in Items : b = list[1] => task[b] = "none"
    BY <2>1 DEF Once, Queued
  <2>3. \A b \in Items : task'[b] = task[b] \/ {task[b], task'[b]} \subseteq {"none", "accepted", "refused"}
    BY <1>3, <2>1, <2>2, JobsAre DEF Execute
  <2> QED  BY <1>3, <2>3 DEF Execute
<1> QED  BY <1>1, <1>2, <1>3

LEMMA EnrolledStep ==
    TypeOK /\ Named /\ Once /\ BroadcastInv /\ Enrolled /\ [Next]_vars => Enrolled'
BY OffAir, EnrolledKept, EnrolledWatcher, EnrolledBroadcast DEF Next

\* A client has got nothing before the task with its answer is done.
Unserved == \A c \in Requests : task[c] # "done" => received[c] = Nobody

LEMMA UnservedStep ==
    TypeOK /\ Named /\ Once /\ AnswersInv /\ Unserved /\ [Next]_vars => Unserved'
<1> SUFFICES ASSUME TypeOK, Named, Once, AnswersInv, Unserved, [Next]_vars PROVE Unserved'
  OBVIOUS
<1> USE DEF TypeOK, clientVars, mailVars, outVars, watcherVars
<1>1. ASSUME UNCHANGED received, \A c \in Requests : task[c] = "done" => task'[c] = "done"
      PROVE  Unserved'
  BY <1>1 DEF Unserved
<1>2. ASSUME UNCHANGED <<task, received>> PROVE Unserved'
  BY <1>1, <1>2
<1>3. ASSUME NEW c \in Requests, (\E p \in Pid : Ask(c, p)) \/ Exit(c) \/ Find(c) PROVE Unserved'
  BY <1>1, <1>3 DEF Ask, Exit, Find
<1>4. ASSUME NEW c \in Requests, Answer(c) PROVE Unserved'
  <2>1. stream[c] = c /\ c # Nobody
    BY <1>4 DEF Answer, AnswersInv, Awaited, Jobs
  <2>2. /\ task'[c] = "done"
        /\ \A d \in Requests : d # c => task'[d] = task[d] /\ received'[d] = received[d]
    BY <1>4, <2>1 DEF Answer
  <2> QED  BY <2>2 DEF Unserved
<1>5. ASSUME \/ \E s \in Signallers : SendSignal(s)
             \/ \E c \in Requests \cup Signallers : Intake(c)
             \/ \E n \in Notifications : Notify(n)
             \/ NotifyManager \/ UNCHANGED vars
             \/ \E w \in Watchers : CallWatch(w) \/ HangUp(w) \/ WatcherReads(w) \/ Enrol(w)
             \/ \E b \in Items, w \in Watchers : WriteData(b, w) \/ EndWrite(b, w)
      PROVE  Unserved'
  <2>1. UNCHANGED <<task, received>>
    BY <1>5 DEF SendSignal, Intake, Register, PushRequest, Notify, NotifyManager, CallWatch,
        HangUp, WatcherReads, Enrol, WriteData, EndWrite, vars
  <2> QED  BY <1>2, <2>1
<1>6. ASSUME NEW b \in Items, Begin(b) \/ End(b) PROVE Unserved'
  BY <1>1, <1>6, JobsAre DEF Begin, End
<1>7. CASE Execute
  <2>1. Head(list) = list[1] /\ list[1] \in Jobs /\ 1 \in 1 .. Len(list)
    BY <1>7, ListType DEF Execute
  <2>2. \A c \in Requests : c = list[1] => task[c] = "none"
    BY <2>1, Stages DEF Queued
  <2>3. \A c \in Requests : c # list[1] => task'[c] = task[c]
    BY <1>7, <2>1, JobsAre DEF Execute
  <2> QED  BY <1>1, <1>7, <2>2, <2>3 DEF Execute
<1> QED  BY <1>3, <1>4, <1>5, <1>6, <1>7 DEF Next, Transmit, Broadcast

\* What Reception sees.
clients == [c \in Requests |-> ClientState(c)]
watchers == [w \in Watchers |-> WatcherState(w)]
airing == IF LockFree THEN Nobody ELSE CHOOSE b \in Items : Locking(b)
airedItems == {b \in Items : task[b] \in {"locked", "done"}}

ReceptionInv == AnswersInv /\ BroadcastInv /\ Enrolled /\ Unserved

LEMMA AiringIs ==
    /\ LockFree => airing = Nobody
    /\ Serial => \A b \in Items : Locking(b) => airing = b
<1>1. ASSUME Serial, NEW b \in Items, Locking(b) PROVE airing = b
  <2>1. ~LockFree /\ \A a \in Items : Locking(a) <=> a = b
    BY <1>1 DEF Serial, LockFree, Locking
  <2> QED  BY <2>1 DEF airing
<1> QED  BY <1>1 DEF airing

LEMMA AiringIsNext ==
    /\ LockFree' => airing' = Nobody
    /\ Serial' => \A b \in Items : Locking(b)' => airing' = b
<1>1. ASSUME Serial', NEW b \in Items, Locking(b)' PROVE airing' = b
  <2>1. ~LockFree' /\ \A a \in Items : Locking(a)' <=> a = b
    BY <1>1 DEF Serial, LockFree, Locking
  <2> QED  BY <2>1 DEF airing
<1> QED  BY <1>1 DEF airing

\* A step that leaves the clients alone, or the broadcasts.
LEMMA ClientsKept == UNCHANGED <<process, received>> => clients' = clients
BY DEF clients, ClientState

LEMMA WatchersKept == UNCHANGED <<watch, enrolling, listening>> => watchers' = watchers
BY DEF watchers, WatcherState

LEMMA AirKept ==
    ASSUME Serial, Serial', UNCHANGED <<inbox, listening>>,
           \A b \in Items : task'[b] = task[b] \/ {task[b], task'[b]} \subseteq {"none", "accepted", "refused"}
    PROVE  airing' = airing /\ airedItems' = airedItems /\ Unwritten' = Unwritten
<1>1. \A b \in Items : Locking(b)' <=> Locking(b)
  BY DEF Locking
<1>2. \A w, b : Has(w, b)' <=> Has(w, b)
  BY DEF Has
<1>3. Unwritten' = Unwritten
  BY <1>1, <1>2 DEF Unwritten
<1>4. airedItems' = airedItems
  BY DEF airedItems
<1>5. airing' = airing
  <2>1. CASE LockFree
    BY <1>1, <2>1, AiringIs, AiringIsNext DEF LockFree, Locking
  <2>2. CASE ~LockFree
    <3>1. PICK b \in Items : Locking(b)
      BY <2>2 DEF LockFree, Locking
    <3> QED  BY <1>1, <3>1, AiringIs, AiringIsNext
  <2> QED  BY <2>1, <2>2
<1> QED  BY <1>3, <1>4, <1>5

LEMMA ClientReceived ==
    ASSUME TypeOK, Named, Once, ReceptionInv, Serial', NEW c \in Requests,
           (\E p \in Pid : Ask(c, p)) \/ Exit(c) \/ Transmit(c)
    PROVE  R!Ask(c) \/ R!Serve(c) \/ R!Leave(c) \/ UNCHANGED R!receptionVars
<1> USE DEF ReceptionInv
<1>1. UNCHANGED <<watchers, airing, airedItems, Unwritten, inbox>>
  BY OffAir, WatchersKept, AirKept DEF BroadcastInv
<1>2. ASSUME UNCHANGED clients PROVE UNCHANGED R!receptionVars
  BY <1>1, <1>2 DEF R!receptionVars, clients, watchers, airing, airedItems
<1>3. ASSUME NEW from, NEW to, clients[c] = from, clients' = [clients EXCEPT ![c] = to]
      PROVE  R!Proceed(c, from, to)
  BY <1>1, <1>3 DEF R!Proceed, clients, watchers, airing, airedItems
<1>4. ASSUME NEW from, NEW to, ClientState(c) = from, ClientState(c)' = to,
             \A d \in Requests : d # c => ClientState(d)' = ClientState(d)
      PROVE  R!Proceed(c, from, to)
  <2>1. clients[c] = from /\ clients' = [clients EXCEPT ![c] = to]
    BY <1>4 DEF clients
  <2> QED  BY <1>3, <2>1
<1>5. received[c] \in {c, Nobody} /\ c # Nobody
  BY DEF AnswersInv, AnswersGoHome, Jobs
<1>6. ASSUME NEW p \in Pid, Ask(c, p) PROVE R!Ask(c)
  <2>1. process[c] = "unborn" /\ process'[c] = "waiting" /\ received'[c] = Nobody
    BY <1>6, Stages DEF Ask, Named, TypeOK, Unserved
  <2>2. \A d \in Requests : d # c => process'[d] = process[d] /\ received'[d] = received[d]
    BY <1>6 DEF Ask, TypeOK
  <2>3. ClientState(c) = "idle" /\ ClientState(c)' = "asking"
    BY <1>5, <2>1 DEF ClientState
  <2>4. \A d \in Requests : d # c => ClientState(d)' = ClientState(d)
    BY <2>2 DEF ClientState
  <2> QED  BY <1>4, <2>3, <2>4 DEF R!Ask
<1>7. CASE Exit(c)
  <2>1. process[c] = "waiting" /\ process'[c] = "exited"
    BY <1>7 DEF Exit, TypeOK
  <2>2. \A d \in Requests : d # c => process'[d] = process[d] /\ received'[d] = received[d]
    BY <1>7 DEF Exit, TypeOK
  <2>3. ClientState(c) \in {"asking", "served"} /\ ClientState(c)' = "gone"
    BY <1>5, <2>1 DEF ClientState
  <2>4. \A d \in Requests : d # c => ClientState(d)' = ClientState(d)
    BY <2>2 DEF ClientState
  <2> QED  BY <1>4, <2>3, <2>4 DEF R!Leave
<1>8. CASE Find(c)
  BY <1>2, <1>8, ClientsKept DEF Find, clientVars
<1>9. CASE Answer(c)
  <2>1. stream[c] = c /\ received[c] = Nobody
    BY <1>9 DEF Answer, AnswersInv, Awaited, Unserved
  <2>2. CASE process[c] = "waiting"
    <3>1. process' = process /\ received' = [received EXCEPT ![c] = c]
      BY <1>5, <1>9, <2>1, <2>2 DEF Answer
    <3>2. ClientState(c) = "asking" /\ ClientState(c)' = "served"
      BY <1>5, <2>1, <2>2, <3>1 DEF ClientState, TypeOK
    <3>3. \A d \in Requests : d # c => ClientState(d)' = ClientState(d)
      BY <3>1 DEF ClientState, TypeOK
    <3> QED  BY <1>4, <3>2, <3>3 DEF R!Serve
  <2>3. CASE process[c] # "waiting"
    BY <1>2, <1>9, <2>1, <2>3, ClientsKept DEF Answer
  <2> QED  BY <2>2, <2>3
<1> QED  BY <1>6, <1>7, <1>8, <1>9 DEF Transmit

LEMMA AudienceIs == TypeOK => R!Audience = listening
<1>1. TypeOK => \A w \in Watchers : watchers[w] \in {"present", "deaf"} <=> w \in listening
  BY DEF watchers, WatcherState
<1> QED  BY <1>1 DEF R!Audience, watchers, TypeOK

LEMMA NothingUnwritten ==
    /\ LockFree => Unwritten = {}
    /\ LockFree' => Unwritten' = {}
BY DEF LockFree, Unwritten, Locking

LEMMA WatcherReceived ==
    ASSUME TypeOK, ReceptionInv, Serial', NEW w \in Watchers,
           CallWatch(w) \/ HangUp(w) \/ WatcherReads(w) \/ Enrol(w)
    PROVE  R!HangUp(w) \/ R!Join(w) \/ UNCHANGED R!receptionVars
<1> USE DEF TypeOK, ReceptionInv
<1>1. UNCHANGED <<clients, airedItems, inbox, task>>
  <2>1. UNCHANGED <<process, received, task, inbox>>
    BY DEF CallWatch, HangUp, WatcherReads, Enrol, clientVars, outVars
  <2> QED  BY <2>1, ClientsKept DEF airedItems
<1>2. ASSUME UNCHANGED listening PROVE UNCHANGED <<airing, Unwritten>>
  BY <1>1, <1>2, AirKept DEF BroadcastInv
<1>3. ASSUME UNCHANGED <<watchers, listening>> PROVE UNCHANGED R!receptionVars
  BY <1>1, <1>2, <1>3 DEF R!receptionVars, clients, watchers, airing, airedItems
<1>4. CASE CallWatch(w)
  <2>1. w \notin listening /\ watch[w] = "unborn" /\ watch'[w] = "open"
    BY <1>4 DEF CallWatch, Enrolled
  <2>2. /\ UNCHANGED listening
        /\ \A v \in Watchers : v # w => watch'[v] = watch[v] /\ (v \in enrolling' <=> v \in enrolling)
    BY <1>4 DEF CallWatch
  <2>3. \A v \in Watchers : WatcherState(v)' = WatcherState(v)
    BY <2>1, <2>2 DEF WatcherState
  <2> QED  BY <1>3, <2>2, <2>3 DEF watchers
<1>5. CASE WatcherReads(w)
  BY <1>3, <1>5, WatchersKept DEF WatcherReads
<1>6. CASE HangUp(w)
  <2>1. /\ watch[w] = "open" /\ watch'[w] = "exited" /\ UNCHANGED <<enrolling, listening>>
        /\ \A v \in Watchers : v # w => watch'[v] = watch[v]
    BY <1>6 DEF HangUp
  <2>2. \A v \in Watchers : v # w => WatcherState(v)' = WatcherState(v)
    BY <2>1 DEF WatcherState
  <2>3. CASE w \in listening
    <3>1. WatcherState(w) = "present" /\ WatcherState(w)' = "deaf"
      BY <2>1, <2>3 DEF WatcherState
    <3>2. watchers[w] = "present" /\ watchers' = [watchers EXCEPT ![w] = "deaf"]
      BY <2>2, <3>1 DEF watchers
    <3> QED  BY <1>1, <1>2, <2>1, <3>2 DEF R!HangUp, clients, watchers, airing, airedItems
  <2>4. CASE w \notin listening
    <3>1. w \in enrolling
      BY <2>1, <2>4 DEF Enrolled
    <3>2. WatcherState(w)' = WatcherState(w)
      BY <2>1, <2>4, <3>1 DEF WatcherState
    <3> QED  BY <1>3, <2>1, <2>2, <3>2 DEF watchers
  <2> QED  BY <2>3, <2>4
<1>7. CASE Enrol(w)
  <2>1. /\ w \in enrolling /\ w \notin listening /\ LockFree /\ LockFree'
        /\ listening' = listening \cup {w} /\ enrolling' = enrolling \ {w} /\ UNCHANGED watch
    BY <1>1, <1>7 DEF Enrol, Enrolled, LockFree
  <2>2. \A v \in Watchers : v # w => WatcherState(v)' = WatcherState(v)
    BY <2>1 DEF WatcherState
  <2>3. WatcherState(w) = "away" /\ WatcherState(w)' \in {"present", "deaf"}
    BY <2>1 DEF WatcherState
  <2>4. /\ watchers[w] = "away"
        /\ \E st \in {"present", "deaf"} : watchers' = [watchers EXCEPT ![w] = st]
    BY <2>2, <2>3 DEF watchers
  <2>5. airing = Nobody /\ airing' = Nobody /\ Unwritten' = Unwritten
    BY <2>1, AiringIs, AiringIsNext, NothingUnwritten
  <2> QED  BY <1>1, <2>4, <2>5 DEF R!Join, clients, watchers, airing, airedItems
<1> QED  BY <1>4, <1>5, <1>6, <1>7

LEMMA BeginReceived ==
    ASSUME TypeOK, ReceptionInv, Serial', NEW b \in Items, Begin(b)
    PROVE  R!Begin(b)
<1> USE DEF TypeOK, ReceptionInv
<1>1. /\ LockFree /\ task[b] = "accepted" /\ task'[b] = "locked"
      /\ \A a \in Items : a # b => task'[a] = task[a]
      /\ UNCHANGED <<process, received, watch, enrolling, listening, inbox>>
  BY DEF Begin, clientVars, watcherVars
<1>2. airing = Nobody /\ airing' = b
  BY <1>1, AiringIs, AiringIsNext DEF Locking
<1>3. b \notin airedItems /\ airedItems' = airedItems \cup {b}
  BY <1>1 DEF airedItems
<1>4. Unwritten' = R!Audience
  <2>1. \A w \in Watchers : ~Has(w, b)'
    <3>1. \A w \in Watchers : ~Has(w, b)
      BY <1>1 DEF BroadcastInv, Serial
    <3>2. \A w \in Watchers : Has(w, b)' <=> Has(w, b)
      BY <1>1 DEF Has
    <3> QED  BY <3>1, <3>2
  <2>2. Unwritten' = listening
    BY <1>1, <2>1 DEF Unwritten, Locking
  <2> QED  BY <2>2, AudienceIs
<1>5. UNCHANGED <<clients, watchers, inbox>>
  BY <1>1, ClientsKept, WatchersKept
<1>6. Unwritten' = {w \in Watchers : watchers[w] \in {"present", "deaf"}}
  BY <1>4 DEF R!Audience, watchers
<1> QED  BY <1>2, <1>3, <1>5, <1>6
         DEF R!Begin, R!Audience, clients, watchers, airing, airedItems

LEMMA HearReceived ==
    ASSUME TypeOK, ReceptionInv, Serial', NEW b \in Items, NEW w \in Watchers,
           WriteData(b, w), watch[w] = "open"
    PROVE  R!Hear(w)
<1> USE DEF TypeOK, ReceptionInv
<1>1. /\ Locking(b) /\ w \in cast[b].rest
      /\ inbox' = [inbox EXCEPT ![w] = Append(@, b)]
      /\ UNCHANGED <<process, received, task, watch, enrolling, listening>>
  BY DEF WriteData, Locking, clientVars
<1>2. w \in listening /\ ~Has(w, b) /\ \A a \in Items : Locking(a) <=> a = b
  BY <1>1 DEF BroadcastInv, Serial, Enrolled, Locking
<1>3. /\ \A v \in Watchers : Has(v, b)' <=> Has(v, b) \/ v = w
      /\ \A a \in Items : Locking(a)' <=> Locking(a)
  <2>1. inbox[w] \in Seq(Items) /\ inbox'[w] = Append(inbox[w], b)
    BY <1>1
  <2>2. Len(inbox'[w]) \in DOMAIN inbox'[w] /\ inbox'[w][Len(inbox'[w])] = b
    BY <2>1
  <2>3. Has(w, b)'
    BY <2>2 DEF Has
  <2>4. \A v \in Watchers : v # w => inbox'[v] = inbox[v]
    BY <1>1
  <2> QED  BY <1>1, <2>3, <2>4 DEF Has, Locking
<1>4. w \in Unwritten /\ Unwritten' = Unwritten \ {w}
  BY <1>1, <1>2, <1>3 DEF Unwritten
<1>5. airing = b /\ airing' = b
  BY <1>2, <1>3, AiringIs, AiringIsNext DEF BroadcastInv
<1>6. watchers[w] = "present"
  BY <1>2 DEF watchers, WatcherState
<1>7. UNCHANGED <<clients, watchers, airedItems>>
  BY <1>1, ClientsKept, WatchersKept DEF airedItems
<1>8. inbox' = [inbox EXCEPT ![w] = Append(@, airing)]
  BY <1>1, <1>5
<1> QED  BY <1>4, <1>5, <1>6, <1>7, <1>8
         DEF R!Hear, clients, watchers, airing, airedItems

LEMMA EndReceived ==
    ASSUME TypeOK, ReceptionInv, Serial', NEW b \in Items, End(b)
    PROVE  R!Finish
<1> USE DEF TypeOK, ReceptionInv
<1> DEFINE lost == cast[b].old
<1>1. /\ Locking(b) /\ cast[b].rest = {} /\ listening' = listening \ lost
      /\ task'[b] = "done" /\ \A a \in Items : a # b => task'[a] = task[a]
      /\ UNCHANGED <<process, received, watch, enrolling, inbox>>
  BY DEF End, Locking, clientVars
<1>2. \A a \in Items : Locking(a) <=> a = b
  BY <1>1 DEF BroadcastInv, Serial, Locking
<1>3. LockFree'
  BY <1>1, <1>2 DEF LockFree, Locking
<1>4. airing # Nobody /\ airing' = Nobody /\ Unwritten' = {}
  BY <1>2, <1>3, AiringIs, AiringIsNext, NothingUnwritten, JobsAre DEF BroadcastInv
<1>5. /\ lost \subseteq Watchers
      /\ \A w \in lost : w \in listening /\ watch[w] = "exited" /\ w \notin enrolling
  <2>1. lost \subseteq Watchers
    BY CastSteps DEF Locals
  <2>2. \A w \in lost : watch[w] = "exited"
    BY <1>1 DEF BroadcastInv, Recorded, Locking
  <2> QED  BY <1>1, <2>1, <2>2 DEF Enrolled, Locking
<1>6. Unwritten \subseteq lost
  <2>1. \A w \in listening : w \in lost \/ Has(w, b)
    BY <1>1 DEF BroadcastInv, Recorded, Locking
  <2> QED  BY <1>2, <2>1 DEF Unwritten
<1> HIDE DEF lost
<1>7. \A w \in lost : watchers[w] = "deaf"
  BY <1>5 DEF watchers, WatcherState
<1>8. watchers' = [w \in Watchers |-> IF w \in lost THEN "gone" ELSE watchers[w]]
  <2>1. \A w \in Watchers : WatcherState(w)' = IF w \in lost THEN "gone" ELSE WatcherState(w)
    BY <1>1, <1>5 DEF WatcherState
  <2> QED  BY <2>1 DEF watchers
<1>9. lost \in SUBSET R!Audience
  BY <1>5, AudienceIs
<1>10. \E S \in SUBSET R!Audience :
         /\ Unwritten \subseteq S
         /\ \A w \in S : watchers[w] = "deaf"
         /\ watchers' = [w \in Watchers |-> IF w \in S THEN "gone" ELSE watchers[w]]
  BY <1>6, <1>7, <1>8, <1>9
<1>11. UNCHANGED <<clients, airedItems, inbox>>
  BY <1>1, ClientsKept DEF airedItems, Locking
<1> QED  BY <1>4, <1>10, <1>11
         DEF R!Finish, R!Audience, clients, watchers, airing, airedItems

LEMMA ReceptionStep ==
    TypeOK /\ Named /\ Once /\ ReceptionInv /\ Serial' /\ [Next]_vars
        => [R!ReceptionNext]_(R!receptionVars)
<1> SUFFICES ASSUME TypeOK, Named, Once, ReceptionInv, Serial', [Next]_vars
             PROVE  R!ReceptionNext \/ UNCHANGED R!receptionVars
  OBVIOUS
<1>1. ASSUME NEW c \in Requests, (\E p \in Pid : Ask(c, p)) \/ Exit(c) \/ Transmit(c)
      PROVE  R!ReceptionNext \/ UNCHANGED R!receptionVars
  BY <1>1, ClientReceived DEF R!ReceptionNext
<1>2. ASSUME NEW w \in Watchers, CallWatch(w) \/ HangUp(w) \/ WatcherReads(w) \/ Enrol(w)
      PROVE  R!ReceptionNext \/ UNCHANGED R!receptionVars
  BY <1>2, WatcherReceived DEF R!ReceptionNext
<1>3. ASSUME UNCHANGED <<process, received, watch, enrolling, listening, inbox>>,
             \A b \in Items : task'[b] = task[b] \/ {task[b], task'[b]} \subseteq {"none", "accepted", "refused"}
      PROVE  UNCHANGED R!receptionVars
  <2>1. UNCHANGED <<clients, watchers, airing, airedItems, Unwritten>>
    BY <1>3, ClientsKept, WatchersKept, AirKept DEF ReceptionInv, BroadcastInv
  <2> QED  BY <1>3, <2>1 DEF R!receptionVars, clients, watchers, airing, airedItems
<1>4. ASSUME \/ \E s \in Signallers : SendSignal(s)
             \/ \E c \in Requests \cup Signallers : Intake(c)
             \/ \E n \in Notifications : Notify(n)
             \/ NotifyManager \/ Execute \/ UNCHANGED vars
      PROVE  UNCHANGED R!receptionVars
  <2>1. UNCHANGED <<process, received>>
    BY <1>4 DEF SendSignal, Intake, Register, PushRequest, Notify, NotifyManager, Execute,
        vars, clientVars
  <2> QED  BY <1>3, <1>4, <2>1, OffAir
<1>5. ASSUME NEW b \in Items, NEW w \in Watchers, WriteData(b, w) \/ EndWrite(b, w)
      PROVE  R!Hear(w) \/ UNCHANGED R!receptionVars
  <2>1. CASE WriteData(b, w) /\ watch[w] = "open"
    BY <2>1, HearReceived
  <2>2. CASE EndWrite(b, w) \/ (WriteData(b, w) /\ watch[w] # "open")
    <3>1. UNCHANGED <<process, received, task, watch, enrolling, listening, inbox>>
      BY <2>2 DEF WriteData, EndWrite, clientVars, watcherVars
    <3> QED  BY <1>3, <3>1
  <2> QED  BY <1>5, <2>1, <2>2
<1>6. ASSUME NEW b \in Items, Broadcast(b)
      PROVE  R!ReceptionNext \/ UNCHANGED R!receptionVars
  BY <1>5, <1>6, BeginReceived, EndReceived DEF Broadcast, R!ReceptionNext
<1> QED  BY <1>1, <1>2, <1>4, <1>6 DEF Next

LEMMA ReceptionInit == Init => R!ReceptionInit /\ ReceptionInv
<1> SUFFICES ASSUME Init PROVE R!ReceptionInit /\ ReceptionInv
  OBVIOUS
<1>1. /\ \A c \in Requests : process[c] = "unborn" /\ received[c] = Nobody /\ task[c] = "none"
      /\ \A b \in Items : task[b] = "none"
      /\ \A w \in Watchers : watch[w] = "unborn"
      /\ enrolling = {} /\ listening = {} /\ inbox = [w \in Watchers |-> <<>>]
  BY DEF Init
<1>2. AnswersInv /\ BroadcastInv
  BY AnswersInit, BroadcastInit
<1>3. Enrolled /\ Unserved
  BY <1>1 DEF Enrolled, Unserved
<1>4. /\ clients = [c \in Requests |-> "idle"] /\ watchers = [w \in Watchers |-> "away"]
      /\ airing = Nobody /\ airedItems = {} /\ Unwritten = {}
  <2>1. LockFree
    BY <1>1 DEF LockFree
  <2> QED  BY <1>1, <2>1, AiringIs, NothingUnwritten
           DEF clients, ClientState, watchers, WatcherState, airedItems
<1> QED  BY <1>1, <1>2, <1>3, <1>4
         DEF ReceptionInv, R!ReceptionInit, clients, watchers, airing, airedItems

\* Whatever tables, locks and tasks there are, clients and watchers see what
\* Reception promises: answers once and to who asked, every broadcast from
\* enrolment to hanging up, in order and without a gap (listener.rs:164-256).
THEOREM ReceptionIsKept == Spec => IsReception
<1>1. TypeOK /\ Named /\ Once /\ ReceptionInv /\ [Next]_vars => ReceptionInv' /\ Serial'
  BY AnswersStep, BroadcastStep, EnrolledStep, UnservedStep DEF ReceptionInv, BroadcastInv
<1> QED  BY <1>1, OnceInvariant, ReceptionInit, ReceptionStep, PTL
         DEF Spec, IsReception, R!ReceptionSpec
=============================================================================
