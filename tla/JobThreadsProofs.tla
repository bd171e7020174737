------------------------- MODULE JobThreadsProofs -------------------------
(***************************************************************************)
(* What holds of the threads around the SyncList for any number of D-Bus   *)
(* calls and client tasks: they implement Mailbox, the manager never finds *)
(* the list empty, broadcasts keep the order of their ids, and an alarm    *)
(* means that the manager is gone or a listener task could not parse a     *)
(* notification.                                                           *)
(***************************************************************************)
EXTENDS JobThreads, FiniteSetTheorems, TLAPS

USE ProducersAssumption, ThreadsAssumption, NamesAssumption

-----------------------------------------------------------------------------
(* Producers.                                                               *)

LEMMA ProducersFinite ==
    /\ IsFiniteSet(Producers)
    /\ \A S \in SUBSET Producers : IsFiniteSet(S) /\ Cardinality(S) \in Nat
<1>1. IsFiniteSet(TimedCalls)
  BY FS_Subset
<1>2. IsFiniteSet(Timers)
  <2> DEFINE f == [p \in TimedCalls |-> Timer(p)]
  <2>1. f \in Surjection(TimedCalls, Timers)
    BY DEF Surjection, Timers
  <2> QED  BY <1>1, <2>1, FS_Surjection
<1>3. IsFiniteSet(Acks)
  <2> DEFINE f == [p \in HeardCalls |-> Ack(p)]
  <2>1. f \in Surjection(HeardCalls, Acks)
    BY DEF Surjection, Acks
  <2> QED  BY <2>1, FS_Subset, FS_Surjection
<1>4. IsFiniteSet(Producers)
  <2>1. IsFiniteSet(Handlers)
    BY FS_Union DEF Handlers
  <2>2. IsFiniteSet(ListenerTasks)
    BY <1>3, FS_Union DEF ListenerTasks
  <2>3. IsFiniteSet(Handlers \cup ListenerTasks)
    BY <2>1, <2>2, FS_Union
  <2> QED  BY <1>2, <2>3, FS_Union DEF Producers
<1> QED  BY <1>4, FS_Subset, FS_CardinalityType

\* Each call with a timeout has a timer thread of its own, which is no caller.
LEMMA TimerNames ==
    /\ \A p \in TimedCalls : Timer(p) \in Producers /\ Timer(p) \notin Handlers \cup ClientTasks
    /\ \A p, q \in TimedCalls : Timer(p) = Timer(q) => p = q
<1>1. \A p \in TimedCalls : Timer(p) \in Timers
  BY DEF Timers
<1>2. \A p, q \in TimedCalls : Timer(p) = Timer(q) => p = q
  BY DEF Timer
<1> QED  BY <1>1, <1>2 DEF Producers, Handlers

\* So has each call that is heard its acknowledging task.
LEMMA AckNames ==
    /\ \A p \in HeardCalls : Ack(p) \in Producers /\ Ack(p) \notin Handlers \cup ClientTasks
    /\ \A p, q \in HeardCalls : Ack(p) = Ack(q) => p = q
    /\ \A p \in TimedCalls, q \in HeardCalls : Timer(p) # Ack(q)
<1>1. \A p \in HeardCalls : Ack(p) \in Acks
  BY DEF Acks
<1>2. \A p, q \in HeardCalls : Ack(p) = Ack(q) => p = q
  BY DEF Ack
<1>3. \A p, q : Timer(p) # Ack(q)
  BY DEF Timer, Ack
<1> QED  BY <1>1, <1>2, <1>3 DEF Producers, Handlers, ListenerTasks

LEMMA CallersAre ==
    /\ NotifyCalls \subseteq Handlers /\ Handlers \subseteq Producers
    /\ ClientTasks \subseteq Producers /\ TimedCalls \subseteq NotifyCalls
    /\ HeardCalls \subseteq NotifyCalls /\ LongCalls \subseteq HeardCalls
    /\ Handlers \cap ClientTasks = {}
BY DEF Handlers, ListenerTasks, Producers

-----------------------------------------------------------------------------
(* Typing.                                                                  *)

\* The manager has a job in hand exactly between the pop and its return.
HasJob ==
    /\ mpc \in {"guard", "execute", "emit", "reply"} => job \in Producers
    /\ mpc \notin {"guard", "execute", "emit", "reply"} => job = Free

TypeInv == TypeOK /\ HasJob

LEMMA CountNat == TypeOK => Cardinality({q \in NotifyCalls : number[q] # 0}) \in Nat
BY ProducersFinite, CallersAre

LEMMA ProducerType ==
    ASSUME TypeInv, NEW p \in Producers, Enter(p) \/ Accept(p) \/ Continue(p)
    PROVE  TypeInv'
<1> USE DEF TypeInv, HasJob, TypeOK, ProducerAt, LoopAt, Goto, daemon
<1>1. CASE Enter(p)
  <2>1. number' \in [NotifyCalls -> Nat]
    BY <1>1, CountNat DEF Enter
  <2> QED  BY <1>1, <2>1 DEF Enter
<1>2. CASE Accept(p)
  BY <1>2 DEF Accept
<1>3. CASE Lock(p)
  BY <1>3 DEF Lock
<1>4. CASE FindPoisoned(p)
  BY <1>4 DEF FindPoisoned, Reported
<1>5. CASE Push(p)
  BY <1>5 DEF Push
<1>6. CASE Send(p)
  BY <1>6 DEF Send
<1>7. CASE SendFails(p)
  BY <1>7 DEF SendFails, Reported
<1>8. CASE Unlock(p)
  BY <1>8 DEF Unlock
<1>9. CASE Choke(p)
  BY <1>9 DEF Choke
<1> QED  BY <1>1, <1>2, <1>3, <1>4, <1>5, <1>6, <1>7, <1>8, <1>9 DEF Continue

LEMMA ManagerType ==
    ASSUME TypeInv, ManagerStep
    PROVE  TypeInv'
<1> USE DEF TypeInv, HasJob, TypeOK, ManagerAt, ProducerAt, LoopAt, Goto, daemon, ManagerIs
<1>1. CASE Receive
  BY <1>1 DEF Receive
<1>2. CASE ManagerLock
  BY <1>2 DEF ManagerLock
<1>3. CASE Pop
  <2>1. CASE list = <<>>
    BY <1>3, <2>1 DEF Pop
  <2>2. CASE list # <<>>
    <3>1. Head(list) \in Producers /\ Tail(list) \in Seq(Producers)
      BY <2>2
    <3> QED  BY <1>3, <2>2, <3>1 DEF Pop, AfterPop
  <2> QED  BY <2>1, <2>2
<1>4. CASE DropGuard
  BY <1>4 DEF DropGuard
<1>5. CASE ExecuteBroadcast
  BY <1>5 DEF ExecuteBroadcast
<1>6. CASE ExecuteOther
  BY <1>6 DEF ExecuteOther
<1>7. CASE Emit
  BY <1>7 DEF Emit
<1>8. CASE Return
  BY <1>8 DEF Return
<1>9. CASE ReturnError
  BY <1>9 DEF ReturnError
<1>10. CASE ManagerLockedOut
  BY <1>10 DEF ManagerLockedOut
<1> QED  BY <1>1, <1>2, <1>3, <1>4, <1>5, <1>6, <1>7, <1>8, <1>9, <1>10 DEF ManagerStep

LEMMA LoopType ==
    ASSUME TypeInv, LoopStep \/ AcceptFails
    PROVE  TypeInv'
<1> USE DEF TypeInv, HasJob, TypeOK, ProducerAt, LoopAt, Goto
<1>1. CASE Bind
  BY <1>1 DEF Bind
<1>2. CASE Check
  BY <1>2 DEF Check
<1>3. ASSUME NEW p \in Producers, AcceptResult(p) PROVE TypeInv'
  BY <1>3 DEF AcceptResult
<1>4. CASE EndProcess
  BY <1>4 DEF EndProcess
<1>5. CASE AcceptFails
  BY <1>5 DEF AcceptFails
<1> QED  BY <1>1, <1>2, <1>3, <1>4, <1>5 DEF LoopStep

LEMMA TypeStep == TypeInv /\ [Next]_vars => TypeInv'
<1> SUFFICES ASSUME TypeInv, [Next]_vars PROVE TypeInv'
  OBVIOUS
<1>1. CASE UNCHANGED vars
  BY <1>1 DEF TypeInv, HasJob, TypeOK, vars, daemon
<1> QED  BY <1>1, ProducerType, ManagerType, LoopType DEF Next

LEMMA TypeInvariant == Spec => []TypeInv
<1>1. Init => TypeInv
  <2> SUFFICES ASSUME Init PROVE TypeInv
    OBVIOUS
  <2>1. pc \in [Producers -> ProducerAt] /\ number \in [NotifyCalls -> Nat]
    BY DEF Init, ProducerAt
  <2>2. list \in Seq(Producers) /\ executed \subseteq Producers
    BY DEF Init
  <2> QED  BY <2>1, <2>2 DEF Init, TypeInv, HasJob, TypeOK, ManagerAt, LoopAt
<1> QED  BY <1>1, TypeStep, PTL DEF Spec

\* Every variable keeps its type, for any numbers of calls and client tasks.
THEOREM TypeCorrect == Spec => []TypeOK
BY TypeInvariant, PTL DEF TypeInv

-----------------------------------------------------------------------------
(* Every job is pushed, popped, timed and acknowledged once.                *)

\* Its job is not in the list yet.
Early == {"unstarted", "called", "locked"}

Queued(p) == \E i \in 1 .. Len(list) : list[i] = p

Once ==
    /\ \A i, j \in 1 .. Len(list) : list[i] = list[j] => i = j
    /\ \A p \in Producers : Queued(p) \/ job = p => pc[p] \notin Early
    /\ ~Queued(job)
    /\ \A p \in TimedCalls :
            pc[Timer(p)] # "unstarted" =>
                /\ pc[p] \notin Early
                /\ ~Queued(p)
                /\ job = p => mpc \notin {"guard", "execute"}
    /\ \A p \in executed : pc[p] \notin Early /\ ~Queued(p) /\ job # p
    /\ backlog \subseteq executed
    /\ \A p \in HeardCalls : pc[Ack(p)] # "unstarted" => p \in executed /\ p \notin backlog

LEMMA FreeNotQueued == TypeInv => ~Queued(Free)
BY DEF TypeInv, TypeOK, Queued

\* A step of a producer that leaves the list alone.
LEMMA OnceKept ==
    ASSUME TypeInv, Once, UNCHANGED <<list, job, mpc, executed, backlog>>, NEW p \in Producers, NEW where \in ProducerAt,
           Goto(p, where),
           where \in Early => pc[p] \in Early,
           pc[p] = "unstarted" => p \in Handlers \cup ClientTasks
    PROVE  Once'
<1> USE DEF TypeInv, TypeOK
<1>1. \A q \in Producers : Queued(q)' <=> Queued(q)
  BY DEF Queued
<1>2. \A q \in Producers : q # p => pc'[q] = pc[q]
  BY DEF Goto
<1>3. pc'[p] = where
  BY DEF Goto
<1>4. \A q \in Producers : pc[q] \notin Early => pc'[q] \notin Early
  BY <1>2, <1>3
<1>5. \A q \in TimedCalls : pc'[Timer(q)] # "unstarted" => pc[Timer(q)] # "unstarted"
  BY <1>2, <1>3, TimerNames
<1>6. ~Queued(job)'
  BY DEF Once, Queued
<1>7. \A q \in HeardCalls : pc'[Ack(q)] # "unstarted" => pc[Ack(q)] # "unstarted"
  BY <1>2, <1>3, AckNames
<1>8. \A q \in TimedCalls :
        pc'[Timer(q)] # "unstarted" =>
            pc'[q] \notin Early /\ ~Queued(q)' /\ (job' = q => mpc' \notin {"guard", "execute"})
  BY <1>1, <1>4, <1>5, CallersAre DEF Once
<1>9. \A q \in executed' : pc'[q] \notin Early /\ ~Queued(q)' /\ job' # q
  BY <1>1, <1>4 DEF Once
<1>10. \A q \in Producers : Queued(q)' \/ job' = q => pc'[q] \notin Early
  BY <1>1, <1>4 DEF Once
<1> QED  BY <1>6, <1>7, <1>8, <1>9, <1>10 DEF Once

LEMMA OncePushed ==
    ASSUME TypeInv, Once, NEW p \in Producers, Push(p)
    PROVE  Once'
<1> USE DEF TypeInv, TypeOK, Push, At, Goto
<1>1. /\ Len(list') = Len(list) + 1 /\ list'[Len(list) + 1] = p
      /\ \A i \in 1 .. Len(list) : list'[i] = list[i]
      /\ Len(list) \in Nat
  OBVIOUS
<1>2. \A q : Queued(q)' <=> Queued(q) \/ q = p
  BY <1>1 DEF Queued
<1>3. pc[p] \in Early /\ ~Queued(p) /\ job # p
  BY DEF Early, Once
<1>4. \A i, j \in 1 .. Len(list') : list'[i] = list'[j] => i = j
  BY <1>1, <1>3 DEF Once, Queued
<1>5. /\ \A q \in Producers : q # p => pc'[q] = pc[q]
      /\ pc'[p] = "pushed"
  OBVIOUS
<1>6. \A q \in Producers : Queued(q)' \/ job' = q => pc'[q] \notin Early
  BY <1>2, <1>5 DEF Once, Early
<1>7. ~Queued(job)'
  BY <1>2, <1>3 DEF Once
<1>8. ASSUME NEW q \in TimedCalls, pc'[Timer(q)] # "unstarted"
      PROVE  pc'[q] \notin Early /\ ~Queued(q)' /\ (job' = q => mpc' \notin {"guard", "execute"})
  <2>1. pc[Timer(q)] # "unstarted"
    BY <1>5, <1>8, TimerNames
  <2>2. pc[q] \notin Early /\ ~Queued(q) /\ (job = q => mpc \notin {"guard", "execute"})
    BY <2>1 DEF Once
  <2>3. q # p
    BY <1>3, <2>2
  <2> QED  BY <1>2, <1>5, <2>2, <2>3, CallersAre
<1>9. \A q \in executed' : pc'[q] \notin Early /\ ~Queued(q)' /\ job' # q
  BY <1>2, <1>3, <1>5 DEF Once, daemon
<1>10. \A q \in HeardCalls : pc'[Ack(q)] # "unstarted" => pc[Ack(q)] # "unstarted"
  BY <1>3, <1>5, AckNames DEF Early
<1> QED  BY <1>4, <1>6, <1>7, <1>8, <1>9, <1>10 DEF Once, daemon

LEMMA OnceProducer ==
    ASSUME TypeInv, Once, NEW p \in Producers, Enter(p) \/ Accept(p) \/ Continue(p)
    PROVE  Once'
<1> USE DEF daemon, At, LoopIs
<1>1. CASE Enter(p)
  BY <1>1, OnceKept DEF Enter, ProducerAt, Early
<1>2. CASE Accept(p)
  BY <1>2, OnceKept DEF Accept, ProducerAt, Early
<1>3. CASE Lock(p)
  BY <1>3, OnceKept DEF Lock, ProducerAt, Early
<1>4. CASE FindPoisoned(p)
  BY <1>4, OnceKept DEF FindPoisoned, ProducerAt, Early
<1>5. CASE Push(p)
  BY <1>5, OncePushed
<1>6. CASE Send(p)
  BY <1>6, OnceKept DEF Send, ProducerAt, Early
<1>7. CASE SendFails(p)
  BY <1>7, OnceKept DEF SendFails, ProducerAt, Early
<1>8. CASE Unlock(p)
  BY <1>8, OnceKept DEF Unlock, ProducerAt, Early
<1>9. CASE Choke(p)
  BY <1>9, OnceKept DEF Choke, ProducerAt, Early
<1> QED  BY <1>1, <1>2, <1>3, <1>4, <1>5, <1>6, <1>7, <1>8, <1>9 DEF Continue

LEMMA OncePopped ==
    ASSUME TypeInv, Once, Pop
    PROVE  Once'
<1> USE DEF TypeInv, TypeOK, ManagerIs
<1>1. CASE list = <<>>
  BY <1>1 DEF Pop, Once, Queued, HasJob, daemon
<1>2. CASE list # <<>>
  <2>1. /\ Len(list) \in Nat \ {0} /\ Len(list') = Len(list) - 1
        /\ \A i \in 1 .. Len(list') : list'[i] = list[i + 1] /\ i + 1 \in 1 .. Len(list)
        /\ job' = list[1] /\ list[1] \in Producers
    <3>1. list' = Tail(list) /\ job' = Head(list) /\ list \in Seq(Producers)
      BY <1>2 DEF Pop, AfterPop
    <3>2. /\ Len(list) \in Nat \ {0} /\ Len(Tail(list)) = Len(list) - 1
          /\ Head(list) = list[1] /\ list[1] \in Producers
      BY <1>2, <3>1
    <3>3. \A i \in 1 .. Len(Tail(list)) : Tail(list)[i] = list[i + 1] /\ i + 1 \in 1 .. Len(list)
      BY <3>1, <3>2
    <3> QED  BY <3>1, <3>2, <3>3
  <2>2. \A q : Queued(q)' => Queued(q)
    BY <2>1 DEF Queued
  <2>3. Queued(job')
    BY <2>1 DEF Queued
  <2>4. \A i, j \in 1 .. Len(list') : list'[i] = list'[j] => i = j
    <3> SUFFICES ASSUME NEW i \in 1 .. Len(list'), NEW j \in 1 .. Len(list'), list'[i] = list'[j]
                 PROVE  i = j
      OBVIOUS
    <3>1. /\ i + 1 \in 1 .. Len(list) /\ j + 1 \in 1 .. Len(list)
          /\ list[i + 1] = list[j + 1]
      BY <2>1
    <3>2. i + 1 = j + 1
      BY <3>1 DEF Once
    <3> QED  BY <3>2
  <2>5. ~Queued(job)'
    <3> SUFFICES ASSUME NEW i \in 1 .. Len(list'), list'[i] = list[1] PROVE FALSE
      BY <2>1 DEF Queued
    <3>1. list[i + 1] = list[1] /\ i + 1 \in 1 .. Len(list) /\ 1 \in 1 .. Len(list)
      BY <2>1
    <3>2. i + 1 = 1
      BY <3>1 DEF Once
    <3> QED  BY <3>2
  <2>6. UNCHANGED pc
    BY DEF Pop
  <2>7. \A q \in Producers : Queued(q)' \/ job' = q => pc'[q] \notin Early
    BY <2>2, <2>3, <2>6 DEF Once
  <2>8. ASSUME NEW q \in TimedCalls, pc'[Timer(q)] # "unstarted"
        PROVE  pc'[q] \notin Early /\ ~Queued(q)' /\ (job' = q => mpc' \notin {"guard", "execute"})
    <3>1. pc[q] \notin Early /\ ~Queued(q)
      BY <2>6, <2>8 DEF Once
    <3> QED  BY <2>2, <2>3, <2>6, <3>1
  <2>9. UNCHANGED <<executed, backlog>>
    BY DEF Pop, daemon
  <2>10. \A q \in executed' : pc'[q] \notin Early /\ ~Queued(q)' /\ job' # q
    BY <2>2, <2>3, <2>6, <2>9 DEF Once
  <2> QED  BY <2>4, <2>5, <2>6, <2>7, <2>8, <2>9, <2>10 DEF Once
<1> QED  BY <1>1, <1>2

LEMMA OnceTimed ==
    ASSUME TypeInv, Once, ExecuteBroadcast
    PROVE  Once'
<1> USE DEF TypeInv, TypeOK, ManagerIs, ExecuteBroadcast
<1>1. \A q : Queued(q)' <=> Queued(q)
  BY DEF Queued
<1>2. CASE job \in TimedCalls
  <2> DEFINE t == Timer(job)
  <2>1. t \in Producers /\ pc[t] = "unstarted" /\ ~Queued(t) /\ t # job
    BY <1>2, TimerNames, CallersAre DEF Once, Early
  <2>2. pc'[t] = "called" /\ \A q \in Producers : q # t => pc'[q] = pc[q]
    BY <1>2, <2>1 DEF Goto
  <2>3. \A q \in Producers : Queued(q)' \/ job' = q => pc'[q] \notin Early
    BY <1>1, <2>1, <2>2 DEF Once
  <2>4. ASSUME NEW q \in TimedCalls, pc'[Timer(q)] # "unstarted"
        PROVE  pc'[q] \notin Early /\ ~Queued(q)' /\ (job' = q => mpc' \notin {"guard", "execute"})
    <3>1. q # t /\ q \in Producers
      BY <1>2, TimerNames, CallersAre
    <3>2. CASE q = job
      BY <1>1, <2>2, <3>1, <3>2 DEF Once
    <3>3. CASE q # job
      <4>1. pc[Timer(q)] # "unstarted"
        BY <1>2, <2>2, <2>4, <3>3, TimerNames
      <4> QED  BY <1>1, <2>2, <3>1, <3>3, <4>1 DEF Once
    <3> QED  BY <3>2, <3>3
  <2>5. \A q \in executed : pc'[q] \notin Early /\ ~Queued(q)' /\ job' # q
    BY <1>1, <2>1, <2>2 DEF Once, Early
  <2>6. \A q \in HeardCalls : pc'[Ack(q)] = pc[Ack(q)]
    BY <1>2, <2>2, AckNames
  <2> QED  BY <1>1, <2>3, <2>4, <2>5, <2>6 DEF Once, daemon
<1>3. CASE job \notin TimedCalls
  BY <1>1, <1>3 DEF Once, daemon
<1> QED  BY <1>2, <1>3

LEMMA OnceManager ==
    ASSUME TypeInv, Once, ManagerStep
    PROVE  Once'
<1> USE DEF TypeInv, TypeOK, ManagerIs, daemon
<1>1. CASE Receive
  BY <1>1 DEF Receive, Once, Queued
<1>2. CASE ManagerLock
  BY <1>2 DEF ManagerLock, Once, Queued
<1>3. CASE DropGuard
  BY <1>3 DEF DropGuard, Once, Queued
<1>4. CASE ExecuteOther
  BY <1>4, FreeNotQueued DEF ExecuteOther, Once, Queued
<1>5. CASE Emit
  BY <1>5 DEF Emit, Once, Queued
<1>6. CASE Return
  <2>1. job \in Producers /\ Free \notin Producers
    BY <1>6 DEF Return, HasJob
  <2>2. pc[job] \notin Early /\ ~Queued(job) /\ job \notin executed
    BY <2>1 DEF Once
  <2>3. /\ executed' = executed \cup {job} /\ backlog' \subseteq backlog \cup {job}
        /\ job' = Free /\ mpc' = "recv" /\ UNCHANGED <<pc, list>>
    BY <1>6 DEF Return
  <2>4. \A q : Queued(q)' <=> Queued(q)
    BY <2>3 DEF Queued
  <2>5. \A q \in executed' : pc'[q] \notin Early /\ ~Queued(q)' /\ job' # q
    BY <2>1, <2>2, <2>3, <2>4 DEF Once
  <2>6. backlog' \subseteq executed'
    BY <2>3 DEF Once
  <2>7. \A q \in HeardCalls : pc'[Ack(q)] # "unstarted" => q \in executed' /\ q \notin backlog'
    BY <2>2, <2>3 DEF Once
  <2>8. ~Queued(job)'
    BY <2>3, <2>4, FreeNotQueued
  <2> QED  BY <2>1, <2>3, <2>4, <2>5, <2>6, <2>7, <2>8 DEF Once
<1>7. CASE ReturnError
  BY <1>7, FreeNotQueued DEF ReturnError, Once, Queued
<1>8. CASE ManagerLockedOut
  BY <1>8 DEF ManagerLockedOut, Once, Queued
<1> QED
  BY <1>1, <1>2, <1>3, <1>4, <1>5, <1>6, <1>7, <1>8, OncePopped, OnceTimed DEF ManagerStep

LEMMA OnceHeard ==
    ASSUME TypeInv, Once, NEW p \in Producers, AcceptResult(p)
    PROVE  Once'
<1> USE DEF TypeInv, TypeOK, AcceptResult
<1>1. \A q : Queued(q)' <=> Queued(q)
  BY DEF Queued
<1>2. p \in executed /\ backlog' = backlog \ {p} /\ UNCHANGED <<executed, job, mpc, list>>
  BY DEF Once
<1>3. CASE p \in HeardCalls /\ Goto(Ack(p), "called")
  <2> DEFINE a == Ack(p)
  <2>1. a \in Producers /\ pc[a] = "unstarted" /\ ~Queued(a) /\ job # a /\ a \notin executed
    BY <1>3, AckNames DEF Once, Early
  <2>2. pc'[a] = "called" /\ \A q \in Producers : q # a => pc'[q] = pc[q]
    BY <1>3, <2>1 DEF Goto
  <2>3. \A q \in NotifyCalls : pc'[q] = pc[q]
    BY <1>3, <2>2, AckNames, CallersAre
  <2>4. \A q \in Producers : Queued(q)' \/ job' = q => pc'[q] \notin Early
    BY <1>1, <1>2, <2>1, <2>2 DEF Once
  <2>5. \A q \in TimedCalls : pc'[Timer(q)] = pc[Timer(q)]
    BY <1>3, <2>2, AckNames, TimerNames
  <2>6. \A q \in executed' : pc'[q] \notin Early /\ ~Queued(q)' /\ job' # q
    BY <1>1, <1>2, <2>1, <2>2 DEF Once
  <2>7. \A q \in HeardCalls : pc'[Ack(q)] # "unstarted" => q \in executed' /\ q \notin backlog'
    BY <1>2, <1>3, <2>2, AckNames DEF Once
  <2> HIDE DEF a
  <2>8. \A q \in TimedCalls :
            pc'[Timer(q)] # "unstarted" =>
                pc'[q] \notin Early /\ ~Queued(q)' /\ (job' = q => mpc' \notin {"guard", "execute"})
    BY <1>1, <1>2, <2>3, <2>5, CallersAre DEF Once
  <2>9. /\ \A i, j \in 1 .. Len(list') : list'[i] = list'[j] => i = j
        /\ ~Queued(job)' /\ backlog' \subseteq executed'
    BY <1>1, <1>2 DEF Once
  <2> QED  BY <2>4, <2>6, <2>7, <2>8, <2>9 DEF Once
<1>4. CASE UNCHANGED pc
  BY <1>1, <1>2, <1>4 DEF Once
<1> QED  BY <1>3, <1>4

LEMMA OnceStep == TypeInv /\ Once /\ [Next]_vars => Once'
<1> SUFFICES ASSUME TypeInv, Once, [Next]_vars PROVE Once'
  OBVIOUS
<1>1. CASE Bind \/ Check \/ EndProcess \/ AcceptFails \/ UNCHANGED vars
  <2>1. UNCHANGED <<pc, list, mpc, job, executed, backlog>>
    BY <1>1 DEF Bind, Check, EndProcess, AcceptFails, vars, daemon
  <2> QED  BY <2>1 DEF Once, Queued
<1> QED  BY <1>1, OnceProducer, OnceManager, OnceHeard DEF Next, LoopStep

LEMMA OnceInvariant == Spec => [](TypeInv /\ Once)
<1>1. Init => Once
  BY TimerNames, AckNames, CallersAre DEF Init, Once, Queued, Early
<1> QED  BY <1>1, TypeInvariant, OnceStep, PTL DEF Spec

-----------------------------------------------------------------------------
(* The refinement of Mailbox.                                               *)

\* Producer p has pushed and not sent, when it is there.
Owes(p, where) == where \in {"pushed", "unheard"} \cup (IF SendsLocked(p) THEN {} ELSE {"unlocked"})

LEMMA UnsentIs == Unsent = {p \in Producers : Owes(p, pc[p])}
BY DEF Unsent, Owes

LEMMA UnsentCount ==
    /\ Unsent \subseteq Producers /\ IsFiniteSet(Unsent) /\ Cardinality(Unsent) \in Nat
    /\ Unsent' \subseteq Producers /\ IsFiniteSet(Unsent') /\ Cardinality(Unsent') \in Nat
<1>1. Unsent \subseteq Producers
  BY DEF Unsent
<1>2. Unsent' \subseteq Producers
  BY DEF Unsent
<1> QED  BY <1>1, <1>2, ProducersFinite

LEMMA UnsentMoves ==
    ASSUME TypeInv, NEW p \in Producers, NEW where \in ProducerAt, Goto(p, where)
    PROVE  Unsent' = IF Owes(p, where) THEN Unsent \cup {p} ELSE Unsent \ {p}
<1>1. pc'[p] = where /\ \A q \in Producers : q # p => pc'[q] = pc[q]
  BY DEF Goto, TypeInv, TypeOK
<1>2. \A q : q \in Unsent <=> q \in Producers /\ Owes(q, pc[q])
  BY UnsentIs
<1>3. \A q : q \in Unsent' <=> q \in Producers /\ Owes(q, pc'[q])
  BY DEF Unsent, Owes
<1> QED  BY <1>1, <1>2, <1>3

\* A move that owes as much before as after it.
LEMMA QuietMove ==
    ASSUME TypeInv, NEW p \in Producers, NEW where \in ProducerAt, Goto(p, where),
           UNCHANGED <<list, signals, mpc>>,
           Owes(p, where) <=> Owes(p, pc[p])
    PROVE  UNCHANGED Mail!mailVars
<1>1. Unsent' = Unsent
  BY UnsentMoves, UnsentIs
<1> QED  BY <1>1 DEF Mail!mailVars, Owed

LEMMA MailProducer ==
    ASSUME TypeInv, NEW p \in Producers, Enter(p) \/ Accept(p) \/ Continue(p)
    PROVE  Mail!MailNext \/ UNCHANGED Mail!mailVars
<1> USE DEF daemon, At, LoopIs
<1>1. CASE Enter(p)
  BY <1>1, QuietMove DEF Enter, ProducerAt, Owes
<1>2. CASE Accept(p)
  BY <1>2, QuietMove DEF Accept, ProducerAt, Owes
<1>3. CASE Lock(p)
  BY <1>3, QuietMove DEF Lock, ProducerAt, Owes
<1>4. CASE FindPoisoned(p)
  BY <1>4, QuietMove DEF FindPoisoned, ProducerAt, Owes
<1>5. CASE SendFails(p)
  BY <1>5, QuietMove DEF SendFails, ProducerAt, Owes
<1>6. CASE Unlock(p)
  BY <1>6, QuietMove DEF Unlock, ProducerAt, Owes
<1>7. CASE Push(p)
  <2>1. Unsent' = Unsent \cup {p}
    BY <1>7, UnsentMoves DEF Push, ProducerAt, Owes
  <2>2. p \notin Unsent
    BY <1>7, UnsentIs DEF Push, Owes
  <2>3. Cardinality(Unsent') = Cardinality(Unsent) + 1
    BY <2>1, <2>2, UnsentCount, FS_AddElement
  <2>4. UNCHANGED <<signals, mpc>> /\ list' = Append(list, p)
    BY <1>7 DEF Push
  <2>5. Mail!Push(p)
    BY <2>3, <2>4 DEF Mail!Push, Owed
  <2> QED  BY <2>5 DEF Mail!MailNext
<1>8. CASE Send(p)
  <2>1. Unsent' = Unsent \ {p}
    BY <1>8, UnsentMoves DEF Send, ProducerAt, Owes
  <2>2. p \in Unsent
    BY <1>8, UnsentIs DEF Send, Owes
  <2>3. Cardinality(Unsent') = Cardinality(Unsent) - 1
    BY <2>1, <2>2, UnsentCount, FS_RemoveElement
  <2>4. UNCHANGED <<list, mpc>> /\ signals' = signals + 1
    BY <1>8 DEF Send
  <2>5. signals' + Owed' = signals + Owed + 1 /\ Cardinality(Unsent) > 0
    BY <2>3, <2>4, UnsentCount DEF Owed, TypeInv, TypeOK
  <2>6. Mail!Signal
    BY <2>3, <2>4, <2>5 DEF Mail!Signal
  <2> QED  BY <2>6 DEF Mail!MailNext
<1>9. CASE Choke(p)
  BY <1>9, QuietMove DEF Choke, ProducerAt, Owes
<1> QED  BY <1>1, <1>2, <1>3, <1>4, <1>5, <1>6, <1>7, <1>8, <1>9 DEF Continue

LEMMA MailManager ==
    ASSUME TypeInv, Once, Mail!Matched, ManagerStep
    PROVE  Mail!MailNext \/ UNCHANGED Mail!mailVars
<1> USE DEF TypeInv, TypeOK, ManagerIs
<1> DEFINE quiet == UNCHANGED list /\ Unsent' = Unsent /\ signals' + Owed' = signals + Owed
<1>1. quiet => UNCHANGED Mail!mailVars
  BY DEF Mail!mailVars
<1>2. UNCHANGED pc => Unsent' = Unsent
  BY DEF Unsent
<1> HIDE DEF quiet
<1>3. CASE Receive
  <2>1. quiet
    BY <1>2, <1>3 DEF Receive, Owed, quiet
  <2> QED  BY <1>1, <2>1
<1>4. CASE Pop
  <2>1. Owed = 1
    BY <1>4 DEF Pop, Owed
  <2>2. list # <<>>
    BY <2>1, UnsentCount DEF Mail!Matched
  <2>3. list' = Tail(list) /\ UNCHANGED <<pc, signals>> /\ Owed' = 0
    BY <1>4, <2>2 DEF Pop, AfterPop, Owed
  <2>4. Mail!Take
    BY <1>2, <2>1, <2>2, <2>3 DEF Mail!Take
  <2> QED  BY <2>4 DEF Mail!MailNext
<1>5. CASE ExecuteBroadcast
  <2>1. Unsent' = Unsent
    <3>1. CASE job \in TimedCalls
      <4>1. pc[Timer(job)] = "unstarted" /\ Timer(job) \in Producers
        BY <1>5, <3>1, TimerNames DEF Once, ExecuteBroadcast
      <4>2. Goto(Timer(job), "called")
        BY <1>5, <3>1 DEF ExecuteBroadcast
      <4> QED  BY <4>1, <4>2, UnsentMoves, UnsentIs DEF Owes, ProducerAt
    <3>2. CASE job \notin TimedCalls
      BY <1>2, <1>5, <3>2 DEF ExecuteBroadcast
    <3> QED  BY <3>1, <3>2
  <2>2. quiet
    BY <1>5, <2>1 DEF ExecuteBroadcast, Owed, quiet
  <2> QED  BY <1>1, <2>2
<1>6. CASE ManagerLock \/ ManagerLockedOut \/ DropGuard \/ ExecuteOther \/ Emit \/ Return \/ ReturnError
  <2>1. UNCHANGED <<pc, list, signals>> /\ Owed' = Owed
    BY <1>6 DEF ManagerLock, ManagerLockedOut, DropGuard, ExecuteOther, Emit, Return, ReturnError, Owed
  <2>2. quiet
    BY <1>2, <2>1 DEF quiet
  <2> QED  BY <1>1, <2>2
<1> QED  BY <1>3, <1>4, <1>5, <1>6 DEF ManagerStep

LEMMA MailStep ==
    TypeInv /\ Once /\ Mail!Matched /\ [Next]_vars => [Mail!MailNext]_(Mail!mailVars)
<1> SUFFICES ASSUME TypeInv, Once, Mail!Matched, [Next]_vars
             PROVE  Mail!MailNext \/ UNCHANGED Mail!mailVars
  OBVIOUS
<1>1. CASE Bind \/ Check \/ EndProcess \/ AcceptFails \/ UNCHANGED vars
  <2>1. UNCHANGED <<pc, list, signals, mpc>>
    BY <1>1 DEF Bind, Check, EndProcess, AcceptFails, vars
  <2> QED  BY <2>1 DEF Mail!mailVars, Owed, Unsent
<1>2. ASSUME NEW p \in Producers, AcceptResult(p)
      PROVE  UNCHANGED Mail!mailVars
  <2>1. UNCHANGED <<list, signals, mpc>>
    BY <1>2 DEF AcceptResult
  <2>2. CASE p \in HeardCalls /\ Goto(Ack(p), "called")
    <3>1. pc[Ack(p)] = "unstarted" /\ Ack(p) \in Producers /\ Goto(Ack(p), "called")
      BY <1>2, <2>2, AckNames DEF AcceptResult, Once
    <3> QED  BY <2>1, <3>1, QuietMove DEF ProducerAt, Owes
  <2>3. CASE UNCHANGED pc
    BY <1>2, <2>1, <2>3 DEF AcceptResult, Mail!mailVars, Owed, Unsent
  <2> QED  BY <1>2, <2>2, <2>3 DEF AcceptResult
<1> QED  BY <1>1, <1>2, MailProducer, MailManager DEF Next, LoopStep

\* Each job in the list has one unit sent or owed: an invariant of Mailbox.
LEMMA MatchedStep ==
    TypeInv /\ Mail!Matched /\ [Mail!MailNext]_(Mail!mailVars) => Mail!Matched'
<1> SUFFICES ASSUME TypeInv, Mail!Matched, [Mail!MailNext]_(Mail!mailVars) PROVE Mail!Matched'
  OBVIOUS
<1> DEFINE sent == signals + Owed
           unsent == Cardinality(Unsent)
<1>1. list \in Seq(Producers) /\ sent \in Nat /\ unsent \in Nat /\ Len(list) = sent + unsent
  BY UnsentCount DEF Mail!Matched, TypeInv, TypeOK, Owed
<1>2. (Len(list') = sent' + unsent') => Mail!Matched'
  BY DEF Mail!Matched
<1>3. CASE UNCHANGED Mail!mailVars
  BY <1>1, <1>2, <1>3 DEF Mail!mailVars
<1>4. ASSUME NEW j \in Producers, Mail!Push(j)
      PROVE  Mail!Matched'
  <2>1. list' = Append(list, j) /\ unsent' = unsent + 1 /\ sent' = sent
    BY <1>4 DEF Mail!Push
  <2> QED  BY <1>1, <1>2, <2>1
<1>5. ASSUME NEW j \in Producers, Mail!PushAndSignal(j)
      PROVE  Mail!Matched'
  <2>1. list' = Append(list, j) /\ unsent' = unsent /\ sent' = sent + 1
    BY <1>5 DEF Mail!PushAndSignal
  <2> QED  BY <1>1, <1>2, <2>1
<1>6. CASE Mail!Signal
  <2>1. list' = list /\ unsent' = unsent - 1 /\ sent' = sent + 1
    BY <1>6 DEF Mail!Signal
  <2> QED  BY <1>1, <1>2, <2>1
<1>7. CASE Mail!Take
  <2>1. list # <<>> /\ list' = Tail(list) /\ unsent' = unsent /\ sent' = sent - 1
    BY <1>7 DEF Mail!Take
  <2>2. Len(list') = Len(list) - 1
    BY <1>1, <2>1
  <2> QED  BY <1>1, <1>2, <2>1, <2>2
<1> QED  BY <1>3, <1>4, <1>5, <1>6, <1>7 DEF Mail!MailNext

LEMMA MailInits == Init => Mail!MailInit /\ Mail!Matched
<1> SUFFICES ASSUME Init PROVE Mail!MailInit /\ Mail!Matched
  OBVIOUS
<1>1. Unsent = {}
  BY DEF Init, Unsent
<1>2. Cardinality(Unsent) = 0
  BY <1>1, FS_EmptySet
<1> QED  BY <1>2 DEF Init, Mail!MailInit, Mail!Matched, Owed

LEMMA MatchedInvariant == Spec => [](TypeInv /\ Once /\ Mail!Matched)
BY OnceInvariant, MailInits, MailStep, MatchedStep, PTL DEF Spec

\* The locks, pushes, sends and pops of any number of threads, and what they do
\* when the manager is gone, implement Mailbox.
THEOREM ImplementsMailbox == Spec => IsMailbox
BY MatchedInvariant, MailInits, MailStep, PTL DEF Spec, IsMailbox, Mail!MailSpec

\* The unreachable! of the manager loop (mod.rs:114) is unreachable.
THEOREM NoopUnreachable == Spec => []NeverNoop
<1>1. Init => NeverNoop
  BY DEF Init, NeverNoop
<1>2. TypeInv /\ Mail!Matched /\ NeverNoop /\ [Next]_vars => NeverNoop'
  <2> SUFFICES ASSUME TypeInv, Mail!Matched, NeverNoop, [Next]_vars PROVE NeverNoop'
    OBVIOUS
  <2>1. CASE Pop
    <3>1. Owed = 1 /\ list \in Seq(Producers) /\ signals \in Nat
      BY <2>1 DEF Pop, Owed, ManagerIs, TypeInv, TypeOK
    <3>2. list # <<>>
      BY <3>1, UnsentCount DEF Mail!Matched
    <3> QED  BY <2>1, <3>2 DEF Pop, NeverNoop
  <2>2. CASE ManagerStep /\ ~Pop
    BY <2>2 DEF ManagerStep, Receive, ManagerLock, ManagerLockedOut, DropGuard, ExecuteBroadcast,
                ExecuteOther, Emit, Return, ReturnError, NeverNoop
  <2>3. CASE LoopStep \/ AcceptFails \/ UNCHANGED vars
    BY <2>3 DEF LoopStep, Bind, Check, AcceptResult, EndProcess, AcceptFails, vars, NeverNoop
  <2>4. ASSUME NEW p \in Producers, Enter(p) \/ Accept(p) \/ Continue(p)
        PROVE  NeverNoop'
    BY <2>4 DEF Enter, Accept, Continue, Lock, FindPoisoned, Choke, Push, Send, SendFails, Unlock, NeverNoop
  <2> QED  BY <2>1, <2>2, <2>3, <2>4 DEF Next
<1> QED  BY <1>1, <1>2, MatchedInvariant, PTL DEF Spec

-----------------------------------------------------------------------------
(* Alarms.                                                                  *)

\* There is cause for alarm, and who has cause keeps it.
Cause == Gone \/ Choked

LEMMA CauseStays ==
    ASSUME TypeInv, Once, [Next]_vars, Cause
    PROVE  Cause'
<1>1. CASE Gone
  <2>1. mpc' = mpc \/ ~Gone
    BY DEF Next, ManagerStep, Receive, ManagerLock, ManagerLockedOut, Pop, DropGuard, ExecuteBroadcast,
           ExecuteOther, Emit, Return, ReturnError, LoopStep, Bind, Check, AcceptResult, EndProcess,
           AcceptFails, Enter, Accept, Continue, Lock, FindPoisoned, Choke, Push, Send, SendFails, Unlock,
           ManagerIs, Gone, vars
  <2> QED  BY <1>1, <2>1 DEF Cause, Gone
<1>2. ASSUME NEW c \in LongCalls, pc[Ack(c)] = "choked"
      PROVE  pc'[Ack(c)] = "choked"
  <2> DEFINE a == Ack(c)
  <2>1. a \in Producers /\ c \in HeardCalls /\ c \notin backlog
    BY <1>2, AckNames, CallersAre DEF Once
  <2>2. ASSUME NEW p \in Producers, Enter(p) \/ Accept(p) \/ Continue(p)
        PROVE  pc'[a] = pc[a]
    <3>1. p # a
      BY <1>2, <2>2 DEF Enter, Accept, Continue, Lock, FindPoisoned, Choke, Push, Send, SendFails,
                        Unlock, At
    <3>2. \E where \in ProducerAt : Goto(p, where)
      BY <2>2 DEF Enter, Accept, Continue, Lock, FindPoisoned, Choke, Push, Send, SendFails, Unlock,
                  ProducerAt
    <3> QED  BY <2>1, <3>1, <3>2 DEF Goto, TypeInv, TypeOK
  <2>3. CASE ExecuteBroadcast
    <3>1. \A q \in TimedCalls : Timer(q) # a
      BY <2>1, AckNames
    <3> QED  BY <1>2, <2>1, <2>3, <3>1 DEF ExecuteBroadcast, Goto, TypeInv, TypeOK
  <2>4. ASSUME NEW p \in Producers, AcceptResult(p) PROVE pc'[a] = pc[a]
    <3>1. p \in HeardCalls => Ack(p) # a
      BY <2>1, <2>4, AckNames DEF AcceptResult
    <3> QED  BY <2>1, <2>4, <3>1 DEF AcceptResult, Goto, TypeInv, TypeOK
  <2>5. CASE (ManagerStep /\ ~ExecuteBroadcast) \/ Bind \/ Check \/ EndProcess \/ AcceptFails \/ UNCHANGED vars
    BY <1>2, <2>5 DEF ManagerStep, Receive, ManagerLock, ManagerLockedOut, Pop, DropGuard, ExecuteOther,
                      Emit, Return, ReturnError, Bind, Check, EndProcess, AcceptFails, vars
  <2> QED  BY <1>2, <2>2, <2>3, <2>4, <2>5 DEF Next, LoopStep
<1> QED  BY <1>1, <1>2 DEF Cause, Choked

\* Without cause: nobody has raised an alarm, and whoever does has cause.
Calm ==
    /\ mutex # Poisoned /\ ~reported /\ loop # "over"
    /\ \A p \in Producers : pc[p] \notin {"unheard", "panicked"}

LEMMA CalmIs == NoFalseAlarm <=> (Calm \/ Cause)
BY DEF NoFalseAlarm, Calm, Cause

LEMMA AlarmProducer ==
    ASSUME Calm, ~Cause, TypeInv, NEW p \in Producers, Enter(p) \/ Accept(p) \/ Continue(p)
    PROVE  Calm' \/ Cause'
<1> USE DEF Calm, TypeInv, TypeOK, daemon, Goto, At
<1>1. CASE Enter(p) \/ Accept(p)
  BY <1>1 DEF Enter, Accept
<1>2. CASE Lock(p)
  BY <1>2 DEF Lock
<1>3. CASE FindPoisoned(p)
  BY <1>3 DEF FindPoisoned
<1>4. CASE Push(p)
  BY <1>4 DEF Push
<1>5. CASE Send(p)
  BY <1>5 DEF Send
<1>6. CASE SendFails(p)
  BY <1>6 DEF SendFails, ChannelClosed, Cause
<1>7. CASE Unlock(p)
  BY <1>7 DEF Unlock, Free, Poisoned
<1>8. CASE Choke(p)
  <2>1. pc'[p] = "choked"
    BY <1>8 DEF Choke
  <2> QED  BY <1>8, <2>1 DEF Choke, Cause, Choked
<1> QED  BY <1>1, <1>2, <1>3, <1>4, <1>5, <1>6, <1>7, <1>8 DEF Continue

LEMMA AlarmManager ==
    ASSUME Calm, TypeInv, ManagerStep
    PROVE  Calm' \/ Cause'
<1> USE DEF Calm, TypeInv, TypeOK, daemon, ManagerIs
<1>1. Free # Poisoned /\ Man # Poisoned
  BY DEF Free, Poisoned, Man
<1>2. CASE ExecuteBroadcast
  <2>1. \A p \in Producers : pc'[p] \notin {"unheard", "panicked"}
    BY <1>2 DEF ExecuteBroadcast, Goto
  <2> QED  BY <1>2, <2>1 DEF ExecuteBroadcast
<1>3. CASE ReturnError \/ ManagerLockedOut
  BY <1>3 DEF ReturnError, ManagerLockedOut, Cause, Gone
<1>4. CASE Receive \/ ManagerLock \/ Pop \/ DropGuard \/ ExecuteOther \/ Emit \/ Return
  <2>1. UNCHANGED <<pc, reported, loop>>
    BY <1>4 DEF Receive, ManagerLock, Pop, DropGuard, ExecuteOther, Emit, Return
  <2>2. mutex' \in {mutex, Man, Free}
    BY <1>4 DEF Receive, ManagerLock, Pop, DropGuard, ExecuteOther, Emit, Return
  <2> QED  BY <1>1, <2>1, <2>2
<1> QED  BY <1>2, <1>3, <1>4 DEF ManagerStep

LEMMA AlarmLoop ==
    ASSUME Calm, TypeInv, LoopStep \/ AcceptFails
    PROVE  Calm'
<1> USE DEF Calm, TypeInv, TypeOK
<1>1. CASE Bind \/ Check \/ EndProcess \/ AcceptFails
  BY <1>1 DEF Bind, Check, EndProcess, AcceptFails
<1>2. ASSUME NEW p \in Producers, AcceptResult(p) PROVE Calm'
  <2>1. \A q \in Producers : pc'[q] \notin {"unheard", "panicked"}
    BY <1>2 DEF AcceptResult, Goto
  <2> QED  BY <1>2, <2>1 DEF AcceptResult
<1> QED  BY <1>1, <1>2 DEF LoopStep

\* Nobody panics, poisons the mutex or aborts the accept loop unless the manager
\* is gone or a listener task could not parse a notification (dbus.rs:87-90,
\* listener.rs:146-150 and 231).
THEOREM AlarmsAreTrue == Spec => []NoFalseAlarm
<1>1. Init => Calm
  BY DEF Init, Calm, Free, Poisoned
<1>2. Calm /\ UNCHANGED vars => Calm'
  BY DEF Calm, vars, daemon
<1>3. (Calm \/ Cause) /\ TypeInv /\ Once /\ [Next]_vars => (Calm \/ Cause)'
  BY <1>2, CauseStays, AlarmProducer, AlarmManager, AlarmLoop DEF Next
<1> QED  BY <1>1, <1>3, CalmIs, OnceInvariant, PTL DEF Spec

-----------------------------------------------------------------------------
(* The order of ids.                                                        *)

Numbered == {q \in NotifyCalls : number[q] # 0}

\* A Notify call that has its number and is not in the list has the highest.
Newest ==
    /\ \A q \in NotifyCalls : number[q] <= Cardinality(Numbered)
    /\ \A q \in NotifyCalls : pc[q] = "unstarted" => number[q] = 0
    /\ \A p, q \in NotifyCalls : pc[p] \in {"called", "locked"} /\ q # p => number[q] < number[p]

LEMMA NewestEnters ==
    ASSUME TypeInv, Newest, NEW p \in Producers, Enter(p)
    PROVE  Newest'
<1> USE DEF TypeInv, TypeOK
<1>1. pc'[p] = "called" /\ \A q \in Producers : q # p => pc'[q] = pc[q]
  BY DEF Enter, Goto
<1>2. \A q \in NotifyCalls : q # p => pc'[q] \notin {"called", "locked"}
  BY <1>1, CallersAre DEF Enter, DbusThreadFree, Running
<1>3. CASE p \in NotifyCalls
  <2>1. number' = [number EXCEPT ![p] = 1 + Cardinality(Numbered)]
    BY <1>3 DEF Enter, Numbered
  <2>2. Numbered \subseteq Producers /\ IsFiniteSet(Numbered) /\ Cardinality(Numbered) \in Nat
    BY ProducersFinite, CallersAre DEF Numbered
  <2>3. p \notin Numbered
    BY DEF Enter, At, Newest, Numbered
  <2>4. /\ number'[p] = Cardinality(Numbered) + 1 /\ number'[p] # 0
        /\ \A q \in NotifyCalls : q # p => number'[q] = number[q]
    <3> HIDE DEF Numbered
    <3> QED  BY <1>3, <2>1, <2>2
  <2>5. Cardinality(Numbered') = Cardinality(Numbered) + 1
    <3>1. Numbered' = Numbered \cup {p}
      BY <1>3, <2>4 DEF Numbered
    <3> QED  BY <2>2, <2>3, <3>1, FS_AddElement
  <2>6. \A q \in NotifyCalls : q # p => number[q] <= Cardinality(Numbered) /\ number[q] \in Nat
    BY DEF Newest
  <2> QED  BY <1>1, <1>2, <2>2, <2>4, <2>5, <2>6, CallersAre DEF Newest
<1>4. CASE p \notin NotifyCalls
  <2>1. UNCHANGED number
    BY <1>4 DEF Enter
  <2>2. Numbered' = Numbered
    BY <2>1 DEF Numbered
  <2> QED  BY <1>1, <1>2, <1>4, <2>1, <2>2, CallersAre DEF Newest
<1> QED  BY <1>3, <1>4

\* A step that starts no Notify call and leads none back.
LEMMA NewestKept ==
    ASSUME TypeInv, Newest, UNCHANGED number, NEW p \in Producers, NEW where \in ProducerAt,
           Goto(p, where) \/ UNCHANGED pc,
           p \in NotifyCalls => where # "unstarted" /\ (where \in {"called", "locked"} => pc[p] = "called")
    PROVE  Newest'
<1> USE DEF TypeInv, TypeOK
<1>1. Numbered' = Numbered
  BY DEF Numbered
<1>2. \A q \in NotifyCalls : /\ pc'[q] = "unstarted" => pc[q] = "unstarted"
                             /\ pc'[q] \in {"called", "locked"} => pc[q] \in {"called", "locked"}
  BY CallersAre DEF Goto
<1> QED  BY <1>1, <1>2 DEF Newest

LEMMA NewestStep == TypeInv /\ Newest /\ [Next]_vars => Newest'
<1> SUFFICES ASSUME TypeInv, Newest, [Next]_vars PROVE Newest'
  OBVIOUS
<1>1. ASSUME NEW p \in Producers, Accept(p) \/ Continue(p) PROVE Newest'
  <2> USE DEF ProducerAt, At
  <2>1. CASE Accept(p)
    BY <2>1, NewestKept, CallersAre DEF Accept
  <2>2. CASE Lock(p)
    BY <2>2, NewestKept DEF Lock
  <2>3. CASE FindPoisoned(p)
    BY <2>3, NewestKept DEF FindPoisoned
  <2>4. CASE Push(p)
    BY <2>4, NewestKept DEF Push
  <2>5. CASE Send(p)
    BY <2>5, NewestKept DEF Send
  <2>6. CASE SendFails(p)
    BY <2>6, NewestKept DEF SendFails
  <2>7. CASE Unlock(p)
    BY <2>7, NewestKept DEF Unlock
  <2>8. CASE Choke(p)
    BY <2>8, NewestKept DEF Choke
  <2> QED  BY <1>1, <2>1, <2>2, <2>3, <2>4, <2>5, <2>6, <2>7, <2>8 DEF Continue
<1>2. CASE ExecuteBroadcast
  <2>1. CASE job \in TimedCalls
    <3>1. Timer(job) \in Producers /\ Timer(job) \notin NotifyCalls
      BY <2>1, TimerNames, CallersAre
    <3> QED  BY <1>2, <2>1, <3>1, NewestKept DEF ExecuteBroadcast, ProducerAt
  <2>2. CASE job \notin TimedCalls
    BY <1>2, <2>2 DEF ExecuteBroadcast, Newest, Numbered
  <2> QED  BY <2>1, <2>2
<1>3. CASE (ManagerStep /\ ~ExecuteBroadcast) \/ Bind \/ Check \/ EndProcess \/ AcceptFails \/ UNCHANGED vars
  <2>1. UNCHANGED <<pc, number>>
    BY <1>3 DEF ManagerStep, Receive, ManagerLock, ManagerLockedOut, Pop, DropGuard, ExecuteOther, Emit,
                Return, ReturnError, Bind, Check, EndProcess, AcceptFails, vars
  <2> QED  BY <2>1 DEF Newest, Numbered
<1>4. ASSUME NEW p \in Producers, AcceptResult(p) PROVE Newest'
  <2>1. CASE p \in HeardCalls /\ Goto(Ack(p), "called")
    <3>1. Ack(p) \in Producers /\ Ack(p) \notin NotifyCalls
      BY <2>1, AckNames, CallersAre
    <3> QED  BY <1>4, <2>1, <3>1, NewestKept DEF AcceptResult, ProducerAt
  <2>2. CASE UNCHANGED pc
    BY <1>4, <2>2 DEF AcceptResult, Newest, Numbered
  <2> QED  BY <1>4, <2>1, <2>2 DEF AcceptResult
<1> QED  BY <1>1, <1>2, <1>3, <1>4, NewestEnters DEF Next, LoopStep

LEMMA OrderStep ==
    TypeInv /\ Once /\ Newest /\ NumberedInOrder /\ [Next]_vars => NumberedInOrder'
<1> SUFFICES ASSUME TypeInv, Once, Newest, NumberedInOrder, [Next]_vars PROVE NumberedInOrder'
  OBVIOUS
<1> USE DEF TypeInv, TypeOK
<1>1. DOMAIN list = 1 .. Len(list) /\ Len(list) \in Nat
  OBVIOUS
<1>2. ASSUME NEW p \in Producers, Enter(p) PROVE NumberedInOrder'
  <2>1. UNCHANGED list /\ ~Queued(p)
    BY <1>2 DEF Enter, At, Once, Early
  <2>2. \A q \in NotifyCalls : q # p => number'[q] = number[q]
    BY <1>2 DEF Enter
  <2> QED  BY <1>1, <2>1, <2>2 DEF NumberedInOrder, Queued
<1>3. ASSUME NEW p \in Producers, Push(p) PROVE NumberedInOrder'
  <2>1. /\ Len(list') = Len(list) + 1 /\ list'[Len(list) + 1] = p
        /\ \A i \in 1 .. Len(list) : list'[i] = list[i]
        /\ DOMAIN list' = 1 .. Len(list')
    BY <1>3 DEF Push
  <2>2. UNCHANGED number /\ pc[p] = "locked" /\ ~Queued(p)
    BY <1>3 DEF Push, At, Once, Early
  <2>3. \A i \in 1 .. Len(list) : list[i] # p
    BY <2>2 DEF Queued
  <2>4. \A i \in 1 .. Len(list) :
            list[i] \in NotifyCalls /\ p \in NotifyCalls => number[list[i]] < number[p]
    BY <2>2, <2>3 DEF Newest
  <2>5. \A i, j \in 1 .. Len(list) :
            i < j /\ list[i] \in NotifyCalls /\ list[j] \in NotifyCalls => number[list[i]] < number[list[j]]
    BY <1>1 DEF NumberedInOrder
  <2> SUFFICES ASSUME NEW i \in 1 .. Len(list'), NEW j \in 1 .. Len(list'), i < j,
                      list'[i] \in NotifyCalls, list'[j] \in NotifyCalls
               PROVE  number[list'[i]] < number[list'[j]]
    BY <2>1, <2>2 DEF NumberedInOrder
  <2>6. i \in 1 .. Len(list) /\ list'[i] = list[i]
    BY <1>1, <2>1
  <2>7. CASE j = Len(list) + 1
    BY <2>1, <2>4, <2>6, <2>7
  <2>8. CASE j \in 1 .. Len(list)
    BY <2>1, <2>5, <2>6, <2>8
  <2> QED  BY <1>1, <2>1, <2>7, <2>8
<1>4. CASE Pop /\ list # <<>>
  <2>1. list' = Tail(list) /\ UNCHANGED number
    BY <1>4 DEF Pop, AfterPop
  <2>2. Len(Tail(list)) = Len(list) - 1 /\ DOMAIN Tail(list) = 1 .. Len(Tail(list))
    BY <1>4
  <2>3. \A i \in 1 .. Len(Tail(list)) : Tail(list)[i] = list[i + 1] /\ i + 1 \in 1 .. Len(list)
    BY <1>4, <2>2
  <2> QED  BY <1>1, <2>1, <2>2, <2>3 DEF NumberedInOrder
<1>5. CASE UNCHANGED <<list, number>>
  BY <1>5 DEF NumberedInOrder
<1>6. ASSUME NEW p \in Producers, Accept(p) \/ (Continue(p) /\ ~Push(p)) PROVE UNCHANGED <<list, number>>
  BY <1>6 DEF Accept, Continue, Lock, FindPoisoned, Choke, Send, SendFails, Unlock
<1>7. CASE (ManagerStep /\ ~(Pop /\ list # <<>>)) \/ LoopStep \/ AcceptFails \/ UNCHANGED vars
  <2>1. UNCHANGED <<list, number>>
    BY <1>7 DEF ManagerStep, Receive, ManagerLock, ManagerLockedOut, Pop, DropGuard, ExecuteBroadcast,
                ExecuteOther, Emit, Return, ReturnError, LoopStep, Bind, Check, AcceptResult, EndProcess,
                AcceptFails, vars
  <2> QED  BY <1>5, <2>1
<1>8. ASSUME NEW p \in Producers, Enter(p) \/ Accept(p) \/ Continue(p) PROVE NumberedInOrder'
  <2>1. CASE Enter(p)
    BY <1>2, <2>1
  <2>2. CASE Push(p)
    BY <1>3, <2>2
  <2>3. CASE Accept(p) \/ (Continue(p) /\ ~Push(p))
    BY <1>5, <1>6, <2>3
  <2> QED  BY <1>8, <2>1, <2>2, <2>3
<1> QED  BY <1>4, <1>7, <1>8 DEF Next

\* Broadcasts are queued in the order of their ids (dbus.rs:114-141).
THEOREM QueuedInOrder == Spec => []NumberedInOrder
<1>1. Init => Newest /\ NumberedInOrder
  <2> SUFFICES ASSUME Init PROVE Newest /\ NumberedInOrder
    OBVIOUS
  <2>1. Numbered = {} /\ Cardinality(Numbered) = 0
    BY FS_EmptySet DEF Init, Numbered
  <2> QED  BY <2>1, CallersAre DEF Init, Newest, NumberedInOrder
<1> QED  BY <1>1, NewestStep, OrderStep, OnceInvariant, PTL DEF Spec

-----------------------------------------------------------------------------
(* Who holds the mutex.                                                     *)

Holding(p) ==
    pc[p] \in {"locked"} \cup (IF SendsLocked(p) THEN {"pushed", "sent"} ELSE {"pushed"})

Held ==
    /\ \A p \in Producers : mutex = p <=> Holding(p)
    /\ mutex = Man <=> mpc \in {"pop", "guard"}

LEMMA NobodysName ==
    /\ Man # Free /\ Man # Poisoned /\ Free # Poisoned /\ Man # Loop
    /\ \A p \in Producers : p \notin {Man, Free, Poisoned, Loop}
BY DEF Man, Free, Poisoned, Loop

\* A producer moves on and leaves the mutex alone, or takes it when it is free,
\* or gives it up.
LEMMA HeldMoves ==
    ASSUME TypeInv, Held, UNCHANGED mpc, NEW p \in Producers, NEW where \in ProducerAt,
           Goto(p, where),
           \/ UNCHANGED mutex /\ (Holding(p)' <=> Holding(p))
           \/ mutex = Free /\ mutex' = p /\ Holding(p)'
           \/ mutex = p /\ mutex' \in {Free, Poisoned} /\ ~Holding(p)'
    PROVE  Held'
<1>1. \A q \in Producers : q # p => (Holding(q)' <=> Holding(q))
  BY DEF Goto, Holding, TypeInv, TypeOK
<1> HIDE DEF Holding
<1>2. CASE UNCHANGED mutex /\ (Holding(p)' <=> Holding(p))
  BY <1>1, <1>2 DEF Held
<1>3. CASE mutex = Free /\ mutex' = p /\ Holding(p)'
  BY <1>1, <1>3, NobodysName DEF Held
<1>4. CASE mutex = p /\ mutex' \in {Free, Poisoned} /\ ~Holding(p)'
  BY <1>1, <1>4, NobodysName DEF Held
<1> QED  BY <1>2, <1>3, <1>4

LEMMA HeldProducer ==
    ASSUME TypeInv, Held, NEW p \in Producers, Enter(p) \/ Accept(p) \/ Continue(p)
    PROVE  Held'
<1> USE DEF At, Goto, ProducerAt
<1>1. ASSUME NEW where \in ProducerAt, Goto(p, where)
      PROVE  Holding(p)' <=>
                where \in {"locked"} \cup (IF SendsLocked(p) THEN {"pushed", "sent"} ELSE {"pushed"})
  BY <1>1 DEF Holding, TypeInv, TypeOK, SendsLocked
<1>2. CASE Enter(p)
  BY <1>1, <1>2, HeldMoves DEF Enter, Holding
<1>3. CASE Accept(p)
  BY <1>1, <1>3, HeldMoves DEF Accept, Holding
<1>4. CASE Lock(p)
  BY <1>1, <1>4, HeldMoves DEF Lock
<1>5. CASE FindPoisoned(p)
  BY <1>1, <1>5, HeldMoves DEF FindPoisoned, Holding
<1>6. CASE Push(p)
  BY <1>1, <1>6, HeldMoves DEF Push, Holding
<1>7. CASE Send(p)
  BY <1>1, <1>7, HeldMoves DEF Send, Holding
<1>8. CASE SendFails(p)
  <2>1. SendsLocked(p) => mutex = p
    BY <1>8 DEF SendFails, Held, Holding
  <2> QED  BY <1>1, <1>8, <2>1, HeldMoves DEF SendFails, Holding
<1>9. CASE Unlock(p)
  <2>1. mutex = p
    BY <1>9 DEF Unlock, Held, Holding
  <2> QED  BY <1>1, <1>9, <2>1, HeldMoves DEF Unlock, Holding
<1>10. CASE Choke(p)
  <2>1. mutex = p
    BY <1>10 DEF Choke, Held, Holding
  <2> QED  BY <1>1, <1>10, <2>1, HeldMoves DEF Choke, Holding
<1> QED  BY <1>2, <1>3, <1>4, <1>5, <1>6, <1>7, <1>8, <1>9, <1>10 DEF Continue

LEMMA HeldManager ==
    ASSUME TypeInv, Once, Held, ManagerStep
    PROVE  Held'
<1> USE DEF ManagerIs, Held
<1>1. ASSUME UNCHANGED pc PROVE \A p \in Producers : Holding(p)' <=> Holding(p)
  BY <1>1 DEF Holding
<1>2. CASE ManagerLock
  BY <1>1, <1>2, NobodysName DEF ManagerLock
<1>3. CASE Pop
  BY <1>1, <1>3, NobodysName DEF Pop
<1>4. CASE DropGuard
  BY <1>1, <1>4, NobodysName DEF DropGuard
<1>5. CASE ExecuteBroadcast
  <2>1. \A p \in Producers : Holding(p)' <=> Holding(p)
    <3>1. CASE job \in TimedCalls
      <4>1. pc[Timer(job)] = "unstarted" /\ Timer(job) \in Producers
        BY <1>5, <3>1, TimerNames DEF Once, ExecuteBroadcast
      <4> QED  BY <1>5, <3>1, <4>1 DEF ExecuteBroadcast, Goto, Holding, TypeInv, TypeOK
    <3>2. CASE job \notin TimedCalls
      BY <1>1, <1>5, <3>2 DEF ExecuteBroadcast
    <3> QED  BY <3>1, <3>2
  <2> QED  BY <1>5, <2>1 DEF ExecuteBroadcast
<1>6. CASE Receive \/ ManagerLockedOut \/ ExecuteOther \/ Emit \/ Return \/ ReturnError
  <2>1. UNCHANGED <<pc, mutex>> /\ mpc \notin {"pop", "guard"} /\ mpc' \notin {"pop", "guard"}
    BY <1>6 DEF Receive, ManagerLockedOut, ExecuteOther, Emit, Return, ReturnError
  <2> QED  BY <1>1, <2>1
<1> QED  BY <1>2, <1>3, <1>4, <1>5, <1>6 DEF ManagerStep

LEMMA HeldStep == TypeInv /\ Once /\ Held /\ [Next]_vars => Held'
<1> SUFFICES ASSUME TypeInv, Once, Held, [Next]_vars PROVE Held'
  OBVIOUS
<1>1. CASE Bind \/ Check \/ EndProcess \/ AcceptFails \/ UNCHANGED vars
  <2>1. UNCHANGED <<pc, mutex, mpc>>
    BY <1>1 DEF Bind, Check, EndProcess, AcceptFails, vars
  <2> QED  BY <2>1 DEF Held, Holding
<1>2. ASSUME NEW p \in Producers, AcceptResult(p) PROVE Held'
  <2>1. CASE p \in HeardCalls /\ Goto(Ack(p), "called")
    <3>1. pc[Ack(p)] = "unstarted" /\ Ack(p) \in Producers /\ Goto(Ack(p), "called")
      BY <1>2, <2>1, AckNames DEF AcceptResult, Once
    <3>2. Holding(Ack(p))' <=> Holding(Ack(p))
      BY <3>1 DEF Goto, Holding, TypeInv, TypeOK
    <3> QED  BY <1>2, <3>1, <3>2, HeldMoves DEF AcceptResult, ProducerAt
  <2>2. CASE UNCHANGED pc
    BY <1>2, <2>2 DEF AcceptResult, Held, Holding
  <2> QED  BY <1>2, <2>1, <2>2 DEF AcceptResult
<1> QED  BY <1>1, <1>2, HeldProducer, HeldManager DEF Next, LoopStep

LEMMA HolderProceeds ==
    ASSUME TypeInv, Held, mutex \notin {Free, Poisoned}
    PROVE  Proceeds(mutex)
<1>1. CASE mutex \in Producers
  <2>1. pc[mutex] \in {"locked", "pushed", "sent"}
    BY <1>1 DEF Held, Holding
  <2> QED  BY <1>1, <2>1 DEF Proceeds, Waits
<1>2. CASE mutex = Man
  <2>1. mpc \in {"pop", "guard"}
    BY <1>2 DEF Held
  <2> QED  BY <1>2, <2>1, NobodysName DEF Proceeds, Waits
<1> QED  BY <1>1, <1>2 DEF TypeInv, TypeOK

\* The mutex always has a holder that will give it up, and a handler waits for
\* nothing else, so that no circle of waiting threads can close, whatever the
\* number of threads (manager.rs:295, close.rs:108-115, dbus.rs:84-91).
THEOREM NoDeadlock == Spec => []NobodyStuck
<1>1. Init => Held
  BY NobodysName DEF Init, Held, Holding
<1>2. TypeInv /\ Held => NobodyStuck
  <2> SUFFICES ASSUME TypeInv, Held,
                      NEW x \in Producers \cup {Man, Loop}, NEW y \in Waits(x)
               PROVE  Proceeds(y) \/ (Waits(y) # {} /\ \A z \in Waits(y) : Proceeds(z))
    BY DEF NobodyStuck
  <2>1. CASE y = mutex
    <3>1. mutex # Free
      BY <2>1, NobodysName DEF Waits, Handlers, Producers
    <3>2. mutex # Poisoned
      BY <2>1, NobodysName DEF Waits, Handlers, Producers
    <3> QED  BY <2>1, <3>1, <3>2, HolderProceeds
  <2>2. CASE y \in Handlers /\ Running(y)
    <3>1. y \in Producers /\ pc[y] \in {"called", "locked", "pushed", "sent"}
      BY <2>2, CallersAre DEF Running
    <3>2. Waits(y) = {} => Proceeds(y)
      BY <3>1 DEF Proceeds
    <3>3. \A z \in Waits(y) : Proceeds(z)
      BY <3>1, HolderProceeds DEF Waits
    <3> QED  BY <3>2, <3>3
  <2> QED  BY <2>1, <2>2, NobodysName, CallersAre DEF Waits
<1> QED  BY <1>1, <1>2, HeldStep, OnceInvariant, PTL DEF Spec
===========================================================================
