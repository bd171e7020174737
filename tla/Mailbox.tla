------------------------------ MODULE Mailbox ------------------------------
(***************************************************************************)
(* What the SyncList and the mpsc channel beside it promise the threads    *)
(* that share them (src/src/server/jobs/mod.rs, src/src/server/mod.rs).    *)
(*                                                                         *)
(* A producer appends a job to the list under its mutex and sends one unit *)
(* on the channel.  The manager thread receives one unit and then pops one *)
(* job.  D-Bus handlers send while they still hold the mutex, so the two   *)
(* are one step to everybody else; listener tasks and timer threads have   *)
(* released it, so others run between the two.                             *)
(***************************************************************************)
EXTENDS Naturals, Sequences

CONSTANT Job

VARIABLES
    list,        \* the SyncList
    signals,     \* units sent on the channel and not received
    unsignalled  \* producers that have pushed a job and not yet sent its unit

mailVars == <<list, signals, unsignalled>>

MailInit ==
    /\ list = <<>>
    /\ signals = 0
    /\ unsignalled = 0

Push(j) ==
    /\ list' = Append(list, j)
    /\ unsignalled' = unsignalled + 1
    /\ UNCHANGED signals

Signal ==
    /\ unsignalled > 0
    /\ unsignalled' = unsignalled - 1
    /\ signals' = signals + 1
    /\ UNCHANGED list

PushAndSignal(j) ==
    /\ list' = Append(list, j)
    /\ signals' = signals + 1
    /\ UNCHANGED unsignalled

\* The promise to the manager: with a unit in hand there is a job to pop.
Take ==
    /\ signals > 0
    /\ list # <<>>
    /\ signals' = signals - 1
    /\ list' = Tail(list)
    /\ UNCHANGED unsignalled

MailNext ==
    \/ \E j \in Job : Push(j) \/ PushAndSignal(j)
    \/ Signal
    \/ Take

MailSpec == MailInit /\ [][MailNext]_mailVars

\* Every job in the list has exactly one unit sent or about to be sent.
Matched == Len(list) = signals + unsignalled
=============================================================================
