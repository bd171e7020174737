----------------------------- MODULE Lifecycle -----------------------------
(***************************************************************************)
(* What the daemon promises about each notification, whatever its queue,   *)
(* its log layout and its threads: notifications are admitted to the log   *)
(* in the order of the Notify calls, at most MaxLogs are kept, admitting   *)
(* one gives up at most one other, a notification is closed at most once   *)
(* and exactly one NotificationClosed signal says so, and one that has     *)
(* been closed or given up never comes back.                               *)
(*                                                                         *)
(* A crash breaks these promises in one way only: the next session goes    *)
(* back to the file, which is either empty or exactly what the log was     *)
(* when it was last saved.                                                 *)
(*                                                                         *)
(* Manager.tla implements this for clients that do not use --force.        *)
(***************************************************************************)
EXTENDS Naturals, FiniteSets

CONSTANTS
    MaxCalls,   \* bound on the number of Notify calls
    LogLimit    \* how many notifications the daemon keeps

VARIABLES
    status,     \* status[c]: where the notification of the c-th Notify call is
    saved,      \* saved[c]: what the file says of it
    emitted     \* emitted[c]: NotificationClosed signals sent for it

lifeVars == <<status, saved, emitted>>

Call == 1 .. MaxCalls
Status == {"unsent", "queued", "open", "closed", "gone"}

\* The notifications in the log.
Kept(st) == {c \in Call : st[c] \in {"open", "closed"}}

\* What a file written now says, and an empty one.
Snapshot(st) == [c \in Call |-> IF c \in Kept(st) THEN st[c] ELSE "gone"]
Nothing == [c \in Call |-> "gone"]

LifeTypeOK ==
    /\ status \in [Call -> Status]
    /\ saved \in [Call -> {"open", "closed", "gone"}]
    /\ emitted \in [Call -> Nat]

\* A session starts with what an earlier one left in the file.
LifeInit ==
    /\ status \in [Call -> Status \ {"queued"}]
    /\ saved = Snapshot(status)
    /\ \A c, d \in Call : c < d /\ status[c] = "unsent" => status[d] = "unsent"
    /\ Cardinality(Kept(status)) <= LogLimit
    /\ emitted = [c \in Call |-> 0]

Notify(c) ==
    /\ status[c] = "unsent"
    /\ \A d \in Call : d < c => status[d] # "unsent"
    /\ status' = [status EXCEPT ![c] = "queued"]
    /\ UNCHANGED <<saved, emitted>>

AdmitNext(c) ==
    /\ status[c] = "queued"
    /\ \A d \in Call : status[d] = "queued" => c <= d
    /\ \E lost \in SUBSET Kept(status) :
        /\ Cardinality(lost) <= 1
        /\ status' = [d \in Call |-> IF d = c THEN "open"
                                     ELSE IF d \in lost THEN "gone" ELSE status[d]]
    /\ Cardinality(Kept(status')) <= LogLimit
    /\ UNCHANGED <<saved, emitted>>

Close(c) ==
    /\ status[c] = "open"
    /\ status' = [status EXCEPT ![c] = "closed"]
    /\ emitted' = [emitted EXCEPT ![c] = @ + 1]
    /\ UNCHANGED saved

\* Writing the file empties it first.
Save ==
    /\ saved' \in {Nothing, Snapshot(status)}
    /\ UNCHANGED <<status, emitted>>

\* Queued notifications, and whatever was not saved, are lost.
Restart ==
    /\ status' = [c \in Call |-> IF status[c] = "unsent" THEN "unsent" ELSE saved[c]]
    /\ UNCHANGED <<saved, emitted>>

LifeNext ==
    \/ \E c \in Call : Notify(c) \/ AdmitNext(c) \/ Close(c)
    \/ Save
    \/ Restart

LifeSpec == LifeInit /\ [][LifeNext]_lifeVars
=============================================================================
