----------------------------- MODULE LogBuffer -----------------------------
(***************************************************************************)
(* The notification log of LogsManager (src/src/server/manager.rs): the    *)
(* VecDeque `logs_buffer` is a sequence whose first element is the front.  *)
(* Every operator here is pure; Manager.tla applies them to its state.     *)
(*                                                                         *)
(* A notification keeps the fields the daemon itself reads.  The fields it *)
(* only carries (app name, icon, summary, body, actions, hints) are        *)
(* abstracted to `call`, the number of the Notify call that supplied them. *)
(*                                                                         *)
(* PopFront, AppendLate, AdmitBesideClosed, ToggleNotification and         *)
(* NeverExpires are slips, each one a likely mistake in the definition     *)
(* below it: they are not used, and show that the checked properties would *)
(* notice.                                                                 *)
(***************************************************************************)
EXTENDS Integers, Sequences

CONSTANTS
    MaxLogs,        \* LogsConfig.max_logs (--max)
    AutoClose,      \* LogsConfig.auto_close (--auto-close)
    DefaultTimeout, \* LogsConfig.default_timeout (--timeout)
    NidMod,         \* number of values of Nid: 2^32 in the code
    MillisMod       \* number of values of u16: 2^16 in the code

Nid == 0 .. NidMod - 1

Notification ==
    [call : Nat \ {0}, id : Nid, time : Nat, read : BOOLEAN, closed : BOOLEAN,
     replaces : Nid, timeout : Int]

\* Two log entries never come from one Notify call, but may carry one id.
Ids(buf) == {buf[i].id : i \in DOMAIN buf}
Calls(buf) == {buf[i].call : i \in DOMAIN buf}

-----------------------------------------------------------------------------
(* Searching: `iter().position(..)` finds the entry nearest the front.     *)

Position(buf, nid) ==
    IF nid \in Ids(buf)
    THEN CHOOSE i \in DOMAIN buf :
            buf[i].id = nid /\ \A j \in DOMAIN buf : buf[j].id = nid => i <= j
    ELSE 0

\* The answer of a Query job: whether the log holds a closed notification nid.
QueryAnswer(buf, nid) ==
    Position(buf, nid) # 0 /\ buf[Position(buf, nid)].closed

-----------------------------------------------------------------------------
(* Adding and removing.                                                    *)

PopFront(buf) == SubSeq(buf, 2, Len(buf))

PopBack(buf) == SubSeq(buf, 1, Len(buf) - 1)

\* VecDeque::swap_remove_back: the last entry takes the place of the removed.
SwapRemoveBack(buf, i) ==
    [j \in 1 .. Len(buf) - 1 |-> IF j = i THEN buf[Len(buf)] ELSE buf[j]]

RemoveNotification(buf, nid) ==
    IF Position(buf, nid) = 0 THEN buf ELSE SwapRemoveBack(buf, Position(buf, nid))

AppendLate(buf, n) == <<n>> \o (IF Len(buf) > MaxLogs THEN PopBack(buf) ELSE buf)

AppendNotification(buf, n) ==
    <<n>> \o (IF Len(buf) = MaxLogs THEN PopBack(buf) ELSE buf)

AdmitBesideClosed(buf, n) ==
    AppendNotification(IF n.replaces # 0 /\ ~QueryAnswer(buf, n.replaces)
                       THEN RemoveNotification(buf, n.replaces) ELSE buf, n)

\* What executing Broadcast leaves in the log.
Admit(buf, n) ==
    AppendNotification(IF n.replaces # 0 THEN RemoveNotification(buf, n.replaces) ELSE buf, n)

-----------------------------------------------------------------------------
(* Marking.                                                                *)

MarkClosed(buf, pos) == [buf EXCEPT ![pos].closed = TRUE]

ToggleNotification(buf, nid) ==
    [i \in DOMAIN buf |->
        IF i = Position(buf, nid) THEN [buf[i] EXCEPT !.read = ~@] ELSE buf[i]]

ReadNotification(buf, nid) ==
    [i \in DOMAIN buf |->
        IF i = Position(buf, nid) THEN [buf[i] EXCEPT !.read = TRUE] ELSE buf[i]]

Smaller(a, b) == IF a <= b THEN a ELSE b

\* The half-open window min(len, start) .. min(len, end) of read_logs, as the
\* positions it covers.  Rust panics on a slice that starts after its end.
Window(buf, start, end) == Smaller(Len(buf), start) + 1 .. Smaller(Len(buf), end)
WindowPanics(buf, start, end) == Smaller(Len(buf), start) > Smaller(Len(buf), end)

ReadLogs(buf, start, end) ==
    SubSeq(buf, Smaller(Len(buf), start) + 1, Smaller(Len(buf), end))

MarkWindowRead(buf, start, end) ==
    [i \in DOMAIN buf |->
        IF i \in Window(buf, start, end) THEN [buf[i] EXCEPT !.read = TRUE] ELSE buf[i]]

-----------------------------------------------------------------------------
(* Timeouts.                                                               *)

\* A timeout of 0 never expires; one below -1 is treated like 0.
HasTimeout(t) == t # 0 /\ t >= -1

\* map_timeout of a timeout that expires: `x as u16` drops the high bits.
Millis(t) == IF t = -1 THEN DefaultTimeout ELSE t % MillisMod

NeverExpires(n, now) == AutoClose /\ ~HasTimeout(n.timeout)

\* The double check of Close: an Expired closure that comes too early, or for
\* a notification (a replacement) that does not expire, is to be dropped.
NotDue(n, now) == AutoClose /\ (~HasTimeout(n.timeout) \/ now < Millis(n.timeout) + n.time)
=============================================================================
