----------------------------- MODULE MCManager -----------------------------
(***************************************************************************)
(* Small instances of Manager for TLC.                                     *)
(***************************************************************************)
EXTENDS Manager

NoDisk == [state |-> "absent", logs |-> <<>>]

Entry(c, nid, t, isRead, isClosed) ==
    [call |-> c, id |-> nid, time |-> 0, read |-> isRead, closed |-> isClosed,
     replaces |-> 0, timeout |-> t]

\* An earlier session left one notification, open and with a timeout.
OpenDisk == Saved(<<Entry(1, 1, 1, TRUE, FALSE)>>)

FreshDisks == {NoDisk}
OpenDisks == {OpenDisk}

\* Notification 1 has been evicted while the client that sent it kept it.
FullDisks == {Saved(<<Entry(3, 3, 0, TRUE, FALSE), Entry(2, 2, 0, TRUE, FALSE)>>)}
ForcedFirst == {CloseJob(1, "dismissed", TRUE)}

\* A log longer than --max, as a session with a larger one left it.  A client
\* made up the id NidMod - 1, so the next fresh id wraps around.
LongDisk == Saved(<<Entry(3, NidMod - 1, 0, FALSE, TRUE), Entry(2, 2, 0, TRUE, FALSE),
                    Entry(1, 1, 0, TRUE, FALSE)>>)
ShortDisk == Saved(<<Entry(2, 1, 1, TRUE, FALSE)>>)
AnyDisk == {ShortDisk, LongDisk}

NoTimeouts == {0}
SomeTimeouts == {-2, -1, 0, 2}

NoJobs == {}
Dismiss == {CloseJob(nid, "dismissed", FALSE) : nid \in {1, 2}}
ForcedDismiss == {CloseJob(nid, "dismissed", TRUE) : nid \in {1, 2}}

\* Every job a client process can send; --force on the first three, and the
\* skip + count of a read overflows.
RudeJobs ==
    ForcedDismiss \cup
    {[cmd |-> "activation", id |-> 2, force |-> TRUE],
     [cmd |-> "action", id |-> 2, force |-> FALSE],
     [cmd |-> "query", id |-> 1],
     ReadRequest(1, 0, FALSE), ReadRequest(2, 1, TRUE), ReadRequest(MillisMod - 1, 1, FALSE)}
=============================================================================
