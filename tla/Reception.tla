----------------------------- MODULE Reception -----------------------------
(***************************************************************************)
(* What the Listener promises to the processes at its socket, whatever     *)
(* tables it keeps, whatever tasks it runs and however they interleave.    *)
(*                                                                         *)
(* Whoever asks gets one answer, its own, and no later than it leaves.     *)
(* Broadcasts are on the air one at a time and once each: whoever is in    *)
(* the audience when one begins hears it before the next one does, unless  *)
(* it hangs up.  So what a watcher hears is a stretch of the sequence of   *)
(* all broadcasts, with nothing missing in between, and what two watchers  *)
(* hear at the same time is the same.                                      *)
(*                                                                         *)
(* Listener.tla implements this.                                           *)
(***************************************************************************)
EXTENDS Sequences

CONSTANTS
    Client,     \* processes that ask
    Watcher,    \* processes that watch
    Item,       \* broadcasts
    Silence     \* what is on the air between two broadcasts

VARIABLES
    client,     \* client[c]: how far its request is
    watcher,    \* watcher[w]: whether it is in the audience
    onAir,      \* the broadcast that is being made
    aired,      \* the broadcasts that have begun
    pending,    \* the watchers that have yet to hear what is on the air
    heard       \* heard[w]: everything w has got

receptionVars == <<client, watcher, onAir, aired, pending, heard>>

ReceptionTypeOK ==
    /\ client \in [Client -> {"idle", "asking", "served", "gone"}]
    /\ watcher \in [Watcher -> {"away", "present", "deaf", "gone"}]
    /\ onAir \in Item \cup {Silence} /\ aired \subseteq Item
    /\ pending \subseteq Watcher
    /\ heard \in [Watcher -> Seq(Item)]

\* The deaf have hung up, and the Listener has not noticed yet.
Audience == {w \in Watcher : watcher[w] \in {"present", "deaf"}}

ReceptionInit ==
    /\ client = [c \in Client |-> "idle"]
    /\ watcher = [w \in Watcher |-> "away"]
    /\ onAir = Silence /\ aired = {} /\ pending = {}
    /\ heard = [w \in Watcher |-> <<>>]

Proceed(c, from, to) ==
    /\ client[c] = from /\ client' = [client EXCEPT ![c] = to]
    /\ UNCHANGED <<watcher, onAir, aired, pending, heard>>

Ask(c) == Proceed(c, "idle", "asking")
Serve(c) == Proceed(c, "asking", "served")
Leave(c) == Proceed(c, "asking", "gone") \/ Proceed(c, "served", "gone")

\* One that hung up in between is taken in as well.
Join(w) ==
    /\ watcher[w] = "away" /\ onAir = Silence
    /\ \E st \in {"present", "deaf"} : watcher' = [watcher EXCEPT ![w] = st]
    /\ UNCHANGED <<client, onAir, aired, pending, heard>>

HangUp(w) ==
    /\ watcher[w] = "present"
    /\ watcher' = [watcher EXCEPT ![w] = "deaf"]
    /\ UNCHANGED <<client, onAir, aired, pending, heard>>

Begin(b) ==
    /\ onAir = Silence /\ b \notin aired
    /\ onAir' = b /\ aired' = aired \cup {b} /\ pending' = Audience
    /\ UNCHANGED <<client, watcher, heard>>

Hear(w) ==
    /\ w \in pending /\ watcher[w] = "present"
    /\ heard' = [heard EXCEPT ![w] = Append(@, onAir)]
    /\ pending' = pending \ {w}
    /\ UNCHANGED <<client, watcher, onAir, aired>>

\* Only the deaf are given up, and among them all that have not heard it.
Finish ==
    /\ onAir # Silence
    /\ \E lost \in SUBSET Audience :
        /\ pending \subseteq lost
        /\ \A w \in lost : watcher[w] = "deaf"
        /\ watcher' = [w \in Watcher |-> IF w \in lost THEN "gone" ELSE watcher[w]]
    /\ onAir' = Silence /\ pending' = {}
    /\ UNCHANGED <<client, aired, heard>>

ReceptionNext ==
    \/ \E c \in Client : Ask(c) \/ Serve(c) \/ Leave(c)
    \/ \E w \in Watcher : Join(w) \/ HangUp(w) \/ Hear(w)
    \/ \E b \in Item : Begin(b)
    \/ Finish

ReceptionSpec == ReceptionInit /\ [][ReceptionNext]_receptionVars
=============================================================================
