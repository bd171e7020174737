----------------------------- MODULE Transport -----------------------------
(***************************************************************************)
(* One direction of one connection: Listener::write at one end,            *)
(* Listener::read at the other (src/src/server/listener.rs), and the       *)
(* socket's buffer between them.  There is no framing: a message ends      *)
(* where a read finds less than it asked for.                              *)
(*                                                                         *)
(* The kinds of connection, by who writes and who closes:                  *)
(*   request   a client asks (read, query, watch) and waits                *)
(*   signal    a client signals and exits                                  *)
(*   answer    the manager transmits to the Listener, or the Listener to a *)
(*             client that waits; the writer drops its stream              *)
(*   watch     the Listener broadcasts, time and again, to a watcher       *)
(*                                                                         *)
(* A text is counted in tokens where the code counts bytes.  "lead" and    *)
(* "trail" are the two halves of a character of several bytes.             *)
(*                                                                         *)
(* Overfull, HoldOpen, ReadOnce and LastChunk are slips: likely mistakes   *)
(* in the definition below them, used by nothing.                          *)
(***************************************************************************)
EXTENDS Codec, SequencesExt

CONSTANTS
    BufSize,    \* BUF_SIZE
    PieceSize,  \* how much the kernel passes on in one piece
    SendLimit,  \* a socket that holds this much takes no more
    Scripts     \* kinds of connection, each with the messages sent over it

ASSUME SizesAssumption ==
    /\ BufSize \in Nat \ {0}
    /\ PieceSize \in Nat \ {0}
    /\ SendLimit \in Nat \ {0}

\* Requests hold nothing but numbers, and no text ends inside a character.
ASSUME ScriptsAssumption ==
    \A s \in Scripts :
        /\ s.kind \in {"request", "signal", "answer", "watch"}
        /\ s.messages \in Seq(Range(s.messages))
        /\ \A m \in Range(s.messages) :
              Message(m) /\ Last(TransmissionText(m.tr)) # "lead"
        /\ s.kind # "watch" => Len(s.messages) = 1
        /\ s.kind = "request" =>
              \A i \in DOMAIN s.messages :
                  Len(TransmissionText(s.messages[i].tr)) < BufSize

VARIABLES
    script,  \* what this connection is for
    sent,    \* how many of its messages have been begun
    writer,  \* of the writer: "idle", "writing", "failed"
    buf,     \* what of the current message it has yet to write
    pipe,    \* what was written and not read
    wopen,   \* the writer has not closed
    reader,  \* of the reader: "reading", "finished", "failed", "killed"
    tdata,   \* what it has read of the current transmission
    lines,   \* the transmissions it has read
    ropen    \* the reader has not closed

wvars == <<sent, writer, buf, wopen>>
rvars == <<reader, tdata, lines, ropen>>
vars == <<script, wvars, pipe, rvars>>

Written(i) == TransmissionText(script.messages[i].tr)

Init ==
    /\ script \in Scripts
    /\ sent = 0 /\ writer = "idle" /\ buf = <<>> /\ wopen = TRUE
    /\ pipe = <<>>
    /\ reader = "reading" /\ tdata = <<>> /\ lines = <<>> /\ ropen = TRUE

Least(m, n) == IF m < n THEN m ELSE n

-----------------------------------------------------------------------------
(* Listener::write.                                                         *)

Write ==
    /\ wopen /\ writer = "idle" /\ sent < Len(script.messages)
    /\ sent' = sent + 1
    /\ writer' = "writing"
    /\ buf' = Written(sent + 1)
    /\ UNCHANGED <<script, wopen, pipe, rvars>>

Overfull == TRUE
HasRoom == Len(pipe) < SendLimit

TryWrite ==
    /\ writer = "writing" /\ buf # <<>> /\ ropen
    /\ HasRoom
    /\ LET n == Least(PieceSize, Len(buf))
       IN  /\ pipe' = pipe \o SubSeq(buf, 1, n)
           /\ buf' = SubSeq(buf, n + 1, Len(buf))
    /\ UNCHANGED <<script, sent, writer, wopen, rvars>>

\* The loop ends with a write of nothing, which needs the peer as well.
EndWrite ==
    /\ writer = "writing" /\ buf = <<>> /\ ropen
    /\ writer' = "idle"
    /\ UNCHANGED <<script, sent, buf, wopen, pipe, rvars>>

\* The caller gives up: the manager panics, a client exits, a watcher's stream
\* is removed.
WriteFails ==
    /\ writer = "writing" /\ ~ropen
    /\ writer' = "failed"
    /\ wopen' = FALSE
    /\ UNCHANGED <<script, sent, buf, pipe, rvars>>

HoldOpen == FALSE
Closes == script.kind \in {"signal", "answer"}

CloseWriter ==
    /\ wopen /\ writer = "idle" /\ sent = Len(script.messages) /\ Closes
    /\ wopen' = FALSE
    /\ UNCHANGED <<script, sent, writer, buf, pipe, rvars>>

\* A client is killed while it sends.
WriterDies ==
    /\ wopen /\ writer # "failed" /\ script.kind \in {"request", "signal"}
    /\ writer' = "failed"
    /\ wopen' = FALSE
    /\ UNCHANGED <<script, sent, buf, pipe, rvars>>

-----------------------------------------------------------------------------
(* Listener::read, and what follows it.                                     *)

Readable == reader = "reading" /\ ropen /\ (pipe # <<>> \/ ~wopen)

Chunk == SubSeq(pipe, 1, Least(BufSize, Len(pipe)))

\* from_utf8 refuses a chunk that ends inside a character.
Cut(chunk) == chunk # <<>> /\ chunk[Len(chunk)] = "lead"

Take == pipe' = SubSeq(pipe, Len(Chunk) + 1, Len(pipe))

TryReadCut ==
    /\ Readable /\ Cut(Chunk)
    /\ Take
    /\ reader' = "failed"
    /\ UNCHANGED <<script, wvars, tdata, lines, ropen>>

ReadOnce(n) == FALSE
More(n) == n = BufSize

LastChunk == Chunk
Gathered == tdata \o Chunk

TryReadMore ==
    /\ Readable /\ ~Cut(Chunk) /\ More(Len(Chunk))
    /\ Take
    /\ tdata' = Gathered
    /\ UNCHANGED <<script, wvars, reader, lines, ropen>>

\* A watcher prints what it has read and reads on.
TryReadLast ==
    /\ Readable /\ ~Cut(Chunk) /\ ~More(Len(Chunk))
    /\ Take
    /\ IF ParseTransmission(Gathered) = {}
       THEN reader' = "failed" /\ UNCHANGED lines
       ELSE /\ reader' = IF script.kind = "watch" THEN "reading" ELSE "finished"
            /\ lines' = Append(lines, Gathered)
    /\ tdata' = <<>>
    /\ UNCHANGED <<script, wvars, ropen>>

\* The stream is dropped: after an error, after the answer is printed or passed
\* on, or after the request itself is answered, which may be before its writer
\* has come back to write nothing.
CloseReader ==
    /\ ropen /\ reader # "reading"
    /\ ropen' = FALSE
    /\ UNCHANGED <<script, wvars, pipe, reader, tdata, lines>>

\* A process that waits or watches is killed.
ReaderDies ==
    /\ ropen /\ reader = "reading" /\ script.kind \in {"answer", "watch"}
    /\ reader' = "killed"
    /\ ropen' = FALSE
    /\ UNCHANGED <<script, wvars, pipe, tdata, lines>>

-----------------------------------------------------------------------------
Writing == Write \/ TryWrite \/ EndWrite \/ WriteFails \/ CloseWriter
Reading == TryReadCut \/ TryReadMore \/ TryReadLast

Next == Writing \/ WriterDies \/ Reading \/ CloseReader \/ ReaderDies

Spec == Init /\ [][Next]_vars

\* Both ends are tasks of runtimes that poll whatever is ready.
FairSpec == Spec /\ WF_vars(Writing) /\ WF_vars(Reading)

-----------------------------------------------------------------------------
(* Properties.                                                              *)

\* Type invariant of one connection (Listener::read and Listener::write).
TypeOK ==
    /\ script \in Scripts
    /\ sent \in 0 .. Len(script.messages)
    /\ writer \in {"idle", "writing", "failed"}
    /\ reader \in {"reading", "finished", "failed", "killed"}
    /\ wopen \in BOOLEAN /\ ropen \in BOOLEAN
    /\ buf \in Text /\ pipe \in Text /\ tdata \in Text
    /\ lines \in Seq(Text)
    /\ Len(pipe) < SendLimit + PieceSize

\* The kernel passes on each message in one piece.
Whole == \A i \in DOMAIN script.messages : Len(Written(i)) <= PieceSize

\* A transmission is never handed over with its end still on the way: when a
\* read ends (listener.rs:42), nothing is left in the socket, and the writer has
\* written all of its message or none of it.  So a read that ends early cannot
\* leave the rest of a message to be parsed as the next one.
WholeReads ==
    [][lines' # lines /\ Whole => pipe' = <<>> /\ buf \in {<<>>, Written(sent)}]_vars

\* Some chunk ends inside a character, if the message is read from its start.
CutSomewhere(text) ==
    \E n \in 1 .. Len(text) : n * BufSize <= Len(text) /\ text[n * BufSize] = "lead"

\* What arrives is what was said, whatever separators, words and numbers users
\* put into their actions, tokens and notifications, and however the text is
\* cut into chunks; and a read fails only when a character lies across the end
\* of a chunk, or the writer was killed before it had written (transmission.rs:
\* 66-79, jobs/mod.rs:43-58, listener.rs:28-57).
HeardAsSaid ==
    Whole /\ script.kind # "watch" =>
        /\ reader = "finished" =>
              \E tr \in ParseTransmission(lines[1]) :
                  tr = script.messages[1].tr /\ Heard(tr) = {script.messages[1].says}
        /\ reader = "failed" =>
              \/ CutSomewhere(Written(1))
              \/ ~wopen /\ (sent = 1 => buf = Written(1))

\* A read ends: the text of a request, a signal or an answer may fill the buffer
\* to the last byte, and still its reader does not wait for more, for whoever
\* writes that much closes (listener.rs:46).
EveryReadEnds ==
    script.kind # "watch" /\ sent > 0 /\ buf = <<>> ~> reader # "reading"

\* A watcher shows all that was broadcast to it, unless it is gone or cannot
\* read a character.  Only a text that fills the buffer to the last byte waits
\* for the next broadcast (listener.rs:46).
Shown == Len(FlattenSeq(lines))
Broadcast == Len(FlattenSeq([i \in DOMAIN script.messages |-> Written(i)]))

WatcherCatchesUp ==
    script.kind = "watch" /\ sent = Len(script.messages) /\ buf = <<>> ~>
        \/ reader = "killed"
        \/ reader = "failed" /\ \E m \in DOMAIN script.messages : "lead" \in Range(Written(m))
        \/ Shown = Broadcast
        \/ Len(tdata) > 0 /\ Len(tdata) % BufSize = 0 /\ Shown + Len(tdata) = Broadcast

\* README.md:68: a watcher prints each notification on a new line.
OneLineEach ==
    script.kind = "watch" =>
        \A i \in DOMAIN lines :
            \E m \in DOMAIN script.messages :
                ParseTransmission(lines[i]) = {script.messages[m].tr}
=============================================================================
