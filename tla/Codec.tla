------------------------------- MODULE Codec -------------------------------
(***************************************************************************)
(* The text protocol between daemon and clients: transmissions             *)
(* (src/src/server/transmission.rs), job descriptions and results          *)
(* (src/src/server/jobs/).  A text is a sequence of tokens: the separator  *)
(* "#", the words of the protocol, numbers, and whatever users put into    *)
(* actions, tokens and notifications, which may be any of these again.     *)
(*                                                                         *)
(* A parser yields the set of values it accepts the text as, {} for Err.   *)
(*                                                                         *)
(* SplitLast and ShortSeparator are slips: likely mistakes in the          *)
(* definition below them, used by nothing.                                 *)
(***************************************************************************)
EXTENDS Naturals, Sequences

CONSTANTS
    Numbers,  \* tokens that parse as Pid, Nid, FlagsRepr and the like
    Letters   \* tokens of user data that are not words of the protocol

Hash == "#"
Commands == {"close", "read", "query", "watch", "action", "activation"}
Words == Commands \cup {"inc", "out", "Err", "res", "err", "oth", "ev", "cls", "act", "acv"}
Token == {Hash} \cup Words \cup Numbers \cup Letters

ASSUME TokensAssumption ==
    /\ Hash \notin Words \cup Numbers \cup Letters
    /\ Words \cap Numbers = {}

Text == Seq(Token)

-----------------------------------------------------------------------------
(* str::split_once and str::parse.                                          *)

Occurrences(text, delimiter) ==
    {i \in 1 .. Len(text) - Len(delimiter) + 1 :
        SubSeq(text, i, i + Len(delimiter) - 1) = delimiter}

SplitAt(text, delimiter, i) ==
    <<SubSeq(text, 1, i - 1), SubSeq(text, i + Len(delimiter), Len(text))>>

SplitLast(text, delimiter) ==
    {SplitAt(text, delimiter, i) :
        i \in {k \in Occurrences(text, delimiter) :
                \A j \in Occurrences(text, delimiter) : j <= k}}

SplitOnce(text, delimiter) ==
    {SplitAt(text, delimiter, i) :
        i \in {k \in Occurrences(text, delimiter) :
                \A j \in Occurrences(text, delimiter) : k <= j}}

Single == <<Hash>>

ShortSeparator == <<Hash>>
Double == <<Hash, Hash>>

ParseNumber(text) == {n \in Numbers : text = <<n>>}

-----------------------------------------------------------------------------
(* Transmission.  An error has no pid.                                      *)

Transmission ==
    [typ : {"inc", "out"}, pid : Numbers, data : Text] \cup [typ : {"Err"}, data : Text]

TransmissionTypeText(tr) == IF tr.typ = "Err" THEN <<"Err">> ELSE <<tr.typ, Hash, tr.pid>>

TransmissionText(tr) == TransmissionTypeText(tr) \o Double \o tr.data

ParseTransmissionType(text, data) ==
    IF text = <<"Err">> THEN {[typ |-> "Err", data |-> data]}
    ELSE {tr \in [typ : {"inc", "out"}, pid : Numbers, data : {data}] :
            \E s \in SplitOnce(text, Single) :
                s[1] = <<tr.typ>> /\ tr.pid \in ParseNumber(s[2])}

ParseTransmission(text) ==
    UNION {ParseTransmissionType(s[1], s[2]) : s \in SplitOnce(text, Double)}

-----------------------------------------------------------------------------
(* JobDesc: who asks with which flags, and the job.  Of a job, `id` is its  *)
(* first field and `arg` the text of the second one: a number in Close and  *)
(* Read, anything in ActionInvoked and ActivationToken.                     *)

Job ==
    [cmd : {"close", "read"}, id : Numbers, arg : {<<n>> : n \in Numbers}]
        \cup [cmd : {"action", "activation"}, id : Numbers, arg : Text]
        \cup [cmd : {"query"}, id : Numbers]
        \cup [cmd : {"watch"}]

Desc == [pid : Numbers, flags : Numbers]
JobDesc == Desc \X Job

PayloadText(job) ==
    IF job.cmd = "watch" THEN <<"watch">>
    ELSE IF job.cmd = "query" THEN <<job.id>>
    ELSE <<job.id, Hash>> \o job.arg

JobText(desc, job) ==
    <<desc.pid, Hash, desc.flags>> \o Double \o <<job.cmd>> \o Double \o PayloadText(job)

ParseFields(cmd, text) ==
    UNION {{[cmd |-> cmd, id |-> n, arg |-> s[2]] :
                n \in {k \in ParseNumber(s[1]) :
                        cmd \in {"close", "read"} => ParseNumber(s[2]) # {}}} :
            s \in SplitOnce(text, Single)}

\* An unknown command is `unreachable!`, a broadcast is no job of a client.
ParsePayload(cmd, text) ==
    IF cmd = <<"watch">> THEN IF text = <<"watch">> THEN {[cmd |-> "watch"]} ELSE {}
    ELSE IF cmd = <<"query">> THEN {[cmd |-> "query", id |-> n] : n \in ParseNumber(text)}
    ELSE UNION {ParseFields(c, text) :
                    c \in {d \in {"close", "read", "action", "activation"} : cmd = <<d>>}}

ParseDesc(text) ==
    {desc \in Desc : \E s \in SplitOnce(text, Single) :
        desc.pid \in ParseNumber(s[1]) /\ desc.flags \in ParseNumber(s[2])}

ParseJob(text) ==
    UNION {UNION {ParseDesc(s[1]) \X ParsePayload(t[1], t[2]) : t \in SplitOnce(s[2], Double)} :
            s \in SplitOnce(text, Double)}

-----------------------------------------------------------------------------
(* FulfilledJob: results of jobs, and events.  The data of an internal      *)
(* failure (`oth`) is what it is shown as.  No text at all is the answer of *)
(* a job that has none.                                                     *)

Event ==
    [typ : {"act", "acv"}, id : Numbers, arg : Text] \cup [typ : {"cls"}, id : Numbers]

NoResult == [kind |-> "none"]

FulfilledJob ==
    [kind : {"res", "err", "oth"}, data : Text \ {<<>>}]
        \cup [kind : {"ev"}, event : Event] \cup {NoResult}

EventText(ev) ==
    IF ev.typ = "cls" THEN <<"cls", Hash, ev.id>> ELSE <<ev.typ, Hash, ev.id, Hash>> \o ev.arg

ResultText(res) ==
    IF res = NoResult THEN <<>>
    ELSE IF res.kind = "ev" THEN <<"ev", Hash>> \o EventText(res.event)
    ELSE <<res.kind, Hash>> \o res.data

ParseSignal(typ, text) ==
    UNION {{[typ |-> typ, id |-> n, arg |-> s[2]] : n \in ParseNumber(s[1])} :
            s \in SplitOnce(text, Single)}

ParseEventType(type, text) ==
    IF type = <<"cls">> THEN {[typ |-> "cls", id |-> n] : n \in ParseNumber(text)}
    ELSE UNION {ParseSignal(typ, text) : typ \in {a \in {"act", "acv"} : type = <<a>>}}

ParseEvent(text) ==
    UNION {ParseEventType(s[1], s[2]) : s \in SplitOnce(text, Single)}

ParseResultType(type, text) ==
    IF type = <<"ev">> THEN {[kind |-> "ev", event |-> ev] : ev \in ParseEvent(text)}
    ELSE {[kind |-> k, data |-> text] : k \in {a \in {"res", "err", "oth"} : type = <<a>>}}

ParseResult(text) ==
    IF text = <<>> THEN {NoResult}
    ELSE UNION {ParseResultType(s[1], s[2]) : s \in SplitOnce(text, Single)}

-----------------------------------------------------------------------------
(* What is said over a connection, and what is heard.                      *)

\* A message is a transmission and what it is to say.  `send` of a client gives
\* its pid twice, `from_fulfilled` and `send_error` are the other two.
Request(desc, job) ==
    [tr |-> [typ |-> "inc", pid |-> desc.pid, data |-> JobText(desc, job)],
     says |-> <<desc, job>>]

Answer(pid, res) ==
    [tr |-> [typ |-> "out", pid |-> pid, data |-> ResultText(res)], says |-> res]

Refusal(err) == [tr |-> [typ |-> "Err", data |-> err], says |-> err]

Message(m) ==
    \/ m.tr.typ = "inc" /\ m.says \in JobDesc /\ m = Request(m.says[1], m.says[2])
    \/ m.tr.typ = "out" /\ m.tr.pid \in Numbers /\ m.says \in FulfilledJob
                        /\ m = Answer(m.tr.pid, m.says)
    \/ m.tr.typ = "Err" /\ m.says \in Text /\ m = Refusal(m.says)

Heard(tr) ==
    IF tr.typ = "inc" THEN ParseJob(tr.data)
    ELSE IF tr.typ = "out" THEN ParseResult(tr.data)
    ELSE {tr.data}
=============================================================================
