---------------------------- MODULE MCTransport ----------------------------
(* Connections of every kind for model checking Transport.                   *)
EXTENDS Transport

Ask == [pid |-> "1", flags |-> "0"]
Command(flags) == [pid |-> "0", flags |-> flags]

Once(kind, messages) == {[kind |-> kind, messages |-> <<m>>] : m \in messages}

Asking ==
    Once("request",
         {Request(Ask, [cmd |-> "query", id |-> "1"]),
          Request(Ask, [cmd |-> "watch"])}
            \cup {Request(Ask, [cmd |-> "read", id |-> "0", arg |-> <<n>>]) : n \in {"0", "1"}})

\* An action or a token may read like anything else in the protocol, be empty,
\* fill the buffer to the last token, or be longer than it.
Xs(n) == [i \in 1 .. n |-> "x"]

UserTexts ==
    {<<>>, <<"x">>, <<"#">>, <<"#", "#">>, <<"#", "#", "#">>, <<"x", "#", "#", "1">>,
     <<"lead", "trail">>, <<"x", "lead", "trail">>, <<"lead", "trail", "lead", "trail">>,
     <<"res", "#", "x">>, <<"1", "#", "#", "close", "#", "#">>,
     Xs(11), Xs(10) \o <<"lead", "trail">>, Xs(16)}

Signalling ==
    Once("signal",
         {Request(Command("0"), [cmd |-> c, id |-> "1", arg |-> t]) :
            c \in {"action", "activation"}, t \in UserTexts}
            \cup {Request(Command("1"), [cmd |-> "close", id |-> "1", arg |-> <<"1">>])})

Results ==
    {[kind |-> k, data |-> t] : k \in {"res", "err", "oth"}, t \in UserTexts \ {<<>>}}
        \cup {[kind |-> "ev", event |-> [typ |-> e, id |-> "1", arg |-> t]] :
                e \in {"act", "acv"}, t \in UserTexts}
        \cup {[kind |-> "ev", event |-> [typ |-> "cls", id |-> "1"]], NoResult}

Answering ==
    Once("answer", {Answer("1", r) : r \in Results} \cup {Refusal(t) : t \in UserTexts})

Json(t) == Answer("0", [kind |-> "res", data |-> t])
Closed == Answer("0", [kind |-> "ev", event |-> [typ |-> "cls", id |-> "1"]])

\* Two or three broadcasts: short ones, ones that fill the buffer alone or
\* together, ones that are cut inside a character or not.
Watching ==
    {[kind |-> "watch", messages |-> ms] :
        ms \in {<<Json(<<"x", "#", "#">>), Json(<<"lead", "trail">>)>>,
                <<Json(<<"x">>), Closed, Json(<<"x">>)>>,
                <<Json(Xs(11)), Closed>>,
                <<Closed, Json(Xs(11))>>,
                <<Json(Xs(11)), Json(Xs(11)), Json(Xs(11))>>,
                <<Json(Xs(10) \o <<"lead", "trail">>), Closed>>,
                <<Json(Xs(9) \o <<"lead", "trail", "x">>), Closed>>}}

AllScripts == Asking \cup Signalling \cup Answering \cup Watching

ShortWatch == {[kind |-> "watch", messages |-> <<Json(<<"x">>), Json(<<"1">>)>>]}
=============================================================================
