---------------------------- MODULE CodecProofs ----------------------------
(***************************************************************************)
(* What is put into the text protocol comes out of it, for every text a    *)
(* user may give, the separators of the protocol included.                 *)
(***************************************************************************)
EXTENDS Codec, SequenceTheorems, TLAPS

(* A part of a text is known by its tokens.                                 *)
LEMMA PartOf ==
    ASSUME NEW S, NEW text, NEW part \in Seq(S), NEW m \in Int, NEW n \in Int,
           Len(part) = n - m + 1,
           \A i \in 1 .. Len(part) : text[m + i - 1] = part[i]
    PROVE  SubSeq(text, m, n) = part
<1> DEFINE sub == SubSeq(text, m, n)
<1>1. Len(part) \in Nat /\ \A i \in 1 .. Len(part) : part[i] \in S
  BY LenProperties, ElementOfSeq
<1>2. ASSUME NEW i \in m .. n
      PROVE  text[i] \in S
  <2>1. i - m + 1 \in 1 .. Len(part)
    BY <1>1
  <2>2. m + (i - m + 1) - 1 = i
    OBVIOUS
  <2> QED BY <1>1, <2>1, <2>2
<1>3. /\ sub \in Seq(S)
      /\ Len(sub) = (IF m <= n THEN n - m + 1 ELSE 0)
      /\ \A i \in 1 .. n - m + 1 : sub[i] = text[m + i - 1]
  BY <1>2, SubSeqProperties
<1>4. Len(sub) = Len(part) /\ \A i \in 1 .. Len(part) : sub[i] = part[i]
  BY <1>1, <1>3
<1>5. sub = part
  <2> HIDE DEF sub
  <2> QED BY <1>3, <1>4, SeqEqual
<1> QED BY <1>5

(* Where the tokens of three parts are in the whole.                        *)
LEMMA ThreeParts ==
    ASSUME NEW S, NEW head \in Seq(S), NEW mid \in Seq(S), NEW tail \in Seq(S),
           NEW text, text = (head \o mid) \o tail
    PROVE  /\ text \in Seq(S) /\ Len(text) = Len(head) + Len(mid) + Len(tail)
           /\ \A i \in 1 .. Len(head) : text[i] = head[i]
           /\ \A i \in 1 .. Len(mid) : text[Len(head) + i] = mid[i]
           /\ \A i \in 1 .. Len(tail) : text[Len(head) + Len(mid) + i] = tail[i]
<1> DEFINE front == head \o mid
<1>1. /\ front \in Seq(S) /\ Len(front) = Len(head) + Len(mid)
      /\ text \in Seq(S) /\ Len(text) = Len(head) + Len(mid) + Len(tail)
      /\ Len(head) \in Nat /\ Len(tail) \in Nat /\ Len(mid) \in Nat
  BY ConcatProperties, LenProperties
<1>2. \A i \in 1 .. Len(front) :
          front[i] = IF i <= Len(head) THEN head[i] ELSE mid[i - Len(head)]
  BY <1>1, ConcatProperties
<1>3. \A i \in 1 .. Len(text) :
          text[i] = IF i <= Len(front) THEN front[i] ELSE tail[i - Len(front)]
  BY <1>1, ConcatProperties
<1> QED BY <1>1, <1>2, <1>3

(* A text is split at the first separator, so whatever follows it may hold  *)
(* the separator again (str::split_once).                                   *)
LEMMA SplitHere ==
    ASSUME NEW head \in Seq(Token), NEW delimiter \in Seq(Token), NEW tail \in Seq(Token),
           delimiter # <<>>,
           \A j \in 1 .. Len(head) :
               \E k \in 1 .. Len(delimiter) :
                   j + k - 1 <= Len(head) /\ head[j + k - 1] # delimiter[k]
    PROVE  SplitOnce((head \o delimiter) \o tail, delimiter) = {<<head, tail>>}
<1> DEFINE text == (head \o delimiter) \o tail
           here == Len(head) + 1
<1>1. /\ Len(head) \in Nat /\ Len(tail) \in Nat /\ Len(delimiter) \in Nat \ {0}
  BY EmptySeq, LenProperties
<1>2. /\ text \in Seq(Token) /\ Len(text) = Len(head) + Len(delimiter) + Len(tail)
      /\ \A i \in 1 .. Len(head) : text[i] = head[i]
      /\ \A i \in 1 .. Len(delimiter) : text[Len(head) + i] = delimiter[i]
      /\ \A i \in 1 .. Len(tail) : text[Len(head) + Len(delimiter) + i] = tail[i]
  BY ThreeParts
<1>3. SubSeq(text, here, here + Len(delimiter) - 1) = delimiter
  <2>1. \A i \in 1 .. Len(delimiter) : text[here + i - 1] = delimiter[i]
    <3> SUFFICES ASSUME NEW i \in 1 .. Len(delimiter)
                 PROVE  text[here + i - 1] = delimiter[i]
      OBVIOUS
    <3>1. here + i - 1 = Len(head) + i
      BY <1>1
    <3> QED BY <1>2, <3>1
  <2>2. /\ Len(delimiter) = (here + Len(delimiter) - 1) - here + 1
        /\ here \in Int /\ here + Len(delimiter) - 1 \in Int
    BY <1>1
  <2> HIDE DEF text, here
  <2> QED BY <2>1, <2>2, PartOf
<1>4. SubSeq(text, 1, here - 1) = head
  <2> HIDE DEF text
  <2> QED BY <1>1, <1>2, PartOf
<1>5. SubSeq(text, here + Len(delimiter), Len(text)) = tail
  <2>1. \A i \in 1 .. Len(tail) :
            text[(here + Len(delimiter)) + i - 1] = tail[i]
    <3> SUFFICES ASSUME NEW i \in 1 .. Len(tail)
                 PROVE  text[(here + Len(delimiter)) + i - 1] = tail[i]
      OBVIOUS
    <3>1. (here + Len(delimiter)) + i - 1 = Len(head) + Len(delimiter) + i
      BY <1>1
    <3> QED BY <1>2, <3>1
  <2>2. /\ Len(tail) = Len(text) - (here + Len(delimiter)) + 1
        /\ here + Len(delimiter) \in Int /\ Len(text) \in Int
    BY <1>1, <1>2
  <2> HIDE DEF text, here
  <2> QED BY <2>1, <2>2, PartOf
<1>6. here \in Occurrences(text, delimiter)
  BY <1>1, <1>3 DEF Occurrences
<1>7. ASSUME NEW i \in Occurrences(text, delimiter)
      PROVE  here <= i
  <2>1. /\ i \in 1 .. Len(text) - Len(delimiter) + 1
        /\ SubSeq(text, i, i + Len(delimiter) - 1) = delimiter
    <3> HIDE DEF text
    <3> QED BY DEF Occurrences
  <2>2. \A k \in 1 .. Len(delimiter) : text[i + k - 1] = delimiter[k]
    <3>1. \A k \in i .. i + Len(delimiter) - 1 : text[k] \in Token
      <4> HIDE DEF text
      <4> QED BY <1>1, <1>2, <2>1, ElementOfSeq
    <3>2. /\ i \in Int /\ i + Len(delimiter) - 1 \in Int
          /\ (i + Len(delimiter) - 1) - i + 1 = Len(delimiter)
      BY <1>1, <1>2, <2>1
    <3>3. \A k \in 1 .. Len(delimiter) :
              SubSeq(text, i, i + Len(delimiter) - 1)[k] = text[i + k - 1]
      <4> HIDE DEF text
      <4> QED BY <3>1, <3>2, SubSeqProperties
    <3> HIDE DEF text
    <3> QED BY <2>1, <3>3
  <2>3. i \notin 1 .. Len(head)
    <3> SUFFICES ASSUME i \in 1 .. Len(head) PROVE FALSE
      OBVIOUS
    <3>1. PICK k \in 1 .. Len(delimiter) :
              i + k - 1 <= Len(head) /\ head[i + k - 1] # delimiter[k]
      OBVIOUS
    <3>2. i + k - 1 \in 1 .. Len(head)
      BY <1>1, <3>1
    <3> HIDE DEF text
    <3> QED BY <1>2, <2>2, <3>1, <3>2
  <2> QED BY <1>1, <1>2, <2>1, <2>3
<1>8. Occurrences(text, delimiter) \subseteq Nat
  BY <1>1 DEF Occurrences
<1>9. {i \in Occurrences(text, delimiter) :
            \A j \in Occurrences(text, delimiter) : i <= j} = {here}
  <2> HIDE DEF here, text
  <2> QED BY <1>6, <1>7, <1>8
<1>10. SplitOnce(text, delimiter) = {SplitAt(text, delimiter, here)}
  <2> HIDE DEF here, text
  <2> QED BY <1>9 DEF SplitOnce
<1>11. SplitAt(text, delimiter, here) = <<head, tail>>
  BY <1>4, <1>5 DEF SplitAt
<1> HIDE DEF here
<1> QED BY <1>10, <1>11

LEMMA SplitAtHash ==
    ASSUME NEW head \in Text, NEW tail \in Text,
           \A i \in 1 .. Len(head) : head[i] # Hash
    PROVE  SplitOnce((head \o Single) \o tail, Single) = {<<head, tail>>}
<1>1. Single \in Text /\ Len(Single) = 1 /\ Single # <<>> /\ Single[1] = Hash
  BY DEF Single, Text, Token, Hash
<1>2. ASSUME NEW j \in 1 .. Len(head)
      PROVE  \E k \in 1 .. Len(Single) :
                 j + k - 1 <= Len(head) /\ head[j + k - 1] # Single[k]
  <2>1. /\ Len(head) \in Nat /\ 1 \in 1 .. Len(Single)
        /\ j + 1 - 1 <= Len(head) /\ j + 1 - 1 = j
    BY <1>1, LenProperties DEF Text
  <2> QED BY <1>1, <2>1
<1> QED BY <1>1, <1>2, SplitHere DEF Text

LEMMA SplitAtHashes ==
    ASSUME NEW head \in Text, NEW tail \in Text,
           \A i \in 1 .. Len(head) : head[i] = Hash => i < Len(head) /\ head[i + 1] # Hash
    PROVE  SplitOnce((head \o Double) \o tail, Double) = {<<head, tail>>}
<1>1. /\ Double \in Text /\ Len(Double) = 2 /\ Double # <<>>
      /\ Double[1] = Hash /\ Double[2] = Hash
  BY DEF Double, Text, Token, Hash
<1>2. ASSUME NEW j \in 1 .. Len(head)
      PROVE  \E k \in 1 .. Len(Double) :
                 j + k - 1 <= Len(head) /\ head[j + k - 1] # Double[k]
  <2>1. /\ Len(head) \in Nat /\ 1 \in 1 .. Len(Double) /\ 2 \in 1 .. Len(Double)
        /\ j + 1 - 1 <= Len(head) /\ j + 1 - 1 = j /\ j + 2 - 1 = j + 1
    BY <1>1, LenProperties DEF Text
  <2>2. CASE head[j] # Hash
    BY <1>1, <2>1, <2>2
  <2>3. CASE head[j] = Hash
    <3>1. j + 1 <= Len(head) /\ head[j + 1] # Hash
      BY <2>1, <2>3
    <3> QED BY <1>1, <2>1, <3>1
  <2> QED BY <2>2, <2>3
<1>3. head \in Seq(Token) /\ tail \in Seq(Token) /\ Double \in Seq(Token) /\ Double # <<>>
  BY <1>1 DEF Text
<1>4. \A j \in 1 .. Len(head) :
          \E k \in 1 .. Len(Double) :
              j + k - 1 <= Len(head) /\ head[j + k - 1] # Double[k]
  BY <1>2
<1> QED BY <1>3, <1>4, SplitHere

-----------------------------------------------------------------------------
(* The fields of the protocol.                                              *)

LEMMA TokensApart ==
    /\ \A w \in Words \cup Numbers : w \in Token /\ w # Hash
    /\ \A w \in Words : w \notin Numbers
    /\ Hash \in Token
BY TokensAssumption DEF Token

LEMMA TextConcat ==
    \A s, t, u \in Text : s \o t \in Text /\ (s \o t) \o u = s \o (t \o u)
BY ConcatProperties, ConcatAssociative DEF Text

LEMMA FieldThenText ==
    ASSUME NEW a \in Token, a # Hash, NEW tail \in Text
    PROVE  SplitOnce(<<a, Hash>> \o tail, Single) = {<<<<a>>, tail>>}
<1>1. <<a>> \in Text /\ Len(<<a>>) = 1 /\ <<a>>[1] = a
  BY DEF Text
<1>2. <<a, Hash>> = <<a>> \o Single
  BY DEF Single
<1>3. \A i \in 1 .. Len(<<a>>) : <<a>>[i] # Hash
  BY <1>1
<1> QED BY <1>1, <1>2, <1>3, SplitAtHash

LEMMA FieldThenField ==
    ASSUME NEW a \in Token, a # Hash, NEW b \in Token
    PROVE  SplitOnce(<<a, Hash, b>>, Single) = {<<<<a>>, <<b>>>>}
<1>1. <<b>> \in Text
  BY DEF Text
<1>2. <<a, Hash, b>> = <<a, Hash>> \o <<b>>
  OBVIOUS
<1> QED BY <1>1, <1>2, FieldThenText

LEMMA NumberParsed ==
    ASSUME NEW n \in Numbers
    PROVE  ParseNumber(<<n>>) = {n}
BY DEF ParseNumber

LEMMA TransmissionTypeParsed ==
    ASSUME NEW tr \in Transmission
    PROVE  /\ TransmissionTypeText(tr) \in Text
           /\ \A i \in 1 .. Len(TransmissionTypeText(tr)) :
                 TransmissionTypeText(tr)[i] = Hash =>
                    /\ i < Len(TransmissionTypeText(tr))
                    /\ TransmissionTypeText(tr)[i + 1] # Hash
           /\ ParseTransmissionType(TransmissionTypeText(tr), tr.data) = {tr}
<1>1. CASE tr \in [typ : {"Err"}, data : Text]
  <2>1. TransmissionTypeText(tr) = <<"Err">> /\ tr = [typ |-> "Err", data |-> tr.data]
    BY <1>1 DEF TransmissionTypeText
  <2>2. "Err" \in Token /\ "Err" # Hash
    BY TokensApart DEF Words
  <2> QED BY <2>1, <2>2 DEF ParseTransmissionType, Text
<1>2. CASE tr \in [typ : {"inc", "out"}, pid : Numbers, data : Text]
  <2>1. /\ TransmissionTypeText(tr) = <<tr.typ, Hash, tr.pid>>
        /\ tr.typ \in Token /\ tr.typ # Hash /\ tr.pid \in Numbers
        /\ tr.pid \in Token /\ tr.pid # Hash /\ Hash \in Token
    BY <1>2, TokensApart DEF TransmissionTypeText, Words
  <2>2. SplitOnce(<<tr.typ, Hash, tr.pid>>, Single) = {<<<<tr.typ>>, <<tr.pid>>>>}
    BY <2>1, FieldThenField
  <2>3. ParseTransmissionType(<<tr.typ, Hash, tr.pid>>, tr.data) =
            {t \in [typ : {"inc", "out"}, pid : Numbers, data : {tr.data}] :
                t.typ = tr.typ /\ t.pid = tr.pid}
    <3>1. <<tr.typ, Hash, tr.pid>> # <<"Err">>
      <4>1. Len(<<tr.typ, Hash, tr.pid>>) = 3 /\ Len(<<"Err">>) = 1
        OBVIOUS
      <4> QED BY <4>1
    <3>2. ASSUME NEW t \in [typ : {"inc", "out"}, pid : Numbers, data : {tr.data}]
          PROVE  (\E s \in {<<<<tr.typ>>, <<tr.pid>>>>} :
                      s[1] = <<t.typ>> /\ t.pid \in ParseNumber(s[2]))
                  <=> t.typ = tr.typ /\ t.pid = tr.pid
      BY <2>1, NumberParsed
    <3> QED BY <2>2, <3>1, <3>2 DEF ParseTransmissionType
  <2>4. ParseTransmissionType(<<tr.typ, Hash, tr.pid>>, tr.data) = {tr}
    BY <1>2, <2>3
  <2> QED BY <2>1, <2>4 DEF Text
<1> QED BY <1>1, <1>2 DEF Transmission

(* A transmission arrives as it was sent, whatever its data                 *)
(* (transmission.rs:66-79).                                                 *)
THEOREM TransmissionRoundTrip ==
    \A tr \in Transmission : ParseTransmission(TransmissionText(tr)) = {tr}
<1> TAKE tr \in Transmission
<1>1. tr.data \in Text
  BY DEF Transmission
<1>2. SplitOnce(TransmissionText(tr), Double) = {<<TransmissionTypeText(tr), tr.data>>}
  BY <1>1, TransmissionTypeParsed, SplitAtHashes DEF TransmissionText
<1>3. ParseTransmission(TransmissionText(tr)) =
          ParseTransmissionType(TransmissionTypeText(tr), tr.data)
  BY <1>2 DEF ParseTransmission
<1> QED BY <1>3, TransmissionTypeParsed

-----------------------------------------------------------------------------
(* Jobs.                                                                    *)

LEMMA DescParsed ==
    ASSUME NEW desc \in Desc
    PROVE  ParseDesc(<<desc.pid, Hash, desc.flags>>) = {desc}
<1>1. /\ desc.pid \in Numbers /\ desc.flags \in Numbers
      /\ desc.pid \in Token /\ desc.flags \in Token /\ desc.pid # Hash
  BY TokensApart DEF Desc
<1>2. SplitOnce(<<desc.pid, Hash, desc.flags>>, Single) =
          {<<<<desc.pid>>, <<desc.flags>>>>}
  BY <1>1, FieldThenField
<1>3. ASSUME NEW d \in Desc
      PROVE  (\E s \in {<<<<desc.pid>>, <<desc.flags>>>>} :
                  d.pid \in ParseNumber(s[1]) /\ d.flags \in ParseNumber(s[2]))
              <=> d = desc
  BY <1>1, NumberParsed DEF Desc
<1> QED BY <1>2, <1>3 DEF ParseDesc

Fields == {job \in Job : job.cmd \in {"close", "read", "action", "activation"}}

LEMMA FieldsParsed ==
    ASSUME NEW job \in Fields
    PROVE  /\ PayloadText(job) \in Text
           /\ ParsePayload(<<job.cmd>>, PayloadText(job)) = {job}
<1>1. /\ job.id \in Numbers /\ job.id \in Token /\ job.id # Hash
      /\ job.cmd \in {"close", "read", "action", "activation"}
      /\ job.arg \in Text
      /\ job.cmd \in {"close", "read"} => ParseNumber(job.arg) # {}
      /\ job = [cmd |-> job.cmd, id |-> job.id, arg |-> job.arg]
  <2>1. ASSUME NEW n \in Numbers
        PROVE  <<n>> \in Text /\ ParseNumber(<<n>>) # {}
    <3>1. n \in Token
      BY TokensApart
    <3> QED BY <3>1, NumberParsed DEF Text
  <2>2. CASE job \in [cmd : {"close", "read"}, id : Numbers, arg : {<<n>> : n \in Numbers}]
    BY <2>1, <2>2, TokensApart
  <2>3. CASE job \in [cmd : {"action", "activation"}, id : Numbers, arg : Text]
    BY <2>3, TokensApart
  <2> QED BY <2>2, <2>3 DEF Fields, Job
<1>2. PayloadText(job) = <<job.id, Hash>> \o job.arg
  BY <1>1 DEF PayloadText
<1>3. SplitOnce(PayloadText(job), Single) = {<<<<job.id>>, job.arg>>}
  BY <1>1, <1>2, FieldThenText
<1>4. ParseFields(job.cmd, PayloadText(job)) = {job}
  <2>1. ParseFields(job.cmd, PayloadText(job)) =
            {[cmd |-> job.cmd, id |-> n, arg |-> job.arg] :
                n \in {k \in ParseNumber(<<job.id>>) :
                        job.cmd \in {"close", "read"} => ParseNumber(job.arg) # {}}}
    BY <1>3 DEF ParseFields
  <2> QED BY <1>1, <2>1, NumberParsed
<1>5. ParsePayload(<<job.cmd>>, PayloadText(job)) = ParseFields(job.cmd, PayloadText(job))
  <2>1. /\ <<job.cmd>> # <<"watch">> /\ <<job.cmd>> # <<"query">>
        /\ {c \in {"close", "read", "action", "activation"} : <<job.cmd>> = <<c>>} = {job.cmd}
    BY <1>1
  <2> QED BY <2>1 DEF ParsePayload
<1>6. PayloadText(job) \in Text
  BY <1>1, <1>2, TokensApart, ConcatProperties, <<job.id, Hash>> \in Text DEF Text
<1> QED BY <1>4, <1>5, <1>6

LEMMA PayloadParsed ==
    ASSUME NEW job \in Job
    PROVE  /\ PayloadText(job) \in Text
           /\ ParsePayload(<<job.cmd>>, PayloadText(job)) = {job}
           /\ job.cmd \in Commands
<1>1. \/ job \in Fields
      \/ job \in [cmd : {"query"}, id : Numbers]
      \/ job \in [cmd : {"watch"}]
  BY DEF Job, Fields
<1>2. CASE job \in Fields
  BY <1>2, FieldsParsed DEF Fields, Commands
<1>3. CASE job \in [cmd : {"query"}, id : Numbers]
  <2>1. /\ job.cmd = "query" /\ job.id \in Numbers /\ job.id \in Token
        /\ job = [cmd |-> "query", id |-> job.id]
    BY <1>3, TokensApart
  <2>2. PayloadText(job) = <<job.id>>
    BY <2>1 DEF PayloadText
  <2>3. <<"query">> # <<"watch">>
    OBVIOUS
  <2>4. ParsePayload(<<job.cmd>>, PayloadText(job)) =
            {[cmd |-> "query", id |-> n] : n \in ParseNumber(<<job.id>>)}
    BY <2>1, <2>2, <2>3 DEF ParsePayload
  <2> QED BY <2>1, <2>2, <2>4, NumberParsed DEF Text, Commands
<1>4. CASE job \in [cmd : {"watch"}]
  <2>1. job.cmd = "watch" /\ job = [cmd |-> "watch"] /\ "watch" \in Token
    BY <1>4, TokensApart DEF Words, Commands
  <2> QED BY <2>1 DEF PayloadText, ParsePayload, Text, Commands
<1> QED BY <1>1, <1>2, <1>3, <1>4

(* A job arrives as it was sent: who asks, with which flags, and what,      *)
(* whatever the action or the token reads (jobs/mod.rs:205-242).            *)
THEOREM JobRoundTrip ==
    \A dj \in JobDesc : JobText(dj[1], dj[2]) \in Text /\ ParseJob(JobText(dj[1], dj[2])) = {dj}
<1> TAKE dj \in JobDesc
<1> DEFINE desc == dj[1]
           job == dj[2]
           who == <<desc.pid, Hash, desc.flags>>
           what == <<job.cmd>>
           rest == (what \o Double) \o PayloadText(job)
<1>1. /\ desc \in Desc /\ job \in Job /\ dj = <<desc, job>>
      /\ PayloadText(job) \in Text
      /\ ParsePayload(what, PayloadText(job)) = {job}
      /\ job.cmd \in Token /\ job.cmd # Hash
  <2>1. desc \in Desc /\ job \in Job /\ dj = <<desc, job>>
    BY DEF JobDesc
  <2> HIDE DEF desc, job
  <2> QED BY <2>1, PayloadParsed, TokensApart DEF Words
<1> HIDE DEF desc, job
<1>2. /\ who \in Text /\ Len(who) = 3
      /\ who[1] # Hash /\ who[2] = Hash /\ who[3] # Hash
      /\ what \in Text /\ Len(what) = 1 /\ what[1] # Hash
      /\ Double \in Text
  BY <1>1, TokensApart DEF Text, Double, Desc
<1> HIDE DEF who, what
<1>3. rest \in Text
  BY <1>1, <1>2, TextConcat
<1>4. JobText(desc, job) = (who \o Double) \o rest /\ JobText(desc, job) \in Text
  <2>1. JobText(desc, job) = (((who \o Double) \o what) \o Double) \o PayloadText(job)
    BY DEF JobText, who, what
  <2>2. /\ who \o Double \in Text /\ what \o Double \in Text
        /\ (who \o Double) \o rest \in Text
    BY <1>2, <1>3, TextConcat
  <2>3. ((who \o Double) \o what) \o Double = (who \o Double) \o (what \o Double)
    <3> DEFINE front == who \o Double
    <3>1. front \in Text
      BY <2>2
    <3> HIDE DEF front
    <3>2. (front \o what) \o Double = front \o (what \o Double)
      BY <1>2, <3>1, TextConcat
    <3> QED BY <3>2 DEF front
  <2>4. ((who \o Double) \o (what \o Double)) \o PayloadText(job) = (who \o Double) \o rest
    <3> DEFINE front == who \o Double
               middle == what \o Double
               end == PayloadText(job)
    <3>1. front \in Text /\ middle \in Text /\ end \in Text /\ rest = middle \o end
      BY <1>1, <2>2
    <3> HIDE DEF front, middle, end, rest
    <3>2. (front \o middle) \o end = front \o (middle \o end)
      BY <3>1, TextConcat
    <3>3. (front \o middle) \o end = front \o rest
      BY <3>1, <3>2
    <3> QED BY <3>3 DEF front, middle, end
  <2> QED BY <2>1, <2>2, <2>3, <2>4
<1>5. SplitOnce((who \o Double) \o rest, Double) = {<<who, rest>>}
  <2> HIDE DEF rest
  <2> QED BY <1>2, <1>3, SplitAtHashes
<1>6. SplitOnce(rest, Double) = {<<what, PayloadText(job)>>}
  BY <1>1, <1>2, SplitAtHashes
<1>7. ParseDesc(who) = {desc}
  BY <1>1, DescParsed DEF who
<1>8. ParseJob(JobText(desc, job)) = {desc} \X {job}
  <2> HIDE DEF rest
  <2>1. ParseJob(JobText(desc, job)) =
            UNION {ParseDesc(who) \X ParsePayload(t[1], t[2]) : t \in SplitOnce(rest, Double)}
    BY <1>4, <1>5 DEF ParseJob
  <2>2. UNION {ParseDesc(who) \X ParsePayload(t[1], t[2]) : t \in SplitOnce(rest, Double)}
            = ParseDesc(who) \X ParsePayload(what, PayloadText(job))
    BY <1>6
  <2> QED BY <1>1, <1>7, <2>1, <2>2
<1>9. {desc} \X {job} = {dj}
  BY <1>1
<1> QED BY <1>4, <1>8, <1>9 DEF desc, job

-----------------------------------------------------------------------------
(* Results and events.                                                      *)

LEMMA EventParsed ==
    ASSUME NEW ev \in Event
    PROVE  EventText(ev) \in Text /\ ParseEvent(EventText(ev)) = {ev}
<1>1. CASE ev \in [typ : {"cls"}, id : Numbers]
  <2>1. /\ EventText(ev) = <<"cls", Hash, ev.id>> /\ ev = [typ |-> "cls", id |-> ev.id]
        /\ "cls" \in Token /\ "cls" # Hash /\ ev.id \in Numbers /\ ev.id \in Token
        /\ Hash \in Token
    BY <1>1, TokensApart DEF EventText, Words
  <2>2. SplitOnce(<<"cls", Hash, ev.id>>, Single) = {<<<<"cls">>, <<ev.id>>>>}
    BY <2>1, FieldThenField
  <2>3. ParseEvent(<<"cls", Hash, ev.id>>) =
            {[typ |-> "cls", id |-> n] : n \in ParseNumber(<<ev.id>>)}
    <3>1. ParseEvent(<<"cls", Hash, ev.id>>) = ParseEventType(<<"cls">>, <<ev.id>>)
      <4> DEFINE text == <<"cls", Hash, ev.id>>
                 type == <<"cls">>
                 id == <<ev.id>>
      <4>1. SplitOnce(text, Single) = {<<type, id>>}
        BY <2>2
      <4> HIDE DEF text, type, id
      <4>2. ParseEvent(text) = ParseEventType(type, id)
        BY <4>1 DEF ParseEvent
      <4> QED BY <4>2 DEF text, type, id
    <3> QED BY <3>1 DEF ParseEventType
  <2> QED BY <2>1, <2>3, NumberParsed DEF Text
<1>2. CASE ev \in [typ : {"act", "acv"}, id : Numbers, arg : Text]
  <2> DEFINE rest == <<ev.id, Hash>> \o ev.arg
  <2>1. /\ ev = [typ |-> ev.typ, id |-> ev.id, arg |-> ev.arg]
        /\ ev.typ \in {"act", "acv"} /\ ev.typ \in Token /\ ev.typ # Hash
        /\ ev.id \in Numbers /\ ev.id \in Token /\ ev.id # Hash /\ ev.arg \in Text
        /\ Hash \in Token
    BY <1>2, TokensApart DEF Words
  <2>2. rest \in Text /\ <<ev.typ, Hash>> \in Text /\ <<ev.id, Hash>> \in Text
    BY <2>1, TextConcat, <<ev.id, Hash>> \in Text, <<ev.typ, Hash>> \in Text DEF Text
  <2>3. EventText(ev) = <<ev.typ, Hash>> \o rest /\ EventText(ev) \in Text
    <3>1. EventText(ev) = <<ev.typ, Hash, ev.id, Hash>> \o ev.arg
      BY <2>1 DEF EventText
    <3>2. <<ev.typ, Hash, ev.id, Hash>> = <<ev.typ, Hash>> \o <<ev.id, Hash>>
      OBVIOUS
    <3>3. (<<ev.typ, Hash>> \o <<ev.id, Hash>>) \o ev.arg = <<ev.typ, Hash>> \o rest
      <4> DEFINE type == <<ev.typ, Hash>>
                 id == <<ev.id, Hash>>
      <4>1. type \in Text /\ id \in Text
        BY <2>2
      <4> HIDE DEF type, id
      <4>2. (type \o id) \o ev.arg = type \o (id \o ev.arg)
        BY <2>1, <4>1, TextConcat
      <4> QED BY <4>2 DEF type, id
    <3>4. <<ev.typ, Hash>> \o rest \in Text
      BY <2>2, TextConcat
    <3> QED BY <3>1, <3>2, <3>3, <3>4
  <2>4. SplitOnce(EventText(ev), Single) = {<<<<ev.typ>>, rest>>}
    <3> HIDE DEF rest
    <3> QED BY <2>1, <2>2, <2>3, FieldThenText
  <2>5. SplitOnce(rest, Single) = {<<<<ev.id>>, ev.arg>>}
    BY <2>1, FieldThenText
  <2> HIDE DEF rest
  <2>6. ParseEvent(EventText(ev)) = ParseEventType(<<ev.typ>>, rest)
    BY <2>4 DEF ParseEvent
  <2>7. ParseEventType(<<ev.typ>>, rest) = ParseSignal(ev.typ, rest)
    <3>1. <<ev.typ>> # <<"cls">> /\ {a \in {"act", "acv"} : <<ev.typ>> = <<a>>} = {ev.typ}
      BY <2>1
    <3> QED BY <3>1 DEF ParseEventType
  <2>8. ParseSignal(ev.typ, rest) =
            {[typ |-> ev.typ, id |-> n, arg |-> ev.arg] : n \in ParseNumber(<<ev.id>>)}
    BY <2>5 DEF ParseSignal
  <2> QED BY <2>1, <2>3, <2>6, <2>7, <2>8, NumberParsed
<1> QED BY <1>1, <1>2 DEF Event

(* A result or an event arrives as it was sent, whatever the notification,  *)
(* the action or the token reads (jobs/mod.rs:66-102, 125-174).             *)
THEOREM ResultRoundTrip ==
    \A res \in FulfilledJob : ResultText(res) \in Text /\ ParseResult(ResultText(res)) = {res}
<1> TAKE res \in FulfilledJob
<1>1. CASE res \in [kind : {"res", "err", "oth"}, data : Text \ {<<>>}]
  <2>1. /\ res = [kind |-> res.kind, data |-> res.data]
        /\ res.kind \in {"res", "err", "oth"} /\ res.kind \in Token /\ res.kind # Hash
        /\ res.data \in Text /\ Hash \in Token
        /\ res # NoResult /\ res.kind # "ev"
    BY <1>1, TokensApart DEF Words, NoResult
  <2>2. ResultText(res) = <<res.kind, Hash>> \o res.data
    BY <2>1 DEF ResultText
  <2>3. ResultText(res) \in Text /\ ResultText(res) # <<>>
    BY <2>1, <2>2, TextConcat, <<res.kind, Hash>> \in Text, ConcatProperties DEF Text
  <2>4. SplitOnce(ResultText(res), Single) = {<<<<res.kind>>, res.data>>}
    BY <2>1, <2>2, FieldThenText
  <2>5. ParseResult(ResultText(res)) = ParseResultType(<<res.kind>>, res.data)
    BY <2>3, <2>4 DEF ParseResult
  <2>6. ParseResultType(<<res.kind>>, res.data) = {[kind |-> res.kind, data |-> res.data]}
    <3>1. /\ <<res.kind>> # <<"ev">>
          /\ {a \in {"res", "err", "oth"} : <<res.kind>> = <<a>>} = {res.kind}
      BY <2>1
    <3> QED BY <3>1 DEF ParseResultType
  <2> QED BY <2>1, <2>3, <2>5, <2>6
<1>2. CASE res \in [kind : {"ev"}, event : Event]
  <2>1. /\ res = [kind |-> "ev", event |-> res.event] /\ res.event \in Event
        /\ "ev" \in Token /\ "ev" # Hash /\ Hash \in Token
        /\ res # NoResult
    BY <1>2, TokensApart DEF Words, NoResult
  <2>2. EventText(res.event) \in Text /\ ParseEvent(EventText(res.event)) = {res.event}
    BY <2>1, EventParsed
  <2>3. ResultText(res) = <<"ev", Hash>> \o EventText(res.event)
    BY <2>1 DEF ResultText
  <2>4. ResultText(res) \in Text /\ ResultText(res) # <<>>
    BY <2>1, <2>2, <2>3, TextConcat, <<"ev", Hash>> \in Text, ConcatProperties DEF Text
  <2>5. SplitOnce(ResultText(res), Single) = {<<<<"ev">>, EventText(res.event)>>}
    BY <2>1, <2>2, <2>3, FieldThenText
  <2>6. ParseResult(ResultText(res)) = ParseResultType(<<"ev">>, EventText(res.event))
    BY <2>4, <2>5 DEF ParseResult
  <2> QED BY <2>1, <2>2, <2>4, <2>6 DEF ParseResultType
<1>3. CASE res = NoResult
  BY <1>3 DEF ResultText, ParseResult, Text
<1> QED BY <1>1, <1>2, <1>3 DEF FulfilledJob

(* What is heard is what was said, and nothing else.                        *)
THEOREM MessageHeard ==
    ASSUME NEW m, Message(m)
    PROVE  m.tr \in Transmission /\ Heard(m.tr) = {m.says}
<1>1. CASE m.tr.typ = "inc" /\ m.says \in JobDesc /\ m = Request(m.says[1], m.says[2])
  <2>1. m.says[1].pid \in Numbers
    BY <1>1 DEF JobDesc, Desc
  <2>2. m.tr = [typ |-> "inc", pid |-> m.says[1].pid, data |-> JobText(m.says[1], m.says[2])]
    BY <1>1 DEF Request
  <2>3. JobText(m.says[1], m.says[2]) \in Text /\ ParseJob(JobText(m.says[1], m.says[2])) = {m.says}
    BY <1>1, JobRoundTrip
  <2> QED BY <2>1, <2>2, <2>3 DEF Transmission, Heard
<1>2. CASE /\ m.tr.typ = "out" /\ m.tr.pid \in Numbers /\ m.says \in FulfilledJob
           /\ m = Answer(m.tr.pid, m.says)
  <2>1. m.tr = [typ |-> "out", pid |-> m.tr.pid, data |-> ResultText(m.says)]
    BY <1>2 DEF Answer
  <2>2. ResultText(m.says) \in Text /\ ParseResult(ResultText(m.says)) = {m.says}
    BY <1>2, ResultRoundTrip
  <2> QED BY <1>2, <2>1, <2>2 DEF Transmission, Heard
<1>3. CASE m.tr.typ = "Err" /\ m.says \in Text /\ m = Refusal(m.says)
  <2>1. m.tr = [typ |-> "Err", data |-> m.says]
    BY <1>3 DEF Refusal
  <2> QED BY <1>3, <2>1 DEF Transmission, Heard
<1> QED BY <1>1, <1>2, <1>3 DEF Message

LEMMA TransmissionTextTyped ==
    ASSUME NEW tr \in Transmission
    PROVE  TransmissionText(tr) \in Text /\ TransmissionText(tr) # <<>>
<1>1. TransmissionTypeText(tr) \in Text /\ Double \in Text /\ tr.data \in Text
  BY TransmissionTypeParsed, TokensApart DEF Double, Text, Transmission
<1>2. TransmissionText(tr) \in Text
  BY <1>1, TextConcat DEF TransmissionText
<1>3. Len(TransmissionText(tr)) = Len(TransmissionTypeText(tr)) + Len(Double) + Len(tr.data)
  BY <1>1, ThreeParts DEF TransmissionText, Text
<1>4. /\ Len(TransmissionTypeText(tr)) \in Nat /\ Len(tr.data) \in Nat
      /\ Len(Double) = 2 /\ Len(<<>>) = 0
  BY <1>1, LenProperties DEF Text, Double
<1>5. Len(TransmissionText(tr)) # 0
  <2>1. \A k, n \in Nat : k + 2 + n # 0
    OBVIOUS
  <2>2. Len(TransmissionTypeText(tr)) + 2 + Len(tr.data) # 0
    BY <1>4, <2>1
  <2> QED BY <1>3, <1>4, <2>2, Zenon
<1>6. TransmissionText(tr) # <<>>
  BY <1>4, <1>5
<1> QED BY <1>2, <1>6

LEMMA NothingParsed == ParseTransmission(<<>>) = {}
<1>1. Len(Double) = 2 /\ Len(<<>>) = 0
  BY DEF Double
<1>2. Occurrences(<<>>, Double) = {}
  BY <1>1 DEF Occurrences
<1>3. SplitOnce(<<>>, Double) = {}
  BY <1>2 DEF SplitOnce
<1> QED BY <1>3 DEF ParseTransmission
=============================================================================
