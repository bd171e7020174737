-------------------------- MODULE TransportProofs --------------------------
(***************************************************************************)
(* What is read from a connection is what was written to it, for every     *)
(* size of the buffer, of the pieces and of the socket, and every message. *)
(***************************************************************************)
EXTENDS Transport, CodecProofs

LEMMA WrittenTyped ==
    ASSUME script \in Scripts, NEW i \in 1 .. Len(script.messages)
    PROVE  /\ Written(i) \in Text /\ Written(i) # <<>>
           /\ Written(i)[Len(Written(i))] # "lead"
           /\ ParseTransmission(Written(i)) = {script.messages[i].tr}
           /\ Heard(script.messages[i].tr) = {script.messages[i].says}
<1> DEFINE m == script.messages[i]
<1>1. m \in Range(script.messages)
  BY ScriptsAssumption, LenProperties DEF Range
<1>2. Message(m) /\ Last(TransmissionText(m.tr)) # "lead"
  BY <1>1, ScriptsAssumption
<1> HIDE DEF m
<1>3. m.tr \in Transmission /\ Heard(m.tr) = {m.says}
  BY <1>2, MessageHeard
<1>4. TransmissionText(m.tr) \in Text /\ TransmissionText(m.tr) # <<>>
  BY <1>3, TransmissionTextTyped
<1>5. ParseTransmission(TransmissionText(m.tr)) = {m.tr}
  BY <1>3, TransmissionRoundTrip
<1> QED BY <1>2, <1>3, <1>4, <1>5 DEF Written, m, Last

(* A read takes a prefix of what is in the socket, all of it if it takes    *)
(* less than it asked for.                                                  *)
LEMMA ChunkTaken ==
    ASSUME pipe \in Text, Take
    PROVE  /\ Chunk \in Text /\ pipe' \in Text /\ Chunk \o pipe' = pipe
           /\ Len(Chunk) \in 0 .. BufSize
           /\ Len(pipe') = Len(pipe) - Len(Chunk)
           /\ Len(Chunk) # BufSize => Chunk = pipe /\ pipe' = <<>>
<1> DEFINE n == Least(BufSize, Len(pipe))
<1>1. /\ n \in Nat /\ n <= Len(pipe) /\ n <= BufSize /\ Len(pipe) \in Nat
      /\ n # BufSize => n = Len(pipe)
  BY SizesAssumption, LenProperties DEF Least, Text
<1>2. \A i \in 1 .. Len(pipe) : pipe[i] \in Token
  BY ElementOfSeq DEF Text
<1>3. Chunk = SubSeq(pipe, 1, n) /\ Chunk \in Text /\ Len(Chunk) = n
  <2>1. \A i \in 1 .. n : pipe[i] \in Token
    BY <1>1, <1>2
  <2> HIDE DEF n
  <2>2. SubSeq(pipe, 1, n) \in Seq(Token) /\ Len(SubSeq(pipe, 1, n)) = n
    BY <1>1, <2>1, SubSeqProperties
  <2> QED BY <2>2 DEF Chunk, n, Text
<1>4. pipe' = SubSeq(pipe, n + 1, Len(pipe))
  BY <1>3 DEF Take
<1>5. pipe' \in Text /\ Len(pipe') = Len(pipe) - n
  <2>1. \A i \in n + 1 .. Len(pipe) : pipe[i] \in Token
    BY <1>1, <1>2
  <2> HIDE DEF n
  <2> QED BY <1>1, <1>4, <2>1, SubSeqProperties DEF Text
<1>6. Chunk \o pipe' = pipe
  <2>1. 1 \in 1 .. Len(pipe) + 1 /\ n \in 1 - 1 .. Len(pipe) /\ Len(pipe) \in n .. Len(pipe)
    BY <1>1
  <2> HIDE DEF n
  <2>2. SubSeq(pipe, 1, n) \o SubSeq(pipe, n + 1, Len(pipe)) = SubSeq(pipe, 1, Len(pipe))
    BY <2>1, ConcatAdjacentSubSeq DEF Text
  <2>3. SubSeq(pipe, 1, Len(pipe)) = pipe
    BY SubSeqFull DEF Text
  <2> QED BY <1>3, <1>4, <2>2, <2>3
<1>7. Len(Chunk) # BufSize => Chunk = pipe /\ pipe' = <<>>
  <2>1. ASSUME n = Len(pipe)
        PROVE  Chunk = pipe /\ pipe' = <<>>
    <3>1. Chunk = pipe
      BY <1>3, <2>1, SubSeqFull DEF Text
    <3>2. pipe' = <<>>
      BY <1>1, <1>4, <2>1, SubSeqEmpty
    <3> QED BY <3>1, <3>2
  <2> QED BY <1>1, <1>3, <2>1
<1> HIDE DEF n
<1> QED BY <1>1, <1>3, <1>5, <1>6, <1>7

LEMMA ChunkOfNothing ==
    ASSUME pipe = <<>>
    PROVE  Chunk = <<>>
<1>1. Least(BufSize, Len(pipe)) = 0
  BY SizesAssumption DEF Least
<1> QED BY <1>1, SubSeqEmpty DEF Chunk

(* A write passes on a prefix of what is left, all of it if it fits.        *)
LEMMA PiecePassed ==
    ASSUME buf \in Text, NEW n, n = Least(PieceSize, Len(buf))
    PROVE  /\ SubSeq(buf, 1, n) \in Text /\ SubSeq(buf, n + 1, Len(buf)) \in Text
           /\ Len(SubSeq(buf, 1, n)) <= PieceSize /\ Len(SubSeq(buf, 1, n)) \in Nat
           /\ Len(buf) <= PieceSize =>
                 SubSeq(buf, 1, n) = buf /\ SubSeq(buf, n + 1, Len(buf)) = <<>>
<1>1. /\ n \in Nat /\ n <= Len(buf) /\ n <= PieceSize /\ Len(buf) \in Nat
      /\ Len(buf) <= PieceSize => n = Len(buf)
  BY SizesAssumption, LenProperties DEF Least, Text
<1>2. \A i \in 1 .. Len(buf) : buf[i] \in Token
  BY ElementOfSeq DEF Text
<1>3. SubSeq(buf, 1, n) \in Text /\ Len(SubSeq(buf, 1, n)) = n
  <2>1. \A i \in 1 .. n : buf[i] \in Token
    BY <1>1, <1>2
  <2> QED BY <1>1, <2>1, SubSeqProperties DEF Text
<1>4. SubSeq(buf, n + 1, Len(buf)) \in Text
  <2>1. \A i \in n + 1 .. Len(buf) : buf[i] \in Token
    BY <1>1, <1>2
  <2> QED BY <1>1, <2>1, SubSeqProperties DEF Text
<1>5. ASSUME Len(buf) <= PieceSize
      PROVE  SubSeq(buf, 1, n) = buf /\ SubSeq(buf, n + 1, Len(buf)) = <<>>
  <2>1. n = Len(buf)
    BY <1>1, <1>5
  <2>2. SubSeq(buf, 1, n) = buf
    BY <2>1, SubSeqFull DEF Text
  <2>3. SubSeq(buf, n + 1, Len(buf)) = <<>>
    BY <1>1, <2>1, SubSeqEmpty
  <2> QED BY <2>2, <2>3
<1> QED BY <1>1, <1>3, <1>4, <1>5

-----------------------------------------------------------------------------
(* Types.                                                                   *)

LEMMA TypeInit == Init => TypeOK
<1> SUFFICES ASSUME Init PROVE TypeOK
  OBVIOUS
<1>1. Len(script.messages) \in Nat
  BY ScriptsAssumption, LenProperties DEF Init
<1>2. <<>> \in Text /\ <<>> \in Seq(Text) /\ Len(<<>>) = 0
  BY EmptySeq DEF Text
<1>3. 0 < SendLimit + PieceSize
  BY SizesAssumption
<1> QED BY <1>1, <1>2, <1>3 DEF Init, TypeOK

LEMMA TypeNext == TypeOK /\ [Next]_vars => TypeOK'
<1> SUFFICES ASSUME TypeOK, [Next]_vars PROVE TypeOK'
  OBVIOUS
<1>1. Len(script.messages) \in Nat
  BY ScriptsAssumption, LenProperties DEF TypeOK
<1>2. CASE Write
  <2>1. sent + 1 \in 1 .. Len(script.messages)
    BY <1>1, <1>2 DEF Write, TypeOK
  <2>2. Written(sent + 1) \in Text
    BY <2>1, WrittenTyped DEF TypeOK
  <2> QED BY <1>1, <1>2, <2>1, <2>2 DEF Write, TypeOK, rvars
<1>3. CASE TryWrite
  <2> DEFINE n == Least(PieceSize, Len(buf))
             piece == SubSeq(buf, 1, n)
             left == SubSeq(buf, n + 1, Len(buf))
  <2>1. piece \in Text /\ left \in Text /\ Len(piece) \in Nat /\ Len(piece) <= PieceSize
    BY PiecePassed DEF TypeOK
  <2>2. pipe' = pipe \o piece /\ buf' = left /\ Len(pipe) < SendLimit
    BY <1>3 DEF TryWrite, HasRoom
  <2> HIDE DEF piece, left
  <2>3. pipe' \in Text /\ Len(pipe') = Len(pipe) + Len(piece) /\ Len(pipe) \in Nat
    BY <2>1, <2>2, ConcatProperties, LenProperties DEF TypeOK, Text
  <2>4. Len(pipe') < SendLimit + PieceSize
    BY <2>1, <2>2, <2>3, SizesAssumption
  <2> QED BY <1>3, <2>1, <2>2, <2>3, <2>4 DEF TryWrite, TypeOK, rvars
<1>4. CASE EndWrite
  BY <1>4 DEF EndWrite, TypeOK, rvars
<1>5. CASE WriteFails
  BY <1>5 DEF WriteFails, TypeOK, rvars
<1>6. CASE CloseWriter
  BY <1>6 DEF CloseWriter, TypeOK, rvars
<1>7. CASE WriterDies
  BY <1>7 DEF WriterDies, TypeOK, rvars
<1>8. ASSUME Take
      PROVE  /\ Gathered \in Text /\ pipe' \in Text
             /\ Len(pipe') < SendLimit + PieceSize
  <2>1. Gathered \in Text /\ pipe' \in Text /\ Len(pipe') = Len(pipe) - Len(Chunk)
    BY <1>8, ChunkTaken, TextConcat DEF TypeOK, Gathered
  <2>2. Len(Chunk) \in Nat /\ Len(pipe) \in Nat
    BY <1>8, ChunkTaken, LenProperties DEF TypeOK, Text
  <2> QED BY <2>1, <2>2, SizesAssumption DEF TypeOK
<1>9. CASE TryReadCut
  BY <1>8, <1>9 DEF TryReadCut, TypeOK, wvars
<1>10. CASE TryReadMore
  BY <1>8, <1>10 DEF TryReadMore, TypeOK, wvars
<1>11. CASE TryReadLast
  <2>1. Gathered \in Text /\ Append(lines, Gathered) \in Seq(Text)
    BY <1>8, <1>11, AppendProperties DEF TryReadLast, TypeOK
  <2>2. lines' \in Seq(Text) /\ reader' \in {"reading", "finished", "failed", "killed"}
    BY <1>11, <2>1 DEF TryReadLast, TypeOK
  <2>3. tdata' \in Text
    BY <1>11, EmptySeq DEF TryReadLast, Text
  <2> QED BY <1>8, <1>11, <2>2, <2>3 DEF TryReadLast, TypeOK, wvars
<1>12. CASE CloseReader
  BY <1>12 DEF CloseReader, TypeOK, wvars
<1>13. CASE ReaderDies
  BY <1>13 DEF ReaderDies, TypeOK, wvars
<1>14. CASE UNCHANGED vars
  BY <1>14 DEF vars, wvars, rvars, TypeOK
<1> QED
  BY <1>2, <1>3, <1>4, <1>5, <1>6, <1>7, <1>9, <1>10, <1>11, <1>12, <1>13, <1>14
  DEF Next, Writing, Reading

(* Every connection keeps its types, and no socket ever holds more than its *)
(* limit and one piece (listener.rs:28-84).                                 *)
THEOREM TypeCorrect == Spec => []TypeOK
<1> QED BY TypeInit, TypeNext, PTL DEF Spec

-----------------------------------------------------------------------------
(* Reads end where messages end.                                            *)

Framing ==
    /\ ~wopen => writer # "writing"
    /\ sent = 0 => buf = <<>>
    /\ Whole => buf \in {<<>>, Written(sent)}

LEMMA ScriptStays ==
    [Next]_vars => /\ script' = script /\ (Whole' <=> Whole)
                   /\ \A i : Written(i)' = Written(i)
<1> SUFFICES ASSUME [Next]_vars PROVE script' = script
  BY DEF Whole, Written
<1> QED BY DEF Next, Writing, Reading, Write, TryWrite, EndWrite, WriteFails, CloseWriter,
     WriterDies, TryReadCut, TryReadMore, TryReadLast, CloseReader, ReaderDies, vars

LEMMA FramingNext == TypeOK /\ Framing /\ [Next]_vars => Framing'
<1> SUFFICES ASSUME TypeOK, Framing, [Next]_vars PROVE Framing'
  OBVIOUS
<1>1. script' = script /\ (Whole' <=> Whole) /\ \A i : Written(i)' = Written(i)
  BY ScriptStays
<1>2. sent \in Nat /\ Len(script.messages) \in Nat
  BY ScriptsAssumption, LenProperties DEF TypeOK
<1>3. CASE Write
  <2>1. buf' = Written(sent') /\ sent' # 0 /\ wopen'
    BY <1>2, <1>3 DEF Write
  <2> QED BY <1>1, <2>1 DEF Framing, Written
<1>4. CASE TryWrite
  <2> DEFINE n == Least(PieceSize, Len(buf))
  <2>1. sent' = sent /\ wopen' = wopen /\ writer' = writer /\ buf # <<>>
        /\ buf' = SubSeq(buf, n + 1, Len(buf))
    BY <1>4 DEF TryWrite
  <2>2. sent # 0
    BY <2>1 DEF Framing
  <2>3. ASSUME Whole PROVE buf' = <<>>
    <3>1. buf = Written(sent) /\ sent \in DOMAIN script.messages
      BY <1>2, <2>1, <2>2, <2>3, ScriptsAssumption, LenProperties DEF Framing, TypeOK
    <3>2. Len(buf) <= PieceSize
      BY <2>3, <3>1 DEF Whole
    <3> QED BY <2>1, <3>2, PiecePassed DEF TypeOK
  <2> HIDE DEF n
  <2> QED BY <1>1, <2>1, <2>2, <2>3 DEF Framing
<1>5. CASE EndWrite
  BY <1>1, <1>5 DEF EndWrite, Framing, Written
<1>6. CASE WriteFails
  BY <1>1, <1>6 DEF WriteFails, Framing, Written
<1>7. CASE CloseWriter
  BY <1>1, <1>7 DEF CloseWriter, Framing, Written
<1>8. CASE WriterDies
  BY <1>1, <1>8 DEF WriterDies, Framing, Written
<1>9. CASE UNCHANGED wvars
  BY <1>1, <1>9 DEF wvars, Framing, Written
<1> QED
  BY <1>3, <1>4, <1>5, <1>6, <1>7, <1>8, <1>9
  DEF Next, Writing, Reading, TryReadCut, TryReadMore, TryReadLast, CloseReader,
      ReaderDies, vars

LEMMA FramingInvariant == Spec => [](TypeOK /\ Framing)
<1>1. Init => Framing
  BY DEF Init, Framing
<1> QED BY <1>1, TypeInit, TypeNext, FramingNext, PTL DEF Spec

(* No transmission is handed over with its end still on the way, whatever   *)
(* the sizes (listener.rs:42).                                              *)
THEOREM ReadsAreWhole == Spec => WholeReads
<1>1. ASSUME TypeOK, Framing, [Next]_vars, lines' # lines, Whole
      PROVE  pipe' = <<>> /\ buf \in {<<>>, Written(sent)}
  <2>1. TryReadLast
    BY <1>1 DEF Next, Writing, Reading, Write, TryWrite, EndWrite, WriteFails, CloseWriter,
       WriterDies, TryReadCut, TryReadMore, CloseReader, ReaderDies, vars, rvars
  <2>2. Take /\ Len(Chunk) # BufSize
    BY <2>1 DEF TryReadLast, More
  <2> QED BY <1>1, <2>2, ChunkTaken DEF TypeOK, Framing
<1>2. TypeOK /\ Framing /\ [Next]_vars =>
          [lines' # lines /\ Whole => pipe' = <<>> /\ buf \in {<<>>, Written(sent)}]_vars
  BY <1>1
<1> QED BY <1>2, FramingInvariant, PTL DEF Spec, WholeReads

-----------------------------------------------------------------------------
(* What is heard is what was said.                                          *)

\* Nothing of the message is on its way yet.
Untouched ==
    /\ pipe = <<>> /\ tdata = <<>>
    /\ sent = 1 => buf = Written(1)

\* All of it is, and a whole number of full buffers has been read.
InFlight ==
    /\ sent = 1 /\ buf = <<>>
    /\ tdata \o pipe = Written(1)
    /\ \E n \in Nat : Len(tdata) = n * BufSize

FailureExcused ==
    \/ CutSomewhere(Written(1))
    \/ ~wopen /\ (sent = 1 => buf = Written(1))

Delivery ==
    Whole /\ script.kind # "watch" =>
        /\ reader = "reading" => lines = <<>> /\ (Untouched \/ InFlight)
        /\ reader = "finished" => lines = <<Written(1)>>
        /\ reader = "failed" => FailureExcused

\* Where the middle one of three texts is in the whole.
LEMMA MiddleOf ==
    ASSUME NEW head \in Text, NEW mid \in Text, NEW tail \in Text
    PROVE  LET whole == (head \o mid) \o tail
           IN /\ Len(whole) = Len(head) + Len(mid) + Len(tail)
              /\ \A i \in 1 .. Len(mid) : whole[Len(head) + i] = mid[i]
<1> DEFINE whole == (head \o mid) \o tail
<1>1. head \in Seq(Token) /\ mid \in Seq(Token) /\ tail \in Seq(Token)
  BY DEF Text
<1> HIDE DEF whole
<1>2. whole = (head \o mid) \o tail
  BY DEF whole
<1>3. /\ Len(whole) = Len(head) + Len(mid) + Len(tail)
      /\ \A i \in 1 .. Len(mid) : whole[Len(head) + i] = mid[i]
  BY <1>1, <1>2, ThreeParts
<1> QED BY <1>3 DEF whole

\* A chunk that ends inside a character lies at the end of a full buffer.
LEMMA CutAtBuffer ==
    ASSUME TypeOK, Take, InFlight, Cut(Chunk), script.kind # "watch"
    PROVE  CutSomewhere(Written(1))
<1>1. /\ Chunk \in Text /\ pipe' \in Text /\ Chunk \o pipe' = pipe
      /\ Len(Chunk) \in 0 .. BufSize
      /\ Len(Chunk) # BufSize => Chunk = pipe /\ pipe' = <<>>
      /\ tdata \in Text /\ pipe \in Text
  BY ChunkTaken DEF TypeOK
<1>2. Chunk # <<>> /\ Chunk[Len(Chunk)] = "lead" /\ Len(Chunk) \in Nat \ {0}
  BY <1>1, EmptySeq DEF Cut, Text
<1>3. PICK n \in Nat : Len(tdata) = n * BufSize
  BY DEF InFlight
<1>4. Len(tdata) \in Nat /\ Len(pipe') \in Nat
  BY <1>1, LenProperties DEF Text
<1>5. Written(1) = (tdata \o Chunk) \o pipe'
  <2>1. tdata \o (Chunk \o pipe') = Written(1)
    BY <1>1 DEF InFlight
  <2>2. (tdata \o Chunk) \o pipe' = tdata \o (Chunk \o pipe')
    <3>1. tdata \in Text /\ Chunk \in Text /\ pipe' \in Text
      BY <1>1
    <3> QED BY <3>1, TextConcat
  <2> QED BY <2>1, <2>2
<1>6. /\ Len(Written(1)) = Len(tdata) + Len(Chunk) + Len(pipe')
      /\ Written(1)[Len(tdata) + Len(Chunk)] = "lead"
  <2>1. /\ Len(Written(1)) = Len(tdata) + Len(Chunk) + Len(pipe')
        /\ \A i \in 1 .. Len(Chunk) : Written(1)[Len(tdata) + i] = Chunk[i]
    <3>1. tdata \in Text /\ Chunk \in Text /\ pipe' \in Text
      BY <1>1
    <3>2. LET whole == (tdata \o Chunk) \o pipe'
          IN /\ Len(whole) = Len(tdata) + Len(Chunk) + Len(pipe')
             /\ \A i \in 1 .. Len(Chunk) : whole[Len(tdata) + i] = Chunk[i]
      BY <3>1, MiddleOf
    <3> QED BY <1>5, <3>2
  <2> QED BY <1>2, <2>1
<1>7. CASE Len(Chunk) = BufSize
  <2> DEFINE k == n + 1
  <2>1. k * BufSize = Len(tdata) + Len(Chunk)
    BY <1>3, <1>7, SizesAssumption
  <2>2. k \in Nat /\ 1 <= k /\ k <= k * BufSize
    BY SizesAssumption
  <2> HIDE DEF k
  <2>3. Len(Written(1)) \in Nat
    BY <1>2, <1>4, <1>6
  <2>4. k * BufSize <= Len(Written(1)) /\ k \in 1 .. Len(Written(1))
    BY <1>2, <1>4, <1>6, <2>1, <2>2, <2>3
  <2>5. Written(1)[k * BufSize] = "lead"
    BY <1>6, <2>1
  <2> QED BY <2>4, <2>5 DEF CutSomewhere
<1>8. CASE Len(Chunk) # BufSize
  <2>1. Len(pipe') = 0
    BY <1>1, <1>8
  <2>2. Len(tdata) + Len(Chunk) = Len(Written(1))
    BY <1>2, <1>4, <1>6, <2>1
  <2>3. Len(script.messages) = 1
    BY ScriptsAssumption DEF TypeOK
  <2>4. Written(1)[Len(Written(1))] # "lead"
    BY <2>3, WrittenTyped DEF TypeOK
  <2> QED BY <1>6, <2>2, <2>4
<1> QED BY <1>7, <1>8

LEMMA DeliveryNext ==
    TypeOK /\ Framing /\ Delivery /\ [Next]_vars => Delivery'
<1> SUFFICES ASSUME TypeOK, Framing, Delivery, [Next]_vars,
                    Whole', (script.kind # "watch")'
             PROVE  /\ reader' = "reading" => lines' = <<>> /\ (Untouched' \/ InFlight')
                    /\ reader' = "finished" => lines' = <<Written(1)>>
                    /\ reader' = "failed" => FailureExcused'
  BY ScriptStays DEF Delivery
<1>1. /\ script' = script /\ Whole /\ script.kind # "watch"
      /\ \A i : Written(i)' = Written(i)
  BY ScriptStays
<1>2. /\ reader = "reading" => lines = <<>> /\ (Untouched \/ InFlight)
      /\ reader = "finished" => lines = <<Written(1)>>
      /\ reader = "failed" => FailureExcused
  BY <1>1 DEF Delivery
<1>3. Len(script.messages) = 1 /\ sent \in {0, 1}
  <2>1. Len(script.messages) = 1
    BY <1>1, ScriptsAssumption DEF TypeOK
  <2> QED BY <2>1 DEF TypeOK
<1>4. /\ Written(1) \in Text /\ Written(1) # <<>>
      /\ ParseTransmission(Written(1)) = {script.messages[1].tr}
  BY <1>3, WrittenTyped DEF TypeOK
<1>5. CASE Write
  <2>1. /\ sent = 0 /\ wopen /\ sent' = 1 /\ buf' = Written(1)
        /\ UNCHANGED <<wopen, pipe, reader, tdata, lines>>
    BY <1>3, <1>5 DEF Write, rvars
  <2>2. CutSomewhere(Written(1))' <=> CutSomewhere(Written(1))
    BY <1>1 DEF CutSomewhere, Written
  <2> QED BY <1>1, <1>2, <2>1, <2>2 DEF Untouched, InFlight, FailureExcused, Written
<1>6. CASE TryWrite
  <2>1. /\ buf # <<>> /\ sent # 0 /\ wopen
        /\ UNCHANGED <<sent, wopen, reader, tdata, lines>>
    BY <1>6 DEF TryWrite, rvars, Framing
  <2>2. buf = Written(1) /\ sent = 1
    BY <1>1, <1>3, <2>1 DEF Framing
  <2>3. Len(buf) <= PieceSize
    BY <1>1, <1>3, <2>2, ScriptsAssumption, LenProperties DEF Whole, TypeOK
  <2>4. pipe' = pipe \o buf /\ buf' = <<>>
    BY <1>6, <2>3, PiecePassed DEF TryWrite, TypeOK
  <2>5. ASSUME reader = "reading" PROVE InFlight'
    <3>1. pipe = <<>> /\ tdata = <<>>
      BY <1>2, <2>1, <2>5 DEF Untouched, InFlight
    <3>2. pipe' = Written(1) /\ <<>> \o pipe' = Written(1)
      BY <1>4, <2>2, <2>4, <3>1, ConcatEmptySeq DEF Text
    <3>3. Len(tdata) = 0 * BufSize
      BY <3>1, SizesAssumption
    <3> QED BY <1>1, <2>1, <2>2, <2>4, <3>1, <3>2, <3>3 DEF InFlight
  <2>6. CutSomewhere(Written(1))' <=> CutSomewhere(Written(1))
    BY <1>1 DEF CutSomewhere, Written
  <2> QED BY <1>1, <1>2, <2>1, <2>5, <2>6 DEF FailureExcused, Written
<1>7. CASE EndWrite \/ WriteFails \/ CloseWriter \/ WriterDies \/ CloseReader \/ UNCHANGED vars
  <2>1. UNCHANGED <<sent, buf, pipe, reader, tdata, lines>> /\ (~wopen => ~wopen')
    BY <1>7 DEF EndWrite, WriteFails, CloseWriter, WriterDies, CloseReader, vars, wvars, rvars
  <2>2. CutSomewhere(Written(1))' <=> CutSomewhere(Written(1))
    BY <1>1 DEF CutSomewhere, Written
  <2> QED BY <1>1, <1>2, <2>1, <2>2 DEF Untouched, InFlight, FailureExcused, Written
<1>8. CASE ReaderDies
  BY <1>8 DEF ReaderDies
<1>9. ASSUME Readable, Untouched, ParseTransmission(Gathered) # {} \/ Chunk # <<>>
      PROVE  FALSE
  <2>1. Chunk = <<>>
    BY <1>9, ChunkOfNothing DEF Untouched
  <2>2. Gathered = <<>>
    BY <1>9, <2>1 DEF Gathered, Untouched
  <2> QED BY <1>9, <2>1, <2>2, NothingParsed
<1>10. CASE TryReadCut
  <2>1. Readable /\ Chunk # <<>> /\ Cut(Chunk) /\ Take /\ reader' = "failed"
    BY <1>10 DEF TryReadCut, Cut
  <2>2. InFlight
    BY <1>2, <1>9, <2>1 DEF Readable
  <2>3. CutSomewhere(Written(1))
    BY <1>1, <2>1, <2>2, CutAtBuffer
  <2>4. CutSomewhere(Written(1))'
    BY <1>1, <2>3 DEF CutSomewhere, Written
  <2> QED BY <2>1, <2>4 DEF FailureExcused
<1>11. CASE TryReadMore
  <2>1. /\ Readable /\ Take /\ Len(Chunk) = BufSize /\ tdata' = Gathered
        /\ UNCHANGED <<sent, buf, reader, lines>>
    BY <1>11 DEF TryReadMore, More, wvars
  <2>2. Chunk # <<>>
    BY <2>1, SizesAssumption
  <2>3. InFlight
    BY <1>2, <1>9, <2>1, <2>2 DEF Readable
  <2>4. /\ Chunk \in Text /\ pipe' \in Text /\ Chunk \o pipe' = pipe
        /\ tdata \in Text
    BY <2>1, ChunkTaken DEF TypeOK
  <2>5. tdata' \o pipe' = Written(1)
    BY <2>1, <2>3, <2>4, TextConcat DEF InFlight, Gathered
  <2>6. Len(tdata') = Len(tdata) + BufSize
    BY <2>1, <2>4, ConcatProperties DEF Gathered, Text
  <2>7. PICK n \in Nat : Len(tdata) = n * BufSize
    BY <2>3 DEF InFlight
  <2>8. Len(tdata') = (n + 1) * BufSize /\ n + 1 \in Nat
    BY <2>6, <2>7, SizesAssumption
  <2> QED BY <1>1, <1>2, <2>1, <2>3, <2>5, <2>8 DEF InFlight, Readable
<1>12. CASE TryReadLast
  <2>1. /\ Readable /\ Take /\ Len(Chunk) # BufSize /\ tdata' = <<>>
        /\ UNCHANGED <<sent, buf, wopen>>
    BY <1>12 DEF TryReadLast, More, wvars
  <2>2. Chunk = pipe
    BY <2>1, ChunkTaken DEF TypeOK
  <2>3. CASE InFlight
    <3>1. Gathered = Written(1)
      BY <2>2, <2>3 DEF Gathered, InFlight
    <3>2. reader' = "finished" /\ lines' = Append(lines, Written(1))
      BY <1>1, <1>4, <1>12, <3>1 DEF TryReadLast
    <3>3. lines = <<>>
      BY <1>2, <2>1 DEF Readable
    <3> QED BY <3>2, <3>3
  <2>4. CASE Untouched
    <3>1. ParseTransmission(Gathered) = {} /\ Chunk = <<>>
      BY <1>9, <2>1, <2>4
    <3>2. reader' = "failed" /\ ~wopen
      BY <1>12, <2>1, <2>2, <3>1 DEF TryReadLast, Readable
    <3> QED BY <1>1, <2>1, <2>4, <3>2 DEF FailureExcused, Untouched, Written
  <2> QED BY <1>2, <2>1, <2>3, <2>4 DEF Readable
<1> QED
  BY <1>5, <1>6, <1>7, <1>8, <1>10, <1>11, <1>12 DEF Next, Writing, Reading

(* A request, a signal or an answer arrives as it was said, and is lost only *)
(* with its writer or to a character across the end of a chunk, for every   *)
(* text a user may give (transmission.rs:66-79, listener.rs:28-84).         *)
THEOREM Faithful == Spec => []HeardAsSaid
<1>1. Init => Delivery
  BY DEF Init, Delivery, Untouched
<1>2. TypeOK /\ Delivery => HeardAsSaid
  <2> SUFFICES ASSUME TypeOK, Delivery, Whole, script.kind # "watch"
               PROVE  /\ reader = "finished" =>
                           \E tr \in ParseTransmission(lines[1]) :
                               tr = script.messages[1].tr /\ Heard(tr) = {script.messages[1].says}
                      /\ reader = "failed" => FailureExcused
    BY DEF HeardAsSaid, FailureExcused
  <2>1. /\ ParseTransmission(Written(1)) = {script.messages[1].tr}
        /\ Heard(script.messages[1].tr) = {script.messages[1].says}
    <3>1. script \in Scripts /\ Len(script.messages) = 1
      BY ScriptsAssumption DEF TypeOK
    <3> QED BY <3>1, WrittenTyped
  <2>2. reader = "finished" => lines[1] = Written(1)
    BY DEF Delivery
  <2> QED BY <2>1, <2>2 DEF Delivery
<1> QED BY <1>1, <1>2, FramingInvariant, DeliveryNext, PTL DEF Spec
=============================================================================
