-------------------------- MODULE LogBufferProofs --------------------------
(***************************************************************************)
(* What the operators on the log preserve: its type and its length.        *)
(***************************************************************************)
EXTENDS LogBuffer, WellFoundedInduction, TLAPS

\* `position` finds an entry of the log exactly when one carries the id, and
\* it is the one nearest the front (manager.rs:188, close.rs:54).
LEMMA PositionFinds ==
    ASSUME NEW buf \in Seq(Notification), NEW nid, nid \in Ids(buf)
    PROVE  /\ Position(buf, nid) \in DOMAIN buf
           /\ buf[Position(buf, nid)].id = nid
           /\ \A j \in DOMAIN buf : buf[j].id = nid => Position(buf, nid) <= j
<1> DEFINE Carriers == {i \in DOMAIN buf : buf[i].id = nid}
           First(i) == buf[i].id = nid /\ \A j \in DOMAIN buf : buf[j].id = nid => i <= j
<1>1. DOMAIN buf = 1 .. Len(buf) /\ Len(buf) \in Nat
  OBVIOUS
<1>2. Carriers # {} /\ Carriers \subseteq Nat
  BY <1>1 DEF Ids
<1>3. PICK i \in Carriers : \A j \in Carriers : ~ (<<j, i>> \in OpToRel(<, Nat))
  <2> HIDE DEF Carriers
  <2> QED  BY <1>2, NatLessThanWellFounded, WFMin
<1>4. \A j \in Carriers : i <= j
  <2> SUFFICES ASSUME NEW j \in Carriers PROVE i <= j
    OBVIOUS
  <2>1. i \in Nat /\ j \in Nat
    BY <1>2
  <2>2. ~ (j < i)
    BY <1>3, <2>1 DEF OpToRel
  <2> QED  BY <2>1, <2>2
<1>5. i \in DOMAIN buf /\ First(i)
  BY <1>4
<1>6. Position(buf, nid) = CHOOSE k \in DOMAIN buf : First(k)
  BY DEF Position
<1> HIDE DEF First
<1>7. Position(buf, nid) \in DOMAIN buf /\ First(Position(buf, nid))
  BY <1>5, <1>6
<1> QED  BY <1>7 DEF First

LEMMA PositionType ==
    ASSUME NEW buf \in Seq(Notification), NEW nid
    PROVE  /\ Position(buf, nid) \in 0 .. Len(buf)
           /\ Position(buf, nid) # 0 => buf[Position(buf, nid)] \in Notification
<1>1. CASE nid \in Ids(buf)
  BY <1>1, PositionFinds
<1>2. CASE nid \notin Ids(buf)
  BY <1>2 DEF Position
<1> QED  BY <1>1, <1>2

\* Removing keeps the type, and shortens the log only if the id was there
\* (manager.rs:214-221).
LEMMA RemoveType ==
    ASSUME NEW buf \in Seq(Notification), NEW nid
    PROVE  /\ RemoveNotification(buf, nid) \in Seq(Notification)
           /\ Len(RemoveNotification(buf, nid)) <= Len(buf)
<1> DEFINE pos == Position(buf, nid)
<1>1. CASE pos = 0
  BY <1>1 DEF RemoveNotification
<1>2. CASE pos # 0
  <2>1. pos \in 1 .. Len(buf) /\ Len(buf) \in Nat \ {0}
    BY <1>2, PositionType
  <2>2. SwapRemoveBack(buf, pos) \in [1 .. Len(buf) - 1 -> Notification]
    BY <2>1 DEF SwapRemoveBack
  <2>3. SwapRemoveBack(buf, pos) \in Seq(Notification)
        /\ Len(SwapRemoveBack(buf, pos)) = Len(buf) - 1
    BY <2>1, <2>2
  <2> QED  BY <1>2, <2>1, <2>3 DEF RemoveNotification
<1> QED  BY <1>1, <1>2

\* Appending keeps a log within --max, if --max allows any (manager.rs:223-229).
LEMMA AppendType ==
    ASSUME NEW buf \in Seq(Notification), NEW n \in Notification
    PROVE  /\ AppendNotification(buf, n) \in Seq(Notification)
           /\ MaxLogs \in Nat \ {0} /\ Len(buf) <= MaxLogs =>
                Len(AppendNotification(buf, n)) <= MaxLogs
<1>1. CASE Len(buf) = MaxLogs /\ Len(buf) # 0
  <2>1. PopBack(buf) \in Seq(Notification) /\ Len(PopBack(buf)) = Len(buf) - 1
    BY <1>1 DEF PopBack
  <2>2. AppendNotification(buf, n) = <<n>> \o PopBack(buf)
    BY <1>1 DEF AppendNotification
  <2> QED  BY <1>1, <2>1, <2>2
<1>2. CASE Len(buf) = MaxLogs /\ Len(buf) = 0
  <2>1. PopBack(buf) \in Seq(Notification)
    BY <1>2 DEF PopBack
  <2> QED  BY <1>2, <2>1 DEF AppendNotification
<1>3. CASE Len(buf) # MaxLogs
  <2>1. AppendNotification(buf, n) = <<n>> \o buf
    BY <1>3 DEF AppendNotification
  <2> QED  BY <1>3, <2>1
<1> QED  BY <1>1, <1>2, <1>3

\* What executing Broadcast leaves in the log (broadcast.rs:20-72).
LEMMA AdmitType ==
    ASSUME NEW buf \in Seq(Notification), NEW n \in Notification
    PROVE  /\ Admit(buf, n) \in Seq(Notification)
           /\ MaxLogs \in Nat \ {0} /\ Len(buf) <= MaxLogs => Len(Admit(buf, n)) <= MaxLogs
<1> DEFINE kept == IF n.replaces # 0 THEN RemoveNotification(buf, n.replaces) ELSE buf
<1>1. kept \in Seq(Notification) /\ Len(kept) <= Len(buf)
  BY RemoveType
<1>2. Admit(buf, n) = AppendNotification(kept, n)
  BY DEF Admit
<1> HIDE DEF kept
<1>3. Len(kept) \in Nat /\ Len(buf) \in Nat
  BY <1>1
<1> QED  BY <1>1, <1>2, <1>3, AppendType

\* Marking changes neither the type nor the length (manager.rs:231-269,
\* close.rs:95-98).
LEMMA MarkClosedType ==
    ASSUME NEW buf \in Seq(Notification), NEW pos \in DOMAIN buf
    PROVE  /\ MarkClosed(buf, pos) \in Seq(Notification)
           /\ Len(MarkClosed(buf, pos)) = Len(buf)
<1>1. [buf[pos] EXCEPT !.closed = TRUE] \in Notification
  <2>1. buf[pos] \in Notification
    OBVIOUS
  <2> QED  BY <2>1 DEF Notification
<1> QED  BY <1>1 DEF MarkClosed

LEMMA MarkReadType ==
    ASSUME NEW buf \in Seq(Notification), NEW S
    PROVE  LET marked == [i \in DOMAIN buf |->
                            IF i \in S THEN [buf[i] EXCEPT !.read = TRUE] ELSE buf[i]]
           IN marked \in Seq(Notification) /\ Len(marked) = Len(buf)
<1>1. \A i \in DOMAIN buf : [buf[i] EXCEPT !.read = TRUE] \in Notification
  <2>1. \A n \in Notification : [n EXCEPT !.read = TRUE] \in Notification
    BY DEF Notification
  <2> QED  BY <2>1
<1>2. DOMAIN buf = 1 .. Len(buf) /\ Len(buf) \in Nat
  OBVIOUS
<1> QED  BY <1>1, <1>2

LEMMA ReadNotificationType ==
    ASSUME NEW buf \in Seq(Notification), NEW nid
    PROVE  /\ ReadNotification(buf, nid) \in Seq(Notification)
           /\ Len(ReadNotification(buf, nid)) = Len(buf)
<1>1. ReadNotification(buf, nid) =
        [i \in DOMAIN buf |->
            IF i \in {Position(buf, nid)} THEN [buf[i] EXCEPT !.read = TRUE] ELSE buf[i]]
  BY DEF ReadNotification
<1> QED  BY <1>1, MarkReadType

LEMMA MarkWindowReadType ==
    ASSUME NEW buf \in Seq(Notification), NEW start, NEW end
    PROVE  /\ MarkWindowRead(buf, start, end) \in Seq(Notification)
           /\ Len(MarkWindowRead(buf, start, end)) = Len(buf)
BY MarkReadType DEF MarkWindowRead

\* A read that does not panic returns a part of the log (manager.rs:253-254).
LEMMA ReadLogsType ==
    ASSUME NEW buf \in Seq(Notification), NEW start \in Nat, NEW end \in Nat
    PROVE  ReadLogs(buf, start, end) \in Seq(Notification)
<1> DEFINE m == Smaller(Len(buf), start) + 1
           n == Smaller(Len(buf), end)
<1>1. m \in 1 .. Len(buf) + 1 /\ n \in 0 .. Len(buf)
  BY DEF Smaller
<1>2. \A i \in m .. n : buf[i] \in Notification
  BY <1>1
<1> QED  BY <1>1, <1>2 DEF ReadLogs

-----------------------------------------------------------------------------
(* Where the entries of a log come from.                                    *)

\* The position an entry had before Admit moved it to k, unless k is 1.
Came(buf, n, k) ==
    IF n.replaces # 0 /\ k - 1 = Position(buf, n.replaces) THEN Len(buf) ELSE k - 1

LEMMA RemoveFrom ==
    ASSUME NEW buf \in Seq(Notification), NEW nid
    PROVE  LET pos == Position(buf, nid)
               kept == RemoveNotification(buf, nid)
           IN /\ pos \in 0 .. Len(buf)
              /\ pos = 0 => Len(kept) = Len(buf)
              /\ pos # 0 => Len(kept) = Len(buf) - 1
              /\ \A k \in DOMAIN kept : kept[k] = buf[IF k = pos THEN Len(buf) ELSE k]
<1> DEFINE pos == Position(buf, nid)
           kept == RemoveNotification(buf, nid)
<1>1. pos \in 0 .. Len(buf) /\ Len(buf) \in Nat /\ DOMAIN buf = 1 .. Len(buf)
  BY PositionType
<1>2. CASE pos = 0
  <2>1. kept = buf
    BY <1>2 DEF RemoveNotification
  <2> QED  BY <1>1, <1>2, <2>1
<1>3. CASE pos # 0
  <2>1. kept = [j \in 1 .. Len(buf) - 1 |-> IF j = pos THEN buf[Len(buf)] ELSE buf[j]]
    BY <1>3 DEF RemoveNotification, SwapRemoveBack
  <2>2. kept \in Seq(Notification)
    BY RemoveType
  <2>3. Len(kept) = Len(buf) - 1 /\ DOMAIN kept = 1 .. Len(buf) - 1
    BY <1>1, <1>3, <2>1, <2>2
  <2> HIDE DEF pos, kept
  <2>4. \A k \in DOMAIN kept : kept[k] = buf[IF k = pos THEN Len(buf) ELSE k]
    BY <2>1, <2>3
  <2> QED  BY <1>1, <1>3, <2>3, <2>4 DEF pos, kept
<1> QED  BY <1>2, <1>3

LEMMA AppendLength ==
    ASSUME NEW buf \in Seq(Notification), NEW n \in Notification
    PROVE  Len(AppendNotification(buf, n)) >= 1
<1> DEFINE rest == IF Len(buf) = MaxLogs THEN PopBack(buf) ELSE buf
<1>1. rest \in Seq(Notification)
  <2>1. PopBack(buf) \in Seq(Notification)
    BY DEF PopBack
  <2> QED  BY <2>1
<1>2. AppendNotification(buf, n) = <<n>> \o rest
  BY DEF AppendNotification
<1> HIDE DEF rest
<1> QED  BY <1>1, <1>2

LEMMA AppendFrom ==
    ASSUME NEW buf \in Seq(Notification), NEW n \in Notification
    PROVE  LET new == AppendNotification(buf, n)
           IN /\ new[1] = n
              /\ \A k \in DOMAIN new : k # 1 => k - 1 \in DOMAIN buf /\ new[k] = buf[k - 1]
              /\ \A k \in DOMAIN buf :
                    k # Len(buf) \/ Len(buf) # MaxLogs =>
                        k + 1 \in DOMAIN new /\ new[k + 1] = buf[k]
<1> DEFINE rest == IF Len(buf) = MaxLogs THEN PopBack(buf) ELSE buf
           new == AppendNotification(buf, n)
<1>1. Len(buf) \in Nat /\ DOMAIN buf = 1 .. Len(buf)
  OBVIOUS
<1>2. /\ rest \in Seq(Notification)
      /\ \A k \in DOMAIN rest : k \in DOMAIN buf /\ rest[k] = buf[k]
      /\ \A k \in DOMAIN buf : k # Len(buf) \/ Len(buf) # MaxLogs => k \in DOMAIN rest
  <2>1. CASE Len(buf) = MaxLogs /\ Len(buf) # 0
    <3>1. PopBack(buf) \in Seq(Notification) /\ Len(PopBack(buf)) = Len(buf) - 1
      BY <1>1, <2>1 DEF PopBack
    <3>2. \A k \in 1 .. Len(buf) - 1 : PopBack(buf)[k] = buf[k]
      BY <1>1, <2>1 DEF PopBack
    <3>3. DOMAIN PopBack(buf) = 1 .. Len(buf) - 1
      BY <3>1
    <3>4. rest = PopBack(buf)
      BY <2>1
    <3> HIDE DEF rest
    <3> QED  BY <1>1, <2>1, <3>1, <3>2, <3>3, <3>4
  <2>2. CASE Len(buf) = MaxLogs /\ Len(buf) = 0
    <3>1. PopBack(buf) \in Seq(Notification) /\ Len(PopBack(buf)) = 0
      BY <1>1, <2>2 DEF PopBack
    <3>2. DOMAIN PopBack(buf) = {} /\ DOMAIN buf = {}
      BY <1>1, <2>2, <3>1
    <3>3. rest = PopBack(buf)
      BY <2>2
    <3> HIDE DEF rest
    <3> QED  BY <3>1, <3>2, <3>3
  <2>3. CASE Len(buf) # MaxLogs
    BY <2>3
  <2> QED  BY <2>1, <2>2, <2>3
<1>3. new = <<n>> \o rest
  BY DEF AppendNotification
<1> HIDE DEF rest, new
<1>4. Len(rest) \in Nat /\ DOMAIN rest = 1 .. Len(rest)
  BY <1>2
<1>5. DOMAIN new = 1 .. Len(rest) + 1 /\ new[1] = n
  BY <1>2, <1>3
<1>6. \A k \in 1 .. Len(rest) + 1 : k # 1 => new[k] = rest[k - 1]
  BY <1>2, <1>3
<1>7. ASSUME NEW k \in DOMAIN new, k # 1
      PROVE  k - 1 \in DOMAIN buf /\ new[k] = buf[k - 1]
  <2>1. k - 1 \in DOMAIN rest /\ new[k] = rest[k - 1]
    BY <1>4, <1>5, <1>6, <1>7
  <2> QED  BY <1>2, <2>1
<1>8. ASSUME NEW k \in DOMAIN buf, k # Len(buf) \/ Len(buf) # MaxLogs
      PROVE  k + 1 \in DOMAIN new /\ new[k + 1] = buf[k]
  <2>1. k \in DOMAIN rest /\ rest[k] = buf[k]
    BY <1>2, <1>8
  <2>2. k \in 1 .. Len(rest)
    BY <1>4, <2>1
  <2>3. k + 1 \in 1 .. Len(rest) + 1 /\ k + 1 # 1 /\ k + 1 - 1 = k
    BY <1>4, <2>2
  <2>4. new[k + 1] = rest[k]
    BY <1>6, <2>3
  <2> QED  BY <1>5, <2>1, <2>3, <2>4
<1> QED  BY <1>5, <1>7, <1>8 DEF new

\* Admit puts the notification in front, keeps the others but for what it
\* replaces or evicts, and copies nothing (broadcast.rs:24-26).
LEMMA AdmitFrom ==
    ASSUME NEW buf \in Seq(Notification), NEW n \in Notification
    PROVE  LET new == Admit(buf, n)
           IN /\ 1 \in DOMAIN new /\ new[1] = n
              /\ \A k \in DOMAIN new : k # 1 =>
                    /\ Came(buf, n, k) \in DOMAIN buf
                    /\ new[k] = buf[Came(buf, n, k)]
                    /\ n.replaces # 0 => Came(buf, n, k) # Position(buf, n.replaces)
              /\ \A k, l \in DOMAIN new :
                    k # 1 /\ l # 1 /\ Came(buf, n, k) = Came(buf, n, l) => k = l
<1> DEFINE new == Admit(buf, n)
<1>1. Len(buf) \in Nat /\ DOMAIN buf = 1 .. Len(buf) /\ new \in Seq(Notification)
  BY AdmitType
<1>2. DOMAIN new = 1 .. Len(new) /\ Len(new) \in Nat
  BY <1>1
<1>3. CASE n.replaces = 0
  <2>1. new = AppendNotification(buf, n)
    BY <1>3 DEF Admit
  <2>2. \A k : Came(buf, n, k) = k - 1
    BY <1>3 DEF Came
  <2> HIDE DEF new
  <2>3. /\ new[1] = n
        /\ \A k \in DOMAIN new : k # 1 => k - 1 \in DOMAIN buf /\ new[k] = buf[k - 1]
    BY <2>1, AppendFrom
  <2>4. 1 \in DOMAIN new
    BY <1>2, <2>1, AppendLength
  <2>5. \A k, l \in DOMAIN new : k - 1 = l - 1 => k = l
    BY <1>2
  <2> QED  BY <1>3, <2>2, <2>3, <2>4, <2>5 DEF new
<1>4. CASE n.replaces # 0
  <2> DEFINE pos == Position(buf, n.replaces)
             kept == RemoveNotification(buf, n.replaces)
             from(k) == IF k = pos THEN Len(buf) ELSE k
  <2>1. new = AppendNotification(kept, n)
    BY <1>4 DEF Admit
  <2>2. \A k : Came(buf, n, k) = from(k - 1)
    BY <1>4 DEF Came
  <2>3. kept \in Seq(Notification) /\ pos \in 0 .. Len(buf)
    BY RemoveFrom, RemoveType
  <2>4. (pos = 0 => Len(kept) = Len(buf)) /\ (pos # 0 => Len(kept) = Len(buf) - 1)
    BY RemoveFrom
  <2>5. \A k \in DOMAIN kept : kept[k] = buf[from(k)]
    BY RemoveFrom
  <2> HIDE DEF new, pos, kept
  <2>6. /\ new[1] = n
        /\ \A k \in DOMAIN new : k # 1 => k - 1 \in DOMAIN kept /\ new[k] = kept[k - 1]
    BY <2>1, <2>3, AppendFrom
  <2>7. 1 \in DOMAIN new
    BY <1>2, <2>1, <2>3, AppendLength
  <2>8. Len(kept) \in Nat /\ DOMAIN kept = 1 .. Len(kept)
    BY <2>3
  <2>9. Len(kept) \in Nat /\ Len(buf) \in Nat /\ pos \in 0 .. Len(buf)
    BY <1>1, <2>3, <2>8
  <2>10. ASSUME NEW k \in DOMAIN kept
        PROVE  from(k) \in DOMAIN buf /\ (pos # 0 => from(k) # pos) /\ k \in Nat
    <3>1. k \in 1 .. Len(kept)
      BY <2>8
    <3>2. from(k) \in 1 .. Len(buf) /\ (pos # 0 => from(k) # pos)
      BY <2>4, <2>9, <3>1
    <3> QED  BY <1>1, <3>1, <3>2
  <2>11. ASSUME NEW k \in DOMAIN kept, NEW l \in DOMAIN kept, from(k) = from(l)
         PROVE  k = l
    <3>1. k \in 1 .. Len(kept) /\ l \in 1 .. Len(kept)
      BY <2>8
    <3> QED  BY <2>4, <2>11, <2>9, <3>1
  <2> HIDE DEF from
  <2>12. ASSUME NEW k \in DOMAIN new, k # 1
         PROVE  /\ Came(buf, n, k) \in DOMAIN buf
                /\ new[k] = buf[Came(buf, n, k)]
                /\ Came(buf, n, k) # pos
    <3>1. k - 1 \in DOMAIN kept /\ new[k] = kept[k - 1] /\ Came(buf, n, k) = from(k - 1)
      BY <2>2, <2>6, <2>12
    <3>2. from(k - 1) \in DOMAIN buf /\ (pos # 0 => from(k - 1) # pos)
      BY <2>10, <3>1
    <3>3. from(k - 1) # pos
      BY <1>1, <3>2
    <3> QED  BY <2>5, <3>1, <3>2, <3>3
  <2>13. ASSUME NEW k \in DOMAIN new, NEW l \in DOMAIN new, k # 1, l # 1,
                Came(buf, n, k) = Came(buf, n, l)
         PROVE  k = l
    <3>1. k - 1 \in DOMAIN kept /\ l - 1 \in DOMAIN kept
      BY <2>6, <2>13
    <3>2. from(k - 1) = from(l - 1)
      BY <2>2, <2>13
    <3>3. k - 1 = l - 1
      BY <2>11, <3>1, <3>2
    <3> QED  BY <1>2, <3>3
  <2> QED  BY <2>6, <2>7, <2>12, <2>13 DEF new, pos
<1> QED  BY <1>3, <1>4

\* The one entry that Admit gives up: what n replaces, or else the last one of
\* a full log.
Lost(buf, n, i) ==
    IF n.replaces # 0 /\ Position(buf, n.replaces) # 0 THEN i = Position(buf, n.replaces)
    ELSE i = Len(buf) /\ Len(buf) = MaxLogs

\* It keeps every other one, though a replacement moves the last entry and an
\* eviction drops it (manager.rs:212-229).
LEMMA AdmitKeeps ==
    ASSUME NEW buf \in Seq(Notification), NEW n \in Notification,
           MaxLogs \in Nat \ {0}, Len(buf) <= MaxLogs
    PROVE  \A i \in DOMAIN buf :
              ~Lost(buf, n, i) =>
                 \E k \in DOMAIN Admit(buf, n) : k # 1 /\ Admit(buf, n)[k] = buf[i]
<1> DEFINE new == Admit(buf, n)
           kept == RemoveNotification(buf, n.replaces)
           pos == Position(buf, n.replaces)
<1>1. Len(buf) \in Nat /\ DOMAIN buf = 1 .. Len(buf)
  OBVIOUS
<1>2. CASE n.replaces = 0 \/ pos = 0
  <2>1. new = AppendNotification(buf, n)
    BY <1>2 DEF Admit, RemoveNotification
  <2>2. \A k \in DOMAIN buf :
           ~Lost(buf, n, k) => k + 1 \in DOMAIN new /\ new[k + 1] = buf[k]
    BY <1>2, <2>1, AppendFrom DEF Lost
  <2>3. \A k \in DOMAIN buf : k + 1 # 1
    BY <1>1
  <2> HIDE DEF new
  <2>4. \A i \in DOMAIN buf : ~Lost(buf, n, i) => \E k \in DOMAIN new : k # 1 /\ new[k] = buf[i]
    BY <2>2, <2>3
  <2> QED  BY <2>4 DEF new
<1>3. CASE n.replaces # 0 /\ pos # 0
  <2>1. new = AppendNotification(kept, n)
    BY <1>3 DEF Admit
  <2>2. kept \in Seq(Notification) /\ pos \in 0 .. Len(buf) /\ Len(kept) = Len(buf) - 1
    BY <1>3, RemoveFrom, RemoveType
  <2>3. \A k \in DOMAIN kept : kept[k] = buf[IF k = pos THEN Len(buf) ELSE k]
    BY RemoveFrom
  <2> HIDE DEF new, kept, pos
  <2>4. Len(kept) \in Nat /\ DOMAIN kept = 1 .. Len(kept)
    BY <2>2
  <2>5. Len(kept) # MaxLogs
    <3>1. Len(kept) = Len(buf) - 1 /\ Len(kept) \in Nat /\ Len(buf) \in Nat
      BY <1>1, <2>2, <2>4
    <3> QED  BY <3>1
  <2>6. \A k \in DOMAIN kept : k + 1 \in DOMAIN new /\ new[k + 1] = kept[k]
    BY <2>1, <2>2, <2>5, AppendFrom
  <2>7. ASSUME NEW i \in DOMAIN buf, i # pos
        PROVE  \E k \in DOMAIN new : k # 1 /\ new[k] = buf[i]
    <3>1. i \in 1 .. Len(buf)
      BY <1>1
    <3>2. CASE i = Len(buf)
      <4>1. pos \in 1 .. Len(kept)
        <5>1. pos \in 0 .. Len(buf) /\ pos # 0 /\ pos # Len(buf)
          BY <1>3, <2>2, <2>7, <3>2
        <5>2. Len(kept) = Len(buf) - 1 /\ Len(kept) \in Nat /\ Len(buf) \in Nat
          BY <1>1, <2>2, <2>4
        <5> QED  BY <5>1, <5>2
      <4>2. kept[pos] = buf[i]
        BY <2>3, <2>4, <3>2, <4>1
      <4>3. pos + 1 # 1
        BY <2>4, <4>1
      <4> QED  BY <2>4, <2>6, <4>1, <4>2, <4>3
    <3>3. CASE i # Len(buf)
      <4>1. i \in 1 .. Len(kept)
        BY <1>1, <2>2, <2>4, <3>1, <3>3
      <4>2. kept[i] = buf[i]
        BY <2>3, <2>4, <2>7, <4>1
      <4>3. i + 1 # 1
        BY <2>4, <4>1
      <4> QED  BY <2>4, <2>6, <4>1, <4>2, <4>3
    <3> QED  BY <3>2, <3>3
  <2>8. \A i \in DOMAIN buf : ~Lost(buf, n, i) => i # pos
    BY <1>3 DEF Lost, pos
  <2> QED  BY <2>7, <2>8 DEF new
<1> QED  BY <1>2, <1>3

\* Admitting one notification gives up at most one other.
LEMMA AdmitLoses ==
    ASSUME NEW buf \in Seq(Notification), NEW n \in Notification,
           MaxLogs \in Nat \ {0}, Len(buf) <= MaxLogs
    PROVE  \E x \in Nat : \A i \in DOMAIN buf :
              i # x => \E k \in DOMAIN Admit(buf, n) : k # 1 /\ Admit(buf, n)[k] = buf[i]
<1>1. \E x \in Nat : \A i \in DOMAIN buf : i # x => ~Lost(buf, n, i)
  BY PositionType DEF Lost
<1> QED  BY <1>1, AdmitKeeps
=============================================================================
