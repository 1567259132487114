---------------------------- MODULE Messages_proofs ----------------------------
(***************************************************************************)
(* Proofs about the two kinds of messages.  Collaboration messages: for    *)
(* every size of a pointer, every value of a byte that is filled in, and   *)
(* every payload whose fields hold its numbers, what is packed is what is  *)
(* read, as far as the reader has memory for it, and has the size that is  *)
(* reported.  Light-weight messages: for                                   *)
(* all keys, values and texts, a key has one entry.                        *)
(***************************************************************************)
EXTENDS Collaboration, LwMessage, SequenceTheorems, WellFoundedInduction, TLAPS

-----------------------------------------------------------------------------
(* The inductive invariant.                                                *)

Octet == 0 .. 255

AttrFields == [id : 0 .. 63, length : 0 .. 3, values : Seq(Octet)]

Fields == [kind : Kinds, dup : {0, 1}, code : 0 .. 63, fixed : Seq(Octet),
           head : Seq(Octet), object : 0 .. 63, count : 0 .. 3, attrs : Seq(AttrFields)]

\* The number of values that are sent with an attribute.
SentLength(attr, attributes) ==
    IF attributes = "values" THEN RealValueLength(attr.length) ELSE 0

\* A message whose counts say how much there is of everything, and that holds
\* nothing that is not sent.
WellFormed(m) ==
    /\ m \in Fields
    /\ m.kind.ack = 0 => m.code = 0
    /\ Len(m.fixed) = Len(m.kind.fixed)
    /\ Len(m.head) = m.kind.head
    /\ m.kind.attributes = "none" => m.object = 0 /\ m.count = 0 /\ m.attrs = <<>>
    /\ m.kind.attributes # "none" =>
          /\ Len(m.attrs) = RealAttrCount(m.count)
          /\ \A i \in 1 .. Len(m.attrs) :
                Len(m.attrs[i].values) = SentLength(m.attrs[i], m.kind.attributes)

\* The bytes under way are those of the message that was built; what was read
\* is that message, without what there was no memory for, and nothing is under
\* way any more.
CmInv ==
    /\ packet # <<>> => WellFormed(out) /\ packet = Packed(out) /\ size = Size(out)
    /\ in # None =>
          /\ packet = <<>> /\ WellFormed(out)
          /\ in = WithoutMemory(out, lack) /\ lack \in Lacks(out)
          /\ lack = Enough => used = size

-----------------------------------------------------------------------------
(* Induction, over a set of numbers.                                       *)

LEMMA Smallest ==
  ASSUME NEW S \in SUBSET Nat, S # {}
  PROVE  \E i \in S : \A j \in S : i <= j
<1> DEFINE R == OpToRel(<, Nat)
<1>1. IsWellFoundedOn(R, Nat)
  BY NatLessThanWellFounded
<1>2. \A i, j \in Nat : i < j => <<i, j>> \in R
  BY Zenon DEF OpToRel
<1> HIDE DEF R
<1>3. PICK i \in S : \A j \in S : ~(<<j, i>> \in R)
  BY <1>1, WFMin, Zenon
<1>4. \A j \in S : ~(j < i)
  BY <1>2, <1>3
<1> QED BY <1>4

LEMMA UpTo ==
  ASSUME NEW n \in Nat, NEW S, 0 \in S,
         \A i \in 1 .. n : i - 1 \in S => i \in S
  PROVE  \A i \in 0 .. n : i \in S
<1> DEFINE Bad == {i \in 0 .. n : i \notin S}
<1> SUFFICES ASSUME Bad # {} PROVE FALSE
  OBVIOUS
<1>0. Bad \in SUBSET Nat
  OBVIOUS
<1> HIDE DEF Bad
<1>1. PICK i \in Bad : \A j \in Bad : i <= j
  BY <1>0, Smallest, Zenon
<1> USE DEF Bad
<1>2. i \in 1 .. n /\ i \notin S
  BY <1>1
<1>3. i - 1 \in 0 .. n /\ ~(i <= i - 1)
  BY <1>2
<1>4. i - 1 \in S
  BY <1>1, <1>3
<1> QED BY <1>2, <1>4

-----------------------------------------------------------------------------
(* The fields of a byte.                                                   *)

LEMMA PowersOfTwo == 2 ^ 0 = 1 /\ 2 ^ 1 = 2 /\ 2 ^ 2 = 4 /\ 2 ^ 3 = 8 /\ 2 ^ 5 = 32 /\ 2 ^ 6 = 64
OBVIOUS

LEMMA TwoFields ==
  ASSUME NEW low \in 0 .. 63, NEW high \in 0 .. 3
  PROVE  /\ Byte(low, 6, high) \in Octet
         /\ Low(Byte(low, 6, high), 6) = low
         /\ High(Byte(low, 6, high), 6) = high
BY PowersOfTwo DEF Byte, Low, High, Octet

LEMMA CodeByte ==
  ASSUME NEW code \in 0 .. 63
  PROVE  Byte(0, 2, code) \in Octet /\ High(Byte(0, 2, code), 2) = code
BY PowersOfTwo DEF Byte, High, Octet

LEMMA HeaderFields ==
  ASSUME NEW kind, kind.ack \in {0, 1}, kind.id \in 0 .. 31, kind.qos \in {0, 1},
         NEW dup \in {0, 1}
  PROVE  /\ HeaderByte(kind, dup) \in Octet
         /\ Low(HeaderByte(kind, dup), 1) = kind.ack
         /\ Low(High(HeaderByte(kind, dup), 1), 5) = kind.id
         /\ Low(High(HeaderByte(kind, dup), 6), 1) = dup
<1> DEFINE ack == kind.ack
           id  == kind.id
           qos == kind.qos
<1> HIDE DEF ack, id, qos
<1>1. ack \in {0, 1} /\ id \in 0 .. 31 /\ qos \in {0, 1}
  BY DEF ack, id, qos
<1>2. HeaderByte(kind, dup) = ack + 2 * id + 64 * dup + 128 * qos
  BY DEF HeaderByte, ack, id, qos
<1>3. (ack + 2 * id + 64 * dup + 128 * qos) % 2 = ack
  BY <1>1
<1>4. (ack + 2 * id + 64 * dup + 128 * qos) \div 2 = id + 32 * dup + 64 * qos
  BY <1>1
<1>5. (id + 32 * dup + 64 * qos) % 32 = id
  BY <1>1
<1>6. (ack + 2 * id + 64 * dup + 128 * qos) \div 64 = dup + 2 * qos
  BY <1>1
<1>7. (dup + 2 * qos) % 2 = dup
  BY <1>1
<1>8. ack + 2 * id + 64 * dup + 128 * qos \in Octet
  BY <1>1 DEF Octet
<1>9. Low(HeaderByte(kind, dup), 1) = ack
  BY <1>2, <1>3, PowersOfTwo DEF Low
<1>10. High(HeaderByte(kind, dup), 1) = id + 32 * dup + 64 * qos
  BY <1>2, <1>4, PowersOfTwo DEF High
<1>11. Low(High(HeaderByte(kind, dup), 1), 5) = id
  BY <1>10, <1>5, PowersOfTwo DEF Low
<1>12. High(HeaderByte(kind, dup), 6) = dup + 2 * qos
  BY <1>2, <1>6, PowersOfTwo DEF High
<1>13. Low(High(HeaderByte(kind, dup), 6), 1) = dup
  BY <1>12, <1>7, PowersOfTwo DEF Low
<1> QED BY <1>2, <1>8, <1>9, <1>11, <1>13, Zenon DEF ack, id

LEMMA ValueLengths ==
  /\ RealValueLength(0) = 1 /\ RealValueLength(1) = 2
  /\ RealValueLength(2) = 4 /\ RealValueLength(3) = 8
BY PowersOfTwo DEF RealValueLength

LEMMA ValueLengthsPositive == \A packed \in 0 .. 3 : RealValueLength(packed) \in Nat \ {0}
BY ValueLengths

\* The lengths two bits can tell apart are packed without loss.
LEMMA PackedLengths ==
  ASSUME NEW length \in {1, 2, 4, 8}
  PROVE  PackedValueLength(length) \in 0 .. 3 /\ RealValueLength(PackedValueLength(length)) = length
BY ValueLengths DEF PackedValueLength

LEMMA PackedCounts ==
  ASSUME NEW count \in 1 .. 4
  PROVE  PackedAttrCount(count) \in 0 .. 3 /\ RealAttrCount(PackedAttrCount(count)) = count
BY DEF PackedAttrCount, RealAttrCount

-----------------------------------------------------------------------------
(* The kinds of messages.                                                  *)

KindFields == [ack : {0, 1}, id : 0 .. 31, qos : {0, 1}, fixed : Seq(Octet),
               head : {0, 1}, attributes : {"none", "names", "values"}]

\* What a kind of a file is: the request and the acknowledgement with its id.
KindWithId(kind, id) ==
    /\ kind \in KindFields
    /\ kind.attributes = "none" => kind.head = 0
    /\ kind.id = id

LEMMA FixedBytes ==
  /\ <<>> \in Seq(Octet) /\ <<0>> \in Seq(Octet) /\ <<0, 0, 0>> \in Seq(Octet)
  /\ <<Byte(0, 2, 1), 0>> \in Seq(Octet) /\ <<0>> \o Zeros(PointerSize) \in Seq(Octet)
<1>1. 0 \in Octet /\ Byte(0, 2, 1) \in Octet
  BY CodeByte DEF Octet
<1>2. Zeros(PointerSize) \in Seq(Octet)
  BY <1>1, PointerSizeAssumption, SeqDef DEF Zeros
<1>3. <<0>> \in Seq(Octet)
  BY <1>1
<1>4. <<0>> \o Zeros(PointerSize) \in Seq(Octet)
  BY <1>2, <1>3, ConcatProperties
<1> QED BY <1>1, <1>3, <1>4

LEMMA KindWithoutPayload ==
  ASSUME NEW ack \in {0, 1}, NEW id \in 0 .. 31, NEW qos \in {0, 1}, NEW fixed \in Seq(Octet)
  PROVE  /\ KindWithId(Kind(ack, id, qos, fixed, 0, "none"), id)
         /\ Kind(ack, id, qos, fixed, 0, "none").ack = ack
BY DEF Kind, KindFields, KindWithId

LEMMA KindWithPayload ==
  ASSUME NEW ack \in {0, 1}, NEW id \in 0 .. 31, NEW qos \in {0, 1}, NEW fixed \in Seq(Octet),
         NEW head \in {0, 1}, NEW attributes \in {"names", "values"}
  PROVE  /\ KindWithId(Kind(ack, id, qos, fixed, head, attributes), id)
         /\ Kind(ack, id, qos, fixed, head, attributes).ack = ack
BY DEF Kind, KindFields, KindWithId

\* The kinds of one file.
FileOf(kinds, id) ==
    \A kind \in kinds : KindWithId(kind, id) /\ \A other \in kinds : kind.ack = other.ack => kind = other

LEMMA RequestAndAck ==
  ASSUME NEW id, NEW request, NEW ack,
         KindWithId(request, id), request.ack = 0, KindWithId(ack, id), ack.ack = 1
  PROVE  FileOf({request, ack}, id)
BY DEF FileOf

LEMMA Files ==
  /\ FileOf(ServerAdvertise, 0) /\ FileOf(Connect, 2) /\ FileOf(MemberInfo, 3)
  /\ FileOf(SetDeviceMode, 4) /\ FileOf(CheckStatus, 5) /\ FileOf(TaskCreation, 16)
  /\ FileOf(TaskRunAll, 17) /\ FileOf(TaskStopAll, 18) /\ FileOf(TaskRun, 19)
  /\ FileOf(TaskStop, 20) /\ FileOf(AttributeWrite, 21) /\ FileOf(AttributeRead, 22)
  /\ FileOf(TaskInputData, 23) /\ FileOf(TaskOutputData, 24)
<1>1. \A id \in 0 .. 31, qos \in {0, 1}, fixed \in Seq(Octet) :
         KindWithId(Request(id, qos, fixed), id) /\ Request(id, qos, fixed).ack = 0
  BY KindWithoutPayload DEF Request
<1>2. \A id \in 0 .. 31, fixed \in Seq(Octet), attributes \in {"names", "values"} :
         KindWithId(RequestWith(id, fixed, attributes), id) /\ RequestWith(id, fixed, attributes).ack = 0
  BY KindWithPayload DEF RequestWith
<1>3. \A id \in 0 .. 31 : KindWithId(DefaultAck(id), id) /\ DefaultAck(id).ack = 1
  BY KindWithoutPayload, FixedBytes DEF DefaultAck
<1>4. \A id \in 0 .. 31, qos \in {0, 1}, fixed \in Seq(Octet) :
         FileOf({Request(id, qos, fixed), DefaultAck(id)}, id)
  BY <1>1, <1>3, RequestAndAck, Zenon
<1>5. \A id \in 0 .. 31, fixed \in Seq(Octet), attributes \in {"names", "values"} :
         FileOf({RequestWith(id, fixed, attributes), DefaultAck(id)}, id)
  BY <1>2, <1>3, RequestAndAck, Zenon
<1>6. /\ 0 \in 0 .. 31 /\ 2 \in 0 .. 31 /\ 3 \in 0 .. 31 /\ 4 \in 0 .. 31 /\ 5 \in 0 .. 31
      /\ 16 \in 0 .. 31 /\ 17 \in 0 .. 31 /\ 18 \in 0 .. 31 /\ 19 \in 0 .. 31
      /\ 20 \in 0 .. 31 /\ 21 \in 0 .. 31 /\ 22 \in 0 .. 31 /\ 23 \in 0 .. 31
      /\ 24 \in 0 .. 31 /\ 1 \in {0, 1} /\ 0 \in {0, 1}
  OBVIOUS
<1>7. FileOf(ServerAdvertise, 0)
  <2>1. /\ KindWithId(Request(0, 0, <<>>), 0)
        /\ \A kind \in ServerAdvertise : kind = Request(0, 0, <<>>)
    BY <1>1, <1>6, FixedBytes, Zenon DEF ServerAdvertise
  <2> QED BY <2>1, Zenon DEF FileOf
<1>8. FileOf(Connect, 2)
  BY <1>4, <1>6, FixedBytes, Zenon DEF Connect
<1>9. FileOf(MemberInfo, 3)
  BY <1>5, <1>6, FixedBytes, Zenon DEF MemberInfo
<1>10. FileOf(SetDeviceMode, 4)
  BY <1>4, <1>6, FixedBytes, Zenon DEF SetDeviceMode
<1>11. FileOf(TaskCreation, 16)
  BY <1>4, <1>6, FixedBytes, Zenon DEF TaskCreation
<1>12. FileOf(TaskRunAll, 17)
  BY <1>4, <1>6, FixedBytes, Zenon DEF TaskRunAll
<1>13. FileOf(TaskStopAll, 18)
  BY <1>4, <1>6, FixedBytes, Zenon DEF TaskStopAll
<1>14. FileOf(TaskRun, 19)
  BY <1>4, <1>6, FixedBytes, Zenon DEF TaskRun
<1>15. FileOf(TaskStop, 20)
  BY <1>4, <1>6, FixedBytes, Zenon DEF TaskStop
<1>16. FileOf(AttributeWrite, 21)
  BY <1>5, <1>6, FixedBytes, Zenon DEF AttributeWrite
<1>17. FileOf(TaskInputData, 23)
  BY <1>5, <1>6, FixedBytes, Zenon DEF TaskInputData
<1>18. FileOf(TaskOutputData, 24)
  BY <1>5, <1>6, FixedBytes, Zenon DEF TaskOutputData
<1>19. FileOf(CheckStatus, 5)
  <2>1. KindWithId(Request(5, 1, <<>>), 5) /\ Request(5, 1, <<>>).ack = 0
    BY <1>1, <1>6, FixedBytes, Zenon
  <2>2. /\ KindWithId(Kind(1, 5, 0, <<Byte(0, 2, 1), 0>>, 0, "none"), 5)
        /\ Kind(1, 5, 0, <<Byte(0, 2, 1), 0>>, 0, "none").ack = 1
    BY <1>6, FixedBytes, KindWithoutPayload, Zenon
  <2> QED BY <2>1, <2>2, RequestAndAck, Zenon DEF CheckStatus
<1>20. FileOf(AttributeRead, 22)
  <2>1. /\ KindWithId(RequestWith(22, <<0>>, "names"), 22)
        /\ RequestWith(22, <<0>>, "names").ack = 0
    BY <1>2, <1>6, FixedBytes, Zenon
  <2>2. /\ KindWithId(Kind(1, 22, 0, <<0>>, 0, "values"), 22)
        /\ Kind(1, 22, 0, <<0>>, 0, "values").ack = 1
    BY <1>6, FixedBytes, KindWithPayload, Zenon
  <2> QED BY <2>1, <2>2, RequestAndAck, Zenon DEF AttributeRead
<1> QED BY <1>7, <1>8, <1>9, <1>10, <1>11, <1>12, <1>13, <1>14, <1>15, <1>16, <1>17, <1>18, <1>19, <1>20, Zenon

LEMMA KindType ==
  ASSUME NEW kind \in Kinds
  PROVE  kind \in KindFields /\ (kind.attributes = "none" => kind.head = 0)
BY Files DEF Kinds, FileOf, KindWithId

\* The first byte tells every kind from every other.
LEMMA KindsDiffer ==
  ASSUME NEW kind \in Kinds, NEW other \in Kinds, kind.ack = other.ack, kind.id = other.id
  PROVE  kind = other
BY Files DEF Kinds, FileOf, KindWithId

-----------------------------------------------------------------------------
(* Pieces of a sequence.                                                   *)

\* A piece is found where the pieces before it end.
LEMMA Slice ==
  ASSUME NEW S, NEW before \in Seq(S), NEW piece \in Seq(S), NEW after \in Seq(S)
  PROVE  /\ (before \o piece) \o after \in Seq(S)
         /\ SubSeq((before \o piece) \o after, Len(before) + 1, Len(before) + Len(piece)) = piece
         /\ \A i \in 1 .. Len(piece) : ((before \o piece) \o after)[Len(before) + i] = piece[i]
<1> DEFINE all == (before \o piece) \o after
<1>1. before \o piece \in Seq(S) /\ Len(before \o piece) = Len(before) + Len(piece)
  BY ConcatProperties
<1>2. all \in Seq(S) /\ Len(all) = Len(before) + Len(piece) + Len(after)
  BY <1>1, ConcatProperties, LenProperties
<1>3. Len(before) \in Nat /\ Len(piece) \in Nat /\ Len(after) \in Nat
  BY LenProperties
<1>4. ASSUME NEW i \in 1 .. Len(piece) PROVE all[Len(before) + i] = piece[i]
  <2>1. all[Len(before) + i] = (before \o piece)[Len(before) + i]
    BY <1>1, <1>3, ConcatProperties
  <2>2. (before \o piece)[Len(before) + i] = piece[i]
    BY <1>3, ConcatProperties
  <2> QED BY <2>1, <2>2
<1> DEFINE m == Len(before) + 1
           n == Len(before) + Len(piece)
           cut == SubSeq(all, m, n)
<1>5. m \in Int /\ n \in Int
  BY <1>3
<1>6. \A i \in m .. n : all[i] \in S
  BY <1>2, <1>3, ElementOfSeq
<1> HIDE DEF all
<1>7. /\ cut \in Seq(S)
      /\ Len(cut) = IF m <= n THEN n - m + 1 ELSE 0
      /\ \A i \in 1 .. n - m + 1 : cut[i] = all[m + i - 1]
  BY <1>5, <1>6, SubSeqProperties
<1>8. Len(cut) = Len(piece)
  BY <1>3, <1>7
<1>9. ASSUME NEW i \in 1 .. Len(cut) PROVE cut[i] = piece[i]
  <2>1. i \in 1 .. n - m + 1 /\ m + i - 1 = Len(before) + i /\ i \in 1 .. Len(piece)
    BY <1>3, <1>8
  <2> QED BY <1>4, <1>7, <2>1
<1> HIDE DEF cut, m, n
<1>10. cut = piece
  BY <1>7, <1>8, <1>9, SeqEqual
<1> QED BY <1>2, <1>4, <1>10 DEF all, cut, m, n

\* The octets of a piece are cut out where it is.
CutsOut(before, piece, after) ==
    SubSeq((before \o piece) \o after, Len(before) + 1, Len(before) + Len(piece)) = piece

\* For octets, as one fact about three sequences.
LEMMA OctetsCutOut ==
  ASSUME NEW before \in Seq(Octet), NEW piece \in Seq(Octet), NEW after \in Seq(Octet)
  PROVE  CutsOut(before, piece, after)
BY Slice DEF CutsOut

\* FlattenSeq puts the pieces together one by one.
FlattensUpTo(n, pieces, f) ==
    /\ f[0] = <<>>
    /\ \A i \in 1 .. n : f[i] = f[i - 1] \o pieces[i]

FlattensAs(pieces, f) == FlattensUpTo(Len(pieces), pieces, f)

LEMMA FlattenExists ==
  ASSUME NEW S, NEW pieces \in Seq(Seq(S))
  PROVE  \E f \in [0 .. Len(pieces) -> Seq(S)] : FlattensAs(pieces, f)
<1> DEFINE n == Len(pieces)
           Done == {m \in 0 .. n : \E f \in [0 .. m -> Seq(S)] : FlattensUpTo(m, pieces, f)}
<1>1. n \in Nat
  BY LenProperties
<1>2. 0 \in Done
  <2>1. <<>> \in Seq(S)
    OBVIOUS
  <2>2. [i \in 0 .. 0 |-> <<>>] \in [0 .. 0 -> Seq(S)]
    BY <2>1
  <2>3. FlattensUpTo(0, pieces, [i \in 0 .. 0 |-> <<>>])
    BY DEF FlattensUpTo
  <2>4. 0 \in 0 .. n
    BY <1>1
  <2> QED BY <2>2, <2>3, <2>4, Zenon
<1>3. ASSUME NEW m \in 1 .. n, m - 1 \in Done PROVE m \in Done
  <2>1. PICK f \in [0 .. m - 1 -> Seq(S)] : FlattensUpTo(m - 1, pieces, f)
    BY <1>3
  <2>2. pieces[m] \in Seq(S)
    BY <1>1, ElementOfSeq
  <2>3. f[m - 1] \in Seq(S)
    BY <1>1
  <2>4. f[m - 1] \o pieces[m] \in Seq(S)
    BY <2>2, <2>3, ConcatProperties
  <2> DEFINE g == [i \in 0 .. m |-> IF i = m THEN f[m - 1] \o pieces[m] ELSE f[i]]
  <2>5. g \in [0 .. m -> Seq(S)]
    BY <1>1, <2>4
  <2>6. g[0] = <<>>
    BY <1>1, <2>1 DEF FlattensUpTo
  <2>7. ASSUME NEW i \in 1 .. m PROVE g[i] = g[i - 1] \o pieces[i]
    <3>1. CASE i = m
      <4>1. g[i] = f[m - 1] \o pieces[m] /\ g[i - 1] = f[m - 1]
        <5>1. i \in 0 .. m /\ i - 1 \in 0 .. m /\ i - 1 # m /\ i - 1 = m - 1
          BY <1>1, <3>1
        <5> QED BY <3>1, <5>1
      <4> QED BY <3>1, <4>1
    <3>2. CASE i # m
      <4>1. i \in 1 .. m - 1
        BY <1>1, <3>2
      <4>2. g[i] = f[i] /\ g[i - 1] = f[i - 1]
        BY <1>1, <3>2, <4>1
      <4>3. f[i] = f[i - 1] \o pieces[i]
        BY <2>1, <4>1 DEF FlattensUpTo
      <4> QED BY <4>2, <4>3
    <3> QED BY <3>1, <3>2
  <2> HIDE DEF g
  <2>8. FlattensUpTo(m, pieces, g)
    BY <2>6, <2>7, Zenon DEF FlattensUpTo
  <2> QED BY <1>1, <2>5, <2>8
<1> HIDE DEF Done, n
<1>4. n \in Done
  <2>1. \A m \in 0 .. n : m \in Done
    BY <1>1, <1>2, <1>3, UpTo
  <2> QED BY <1>1, <2>1
<1>5. \E f \in [0 .. n -> Seq(S)] : FlattensUpTo(n, pieces, f)
  BY <1>4, Zenon DEF Done
<1> QED BY <1>5, Zenon DEF n, FlattensAs

LEMMA FlattenIs ==
  ASSUME NEW S, NEW pieces \in Seq(Seq(S)),
         NEW f \in [0 .. Len(pieces) -> Seq(S)], FlattensAs(pieces, f)
  PROVE  FlattenSeq(pieces) = f[Len(pieces)]
<1> DEFINE n == Len(pieces)
           One(g, i) == IF i = 1 THEN pieces[i] ELSE g[i - 1] \o pieces[i]
           flatten == CHOOSE g : g = [i \in 1 .. n |-> One(g, i)]
<1>1. n \in Nat
  BY LenProperties
<1>2. CASE n = 0
  <2>1. pieces = <<>>
    BY <1>2, EmptySeq
  <2> QED BY <1>2, <2>1 DEF FlattensAs, FlattensUpTo, FlattenSeq
<1>3. CASE n # 0
  <2> DEFINE w == [i \in 1 .. n |-> f[i]]
  <2>1. ASSUME NEW i \in 1 .. n PROVE w[i] = One(w, i)
    <3>1. f[i] = f[i - 1] \o pieces[i] /\ pieces[i] \in Seq(S)
      BY <1>1, ElementOfSeq DEF FlattensAs, FlattensUpTo
    <3>2. CASE i = 1
      <4>1. i - 1 = 0 /\ f[0] = <<>>
        BY <3>2 DEF FlattensAs, FlattensUpTo
      <4>2. f[i] = pieces[i]
        BY <3>1, <4>1, ConcatEmptySeq
      <4> QED BY <3>2, <4>2
    <3>3. CASE i # 1
      <4>1. i - 1 \in 1 .. n
        BY <1>1, <3>3
      <4> QED BY <3>1, <3>3, <4>1
    <3> QED BY <3>2, <3>3
  <2>2. w = [i \in 1 .. n |-> One(w, i)]
    BY <2>1
  <2>3. \E g : g = [i \in 1 .. n |-> One(g, i)]
    <3> HIDE DEF w, One
    <3> QED BY <2>2, Zenon
  <2>4. flatten = [i \in 1 .. n |-> One(flatten, i)]
    <3> HIDE DEF One
    <3> QED BY <2>3, Zenon
  <2> HIDE DEF flatten
  <2>5. \A i \in 1 .. n : flatten[i] = One(flatten, i)
    <3> HIDE DEF One
    <3> QED BY <2>4, Zenon
  <2> DEFINE Same == {i \in 0 .. n : i # 0 => flatten[i] = f[i]}
  <2>6. 0 \in Same
    BY <1>1
  <2>7. ASSUME NEW i \in 1 .. n, i - 1 \in Same PROVE i \in Same
    <3>1. f[i] = w[i] /\ w[i] = One(w, i)
      BY <2>1
    <3>2. i # 1 => i - 1 \in 1 .. n /\ flatten[i - 1] = w[i - 1]
      BY <1>1, <2>7
    <3>3. One(flatten, i) = One(w, i)
      <4> HIDE DEF w
      <4> QED BY <3>2
    <3>4. flatten[i] = f[i]
      BY <2>5, <3>1, <3>3, Zenon
    <3> QED BY <3>4, <1>1
  <2> HIDE DEF Same
  <2>8. n \in Same
    <3>1. \A i \in 0 .. n : i \in Same
      BY <1>1, <2>6, <2>7, UpTo
    <3> QED BY <1>1, <3>1
  <2>9. flatten[n] = f[n]
    BY <1>3, <2>8 DEF Same
  <2>10. FlattenSeq(pieces) = flatten[n]
    BY <1>3, Zenon DEF FlattenSeq, flatten
  <2> QED BY <2>9, <2>10
<1> QED BY <1>2, <1>3

\* How the pieces are put together does not matter.
Regroups(a, b, c) == (a \o b) \o c = a \o (b \o c)

LEMMA Regrouped ==
  ASSUME NEW S, NEW a \in Seq(S), NEW b \in Seq(S), NEW c \in Seq(S)
  PROVE  Regroups(a, b, c)
BY ConcatAssociative DEF Regroups

Within(S, before, piece, whole) == \E after \in Seq(S) : whole = (before \o piece) \o after

\* Every piece is in the whole, behind those before it.
LEMMA PieceOfWhole ==
  ASSUME NEW S, NEW pieces \in Seq(Seq(S)),
         NEW f \in [0 .. Len(pieces) -> Seq(S)], FlattensAs(pieces, f),
         NEW i \in 1 .. Len(pieces)
  PROVE  Within(S, f[i - 1], pieces[i], f[Len(pieces)])
<1> DEFINE n == Len(pieces)
           Done == {k \in 0 .. n : \E after \in Seq(S) : f[n] = f[n - k] \o after}
<1>1. n \in Nat
  BY LenProperties
<1>2. \A k \in 0 .. n : f[k] \in Seq(S)
  OBVIOUS
<1>3. \A k \in 1 .. n : pieces[k] \in Seq(S) /\ f[k] = f[k - 1] \o pieces[k]
  BY ElementOfSeq DEF FlattensAs, FlattensUpTo
<1> HIDE DEF n
<1>4. 0 \in Done
  <2>0. <<>> \in Seq(S)
    OBVIOUS
  <2>1. f[n] \in Seq(S) /\ n - 0 = n
    BY <1>1, <1>2
  <2>2. f[n] = f[n - 0] \o <<>>
    BY <2>1, ConcatEmptySeq
  <2>3. 0 \in 0 .. n
    BY <1>1
  <2> QED BY <2>0, <2>2, <2>3, Zenon
<1>5. ASSUME NEW k \in 1 .. n, k - 1 \in Done PROVE k \in Done
  <2> DEFINE j == n - (k - 1)
  <2>1. j \in 1 .. n /\ j - 1 = n - k
    BY <1>1
  <2> HIDE DEF j
  <2>2. PICK after \in Seq(S) : f[n] = f[j] \o after
    BY <1>5 DEF j
  <2>3. f[j] = f[j - 1] \o pieces[j]
    BY <1>3, <2>1
  <2>4. f[j - 1] \in Seq(S) /\ pieces[j] \in Seq(S)
    <3>1. j - 1 \in 0 .. n
      BY <1>1, <2>1
    <3> QED BY <1>2, <1>3, <2>1, <3>1
  <2>5. f[n] = f[j - 1] \o (pieces[j] \o after)
    <3>1. Regroups(f[j - 1], pieces[j], after)
      BY <2>4, Regrouped, Zenon
    <3> QED BY <2>2, <2>3, <3>1, Zenon DEF Regroups
  <2>6. pieces[j] \o after \in Seq(S)
    BY <2>4, ConcatProperties
  <2>7. \E rest \in Seq(S) : f[n] = f[n - k] \o rest
    BY <2>1, <2>5, <2>6, Zenon
  <2>8. k \in 0 .. n
    BY <1>1
  <2> QED BY <2>7, <2>8, Zenon
<1> HIDE DEF Done
<1>6. \A k \in 0 .. n : k \in Done
  BY <1>1, <1>4, <1>5, UpTo
<1>7. n - i \in 0 .. n /\ n - (n - i) = i
  BY <1>1 DEF n
<1>8. \E after \in Seq(S) : f[n] = f[i] \o after
  <2>1. PICK after \in Seq(S) : f[n] = f[n - (n - i)] \o after
    BY <1>6, <1>7, Zenon DEF Done
  <2> QED BY <1>7, <2>1
<1>9. i \in 1 .. n
  BY DEF n
<1> QED BY <1>8, <1>9, <1>3 DEF n, Within

-----------------------------------------------------------------------------
(* The bytes of the attributes, and how many they are.                     *)

\* Attributes whose lengths say how many values are sent with them.
AttrsFit(attrs, attributes) ==
    /\ attrs \in Seq(AttrFields)
    /\ \A i \in 1 .. Len(attrs) : Len(attrs[i].values) = SentLength(attrs[i], attributes)

Pieces(attrs, attributes) == [i \in 1 .. Len(attrs) |-> BytesOf(attrs[i], attributes)]

LEMMA AttrType ==
  ASSUME NEW attr \in AttrFields
  PROVE  /\ attr.id \in 0 .. 63 /\ attr.length \in 0 .. 3 /\ attr.values \in Seq(Octet)
         /\ attr = [id |-> attr.id, length |-> attr.length, values |-> attr.values]
         /\ Byte(attr.id, 6, attr.length) \in Octet
         /\ RealValueLength(attr.length) \in Nat \ {0}
<1>1. attr.id \in 0 .. 63 /\ attr.length \in 0 .. 3 /\ attr.values \in Seq(Octet)
  BY DEF AttrFields
<1>2. attr = [id |-> attr.id, length |-> attr.length, values |-> attr.values]
  BY DEF AttrFields
<1>3. Byte(attr.id, 6, attr.length) \in Octet
  BY <1>1, TwoFields
<1>4. RealValueLength(attr.length) \in Nat \ {0}
  BY <1>1, ValueLengthsPositive
<1> QED BY <1>1, <1>2, <1>3, <1>4, Zenon

LEMMA BytesOfAttr ==
  ASSUME NEW attr \in AttrFields, NEW attributes,
         Len(attr.values) = SentLength(attr, attributes)
  PROVE  /\ BytesOf(attr, attributes) = <<Byte(attr.id, 6, attr.length)>> \o attr.values
         /\ BytesOf(attr, attributes) \in Seq(Octet)
         /\ Len(BytesOf(attr, attributes)) = 1 + SentLength(attr, attributes)
<1> DEFINE b  == Byte(attr.id, 6, attr.length)
           vs == attr.values
<1>1. b \in Octet /\ vs \in Seq(Octet)
  BY AttrType
<1>2. BytesOf(attr, attributes) = <<b>> \o vs
  <2>1. CASE attributes = "values"
    <3>1. Len(vs) = RealValueLength(attr.length)
      BY <2>1 DEF SentLength
    <3>2. SubSeq(vs, 1, RealValueLength(attr.length)) = vs
      BY <1>1, <3>1, SubSeqFull
    <3> QED BY <2>1, <3>2 DEF BytesOf
  <2>2. CASE attributes # "values"
    <3>1. vs = <<>>
      <4>1. Len(vs) = 0
        BY <2>2 DEF SentLength
      <4> HIDE DEF vs
      <4> QED BY <1>1, <4>1, EmptySeq
    <3> QED BY <2>2, <3>1 DEF BytesOf
  <2> QED BY <2>1, <2>2
<1> HIDE DEF b, vs
<1>3. <<b>> \in Seq(Octet) /\ Len(<<b>>) = 1
  BY <1>1
<1>4. <<b>> \o vs \in Seq(Octet) /\ Len(<<b>> \o vs) = 1 + Len(vs)
  BY <1>1, <1>3, ConcatProperties
<1>5. Len(vs) = SentLength(attr, attributes)
  BY DEF vs
<1>6. Len(BytesOf(attr, attributes)) = 1 + SentLength(attr, attributes)
  BY <1>2, <1>4, <1>5
<1> QED BY <1>2, <1>4, <1>6, Zenon DEF b, vs

LEMMA PiecesType ==
  ASSUME NEW attrs, NEW attributes, AttrsFit(attrs, attributes)
  PROVE  /\ Len(attrs) \in Nat
         /\ Pieces(attrs, attributes) \in Seq(Seq(Octet))
         /\ Len(Pieces(attrs, attributes)) = Len(attrs)
         /\ \A i \in 1 .. Len(attrs) :
               /\ attrs[i] \in AttrFields
               /\ Pieces(attrs, attributes)[i] = <<Byte(attrs[i].id, 6, attrs[i].length)>> \o attrs[i].values
               /\ Pieces(attrs, attributes)[i] \in Seq(Octet)
               /\ Len(Pieces(attrs, attributes)[i]) = 1 + SentLength(attrs[i], attributes)
<1> DEFINE n == Len(attrs)
           p == Pieces(attrs, attributes)
<1>1. n \in Nat /\ attrs \in Seq(AttrFields)
  BY LenProperties DEF AttrsFit
<1>2. ASSUME NEW i \in 1 .. n
      PROVE  /\ attrs[i] \in AttrFields
             /\ Len(attrs[i].values) = SentLength(attrs[i], attributes)
  BY <1>1, ElementOfSeq DEF AttrsFit
<1>3. ASSUME NEW i \in 1 .. n
      PROVE  /\ p[i] = <<Byte(attrs[i].id, 6, attrs[i].length)>> \o attrs[i].values
             /\ p[i] \in Seq(Octet)
             /\ Len(p[i]) = 1 + SentLength(attrs[i], attributes)
  <2>1. p[i] = BytesOf(attrs[i], attributes)
    BY DEF Pieces
  <2> QED BY <1>2, <2>1, BytesOfAttr
<1>4. p \in [1 .. n -> Seq(Octet)]
  BY <1>3 DEF Pieces
<1> HIDE DEF p
<1>5. p \in Seq(Seq(Octet)) /\ Len(p) = n
  BY <1>1, <1>4, SeqDef
<1> QED BY <1>1, <1>2, <1>3, <1>5, Zenon DEF p

\* The loop over the lengths adds them up.
LEMMA ValuesSizeIs ==
  ASSUME NEW attrs, Len(attrs) \in Nat, NEW f \in [0 .. Len(attrs) -> Nat], f[0] = 0,
         \A i \in 1 .. Len(attrs) : f[i] = f[i - 1] + RealValueLength(attrs[i].length)
  PROVE  ValuesSize(attrs) = f[Len(attrs)]
<1> DEFINE n == Len(attrs)
           One(g, i) == IF i = 0 THEN 0 ELSE g[i - 1] + RealValueLength(attrs[i].length)
           sum == CHOOSE g : g = [i \in 0 .. n |-> One(g, i)]
<1>1. f = [i \in 0 .. n |-> One(f, i)]
  <2>1. \A i \in 0 .. n : f[i] = One(f, i)
    OBVIOUS
  <2> HIDE DEF One
  <2> QED BY <2>1
<1>2. sum = [i \in 0 .. n |-> One(sum, i)]
  <2> HIDE DEF One
  <2>1. \E g : g = [i \in 0 .. n |-> One(g, i)]
    BY <1>1, Zenon
  <2> QED BY <2>1, Zenon
<1> HIDE DEF sum
<1>3. \A i \in 0 .. n : sum[i] = One(sum, i)
  <2> HIDE DEF One
  <2> QED BY <1>2, Zenon
<1> DEFINE Same == {i \in 0 .. n : sum[i] = f[i]}
<1>4. 0 \in Same
  BY <1>3
<1>5. ASSUME NEW i \in 1 .. n, i - 1 \in Same PROVE i \in Same
  <2>1. sum[i] = sum[i - 1] + RealValueLength(attrs[i].length)
    BY <1>3
  <2>2. f[i] = f[i - 1] + RealValueLength(attrs[i].length)
    OBVIOUS
  <2>3. sum[i - 1] = f[i - 1]
    BY <1>5
  <2> QED BY <2>1, <2>2, <2>3
<1> HIDE DEF Same
<1>6. n \in Same
  <2>1. \A i \in 0 .. n : i \in Same
    BY <1>4, <1>5, UpTo
  <2> QED BY <2>1
<1>7. ValuesSize(attrs) = sum[n]
  BY Zenon DEF ValuesSize, sum
<1> QED BY <1>6, <1>7 DEF Same

\* A byte for each attribute, and the values of each.
LEMMA SizeOfPieces ==
  ASSUME NEW attrs, NEW attributes, AttrsFit(attrs, attributes),
         NEW f \in [0 .. Len(attrs) -> Seq(Octet)], FlattensAs(Pieces(attrs, attributes), f)
  PROVE  Len(f[Len(attrs)])
            = Len(attrs) + (IF attributes = "values" THEN ValuesSize(attrs) ELSE 0)
<1> DEFINE n == Len(attrs)
           p == Pieces(attrs, attributes)
<1>1. n \in Nat /\ Len(p) = n
  BY PiecesType
<1>2. f[0] = <<>> /\ \A i \in 1 .. n : f[i] = f[i - 1] \o p[i]
  BY <1>1 DEF FlattensAs, FlattensUpTo
<1>3. Len(f[0]) = 0
  BY <1>2
<1>4. \A i \in 0 .. n : f[i] \in Seq(Octet) /\ Len(f[i]) \in Nat
  BY LenProperties
<1>5. ASSUME NEW i \in 1 .. n
      PROVE  Len(f[i]) = Len(f[i - 1]) + 1 + SentLength(attrs[i], attributes)
  <2>1. p[i] \in Seq(Octet) /\ Len(p[i]) = 1 + SentLength(attrs[i], attributes)
    BY PiecesType
  <2>2. i - 1 \in 0 .. n
    BY <1>1
  <2>3. f[i - 1] \in Seq(Octet) /\ Len(f[i - 1]) \in Nat
    BY <1>4, <2>2
  <2>4. Len(f[i - 1] \o p[i]) = Len(f[i - 1]) + Len(p[i])
    <3> HIDE DEF p
    <3> QED BY <2>1, <2>3, ConcatProperties
  <2>5. SentLength(attrs[i], attributes) \in Nat
    BY PiecesType, AttrType DEF SentLength
  <2>6. f[i] = f[i - 1] \o p[i]
    BY <1>2
  <2> DEFINE a == Len(f[i - 1])
             c == SentLength(attrs[i], attributes)
  <2>7. Len(f[i]) = a + (1 + c)
    <3> HIDE DEF p
    <3> QED BY <2>1, <2>4, <2>6, Zenon
  <2>8. a \in Nat /\ c \in Nat
    BY <2>3, <2>5
  <2> HIDE DEF a, c
  <2>9. a + (1 + c) = a + 1 + c
    BY <2>8
  <2> QED BY <2>7, <2>9 DEF a, c
<1>6. \A i \in 1 .. n : RealValueLength(attrs[i].length) \in Nat
  BY PiecesType, AttrType
<1> HIDE DEF p
<1>7. CASE attributes = "values"
  <2> DEFINE g == [i \in 0 .. n |-> Len(f[i]) - i]
  <2>1. ASSUME NEW i \in 1 .. n PROVE g[i] = g[i - 1] + RealValueLength(attrs[i].length)
    <3>1. i - 1 \in 0 .. n
      BY <1>1
    <3>2. g[i] = Len(f[i]) - i /\ g[i - 1] = Len(f[i - 1]) - (i - 1)
      BY <1>1, <3>1
    <3>3. Len(f[i]) = Len(f[i - 1]) + 1 + RealValueLength(attrs[i].length)
      BY <1>5, <1>7 DEF SentLength
    <3> HIDE DEF g
    <3> QED BY <1>1, <1>4, <1>6, <3>1, <3>2, <3>3
  <2>2. g[0] = 0
    BY <1>1, <1>3
  <2>3. g \in [0 .. n -> Nat]
    <3> DEFINE Good == {i \in 0 .. n : g[i] \in Nat}
    <3>1. 0 \in Good
      BY <1>1, <2>2
    <3>2. ASSUME NEW i \in 1 .. n, i - 1 \in Good PROVE i \in Good
      <4>1. g[i] = g[i - 1] + RealValueLength(attrs[i].length)
        BY <2>1
      <4>2. g[i - 1] \in Nat /\ i \in 0 .. n
        BY <1>1, <3>2
      <4> HIDE DEF g
      <4> QED BY <1>6, <4>1, <4>2
    <3> HIDE DEF Good
    <3>3. \A i \in 0 .. n : i \in Good
      BY <1>1, <3>1, <3>2, UpTo
    <3> QED BY <3>3 DEF Good
  <2> HIDE DEF g
  <2>4. ValuesSize(attrs) = g[n]
    BY <1>1, <2>1, <2>2, <2>3, ValuesSizeIs
  <2>5. g[n] = Len(f[n]) - n
    BY <1>1 DEF g
  <2> QED BY <1>1, <1>4, <1>7, <2>4, <2>5
<1>8. CASE attributes # "values"
  <2> DEFINE Good == {i \in 0 .. n : Len(f[i]) = i}
  <2>1. 0 \in Good
    BY <1>1, <1>3
  <2>2. ASSUME NEW i \in 1 .. n, i - 1 \in Good PROVE i \in Good
    <3>1. Len(f[i]) = Len(f[i - 1]) + 1 + 0
      BY <1>5, <1>8 DEF SentLength
    <3> QED BY <1>1, <2>2, <3>1
  <2> HIDE DEF Good
  <2>3. n \in Good
    <3>1. \A i \in 0 .. n : i \in Good
      BY <1>1, <2>1, <2>2, UpTo
    <3> QED BY <1>1, <3>1
  <2> QED BY <1>1, <1>8, <2>3 DEF Good
<1> QED BY <1>7, <1>8

-----------------------------------------------------------------------------
(* Reading the attributes back.                                            *)

\* An attribute is read where its bytes begin.
LEMMA ReadsAttr ==
  ASSUME NEW attr \in AttrFields, NEW attributes,
         Len(attr.values) = SentLength(attr, attributes),
         NEW before \in Seq(Octet), NEW after \in Seq(Octet), NEW bytes,
         bytes = (before \o (<<Byte(attr.id, 6, attr.length)>> \o attr.values)) \o after
  PROVE  ParsedAttribute(bytes, Len(before) + 1, attributes) = attr
<1> DEFINE b  == Byte(attr.id, 6, attr.length)
           vs == attr.values
           q  == Len(before) + 1
           n  == SentLength(attr, attributes)
<1>1. b \in Octet /\ vs \in Seq(Octet) /\ n \in Nat
  BY AttrType DEF SentLength
<1>2. Low(b, 6) = attr.id /\ High(b, 6) = attr.length
  BY AttrType, TwoFields
<1>3. Len(vs) = n /\ bytes = (before \o (<<b>> \o vs)) \o after
  OBVIOUS
<1>4. ParsedAttribute(bytes, q, attributes)
         = [id |-> Low(bytes[q], 6), length |-> High(bytes[q], 6),
            values |-> SubSeq(bytes, q + 1,
                              q + IF attributes = "values" THEN RealValueLength(High(bytes[q], 6)) ELSE 0)]
  BY Zenon DEF ParsedAttribute
<1>5. n = IF attributes = "values" THEN RealValueLength(attr.length) ELSE 0
  BY Zenon DEF SentLength
<1> HIDE DEF b, vs, n
<1>6. <<b>> \in Seq(Octet) /\ Len(<<b>>) = 1 /\ <<b>>[1] = b
  BY <1>1
<1>7. before \o (<<b>> \o vs) = (before \o <<b>>) \o vs
  <2>1. Regroups(before, <<b>>, vs)
    BY <1>1, <1>6, Regrouped, Zenon
  <2> QED BY <2>1, Zenon DEF Regroups
<1>8. before \o <<b>> \in Seq(Octet) /\ Len(before \o <<b>>) = q
  BY <1>6, ConcatProperties
<1>9. bytes = ((before \o <<b>>) \o vs) \o after
  BY <1>3, <1>7, Zenon
<1>10. SubSeq(bytes, q + 1, q + n) = vs
  <2>1. SubSeq(((before \o <<b>>) \o vs) \o after, Len(before \o <<b>>) + 1, Len(before \o <<b>>) + Len(vs)) = vs
    <3>1. CutsOut(before \o <<b>>, vs, after)
      BY <1>1, <1>8, OctetsCutOut, Zenon
    <3> QED BY <3>1, Zenon DEF CutsOut
  <2> QED BY <1>3, <1>8, <1>9, <2>1, Zenon
<1>11. bytes[q] = b
  <2>1. vs \o after \in Seq(Octet)
    BY <1>1, ConcatProperties
  <2>2. \A i \in 1 .. Len(<<b>>) : ((before \o <<b>>) \o (vs \o after))[Len(before) + i] = <<b>>[i]
    <3> DEFINE first == <<b>>
               rest  == vs \o after
    <3>1. first \in Seq(Octet) /\ rest \in Seq(Octet)
      BY <1>6, <2>1
    <3> HIDE DEF first, rest
    <3>2. \A i \in 1 .. Len(first) : ((before \o first) \o rest)[Len(before) + i] = first[i]
      BY <3>1, Slice
    <3> QED BY <3>2, Zenon DEF first, rest
  <2>3. ((before \o <<b>>) \o (vs \o after))[Len(before) + 1] = b
    <3>1. 1 \in 1 .. Len(<<b>>)
      BY <1>6
    <3> QED BY <1>6, <2>2, <3>1, Zenon
  <2>4. Regroups(before \o <<b>>, vs, after)
    BY <1>1, <1>8, Regrouped, Zenon
  <2> QED BY <1>9, <2>3, <2>4, Zenon DEF Regroups
<1> HIDE DEF q
<1>12. ParsedAttribute(bytes, q, attributes) = [id |-> attr.id, length |-> attr.length, values |-> vs]
  BY <1>2, <1>4, <1>5, <1>10, <1>11, Zenon
<1>13. attr = [id |-> attr.id, length |-> attr.length, values |-> vs]
  BY AttrType, Zenon DEF vs
<1> QED BY <1>12, <1>13, Zenon DEF q

\* All of them, one behind the other.
LEMMA ReadsEach ==
  ASSUME NEW attrs, NEW attributes, AttrsFit(attrs, attributes),
         NEW f \in [0 .. Len(attrs) -> Seq(Octet)], FlattensAs(Pieces(attrs, attributes), f),
         NEW before \in Seq(Octet), NEW bytes, bytes = before \o f[Len(attrs)],
         NEW i \in 1 .. Len(attrs)
  PROVE  /\ ParsedAttribute(bytes, Len(before) + Len(f[i - 1]) + 1, attributes) = attrs[i]
         /\ Len(f[i]) = Len(f[i - 1]) + 1 + Len(attrs[i].values)
<1> DEFINE n == Len(attrs)
           p == Pieces(attrs, attributes)
           head == f[i - 1]
           piece == p[i]
           start == before \o head
<1>1. /\ n \in Nat /\ p \in Seq(Seq(Octet)) /\ Len(p) = n /\ attrs[i] \in AttrFields
      /\ piece = <<Byte(attrs[i].id, 6, attrs[i].length)>> \o attrs[i].values
      /\ piece \in Seq(Octet) /\ Len(piece) = 1 + SentLength(attrs[i], attributes)
  BY PiecesType
<1>2. Len(attrs[i].values) = SentLength(attrs[i], attributes)
  BY DEF AttrsFit
<1>3. head \in Seq(Octet) /\ f[i] = head \o piece /\ Len(head) \in Nat
  <2>1. i - 1 \in 0 .. n
    BY <1>1
  <2>2. head \in Seq(Octet)
    BY <2>1
  <2>3. f[i] = head \o piece
    BY <1>1 DEF FlattensAs, FlattensUpTo
  <2> HIDE DEF head, piece
  <2> QED BY <2>2, <2>3, LenProperties
<1>4. PICK after \in Seq(Octet) : f[n] = (head \o piece) \o after
  <2>1. i \in 1 .. Len(p) /\ f \in [0 .. Len(p) -> Seq(Octet)] /\ FlattensAs(p, f)
    BY <1>1
  <2> HIDE DEF p
  <2>2. Within(Octet, f[i - 1], p[i], f[Len(p)])
    BY <1>1, <2>1, PieceOfWhole, Zenon
  <2> QED BY <1>1, <2>2, Zenon DEF Within, head, piece
<1> HIDE DEF head, piece, p
<1>5. bytes = (start \o piece) \o after
  <2>1. Regroups(head, piece, after) /\ Regroups(before, head, piece \o after)
    <3>1. piece \o after \in Seq(Octet)
      BY <1>1, ConcatProperties
    <3> QED BY <1>1, <1>3, <3>1, Regrouped, Zenon
  <2>2. start \in Seq(Octet)
    BY <1>3, ConcatProperties
  <2> HIDE DEF start
  <2>3. Regroups(start, piece, after)
    BY <1>1, <2>2, Regrouped, Zenon
  <2>4. bytes = before \o ((head \o piece) \o after)
    BY <1>4, Zenon
  <2> QED BY <2>1, <2>3, <2>4, Zenon DEF Regroups, start
<1>6. start \in Seq(Octet) /\ Len(start) = Len(before) + Len(head)
  BY <1>3, ConcatProperties
<1> HIDE DEF start
<1>7. ParsedAttribute(bytes, Len(start) + 1, attributes) = attrs[i]
  <2>1. bytes = (start \o (<<Byte(attrs[i].id, 6, attrs[i].length)>> \o attrs[i].values)) \o after
    BY <1>1, <1>5, Zenon
  <2>2. attrs[i] \in AttrFields /\ start \in Seq(Octet)
    BY <1>1, <1>6, Zenon
  <2> QED BY <1>2, <2>1, <2>2, ReadsAttr, Zenon
<1>8. Len(f[i]) = Len(head) + 1 + Len(attrs[i].values)
  <2>1. Len(head \o piece) = Len(head) + Len(piece)
    BY <1>1, <1>3, ConcatProperties
  <2>2. Len(piece) = 1 + Len(attrs[i].values)
    BY <1>1, <1>2
  <2>3. Len(piece) \in Nat /\ Len(attrs[i].values) \in Nat
    <3>1. attrs[i].values \in Seq(Octet)
      BY <1>1, AttrType
    <3> QED BY <1>1, <3>1, LenProperties
  <2>4. Len(f[i]) = Len(head) + Len(piece)
    BY <1>3, <2>1, Zenon
  <2> DEFINE a == Len(head)
             c == Len(attrs[i].values)
  <2>5. Len(f[i]) = a + (1 + c)
    BY <2>2, <2>4, Zenon
  <2>6. a \in Nat /\ c \in Nat
    BY <1>3, <2>3
  <2> HIDE DEF a, c
  <2>7. a + (1 + c) = a + 1 + c
    BY <2>6
  <2> QED BY <2>5, <2>7, Zenon DEF a, c
<1>9. ParsedAttribute(bytes, Len(before) + Len(head) + 1, attributes) = attrs[i]
  BY <1>6, <1>7, Zenon
<1> QED BY <1>8, <1>9, Zenon DEF head

AllRead(bytes, before, count, attributes, attrs, f) ==
    ParsedAttributes(bytes, Len(before) + 1, count, attributes)
        = [p |-> Len(before) + Len(f[Len(attrs)]) + 1, attrs |-> attrs]

\* The loop of the parsers reads them all, and stops behind the last.
LEMMA ReadsAll ==
  ASSUME NEW attrs, NEW attributes, AttrsFit(attrs, attributes),
         NEW f \in [0 .. Len(attrs) -> Seq(Octet)], FlattensAs(Pieces(attrs, attributes), f),
         NEW before \in Seq(Octet), NEW bytes, bytes = before \o f[Len(attrs)],
         NEW count, RealAttrCount(count) = Len(attrs)
  PROVE  AllRead(bytes, before, count, attributes, attrs, f)
<1> DEFINE n == Len(attrs)
           attrAt(q) == ParsedAttribute(bytes, q, attributes)
           next(r) == [p |-> r.p + 1 + Len(attrAt(r.p).values),
                       attrs |-> Append(r.attrs, attrAt(r.p))]
           One(g, i) == IF i = 0 THEN [p |-> Len(before) + 1, attrs |-> <<>>] ELSE next(g[i - 1])
           read == CHOOSE g : g = [i \in 0 .. n |-> One(g, i)]
           w == [i \in 0 .. n |-> [p |-> Len(before) + Len(f[i]) + 1, attrs |-> SubSeq(attrs, 1, i)]]
<1>1. n \in Nat /\ attrs \in Seq(AttrFields) /\ Len(before) \in Nat
  BY PiecesType, LenProperties DEF AttrsFit
<1>2. \A i \in 0 .. n : Len(f[i]) \in Nat
  BY LenProperties
<1>3. f[0] = <<>>
  BY DEF FlattensAs, FlattensUpTo
<1>4. ParsedAttributes(bytes, Len(before) + 1, count, attributes) = read[n]
  BY Zenon DEF ParsedAttributes, read
<1>5. ASSUME NEW i \in 1 .. n PROVE w[i] = next(w[i - 1])
  <2> DEFINE q == Len(before) + Len(f[i - 1]) + 1
             seen == SubSeq(attrs, 1, i - 1)
  <2>1. i - 1 \in 0 .. n /\ i \in 0 .. n
    BY <1>1
  <2>2. w[i - 1] = [p |-> q, attrs |-> seen]
    BY <2>1, Zenon
  <2>3. attrAt(q) = attrs[i] /\ Len(f[i]) = Len(f[i - 1]) + 1 + Len(attrs[i].values)
    <3>1. /\ ParsedAttribute(bytes, Len(before) + Len(f[i - 1]) + 1, attributes) = attrs[i]
          /\ Len(f[i]) = Len(f[i - 1]) + 1 + Len(attrs[i].values)
      BY ReadsEach, ZenonT(60)
    <3> QED BY <3>1, Zenon
  <2>4. w[i] = [p |-> Len(before) + Len(f[i]) + 1, attrs |-> SubSeq(attrs, 1, i)]
    BY <2>1, Zenon
  <2>5. SubSeq(attrs, 1, i) = Append(seen, attrs[i])
    <3>1. SubSeq(attrs, 1, i) = SubSeq(attrs, 1, i - 1) \o <<attrs[i]>>
      BY <1>1, SubSeqRecursiveSecond
    <3>2. attrs[i] \in AttrFields
      BY <1>1, ElementOfSeq
    <3>3. seen \in Seq(AttrFields)
      <4>1. \A j \in 1 .. i - 1 : attrs[j] \in AttrFields
        BY <1>1, ElementOfSeq
      <4>2. 1 \in Int /\ i - 1 \in Int
        BY <1>1
      <4> QED BY <4>1, <4>2, SubSeqProperties
    <3> HIDE DEF seen
    <3>4. Append(seen, attrs[i]) = seen \o <<attrs[i]>>
      BY <3>2, <3>3, AppendIsConcat
    <3> QED BY <3>1, <3>4, Zenon DEF seen
  <2>6. Len(before) + Len(f[i]) + 1 = q + 1 + Len(attrs[i].values)
    <3>1. attrs[i].values \in Seq(Octet)
      BY <1>1, ElementOfSeq, AttrType
    <3>2. Len(attrs[i].values) \in Nat
      BY <3>1, LenProperties
    <3>3. Len(f[i - 1]) \in Nat
      BY <1>2, <2>1
    <3> DEFINE x == Len(before)
               y == Len(f[i - 1])
               z == Len(attrs[i].values)
    <3>4. x \in Nat /\ y \in Nat /\ z \in Nat
      BY <1>1, <3>2, <3>3
    <3>5. Len(before) + Len(f[i]) + 1 = x + (y + 1 + z) + 1 /\ q + 1 + z = (x + y + 1) + 1 + z
      BY <2>3, Zenon
    <3> HIDE DEF x, y, z
    <3>6. x + (y + 1 + z) + 1 = (x + y + 1) + 1 + z
      BY <3>4
    <3> QED BY <3>5, <3>6, Zenon DEF z
  <2> HIDE DEF q, seen, w, attrAt
  <2>7. next([p |-> q, attrs |-> seen]) = [p |-> q + 1 + Len(attrAt(q).values), attrs |-> Append(seen, attrAt(q))]
    OBVIOUS
  <2> HIDE DEF next
  <2> QED BY <2>2, <2>3, <2>4, <2>5, <2>6, <2>7, Zenon
<1>6. w[0] = [p |-> Len(before) + 1, attrs |-> <<>>]
  <2>1. SubSeq(attrs, 1, 0) = <<>>
    BY SubSeqEmpty
  <2>2. Len(f[0]) = 0 /\ 0 \in 0 .. n
    BY <1>1, <1>3
  <2>3. w[0] = [p |-> Len(before) + Len(f[0]) + 1, attrs |-> SubSeq(attrs, 1, 0)]
    BY <2>2, Zenon
  <2>4. Len(before) + Len(f[0]) + 1 = Len(before) + 1
    BY <1>1, <2>2
  <2> QED BY <2>1, <2>3, <2>4, Zenon
<1> HIDE DEF next
<1>7. \A i \in 0 .. n : w[i] = One(w, i)
  <2> SUFFICES ASSUME NEW i \in 0 .. n PROVE w[i] = One(w, i)
    OBVIOUS
  <2> HIDE DEF w
  <2>1. CASE i = 0
    BY <1>6, <2>1, Zenon
  <2>2. CASE i # 0
    <3>1. i \in 1 .. n
      BY <1>1, <2>2
    <3> QED BY <1>5, <2>2, <3>1, Zenon
  <2> QED BY <2>1, <2>2
<1>8. w = [i \in 0 .. n |-> One(w, i)]
  <2> HIDE DEF One
  <2> QED BY <1>7
<1>9. read = [i \in 0 .. n |-> One(read, i)]
  <2> HIDE DEF One, w
  <2>1. \E g : g = [i \in 0 .. n |-> One(g, i)]
    BY <1>8, Zenon
  <2> QED BY <2>1, Zenon
<1> HIDE DEF read
<1>10. \A i \in 0 .. n : read[i] = One(read, i)
  <2> HIDE DEF One
  <2> QED BY <1>9, Zenon
<1> DEFINE Same == {i \in 0 .. n : read[i] = w[i]}
<1> HIDE DEF w
<1>11. 0 \in Same
  <2>1. 0 \in 0 .. n
    BY <1>1
  <2>2. read[0] = [p |-> Len(before) + 1, attrs |-> <<>>]
    BY <1>10, <2>1, Zenon
  <2> QED BY <1>6, <2>1, <2>2, Zenon
<1>12. ASSUME NEW i \in 1 .. n, i - 1 \in Same PROVE i \in Same
  <2>1. i \in 0 .. n /\ i # 0
    BY <1>1
  <2>2. read[i] = next(read[i - 1])
    BY <1>10, <2>1, Zenon
  <2>3. read[i - 1] = w[i - 1]
    BY <1>12
  <2>4. w[i] = next(w[i - 1])
    BY <1>5, Zenon
  <2> QED BY <2>1, <2>2, <2>3, <2>4, Zenon
<1> HIDE DEF Same
<1>13. read[n] = w[n]
  <2>1. \A i \in 0 .. n : i \in Same
    BY <1>1, <1>11, <1>12, UpTo
  <2>2. n \in 0 .. n
    BY <1>1
  <2> QED BY <2>1, <2>2, Zenon DEF Same
<1>14. w[n] = [p |-> Len(before) + Len(f[n]) + 1, attrs |-> attrs]
  <2>1. SubSeq(attrs, 1, n) = attrs
    BY <1>1, SubSeqFull
  <2>2. n \in 0 .. n
    BY <1>1
  <2>3. w[n] = [p |-> Len(before) + Len(f[n]) + 1, attrs |-> SubSeq(attrs, 1, n)]
    BY <2>2, Zenon DEF w
  <2> QED BY <2>1, <2>3, Zenon
<1> QED BY <1>4, <1>13, <1>14, Zenon DEF AllRead

-----------------------------------------------------------------------------
(* The bytes of a message.                                                 *)

Payloads(m) == (m.head \o <<Byte(m.object, 6, m.count)>>) \o AttributeBytes(m)

LEMMA MessageType ==
  ASSUME NEW m, WellFormed(m)
  PROVE  /\ m.kind \in Kinds /\ m.kind \in KindFields
         /\ m.dup \in {0, 1} /\ m.code \in 0 .. 63 /\ m.fixed \in Seq(Octet)
         /\ m.head \in Seq(Octet) /\ m.object \in 0 .. 63 /\ m.count \in 0 .. 3
         /\ m = [kind |-> m.kind, dup |-> m.dup, code |-> m.code, fixed |-> m.fixed,
                 head |-> m.head, object |-> m.object, count |-> m.count, attrs |-> m.attrs]
         /\ m.kind.ack \in {0, 1} /\ m.kind.id \in 0 .. 31 /\ m.kind.qos \in {0, 1}
         /\ m.kind.head \in {0, 1}
         /\ m.kind.attributes = "none" => m.head = <<>> /\ m.kind.head = 0
<1>1. m \in Fields
  BY DEF WellFormed
<1>2. /\ m.kind \in Kinds /\ m.dup \in {0, 1} /\ m.code \in 0 .. 63 /\ m.fixed \in Seq(Octet)
      /\ m.head \in Seq(Octet) /\ m.object \in 0 .. 63 /\ m.count \in 0 .. 3
      /\ m = [kind |-> m.kind, dup |-> m.dup, code |-> m.code, fixed |-> m.fixed,
              head |-> m.head, object |-> m.object, count |-> m.count, attrs |-> m.attrs]
  BY <1>1 DEF Fields
<1>3. m.kind \in KindFields /\ (m.kind.attributes = "none" => m.kind.head = 0)
  BY <1>2, KindType
<1>4. m.kind.ack \in {0, 1} /\ m.kind.id \in 0 .. 31 /\ m.kind.qos \in {0, 1} /\ m.kind.head \in {0, 1}
  BY <1>3 DEF KindFields
<1>5. ASSUME m.kind.attributes = "none" PROVE m.head = <<>>
  <2>1. Len(m.head) = 0
    BY <1>3, <1>5 DEF WellFormed
  <2> QED BY <1>2, <2>1, EmptySeq
<1> QED BY <1>2, <1>3, <1>4, <1>5, Zenon

\* The attributes that are sent are all there are.
LEMMA AllAttrsSent ==
  ASSUME NEW m, WellFormed(m), m.kind.attributes # "none"
  PROVE  /\ SentAttrs(m) = m.attrs
         /\ AttrsFit(m.attrs, m.kind.attributes)
         /\ RealAttrCount(m.count) = Len(m.attrs)
         /\ \E f \in [0 .. Len(m.attrs) -> Seq(Octet)] :
               /\ FlattensAs(Pieces(m.attrs, m.kind.attributes), f)
               /\ AttributeBytes(m) = f[Len(m.attrs)]
               /\ AttributesSize(m) = Len(f[Len(m.attrs)])
<1> DEFINE attrs == m.attrs
           attributes == m.kind.attributes
<1>1. /\ attrs \in Seq(AttrFields) /\ Len(attrs) = RealAttrCount(m.count)
      /\ \A i \in 1 .. Len(attrs) : Len(attrs[i].values) = SentLength(attrs[i], attributes)
  BY DEF WellFormed, Fields
<1>2. AttrsFit(attrs, attributes)
  BY <1>1, Zenon DEF AttrsFit
<1>3. SentAttrs(m) = attrs
  <2>1. SubSeq(attrs, 1, Len(attrs)) = attrs
    BY <1>1, SubSeqFull
  <2> QED BY <1>1, <2>1, Zenon DEF SentAttrs
<1>4. Pieces(attrs, attributes) \in Seq(Seq(Octet)) /\ Len(Pieces(attrs, attributes)) = Len(attrs)
  BY <1>2, PiecesType
<1>5. PICK f \in [0 .. Len(attrs) -> Seq(Octet)] : FlattensAs(Pieces(attrs, attributes), f)
  <2>1. \E f \in [0 .. Len(Pieces(attrs, attributes)) -> Seq(Octet)] :
           FlattensAs(Pieces(attrs, attributes), f)
    BY <1>4, FlattenExists, Zenon
  <2> QED BY <1>4, <2>1, Zenon
<1>6. AttributeBytes(m) = f[Len(attrs)]
  <2>1. AttributeBytes(m) = FlattenSeq(Pieces(attrs, attributes))
    BY <1>3, Zenon DEF AttributeBytes, Pieces
  <2>2. FlattenSeq(Pieces(attrs, attributes)) = f[Len(attrs)]
    BY <1>4, <1>5, FlattenIs
  <2> QED BY <2>1, <2>2, Zenon
<1>7. AttributesSize(m) = Len(f[Len(attrs)])
  <2>1. AttributesSize(m) = Len(attrs) + (IF attributes = "values" THEN ValuesSize(attrs) ELSE 0)
    BY <1>3, Zenon DEF AttributesSize
  <2> QED BY <1>2, <1>5, <2>1, SizeOfPieces, Zenon
<1> QED BY <1>1, <1>2, <1>3, <1>5, <1>6, <1>7, Zenon

LEMMA HeaderIs ==
  ASSUME NEW m, WellFormed(m)
  PROVE  /\ HeaderBytes(m) \in Seq(Octet) /\ Len(HeaderBytes(m)) = 1 + m.kind.ack
         /\ HeaderBytes(m)[1] = HeaderByte(m.kind, m.dup)
         /\ m.kind.ack = 1 => HeaderBytes(m)[2] = Byte(0, 2, m.code)
<1> DEFINE h == HeaderByte(m.kind, m.dup)
           c == Byte(0, 2, m.code)
<1>1. h \in Octet /\ c \in Octet /\ m.kind.ack \in {0, 1}
  <2>1. /\ m.kind.ack \in {0, 1} /\ m.kind.id \in 0 .. 31 /\ m.kind.qos \in {0, 1}
        /\ m.dup \in {0, 1} /\ m.code \in 0 .. 63
    BY MessageType
  <2> QED BY <2>1, HeaderFields, CodeByte
<1>2. HeaderBytes(m) = <<h>> \o (IF m.kind.ack = 1 THEN <<c>> ELSE <<>>)
  BY Zenon DEF HeaderBytes
<1> HIDE DEF h, c
<1>3. CASE m.kind.ack = 1
  <2> DEFINE first == <<h>>
             second == <<c>>
  <2>1. /\ first \in Seq(Octet) /\ Len(first) = 1 /\ first[1] = h
        /\ second \in Seq(Octet) /\ Len(second) = 1 /\ second[1] = c
    BY <1>1
  <2>2. HeaderBytes(m) = first \o second
    BY <1>2, <1>3, Zenon
  <2> HIDE DEF first, second
  <2>3. /\ first \o second \in Seq(Octet) /\ Len(first \o second) = 2
        /\ (first \o second)[1] = h /\ (first \o second)[2] = c
    BY <2>1, ConcatProperties
  <2>4. 2 = 1 + m.kind.ack
    BY <1>3
  <2> QED BY <2>2, <2>3, <2>4, Zenon DEF h, c
<1>4. CASE m.kind.ack = 0
  <2>1. <<h>> \o <<>> = <<h>> /\ m.kind.ack # 1
    BY <1>1, <1>4
  <2>2. HeaderBytes(m) = <<h>>
    BY <1>2, <2>1, Zenon
  <2>3. <<h>> \in Seq(Octet) /\ Len(<<h>>) = 1 + m.kind.ack /\ <<h>>[1] = h
    BY <1>1, <1>4
  <2> QED BY <2>1, <2>2, <2>3, Zenon DEF h
<1> QED BY <1>1, <1>3, <1>4

LEMMA PayloadsType ==
  ASSUME NEW m, WellFormed(m), m.kind.attributes # "none"
  PROVE  /\ <<Byte(m.object, 6, m.count)>> \in Seq(Octet) /\ AttributeBytes(m) \in Seq(Octet)
         /\ Payloads(m) \in Seq(Octet)
         /\ Len(Payloads(m)) = Len(m.head) + 1 + AttributesSize(m)
<1> DEFINE o == <<Byte(m.object, 6, m.count)>>
           a == AttributeBytes(m)
<1>1. o \in Seq(Octet) /\ Len(o) = 1
  <2>1. Byte(m.object, 6, m.count) \in Octet
    BY MessageType, TwoFields
  <2> QED BY <2>1
<1>2. a \in Seq(Octet) /\ Len(a) = AttributesSize(m)
  <2>1. PICK f \in [0 .. Len(m.attrs) -> Seq(Octet)] :
           a = f[Len(m.attrs)] /\ AttributesSize(m) = Len(f[Len(m.attrs)])
    BY AllAttrsSent, Zenon
  <2>2. Len(m.attrs) \in 0 .. Len(m.attrs)
    BY AllAttrsSent, PiecesType
  <2>3. f[Len(m.attrs)] \in Seq(Octet)
    BY <2>2
  <2> QED BY <2>1, <2>3, Zenon
<1>3. m.head \in Seq(Octet)
  BY MessageType
<1> HIDE DEF o, a
<1>4. m.head \o o \in Seq(Octet) /\ Len(m.head \o o) = Len(m.head) + 1
  BY <1>1, <1>3, ConcatProperties
<1>5. (m.head \o o) \o a \in Seq(Octet) /\ Len((m.head \o o) \o a) = Len(m.head) + 1 + Len(a)
  <2> DEFINE c == m.head \o o
  <2>1. c \in Seq(Octet) /\ Len(c) = Len(m.head) + 1
    BY <1>4, Zenon
  <2> HIDE DEF c
  <2>2. c \o a \in Seq(Octet) /\ Len(c \o a) = Len(c) + Len(a)
    BY <1>2, <2>1, ConcatProperties
  <2> QED BY <2>1, <2>2, Zenon DEF c
<1>6. Payloads(m) = (m.head \o o) \o a
  BY Zenon DEF Payloads, o, a
<1>7. /\ o \in Seq(Octet) /\ a \in Seq(Octet) /\ Payloads(m) \in Seq(Octet)
      /\ Len(Payloads(m)) = Len(m.head) + 1 + AttributesSize(m)
  BY <1>1, <1>2, <1>5, <1>6, Zenon
<1> QED BY <1>7, Zenon DEF o, a

\* What the serializing functions report is the length of what they write.
LEMMA SizeIsLength ==
  ASSUME NEW m, WellFormed(m)
  PROVE  Packed(m) \in Seq(Octet) /\ Size(m) = Len(Packed(m))
<1> DEFINE h == HeaderBytes(m)
           rest == IF m.kind.attributes = "none" THEN <<>> ELSE Payloads(m)
           more == IF m.kind.attributes = "none" THEN 0 ELSE Len(m.head) + 1 + AttributesSize(m)
<1>1. h \in Seq(Octet) /\ Len(h) = 1 + m.kind.ack
  BY HeaderIs
<1>2. m.fixed \in Seq(Octet)
  BY MessageType
<1>3. rest \in Seq(Octet) /\ Len(rest) = more
  <2>1. <<>> \in Seq(Octet) /\ Len(<<>>) = 0
    OBVIOUS
  <2>2. CASE m.kind.attributes = "none"
    <3>1. rest = <<>> /\ more = 0
      BY <2>2, Zenon
    <3> HIDE DEF rest, more
    <3> QED BY <2>1, <3>1
  <2>3. CASE m.kind.attributes # "none"
    BY <2>3, PayloadsType, Zenon
  <2> QED BY <2>2, <2>3
<1>4. Packed(m) = (h \o m.fixed) \o rest
  BY Zenon DEF Packed, Payloads
<1>5. Size(m) = 1 + m.kind.ack + Len(m.fixed) + more
  BY Zenon DEF Size
<1> HIDE DEF h, rest, more
<1>6. h \o m.fixed \in Seq(Octet) /\ Len(h \o m.fixed) = 1 + m.kind.ack + Len(m.fixed)
  BY <1>1, <1>2, ConcatProperties
<1>7. /\ (h \o m.fixed) \o rest \in Seq(Octet)
      /\ Len((h \o m.fixed) \o rest) = Len(h \o m.fixed) + Len(rest)
  BY <1>3, <1>6, ConcatProperties
<1> QED BY <1>3, <1>4, <1>5, <1>6, <1>7, Zenon

-----------------------------------------------------------------------------
(* Reading a message back.                                                 *)

\* What is in front of the payload, whatever follows.
LEMMA ReadsHeader ==
  ASSUME NEW m, WellFormed(m), NEW rest \in Seq(Octet), NEW bytes,
         bytes = (HeaderBytes(m) \o m.fixed) \o rest
  PROVE  /\ KindOf(bytes) = m.kind
         /\ Low(High(bytes[1], 6), 1) = m.dup
         /\ (IF m.kind.ack = 1 THEN High(bytes[2], 2) ELSE 0) = m.code
         /\ SubSeq(bytes, 2 + m.kind.ack, (2 + m.kind.ack + Len(m.kind.fixed)) - 1) = m.fixed
<1> DEFINE h == HeaderBytes(m)
           fx == m.fixed
           k == m.kind
           ack == k.ack
<1>1. /\ ack \in {0, 1} /\ k.id \in 0 .. 31 /\ k.qos \in {0, 1} /\ m.dup \in {0, 1}
      /\ k \in Kinds /\ fx \in Seq(Octet) /\ m.code \in 0 .. 63
  BY MessageType
<1>2. /\ h \in Seq(Octet) /\ Len(h) = 1 + ack /\ h[1] = HeaderByte(k, m.dup)
      /\ ack = 1 => h[2] = Byte(0, 2, m.code)
  BY HeaderIs
<1>3. Len(fx) = Len(k.fixed) /\ (ack = 0 => m.code = 0)
  BY DEF WellFormed
<1>4. Len(fx) \in Nat
  BY <1>1, LenProperties
<1>5. bytes = (h \o fx) \o rest
  OBVIOUS
<1>6. \A i \in 1 .. Len(h) : bytes[i] = h[i]
  <2> HIDE DEF h, fx
  <2>1. h \o fx \in Seq(Octet) /\ Len(h \o fx) = Len(h) + Len(fx) /\ Len(h) \in Nat /\ Len(rest) \in Nat
    BY <1>1, <1>2, ConcatProperties, LenProperties
  <2> DEFINE hf == h \o fx
  <2>2. \A i \in 1 .. Len(h) : hf[i] = h[i]
    BY <1>1, <1>2, <1>4, <2>1, ConcatProperties
  <2>3. \A i \in 1 .. Len(h) : (hf \o rest)[i] = hf[i]
    <3>1. hf \in Seq(Octet) /\ Len(hf) = Len(h) + Len(fx)
      BY <2>1
    <3> HIDE DEF hf
    <3> QED BY <1>4, <2>1, <3>1, ConcatProperties
  <2> QED BY <1>5, <2>2, <2>3, Zenon
<1>7. bytes[1] = HeaderByte(k, m.dup)
  <2>1. 1 \in 1 .. Len(h)
    BY <1>1, <1>2
  <2> QED BY <1>2, <1>6, <2>1, Zenon
<1>8. /\ Low(bytes[1], 1) = ack /\ Low(High(bytes[1], 1), 5) = k.id
      /\ Low(High(bytes[1], 6), 1) = m.dup
  <2>1. /\ Low(HeaderByte(k, m.dup), 1) = k.ack
        /\ Low(High(HeaderByte(k, m.dup), 1), 5) = k.id
        /\ Low(High(HeaderByte(k, m.dup), 6), 1) = m.dup
    BY <1>1, HeaderFields
  <2> QED BY <1>7, <2>1, Zenon
<1>9. KindOf(bytes) = k
  <2> DEFINE P(kind) == kind.ack = Low(bytes[1], 1) /\ kind.id = Low(High(bytes[1], 1), 5)
             chosen == CHOOSE kind \in Kinds : P(kind)
  <2>1. P(k)
    BY <1>8, Zenon
  <2>2. chosen \in Kinds /\ P(chosen)
    <3> HIDE DEF P
    <3> QED BY <1>1, <2>1, Zenon
  <2>3. KindOf(bytes) = chosen
    BY Zenon DEF KindOf
  <2> HIDE DEF chosen
  <2>4. chosen.ack = k.ack /\ chosen.id = k.id
    BY <2>1, <2>2, Zenon
  <2>5. chosen = k
    BY <1>1, <2>2, <2>4, KindsDiffer, Zenon
  <2> QED BY <2>3, <2>5, Zenon
<1>10. (IF ack = 1 THEN High(bytes[2], 2) ELSE 0) = m.code
  <2>1. CASE ack = 1
    <3>1. 2 \in 1 .. Len(h)
      BY <1>2, <2>1
    <3>2. bytes[2] = Byte(0, 2, m.code)
      BY <1>2, <1>6, <2>1, <3>1, Zenon
    <3>3. High(Byte(0, 2, m.code), 2) = m.code
      BY <1>1, CodeByte
    <3> QED BY <2>1, <3>2, <3>3, Zenon
  <2>2. CASE ack = 0
    <3>1. ack # 1
      BY <2>2
    <3> QED BY <1>3, <2>2, <3>1, Zenon
  <2> QED BY <1>1, <2>1, <2>2
<1>11. SubSeq(bytes, 2 + ack, (2 + ack + Len(k.fixed)) - 1) = fx
  <2>1. SubSeq((h \o fx) \o rest, Len(h) + 1, Len(h) + Len(fx)) = fx
    <3> HIDE DEF h, fx
    <3>1. CutsOut(h, fx, rest)
      BY <1>1, <1>2, OctetsCutOut, Zenon
    <3> QED BY <3>1, Zenon DEF CutsOut
  <2> DEFINE x == ack
             y == Len(fx)
  <2>2. x \in {0, 1} /\ y \in Nat /\ Len(h) = 1 + x /\ Len(k.fixed) = y
    BY <1>1, <1>2, <1>3, <1>4, Zenon
  <2> HIDE DEF x, y
  <2>3. (1 + x) + 1 = 2 + x /\ (1 + x) + y = (2 + x + y) - 1
    BY <2>2
  <2>4. Len(h) + 1 = 2 + ack /\ Len(h) + Len(fx) = (2 + ack + Len(k.fixed)) - 1
    BY <2>2, <2>3, Zenon DEF x, y
  <2> QED BY <1>5, <2>1, <2>4, Zenon
<1> QED BY <1>8, <1>9, <1>10, <1>11, Zenon

LEMMA OctetAt ==
  ASSUME NEW before \in Seq(Octet), NEW one \in Seq(Octet), Len(one) = 1, NEW after \in Seq(Octet)
  PROVE  ((before \o one) \o after)[Len(before) + 1] = one[1]
<1>1. \A i \in 1 .. Len(one) : ((before \o one) \o after)[Len(before) + i] = one[i]
  BY Slice, ZenonT(60)
<1>2. 1 \in 1 .. Len(one)
  OBVIOUS
<1> QED BY <1>1, <1>2, Zenon

\* The payload, wherever it starts.
LEMMA ReadsPayload ==
  ASSUME NEW m, WellFormed(m), m.kind.attributes # "none",
         NEW start \in Seq(Octet), NEW bytes, bytes = start \o Payloads(m),
         NEW obj, obj = Len(start) + 1 + m.kind.head
  PROVE  /\ SubSeq(bytes, Len(start) + 1, obj - 1) = m.head
         /\ Low(bytes[obj], 6) = m.object /\ High(bytes[obj], 6) = m.count
         /\ ParsedAttributes(bytes, obj + 1, m.count, m.kind.attributes)
               = [p |-> Len(bytes) + 1, attrs |-> m.attrs]
<1> DEFINE hd == m.head
           b == Byte(m.object, 6, m.count)
           o == <<b>>
           a == AttributeBytes(m)
           sh == start \o hd
           before == sh \o o
<1>1. hd \in Seq(Octet) /\ o \in Seq(Octet) /\ a \in Seq(Octet) /\ Len(hd) = m.kind.head
  <2>1. hd \in Seq(Octet)
    BY MessageType
  <2>2. Len(hd) = m.kind.head
    BY DEF WellFormed
  <2> QED BY <2>1, <2>2, PayloadsType, Zenon
<1>2. Low(b, 6) = m.object /\ High(b, 6) = m.count /\ Len(o) = 1 /\ o[1] = b
  BY MessageType, TwoFields
<1>3. bytes = start \o ((hd \o o) \o a)
  BY Zenon DEF Payloads
<1>4. Len(start) \in Nat /\ Len(hd) \in Nat
  BY <1>1, LenProperties
<1> HIDE DEF hd, o, a, b
<1>5. sh \in Seq(Octet) /\ Len(sh) = Len(start) + Len(hd)
  BY <1>1, ConcatProperties
<1>6. hd \o o \in Seq(Octet) /\ o \o a \in Seq(Octet)
  BY <1>1, ConcatProperties
<1>7. Regroups(start, hd \o o, a) /\ Regroups(start, hd, o)
  BY <1>1, <1>6, Regrouped, Zenon
<1> HIDE DEF sh
<1>8. Regroups(sh, o, a)
  BY <1>1, <1>5, Regrouped, Zenon
<1>9. bytes = before \o a
  BY <1>3, <1>7, Zenon DEF Regroups, sh
<1>10. bytes = sh \o (o \o a)
  BY <1>8, <1>9, Zenon DEF Regroups
<1>11. before \in Seq(Octet) /\ Len(before) = Len(sh) + 1
  <2>1. sh \o o \in Seq(Octet) /\ Len(sh \o o) = Len(sh) + Len(o)
    BY <1>1, <1>5, ConcatProperties
  <2> QED BY <1>2, <2>1, Zenon
<1> HIDE DEF before
<1>12. obj = Len(sh) + 1 /\ obj = Len(before) /\ obj - 1 = Len(start) + Len(hd)
  <2> DEFINE x == Len(start)
             y == Len(hd)
  <2>1. Len(sh) = x + y /\ Len(before) = x + y + 1 /\ obj = x + 1 + y
    BY <1>1, <1>5, <1>11, Zenon
  <2>2. x \in Nat /\ y \in Nat
    BY <1>4
  <2> HIDE DEF x, y
  <2>3. x + 1 + y = x + y + 1 /\ (x + 1 + y) - 1 = x + y
    BY <2>2
  <2> QED BY <2>1, <2>3, Zenon DEF x, y
<1>13. SubSeq(bytes, Len(start) + 1, obj - 1) = hd
  <2>1. SubSeq((start \o hd) \o (o \o a), Len(start) + 1, Len(start) + Len(hd)) = hd
    <3> DEFINE rest == o \o a
    <3>1. rest \in Seq(Octet)
      BY <1>6
    <3> HIDE DEF rest
    <3>2. SubSeq((start \o hd) \o rest, Len(start) + 1, Len(start) + Len(hd)) = hd
      <4>1. CutsOut(start, hd, rest)
        BY <1>1, <3>1, OctetsCutOut, Zenon
      <4> QED BY <4>1, Zenon DEF CutsOut
    <3> QED BY <3>2, Zenon DEF rest
  <2> QED BY <1>10, <1>12, <2>1, Zenon DEF sh
<1>14. bytes[obj] = b
  <2>1. ((sh \o o) \o a)[Len(sh) + 1] = o[1]
    BY <1>1, <1>2, <1>5, OctetAt, Zenon
  <2> QED BY <1>2, <1>9, <1>12, <2>1, Zenon DEF before
<1>15. ParsedAttributes(bytes, obj + 1, m.count, m.kind.attributes)
          = [p |-> Len(bytes) + 1, attrs |-> m.attrs]
  <2> DEFINE attrs == m.attrs
             n == Len(attrs)
             attributes == m.kind.attributes
  <2>1. PICK f \in [0 .. n -> Seq(Octet)] : FlattensAs(Pieces(attrs, attributes), f) /\ a = f[n]
    BY AllAttrsSent, Zenon DEF a
  <2>2. AttrsFit(attrs, attributes) /\ RealAttrCount(m.count) = n
    BY AllAttrsSent, Zenon
  <2>3. bytes = before \o f[n]
    BY <1>9, <2>1, Zenon
  <2>4. ParsedAttributes(bytes, Len(before) + 1, m.count, attributes)
           = [p |-> Len(before) + Len(f[n]) + 1, attrs |-> attrs]
    <3> DEFINE count == m.count
    <3>1. /\ AttrsFit(attrs, attributes) /\ f \in [0 .. Len(attrs) -> Seq(Octet)]
          /\ FlattensAs(Pieces(attrs, attributes), f) /\ before \in Seq(Octet)
          /\ bytes = before \o f[Len(attrs)] /\ RealAttrCount(count) = Len(attrs)
      BY <1>11, <2>1, <2>2, <2>3, Zenon
    <3> HIDE DEF attrs, attributes, count
    <3>2. ParsedAttributes(bytes, Len(before) + 1, count, attributes)
             = [p |-> Len(before) + Len(f[Len(attrs)]) + 1, attrs |-> attrs]
      <4>1. AllRead(bytes, before, count, attributes, attrs, f)
        BY <3>1, ReadsAll, Zenon
      <4> QED BY <4>1, Zenon DEF AllRead
    <3> QED BY <3>2, Zenon DEF count
  <2>5. Len(bytes) = Len(before) + Len(a)
    <3>1. Len(before \o a) = Len(before) + Len(a)
      BY <1>1, <1>11, ConcatProperties
    <3> QED BY <1>9, <3>1, Zenon
  <2> QED BY <1>12, <2>1, <2>4, <2>5, Zenon
<1>16. Low(bytes[obj], 6) = m.object /\ High(bytes[obj], 6) = m.count
  BY <1>2, <1>14, Zenon
<1> QED BY <1>13, <1>15, <1>16, Zenon DEF hd

\* Whatever is serialized is read back, to its last byte.
LEMMA ReadsBack ==
  ASSUME NEW m, WellFormed(m)
  PROVE  /\ Parsed(Packed(m)).msg = m
         /\ Parsed(Packed(m)).p = Len(Packed(m)) + 1
<1> DEFINE bytes == Packed(m)
           k == m.kind
           hf == HeaderBytes(m) \o m.fixed
           rest == IF k.attributes = "none" THEN <<>> ELSE Payloads(m)
           first == 2 + k.ack
           body == first + Len(k.fixed)
           obj == body + k.head
           code == IF k.ack = 1 THEN High(bytes[2], 2) ELSE 0
<1>1. bytes = hf \o rest
  BY Zenon DEF Packed, Payloads
<1>2. rest \in Seq(Octet)
  <2>1. <<>> \in Seq(Octet)
    OBVIOUS
  <2>2. CASE k.attributes = "none"
    <3>1. rest = <<>>
      BY <2>2, Zenon
    <3> QED BY <2>1, <3>1, Zenon
  <2>3. CASE k.attributes # "none"
    <3>1. rest = Payloads(m)
      BY <2>3, Zenon
    <3> QED BY <2>3, <3>1, PayloadsType, Zenon
  <2> QED BY <2>2, <2>3
<1>3. /\ k.ack \in {0, 1} /\ k.head \in {0, 1} /\ m.fixed \in Seq(Octet)
      /\ Len(m.fixed) = Len(k.fixed)
  <2>1. Len(m.fixed) = Len(k.fixed)
    BY DEF WellFormed
  <2> QED BY <2>1, MessageType
<1>4. hf \in Seq(Octet) /\ Len(hf) = body - 1 /\ body \in Nat
  <2> DEFINE h == HeaderBytes(m)
             fx == m.fixed
  <2>1. h \in Seq(Octet) /\ Len(h) = 1 + k.ack
    BY HeaderIs
  <2>2. Len(fx) \in Nat
    BY <1>3, LenProperties
  <2>3. h \o fx \in Seq(Octet) /\ Len(h \o fx) = Len(h) + Len(fx)
    BY <1>3, <2>1, ConcatProperties
  <2> QED BY <1>3, <2>1, <2>2, <2>3
<1>5. /\ KindOf(bytes) = k /\ Low(High(bytes[1], 6), 1) = m.dup /\ code = m.code
      /\ SubSeq(bytes, first, body - 1) = m.fixed
  <2> HIDE DEF rest, bytes
  <2>1. /\ KindOf(bytes) = m.kind
        /\ Low(High(bytes[1], 6), 1) = m.dup
        /\ (IF m.kind.ack = 1 THEN High(bytes[2], 2) ELSE 0) = m.code
        /\ SubSeq(bytes, 2 + m.kind.ack, (2 + m.kind.ack + Len(m.kind.fixed)) - 1) = m.fixed
    BY <1>1, <1>2, ReadsHeader, Zenon
  <2>2. code = m.code
    BY <2>1, Zenon
  <2>3. SubSeq(bytes, first, body - 1) = m.fixed
    BY <2>1, Zenon
  <2> HIDE DEF code, first, body
  <2> QED BY <2>1, <2>2, <2>3, Zenon
<1>6. m = [kind |-> m.kind, dup |-> m.dup, code |-> m.code, fixed |-> m.fixed,
           head |-> m.head, object |-> m.object, count |-> m.count, attrs |-> m.attrs]
  BY MessageType, Zenon
<1>7. CASE k.attributes = "none"
  <2>1. m.head = <<>> /\ m.object = 0 /\ m.count = 0 /\ m.attrs = <<>>
    BY <1>7, MessageType, Zenon DEF WellFormed
  <2>2. Parsed(bytes) =
          [p |-> body,
           msg |-> [kind |-> k, dup |-> Low(High(bytes[1], 6), 1), code |-> code,
                    fixed |-> SubSeq(bytes, first, body - 1),
                    head |-> <<>>, object |-> 0, count |-> 0, attrs |-> <<>>]]
    <3> HIDE DEF bytes
    <3> QED BY <1>5, <1>7, Zenon DEF Parsed
  <2>3. Parsed(bytes).p = body
    BY <2>2
  <2>4. Parsed(bytes).msg = m
    <3>1. Parsed(bytes).msg =
            [kind |-> k, dup |-> Low(High(bytes[1], 6), 1), code |-> code,
             fixed |-> SubSeq(bytes, first, body - 1),
             head |-> <<>>, object |-> 0, count |-> 0, attrs |-> <<>>]
      BY <2>2
    <3> HIDE DEF bytes, code
    <3> QED BY <1>5, <1>6, <2>1, <3>1, Zenon
  <2>5. Len(bytes) = body - 1
    <3>1. rest = <<>>
      BY <1>7, Zenon
    <3> HIDE DEF hf, rest
    <3>2. hf \o <<>> = hf
      BY <1>4, ConcatEmptySeq
    <3> QED BY <1>1, <1>4, <3>1, <3>2, Zenon
  <2> HIDE DEF bytes, body
  <2>6. Len(bytes) + 1 = body
    BY <1>4, <2>5
  <2> QED BY <2>3, <2>4, <2>6, Zenon DEF bytes
<1>8. CASE k.attributes # "none"
  <2>1. bytes = hf \o Payloads(m)
    <3>1. rest = Payloads(m)
      BY <1>8, Zenon
    <3> QED BY <1>1, <3>1, Zenon
  <2>2. obj = Len(hf) + 1 + k.head /\ Len(hf) + 1 = body
    <3> HIDE DEF hf, body
    <3> QED BY <1>3, <1>4
  <2>3. /\ SubSeq(bytes, body, obj - 1) = m.head
        /\ Low(bytes[obj], 6) = m.object /\ High(bytes[obj], 6) = m.count
        /\ ParsedAttributes(bytes, obj + 1, m.count, k.attributes)
              = [p |-> Len(bytes) + 1, attrs |-> m.attrs]
    <3> HIDE DEF bytes, hf, obj, body
    <3>1. /\ SubSeq(bytes, Len(hf) + 1, obj - 1) = m.head
          /\ Low(bytes[obj], 6) = m.object /\ High(bytes[obj], 6) = m.count
          /\ ParsedAttributes(bytes, obj + 1, m.count, m.kind.attributes)
                = [p |-> Len(bytes) + 1, attrs |-> m.attrs]
      <4>1. m.kind.attributes # "none" /\ obj = Len(hf) + 1 + m.kind.head
        BY <1>8, <2>2, Zenon
      <4>2. hf \in Seq(Octet)
        BY <1>4, Zenon
      <4> QED BY <2>1, <4>1, <4>2, ReadsPayload, ZenonT(60)
    <3> QED BY <2>2, <3>1, Zenon
  <2> DEFINE attrs == ParsedAttributes(bytes, obj + 1, High(bytes[obj], 6), k.attributes)
  <2>4. Parsed(bytes) =
          [p |-> attrs.p,
           msg |-> [kind |-> k, dup |-> Low(High(bytes[1], 6), 1), code |-> code,
                    fixed |-> SubSeq(bytes, first, body - 1),
                    head |-> SubSeq(bytes, body, obj - 1), object |-> Low(bytes[obj], 6),
                    count |-> High(bytes[obj], 6), attrs |-> attrs.attrs]]
    <3> HIDE DEF bytes
    <3> QED BY <1>5, <1>8, Zenon DEF Parsed
  <2>5. attrs = [p |-> Len(bytes) + 1, attrs |-> m.attrs]
    <3> HIDE DEF bytes, obj
    <3> QED BY <2>3, Zenon
  <2> HIDE DEF bytes, obj, body, attrs, code, first
  <2>6. attrs.p = Len(bytes) + 1 /\ attrs.attrs = m.attrs
    BY <2>5
  <2>7. Parsed(bytes).p = attrs.p
    BY <2>4
  <2>8. Parsed(bytes).msg =
           [kind |-> k, dup |-> Low(High(bytes[1], 6), 1), code |-> code,
            fixed |-> SubSeq(bytes, first, body - 1),
            head |-> SubSeq(bytes, body, obj - 1), object |-> Low(bytes[obj], 6),
            count |-> High(bytes[obj], 6), attrs |-> attrs.attrs]
    BY <2>4
  <2>9. Parsed(bytes).msg = m
    BY <1>5, <1>6, <2>3, <2>6, <2>8, Zenon
  <2> QED BY <2>6, <2>7, <2>9, Zenon DEF bytes
<1> QED BY <1>7, <1>8

-----------------------------------------------------------------------------
(* What is built is well formed.                                           *)

LEMMA FilledType ==
  ASSUME NEW kind \in Kinds, NEW byte \in FixedByte
  PROVE  Filled(kind, byte) \in Seq(Octet) /\ Len(Filled(kind, byte)) = Len(kind.fixed)
<1> DEFINE fx == kind.fixed
<1>1. fx \in Seq(Octet)
  BY KindType DEF KindFields
<1>2. byte \in Octet
  BY FixedByteAssumption DEF Octet
<1> HIDE DEF fx
<1>3. CASE fx = <<>>
  <2>1. Filled(kind, byte) = <<>>
    BY <1>3 DEF Filled, fx
  <2> QED BY <1>1, <1>3, <2>1, Zenon DEF fx
<1>4. CASE fx # <<>>
  <2>1. Filled(kind, byte) = [fx EXCEPT ![Len(fx)] = byte]
    BY <1>4, Zenon DEF Filled, fx
  <2>2. Len(fx) \in 1 .. Len(fx)
    BY <1>1, <1>4, EmptySeq
  <2>3. /\ [fx EXCEPT ![Len(fx)] = byte] \in Seq(Octet)
        /\ Len([fx EXCEPT ![Len(fx)] = byte]) = Len(fx)
    BY <1>1, <1>2, <2>2, ExceptSeq
  <2> QED BY <2>1, <2>3, Zenon DEF fx
<1> QED BY <1>3, <1>4

LEMMA BuiltWithoutPayload ==
  ASSUME NEW kind \in Kinds, NEW dup \in {0, 1}, NEW code \in 0 .. 63, kind.ack = 0 => code = 0,
         NEW fixed \in Seq(Octet), Len(fixed) = Len(kind.fixed), kind.attributes = "none"
  PROVE  WellFormed([Message(kind, dup, code, fixed, <<>>, 0, <<>>) EXCEPT !.count = 0])
<1> DEFINE m == [kind |-> kind, dup |-> dup, code |-> code, fixed |-> fixed, head |-> <<>>,
                 object |-> 0, count |-> 0, attrs |-> <<>>]
<1>1. [Message(kind, dup, code, fixed, <<>>, 0, <<>>) EXCEPT !.count = 0] = m
  BY DEF Message
<1>2. /\ m.kind = kind /\ m.code = code /\ m.fixed = fixed /\ m.head = <<>> /\ m.object = 0
      /\ m.count = 0 /\ m.attrs = <<>>
  OBVIOUS
<1>3. m \in Fields
  <2>1. <<>> \in Seq(Octet)
    OBVIOUS
  <2>2. <<>> \in Seq(AttrFields)
    OBVIOUS
  <2>3. 0 \in 0 .. 63 /\ 0 \in 0 .. 3
    OBVIOUS
  <2> QED BY <2>1, <2>2, <2>3, Zenon DEF Fields
<1>4. kind.head = 0 /\ Len(<<>>) = 0
  BY KindType
<1> HIDE DEF m
<1>5. WellFormed(m)
  BY <1>2, <1>3, <1>4, Zenon DEF WellFormed
<1> QED BY <1>1, <1>5, Zenon

LEMMA BuiltWithPayload ==
  ASSUME NEW kind \in Kinds, NEW dup \in {0, 1}, NEW code \in 0 .. 63, kind.ack = 0 => code = 0,
         NEW fixed \in Seq(Octet), Len(fixed) = Len(kind.fixed), kind.attributes # "none",
         NEW head \in Seq(Octet), Len(head) = kind.head, NEW object \in 0 .. 63,
         NEW attrs, AttrsFit(attrs, kind.attributes), Len(attrs) \in 1 .. 4
  PROVE  WellFormed(Message(kind, dup, code, fixed, head, object, attrs))
<1> DEFINE count == PackedAttrCount(Len(attrs))
           m == [kind |-> kind, dup |-> dup, code |-> code, fixed |-> fixed, head |-> head,
                 object |-> object, count |-> count, attrs |-> attrs]
<1>1. Message(kind, dup, code, fixed, head, object, attrs) = m
  BY Zenon DEF Message
<1>2. count \in 0 .. 3 /\ RealAttrCount(count) = Len(attrs)
  BY PackedCounts, Zenon
<1> HIDE DEF count
<1>3. /\ m.kind = kind /\ m.code = code /\ m.fixed = fixed /\ m.head = head
      /\ m.count = count /\ m.attrs = attrs
  OBVIOUS
<1>4. m \in Fields
  <2>1. attrs \in Seq(AttrFields)
    BY DEF AttrsFit
  <2> QED BY <1>2, <2>1, Zenon DEF Fields
<1> HIDE DEF m
<1>5. WellFormed(m)
  BY <1>2, <1>3, <1>4, Zenon DEF WellFormed, AttrsFit
<1> QED BY <1>1, <1>5, Zenon

LEMMA PayloadAttrs ==
  ASSUME NEW load \in Payload
  PROVE  /\ AttrsFit(load.attrs, "values")
         /\ \A attributes : attributes # "values" =>
              LET names == [i \in DOMAIN load.attrs |-> [load.attrs[i] EXCEPT !.values = <<>>]]
              IN  AttrsFit(names, attributes) /\ Len(names) = Len(load.attrs)
<1> DEFINE attrs == load.attrs
           n == Len(attrs)
           names == [i \in DOMAIN attrs |-> [attrs[i] EXCEPT !.values = <<>>]]
<1>1. attrs \in Seq(AttrFields) /\ n \in 1 .. 4
  BY PayloadAssumption DEF AttrFields, Octet
<1>2. ASSUME NEW i \in 1 .. n
      PROVE  /\ Len(attrs[i].values) \in {1, 2, 4, 8}
             /\ attrs[i] = Attribute(attrs[i].id, attrs[i].values)
  BY PayloadAssumption
<1> HIDE DEF attrs
<1>3. ASSUME NEW i \in 1 .. n PROVE Len(attrs[i].values) = RealValueLength(attrs[i].length)
  <2> DEFINE length == Len(attrs[i].values)
  <2>1. attrs[i].length = PackedValueLength(length)
    <3>1. Attribute(attrs[i].id, attrs[i].values).length = PackedValueLength(length)
      BY DEF Attribute
    <3> QED BY <1>2, <3>1, Zenon
  <2>2. length \in {1, 2, 4, 8}
    BY <1>2
  <2> HIDE DEF length
  <2>3. RealValueLength(PackedValueLength(length)) = length
    BY <2>2, PackedLengths
  <2> QED BY <2>1, <2>3, Zenon DEF length
<1>4. AttrsFit(attrs, "values")
  BY <1>1, <1>3, Zenon DEF AttrsFit, SentLength
<1>5. DOMAIN attrs = 1 .. n /\ \A i \in 1 .. n : attrs[i] \in AttrFields
  BY <1>1, ElementOfSeq, LenProperties
<1>6. ASSUME NEW i \in 1 .. n PROVE names[i] \in AttrFields /\ names[i].values = <<>>
  <2>1. names[i] = [attrs[i] EXCEPT !.values = <<>>]
    BY <1>5, Zenon
  <2>2. ASSUME NEW attr \in AttrFields
        PROVE  [attr EXCEPT !.values = <<>>] \in AttrFields /\ [attr EXCEPT !.values = <<>>].values = <<>>
    <3>1. <<>> \in Seq(Octet)
      OBVIOUS
    <3> QED BY <3>1 DEF AttrFields
  <2> QED BY <1>5, <2>1, <2>2, Zenon
<1>7. names \in Seq(AttrFields) /\ Len(names) = n
  <2>1. names \in [1 .. n -> AttrFields]
    <3>1. names = [i \in 1 .. n |-> names[i]]
      BY <1>5
    <3> HIDE DEF names
    <3> QED BY <1>6, <3>1
  <2>2. n \in Nat
    BY <1>1
  <2> HIDE DEF names, n
  <2> QED BY <2>1, <2>2, SeqDef
<1>8. ASSUME NEW attributes, attributes # "values" PROVE AttrsFit(names, attributes)
  <2>1. \A i \in 1 .. Len(names) : Len(names[i].values) = 0
    <3>1. Len(<<>>) = 0
      OBVIOUS
    <3> HIDE DEF names, n
    <3> QED BY <1>6, <1>7, <3>1, Zenon
  <2> HIDE DEF names
  <2> QED BY <1>7, <1>8, <2>1, Zenon DEF AttrsFit, SentLength
<1> QED BY <1>4, <1>7, <1>8, Zenon DEF attrs

LEMMA BuiltWellFormed ==
  ASSUME NEW kind \in Kinds, NEW dup \in {0, 1}, NEW code \in 0 .. 63, kind.ack = 0 => code = 0,
         NEW byte \in FixedByte, NEW load \in Payload
  PROVE  WellFormed(Built(kind, dup, code, byte, load))
<1> DEFINE fixed == Filled(kind, byte)
           head == IF kind.head = 1 THEN <<load.task>> ELSE <<>>
           names == [i \in DOMAIN load.attrs |-> [load.attrs[i] EXCEPT !.values = <<>>]]
           attrs == IF kind.attributes = "values" THEN load.attrs ELSE names
<1>1. fixed \in Seq(Octet) /\ Len(fixed) = Len(kind.fixed)
  BY FilledType
<1>2. CASE kind.attributes = "none"
  <2>1. Built(kind, dup, code, byte, load)
          = [Message(kind, dup, code, fixed, <<>>, 0, <<>>) EXCEPT !.count = 0]
    BY <1>2, Zenon DEF Built
  <2>2. WellFormed([Message(kind, dup, code, fixed, <<>>, 0, <<>>) EXCEPT !.count = 0])
    <3> HIDE DEF fixed
    <3> QED BY <1>1, <1>2, BuiltWithoutPayload, Zenon
  <2> QED BY <2>1, <2>2, Zenon
<1>3. CASE kind.attributes # "none"
  <2>1. head \in Seq(Octet) /\ Len(head) = kind.head
    <3>1. kind.head \in {0, 1}
      BY KindType DEF KindFields
    <3>2. load.task \in Octet
      BY PayloadAssumption DEF Octet
    <3>3. CASE kind.head = 1
      BY <3>2, <3>3
    <3>4. CASE kind.head = 0
      <4>1. head = <<>>
        BY <3>4
      <4>2. <<>> \in Seq(Octet) /\ Len(<<>>) = 0
        OBVIOUS
      <4> QED BY <3>4, <4>1, <4>2, Zenon
    <3> QED BY <3>1, <3>3, <3>4
  <2>2. load.object \in 0 .. 63 /\ Len(load.attrs) \in 1 .. 4
    BY PayloadAssumption
  <2>3. AttrsFit(attrs, kind.attributes) /\ Len(attrs) = Len(load.attrs)
    <3>1. CASE kind.attributes = "values"
      BY <3>1, PayloadAttrs, Zenon
    <3>2. CASE kind.attributes # "values"
      <4>1. attrs = names
        BY <3>2, Zenon
      <4>2. Len(names) = Len(load.attrs) /\ AttrsFit(names, kind.attributes)
        BY <3>2, PayloadAttrs, Zenon
      <4> HIDE DEF names, attrs
      <4> QED BY <4>1, <4>2, Zenon
    <3> QED BY <3>1, <3>2
  <2>4. Built(kind, dup, code, byte, load)
          = Message(kind, dup, code, fixed, head, load.object, attrs)
    BY <1>3, Zenon DEF Built
  <2>5. WellFormed(Message(kind, dup, code, fixed, head, load.object, attrs))
    <3> HIDE DEF fixed, head, attrs
    <3>1. Len(attrs) \in 1 .. 4
      BY <2>2, <2>3, Zenon
    <3> QED BY <1>1, <1>3, <2>1, <2>2, <2>3, <3>1, BuiltWithPayload, Zenon
  <2> QED BY <2>4, <2>5, Zenon
<1> QED BY <1>2, <1>3

-----------------------------------------------------------------------------
(* The exchange.                                                           *)

LEMMA CmInitInv == CmInit => CmInv
BY Zenon DEF CmInit, CmInv

LEMMA TransmitInv ==
  ASSUME NEW kind \in Kinds, NEW dup \in {0, 1}, NEW code \in 0 .. 63, kind.ack = 0 => code = 0,
         NEW byte \in FixedByte, NEW load \in Payload, Transmit(kind, dup, code, byte, load)
  PROVE  CmInv'
<1>1. /\ out' = Built(kind, dup, code, byte, load) /\ packet' = Packed(out')
      /\ size' = Size(out') /\ in' = None
  BY Zenon DEF Transmit
<1>2. WellFormed(out')
  <2>1. WellFormed(Built(kind, dup, code, byte, load))
    BY BuiltWellFormed, Zenon
  <2> QED BY <1>1, <2>1, Zenon
<1> QED BY <1>1, <1>2, Zenon DEF CmInv

LEMMA CmNextInv == CmInv /\ [CmNext]_cmVars => CmInv'
<1> SUFFICES ASSUME CmInv, [CmNext]_cmVars PROVE CmInv'
  OBVIOUS
<1>1. ASSUME NEW kind \in Kinds, NEW dup \in {0, 1}, NEW byte \in FixedByte, NEW load \in Payload,
             Ask(kind, dup, byte, load)
      PROVE  CmInv'
  <2>1. Transmit(kind, dup, 0, byte, load) /\ 0 \in 0 .. 63
    BY <1>1 DEF Ask
  <2> QED BY <2>1, TransmitInv, Zenon
<1>2. ASSUME NEW kind \in Kinds, NEW code \in {0, 4}, NEW byte \in FixedByte, NEW load \in Payload,
             Acknowledge(kind, code, byte, load)
      PROVE  CmInv'
  <2>1. Transmit(kind, 0, code, byte, load) /\ code \in 0 .. 63 /\ kind.ack # 0 /\ 0 \in {0, 1}
    BY <1>2 DEF Acknowledge
  <2> QED BY <2>1, TransmitInv, Zenon
<1>3. CASE Unpack
  <2>1. /\ packet # <<>> /\ lack' \in Lacks(Parsed(packet).msg)
        /\ in' = WithoutMemory(Parsed(packet).msg, lack')
        /\ lack' = Enough => used' = Parsed(packet).p - 1
        /\ packet' = <<>> /\ out' = out /\ size' = size
    BY <1>3, Zenon DEF Unpack
  <2>2. WellFormed(out) /\ packet = Packed(out) /\ size = Size(out)
    BY <2>1, Zenon DEF CmInv
  <2>3. Parsed(packet).msg = out /\ Parsed(packet).p = Len(packet) + 1
    BY <2>2, ReadsBack, Zenon
  <2>4. packet \in Seq(Octet) /\ size = Len(packet)
    BY <2>2, SizeIsLength, Zenon
  <2>5. (Len(packet) + 1) - 1 = Len(packet)
    <3>1. Len(packet) \in Nat
      BY <2>4, LenProperties
    <3> QED BY <3>1
  <2>6. /\ in' = WithoutMemory(out', lack') /\ lack' \in Lacks(out')
        /\ lack' = Enough => used' = size'
    BY <2>1, <2>3, <2>4, <2>5, Zenon
  <2>7. WellFormed(out')
    BY <2>1, <2>2, Zenon
  <2> QED BY <2>1, <2>6, <2>7, Zenon DEF CmInv
<1>4. CASE Finish
  <2>1. in # None /\ packet' = packet /\ in' = None
    BY <1>4, Zenon DEF Finish
  <2>2. packet = <<>>
    BY <2>1, Zenon DEF CmInv
  <2> QED BY <2>1, <2>2, Zenon DEF CmInv
<1>5. CASE UNCHANGED cmVars
  BY <1>5 DEF cmVars, CmInv
<1> QED BY <1>1, <1>2, <1>3, <1>4, <1>5, Zenon DEF CmNext

LEMMA CmInvAlways == CmSpec => []CmInv
BY CmInitInv, CmNextInv, PTL DEF CmSpec

\* What there was no memory for leaves the rest as it is.
LEMMA RestIsKept ==
  ASSUME NEW m, WellFormed(m), NEW left \in Lacks(m)
  PROVE  LET read == WithoutMemory(m, left)
         IN  /\ left = Enough => read = m
             /\ read.kind = m.kind /\ read.dup = m.dup /\ read.code = m.code /\ read.fixed = m.fixed
             /\ left.of = "values" => \A i \in 1 .. left.at - 1 : read.attrs[i] = m.attrs[i]
<1> DEFINE read == WithoutMemory(m, left)
<1>1. m = [kind |-> m.kind, dup |-> m.dup, code |-> m.code, fixed |-> m.fixed,
           head |-> m.head, object |-> m.object, count |-> m.count, attrs |-> m.attrs]
  BY MessageType, Zenon
<1>2. m.attrs \in Seq(AttrFields)
  BY DEF WellFormed, Fields
<1>3. \/ left = Enough \/ left = Lack("payload", 0) \/ left = Lack("attributes", 0)
      \/ \E i \in DOMAIN m.attrs : left = Lack("values", i)
  BY DEF Lacks
<1>4. CASE left = Enough
  <2>1. left.of = "nothing"
    BY <1>4 DEF Enough, Lack
  <2>2. read = m
    BY <2>1 DEF WithoutMemory
  <2> QED BY <2>1, <2>2, Zenon
<1>5. CASE left = Lack("payload", 0)
  <2>1. left.of = "payload" /\ left # Enough
    BY <1>5 DEF Enough, Lack
  <2>2. read = [m EXCEPT !.head = <<>>, !.object = 0, !.count = 0, !.attrs = <<>>]
    BY <2>1 DEF WithoutMemory
  <2>3. read.kind = m.kind /\ read.dup = m.dup /\ read.code = m.code /\ read.fixed = m.fixed
    BY <1>1, <2>2
  <2> QED BY <2>1, <2>3, Zenon
<1>6. CASE left = Lack("attributes", 0)
  <2>1. left.of = "attributes" /\ left # Enough
    BY <1>6 DEF Enough, Lack
  <2>2. read = [m EXCEPT !.attrs = <<>>]
    BY <2>1 DEF WithoutMemory
  <2>3. read.kind = m.kind /\ read.dup = m.dup /\ read.code = m.code /\ read.fixed = m.fixed
    BY <1>1, <2>2
  <2> QED BY <2>1, <2>3, Zenon
<1>7. ASSUME NEW at \in DOMAIN m.attrs, left = Lack("values", at)
      PROVE  /\ left = Enough => read = m
             /\ read.kind = m.kind /\ read.dup = m.dup /\ read.code = m.code /\ read.fixed = m.fixed
             /\ left.of = "values" => \A i \in 1 .. left.at - 1 : read.attrs[i] = m.attrs[i]
  <2> DEFINE attrs == [j \in DOMAIN m.attrs |->
                         IF j < left.at THEN m.attrs[j]
                         ELSE IF j = left.at THEN [m.attrs[j] EXCEPT !.values = <<>>] ELSE Misread]
  <2>1. left.of = "values" /\ left.at = at /\ left # Enough
    BY <1>7 DEF Enough, Lack
  <2>2. read = [m EXCEPT !.attrs = attrs]
    BY <2>1 DEF WithoutMemory
  <2>3. \A i \in 1 .. at - 1 : attrs[i] = m.attrs[i]
    <3>1. DOMAIN m.attrs = 1 .. Len(m.attrs) /\ Len(m.attrs) \in Nat
      BY <1>2
    <3>2. at \in 1 .. Len(m.attrs)
      BY <3>1
    <3> QED BY <2>1, <3>1, <3>2
  <2> HIDE DEF attrs
  <2>4. /\ read.kind = m.kind /\ read.dup = m.dup /\ read.code = m.code /\ read.fixed = m.fixed
        /\ read.attrs = attrs
    BY <1>1, <2>2
  <2> QED BY <2>1, <2>3, <2>4, Zenon
<1> QED BY <1>3, <1>4, <1>5, <1>6, <1>7, Zenon

\* ReadAsBuilt of every exchange: cm_msg_xNN_serialize and cm_msg_xNN_parse are
\* each other's inverse for every message that can be built, when there is
\* memory for what is read; when there is not, the header and what was read
\* before are right.
THEOREM MessagesAreReadBack == CmSpec => []ReadAsBuilt
<1>1. CmInv => ReadAsBuilt
  <2> SUFFICES ASSUME CmInv, in # None PROVE ReadAsBuilt
    BY DEF ReadAsBuilt
  <2>1. WellFormed(out) /\ in = WithoutMemory(out, lack) /\ lack \in Lacks(out)
    BY Zenon DEF CmInv
  <2> QED BY <2>1, RestIsKept, Zenon DEF ReadAsBuilt
<1> QED BY <1>1, CmInvAlways, PTL

\* SizeIsUsed in every exchange: the size computed before a buffer is allocated
\* is the number of bytes that are written to it and read from it.
THEOREM SizesAreExact == CmSpec => []SizeIsUsed
<1>1. CmInv => SizeIsUsed
  <2> SUFFICES ASSUME CmInv PROVE SizeIsUsed
    OBVIOUS
  <2>1. CASE packet = <<>>
    <3>1. in # None /\ lack = Enough => used = size
      BY Zenon DEF CmInv
    <3>2. \A i \in DOMAIN packet : packet[i] \in 0 .. 255
      BY <2>1
    <3> QED BY <2>1, <3>1, <3>2, Zenon DEF SizeIsUsed
  <2>2. CASE packet # <<>>
    <3>1. WellFormed(out) /\ packet = Packed(out) /\ size = Size(out) /\ in = None
      BY <2>2, Zenon DEF CmInv
    <3>2. packet \in Seq(Octet) /\ size = Len(packet)
      BY <3>1, SizeIsLength, Zenon
    <3>3. \A i \in DOMAIN packet : packet[i] \in 0 .. 255
      BY <3>2, LenProperties, ElementOfSeq DEF Octet
    <3> QED BY <3>1, <3>2, <3>3, Zenon DEF SizeIsUsed
  <2> QED BY <2>1, <2>2
<1> QED BY <1>1, CmInvAlways, PTL

-----------------------------------------------------------------------------
(* The dictionaries of light-weight messages.                               *)

\* A dictionary that has one entry of each of its keys.
OneOfEach(dict) ==
    /\ \E K, V : dict \in Seq([key : K, value : V])
    /\ \A i, j \in DOMAIN dict : i # j => dict[i].key # dict[j].key

IsMessage(m) ==
    m = [header |-> m.header, body |-> m.body] /\ OneOfEach(m.header) /\ OneOfEach(m.body)

\* The inductive invariant of the light-weight messages.
LwInv == (msg # NULL => IsMessage(msg)) /\ (got # NULL => IsMessage(got))

LEMMA NothingTwice == OneOfEach(<<>>)
<1>1. <<>> \in Seq([key : {}, value : {}]) /\ \A i \in DOMAIN <<>> : FALSE
  OBVIOUS
<1> QED BY <1>1, Zenon DEF OneOfEach

\* An entry whose key is new may be added.
LEMMA AddedOnce ==
  ASSUME NEW dict, OneOfEach(dict), NEW key, NEW value, key \notin Keys(dict)
  PROVE  OneOfEach(Added(dict, Entry(key, value)))
<1> DEFINE entry == Entry(key, value)
           longer == Added(dict, entry)
<1>1. PICK K, V : dict \in Seq([key : K, value : V])
  BY DEF OneOfEach
<1> DEFINE E == [key : K \cup {key}, value : V \cup {value}]
<1>2. entry \in E /\ entry.key = key
  BY DEF Entry
<1>3. dict \in Seq(E)
  <2>1. [key : K, value : V] \subseteq E
    OBVIOUS
  <2> HIDE DEF E
  <2> QED BY <1>1, <2>1, SeqMonotonic
<1> HIDE DEF entry
<1>4. \A i \in DOMAIN dict : dict[i].key # key
  BY DEF Keys
<1>5. longer \in Seq(E)
  <2> HIDE DEF E
  <2> QED BY <1>2, <1>3 DEF Added
<1>6. DOMAIN longer = 1 .. Len(dict) + 1 /\ longer[1] = entry
      /\ \A i \in 2 .. Len(dict) + 1 : i - 1 \in DOMAIN dict /\ longer[i] = dict[i - 1]
  <2> HIDE DEF E
  <2> QED BY <1>2, <1>3 DEF Added
<1> HIDE DEF longer
<1>7. ASSUME NEW i \in DOMAIN longer, NEW j \in DOMAIN longer, i # j
      PROVE  longer[i].key # longer[j].key
  <2>1. CASE i = 1
    <3>1. j \in 2 .. Len(dict) + 1
      BY <1>3, <1>6, <1>7, <2>1
    <3> QED BY <1>2, <1>4, <1>6, <2>1, <3>1
  <2>2. CASE j = 1
    <3>1. i \in 2 .. Len(dict) + 1
      BY <1>3, <1>6, <1>7, <2>2
    <3> QED BY <1>2, <1>4, <1>6, <2>2, <3>1
  <2>3. CASE i # 1 /\ j # 1
    <3>1. i \in 2 .. Len(dict) + 1 /\ j \in 2 .. Len(dict) + 1 /\ i - 1 # j - 1
      BY <1>3, <1>6, <1>7, <2>3
    <3>2. dict[i - 1].key # dict[j - 1].key
      BY <1>6, <3>1 DEF OneOfEach
    <3> QED BY <1>6, <3>1, <3>2
  <2> QED BY <2>1, <2>2, <2>3
<1>8. \E K2, V2 : longer \in Seq([key : K2, value : V2])
  BY <1>5, Zenon DEF E
<1>9. OneOfEach(longer)
  BY <1>7, <1>8, Zenon DEF OneOfEach
<1> QED BY <1>9, Zenon DEF longer, entry

\* get_lwm_object_from_dict finds the first entry of a key.
LEMMA AtFirst ==
  ASSUME NEW dict, OneOfEach(dict), NEW key \in Keys(dict)
  PROVE  At(dict, key) \in DOMAIN dict /\ dict[At(dict, key)].key = key
<1>1. PICK i \in DOMAIN dict : dict[i].key = key
  BY DEF Keys
<1>2. DOMAIN dict \in SUBSET Nat
  BY DEF OneOfEach
<1>3. PICK n \in Nat : DOMAIN dict = 1 .. n
  BY DEF OneOfEach
<1>4. \A j \in 1 .. i - 1 : dict[j].key # key
  <2> SUFFICES ASSUME NEW j \in 1 .. i - 1 PROVE dict[j].key # key
    OBVIOUS
  <2>1. j \in DOMAIN dict /\ j # i
    BY <1>3
  <2> QED BY <1>1, <2>1 DEF OneOfEach
<1>5. \E k \in DOMAIN dict : dict[k].key = key /\ \A j \in 1 .. k - 1 : dict[j].key # key
  BY <1>1, <1>4
<1> QED BY <1>5, Zenon DEF At

\* What is left of a list when one of its places is removed.
LEMMA WithoutOne ==
  ASSUME NEW S, NEW list \in Seq(S), NEW a \in 1 .. Len(list)
  PROVE  LET shorter == SubSeq(list, 1, a - 1) \o SubSeq(list, a + 1, Len(list))
         IN  /\ shorter \in Seq(S) /\ DOMAIN shorter = 1 .. Len(list) - 1
             /\ \A i \in 1 .. Len(list) - 1 : shorter[i] = list[IF i < a THEN i ELSE i + 1]
<1> DEFINE n == Len(list)
           before == SubSeq(list, 1, a - 1)
           after == SubSeq(list, a + 1, n)
<1>1. n \in Nat /\ a \in 1 .. n
  OBVIOUS
<1>2. \A i \in 1 .. n : list[i] \in S
  BY ElementOfSeq
<1> HIDE DEF n
<1>3. /\ before \in Seq(S) /\ Len(before) = a - 1
      /\ \A i \in 1 .. a - 1 : before[i] = list[i]
  <2>1. a - 1 \in Int /\ \A i \in 1 .. a - 1 : list[i] \in S
    BY <1>1, <1>2
  <2>2. /\ before \in Seq(S) /\ Len(before) = IF 1 <= a - 1 THEN (a - 1) - 1 + 1 ELSE 0
        /\ \A i \in 1 .. (a - 1) - 1 + 1 : before[i] = list[1 + i - 1]
    BY <2>1, SubSeqProperties
  <2> HIDE DEF before
  <2>3. Len(before) = a - 1
    BY <1>1, <2>2
  <2>4. \A i \in 1 .. a - 1 : i \in 1 .. (a - 1) - 1 + 1 /\ 1 + i - 1 = i
    BY <1>1
  <2> QED BY <2>2, <2>3, <2>4
<1>4. /\ after \in Seq(S) /\ Len(after) = n - a
      /\ \A i \in 1 .. n - a : after[i] = list[a + i]
  <2>1. a + 1 \in Int /\ n \in Int /\ \A i \in a + 1 .. n : list[i] \in S
    BY <1>1, <1>2
  <2>2. /\ after \in Seq(S) /\ Len(after) = IF a + 1 <= n THEN n - (a + 1) + 1 ELSE 0
        /\ \A i \in 1 .. n - (a + 1) + 1 : after[i] = list[(a + 1) + i - 1]
    BY <2>1, SubSeqProperties
  <2> HIDE DEF after
  <2>3. Len(after) = n - a
    BY <1>1, <2>2
  <2>4. \A i \in 1 .. n - a : i \in 1 .. n - (a + 1) + 1 /\ (a + 1) + i - 1 = a + i
    BY <1>1
  <2> QED BY <2>2, <2>3, <2>4
<1> DEFINE shorter == before \o after
<1> HIDE DEF before, after
<1>5. shorter \in Seq(S) /\ Len(shorter) = n - 1
  <2>1. shorter \in Seq(S) /\ Len(shorter) = Len(before) + Len(after)
    BY <1>3, <1>4, ConcatProperties
  <2>2. (a - 1) + (n - a) = n - 1
    BY <1>1
  <2> HIDE DEF shorter
  <2> QED BY <1>3, <1>4, <2>1, <2>2
<1>6. ASSUME NEW i \in 1 .. n - 1
      PROVE  shorter[i] = list[IF i < a THEN i ELSE i + 1]
  <2>1. CASE i < a
    <3>1. i \in 1 .. a - 1
      BY <1>1, <2>1
    <3>2. shorter[i] = before[i]
      BY <1>3, <1>4, <3>1, ConcatProperties
    <3> QED BY <1>3, <2>1, <3>1, <3>2
  <2>2. CASE ~(i < a)
    <3>1. i - (a - 1) \in 1 .. n - a /\ a + (i - (a - 1)) = i + 1 /\ i \in (a - 1) + 1 .. n - 1
      BY <1>1, <2>2
    <3>2. shorter[i] = after[i - (a - 1)]
      BY <1>1, <1>3, <1>4, <3>1, ConcatProperties
    <3> QED BY <1>4, <2>2, <3>1, <3>2
  <2> QED BY <2>1, <2>2
<1>7. DOMAIN shorter = 1 .. n - 1
  BY <1>5
<1> QED BY <1>5, <1>6, <1>7 DEF n, before, after

LEMMA DeletedOnce ==
  ASSUME NEW dict, OneOfEach(dict), NEW key
  PROVE  OneOfEach(DeleteKey(dict, key)) /\ key \notin Keys(DeleteKey(dict, key))
<1>1. CASE key \notin Keys(dict)
  BY <1>1, Zenon DEF DeleteKey
<1>2. CASE key \in Keys(dict)
  <2> DEFINE a == At(dict, key)
             n == Len(dict)
             shorter == SubSeq(dict, 1, a - 1) \o SubSeq(dict, a + 1, n)
             from(i) == IF i < a THEN i ELSE i + 1
  <2>1. a \in DOMAIN dict /\ dict[a].key = key
    BY <1>2, AtFirst, Zenon
  <2>2. PICK K, V : dict \in Seq([key : K, value : V])
    BY DEF OneOfEach
  <2> DEFINE E == [key : K, value : V]
  <2>3. dict \in Seq(E) /\ n \in Nat /\ DOMAIN dict = 1 .. n
    <3>1. dict \in Seq(E)
      BY <2>2
    <3> HIDE DEF E
    <3> QED BY <3>1
  <2> HIDE DEF a, n, E
  <2>4. a \in 1 .. n
    BY <2>1, <2>3
  <2>5. n = Len(dict)
    BY DEF n
  <2>6. shorter \in Seq(E) /\ DOMAIN shorter = 1 .. n - 1
        /\ \A i \in 1 .. n - 1 : shorter[i] = dict[from(i)]
    BY <2>3, <2>4, <2>5, WithoutOne
  <2>7. \A i \in 1 .. n - 1 : from(i) \in 1 .. n /\ from(i) # a
    BY <2>3, <2>4
  <2>8. \A i, j \in 1 .. n - 1 : i # j => from(i) # from(j)
    BY <2>3, <2>4
  <2> HIDE DEF from, shorter
  <2>12. \A i, j \in 1 .. n : i # j => dict[i].key # dict[j].key
    BY <2>3, Zenon DEF OneOfEach
  <2>9. \A i, j \in DOMAIN shorter : i # j => shorter[i].key # shorter[j].key
    BY <2>6, <2>7, <2>8, <2>12
  <2>10. \A i \in DOMAIN shorter : shorter[i].key # key
    BY <2>1, <2>4, <2>6, <2>7, <2>12
  <2>11. OneOfEach(shorter) /\ key \notin Keys(shorter)
    <3>1. key \notin Keys(shorter)
      BY <2>10, Zenon DEF Keys
    <3>2. shorter \in Seq([key : K, value : V])
      BY <2>6 DEF E
    <3> QED BY <2>9, <3>1, <3>2, Zenon DEF OneOfEach
  <2>13. DeleteKey(dict, key) = shorter
    BY <1>2, Zenon DEF DeleteKey, RemoveAt, shorter, a, n
  <2> QED BY <2>11, <2>13, Zenon
<1> QED BY <1>1, <1>2

LEMMA SetOnce ==
  ASSUME NEW dict, OneOfEach(dict), NEW key, NEW value
  PROVE  OneOfEach(SetObject(dict, key, value))
BY DeletedOnce, AddedOnce, Zenon DEF SetObject

\* An object that is changed where it is keeps its key.
LEMMA ChangedOnce ==
  ASSUME NEW dict, OneOfEach(dict), NEW key \in Keys(dict), NEW value
  PROVE  OneOfEach([dict EXCEPT ![At(dict, key)].value = value])
<1> DEFINE a == At(dict, key)
           changed == [dict EXCEPT ![a].value = value]
<1>1. a \in DOMAIN dict
  BY AtFirst, Zenon
<1>2. PICK K, V : dict \in Seq([key : K, value : V])
  BY DEF OneOfEach
<1> DEFINE E == [key : K, value : V \cup {value}]
<1> HIDE DEF a
<1>3. /\ dict \in [1 .. Len(dict) -> [key : K, value : V]] /\ Len(dict) \in Nat
      /\ a \in 1 .. Len(dict) /\ DOMAIN dict = 1 .. Len(dict)
  <2> DEFINE F == [key : K, value : V]
  <2>1. dict \in Seq(F)
    BY <1>2
  <2> HIDE DEF F
  <2>2. dict \in [1 .. Len(dict) -> F] /\ Len(dict) \in Nat /\ DOMAIN dict = 1 .. Len(dict)
    BY <2>1
  <2> QED BY <1>1, <2>2 DEF F
<1>4. DOMAIN changed = DOMAIN dict /\ \A i \in DOMAIN dict : changed[i].key = dict[i].key
  BY <1>1, <1>2
<1>5. \A i \in DOMAIN dict : changed[i] \in E
  <2> SUFFICES ASSUME NEW i \in DOMAIN dict PROVE changed[i] \in E
    OBVIOUS
  <2>1. dict[i] \in [key : K, value : V]
    BY <1>3
  <2>2. CASE i = a
    <3>1. changed[i] = [dict[i] EXCEPT !.value = value]
      BY <1>1, <2>2
    <3> QED BY <2>1, <3>1
  <2>3. CASE i # a
    <3>1. changed[i] = dict[i]
      BY <1>1, <2>3
    <3> QED BY <2>1, <3>1
  <2> QED BY <2>2, <2>3
<1>6. changed \in Seq(E)
  <2>1. changed = [i \in DOMAIN changed |-> changed[i]]
    OBVIOUS
  <2> HIDE DEF changed, E
  <2>2. changed \in [1 .. Len(dict) -> E]
    BY <1>3, <1>4, <1>5, <2>1
  <2> QED BY <1>3, <2>2, SeqDef
<1>7. \A i, j \in DOMAIN changed : i # j => changed[i].key # changed[j].key
  <2> HIDE DEF changed
  <2> QED BY <1>4, Zenon DEF OneOfEach
<1> HIDE DEF changed
<1>8. OneOfEach(changed)
  BY <1>6, <1>7, Zenon DEF OneOfEach, E
<1> QED BY <1>8, Zenon DEF changed, a

-----------------------------------------------------------------------------
(* The loop of _lwm_dict_parsing, whatever is read from its text.          *)

LEMMA NextEntryOnce ==
  ASSUME NEW all, NEW at, OneOfEach(at.made), NEW inner
  PROVE  OneOfEach(NextEntry(all, at, inner).made)
<1> DEFINE next == NextEntry(all, at, inner)
           entry == ParsedEntry(all, at.p, inner)
           set == SetObject(at.made, entry.made.key, entry.made.value)
<1>1. OneOfEach(set)
  BY SetOnce, Zenon
<1>2. OneOfEach(<<>>)
  BY NothingTwice
<1>3. ASSUME NEW ok, NEW p, NEW made, OneOfEach(made)
      PROVE  OneOfEach(Result(ok, p, made).made) /\ OneOfEach(GoOn(p, made).made)
  <2>1. Result(ok, p, made).made = made /\ GoOn(p, made).made = made
    BY DEF Result, GoOn
  <2> QED BY <1>3, <2>1
<1> HIDE DEF entry, set
<1>4. OneOfEach(EntriesBehind(all, entry, at.made).made)
  <2>1. CASE ~entry.ok
    <3>1. EntriesBehind(all, entry, at.made) = Result(FALSE, entry.p, <<>>)
      BY <2>1, Zenon DEF EntriesBehind
    <3>2. OneOfEach(Result(FALSE, entry.p, <<>>).made)
      BY <1>2, <1>3
    <3> QED BY <3>1, <3>2
  <2>2. CASE entry.ok /\ Tok(all, entry.p) = "}"
    <3>1. EntriesBehind(all, entry, at.made) = Result(TRUE, entry.p, set)
      BY <2>2, Zenon DEF EntriesBehind, set
    <3>2. OneOfEach(Result(TRUE, entry.p, set).made)
      BY <1>1, <1>3
    <3> QED BY <3>1, <3>2
  <2>3. CASE entry.ok /\ Tok(all, entry.p) # "}"
    <3>1. EntriesBehind(all, entry, at.made) = GoOn(entry.p + 1, set)
      BY <2>3, Zenon DEF EntriesBehind, set
    <3>2. OneOfEach(GoOn(entry.p + 1, set).made)
      BY <1>1, <1>3
    <3> QED BY <3>1, <3>2
  <2> QED BY <2>1, <2>2, <2>3, Zenon
<1>5. \/ next = Result(TRUE, at.p, at.made)
      \/ next = GoOn(at.p + 1, at.made)
      \/ next = EntriesBehind(all, entry, at.made)
  <2> DEFINE ends == Tok(all, at.p) \in {Nul, "}"}
             skips == Tok(all, at.p) = ";"
  <2>1. next = CASE ends -> Result(TRUE, at.p, at.made)
                 [] skips -> GoOn(at.p + 1, at.made)
                 [] OTHER -> EntriesBehind(all, entry, at.made)
    BY Zenon DEF NextEntry, entry
  <2>2. ~(ends /\ skips)
    BY DEF Nul
  <2> HIDE DEF ends, skips, next
  <2> QED BY <2>1, <2>2
<1> HIDE DEF next
<1>6. OneOfEach(Result(TRUE, at.p, at.made).made) /\ OneOfEach(GoOn(at.p + 1, at.made).made)
  BY <1>3
<1>7. OneOfEach(next.made)
  BY <1>4, <1>5, <1>6
<1> QED BY <1>7 DEF next

\* After every round the entries have different keys.
LEMMA EntriesOnce ==
  ASSUME NEW all, NEW p, NEW inner
  PROVE  OneOfEach(Entries(all, p, inner).made)
<1> DEFINE start == GoOn(p, <<>>)
           Step(at) == IF at.on THEN NextEntry(all, at, inner) ELSE at
           One(f, n) == IF n = 0 THEN start ELSE Step(f[n - 1])
           round == CHOOSE f : f = [n \in 0 .. MaxText |-> One(f, n)]
           Rounds(m, f) == f = [n \in 0 .. m |-> One(f, n)]
           Done == {m \in 0 .. MaxText : \E f : Rounds(m, f)}
<1> USE TextAssumption
<1>1. Entries(all, p, inner) = round[MaxText]
  BY Zenon DEF Entries
<1>2. OneOfEach(start.made)
  BY NothingTwice DEF GoOn
<1>3. ASSUME NEW at, OneOfEach(at.made) PROVE OneOfEach(Step(at).made)
  BY <1>3, NextEntryOnce, Zenon
<1> HIDE DEF start, Step, round
<1>4. 0 \in Done
  <2> DEFINE f == [n \in 0 .. 0 |-> start]
  <2>1. Rounds(0, f)
    OBVIOUS
  <2>2. 0 \in 0 .. MaxText
    OBVIOUS
  <2> HIDE DEF Rounds, f
  <2> QED BY <2>1, <2>2
<1>5. ASSUME NEW m \in 1 .. MaxText, m - 1 \in Done PROVE m \in Done
  <2>1. PICK f : Rounds(m - 1, f)
    BY <1>5
  <2> DEFINE g == [n \in 0 .. m |-> IF n = m THEN Step(f[m - 1]) ELSE f[n]]
  <2>2. ASSUME NEW n \in 0 .. m PROVE g[n] = One(g, n)
    <3>1. CASE n = m
      <4>1. n # 0 /\ n - 1 \in 0 .. m /\ n - 1 # m
        BY <3>1
      <4>2. g[n] = Step(f[m - 1]) /\ g[n - 1] = f[m - 1]
        BY <3>1, <4>1
      <4> QED BY <4>1, <4>2
    <3>2. CASE n # m
      <4>1. n \in 0 .. m - 1
        BY <3>2
      <4>2. g[n] = f[n] /\ f[n] = One(f, n)
        BY <2>1, <3>2, <4>1
      <4>3. CASE n = 0
        BY <4>2, <4>3
      <4>4. CASE n # 0
        <5>1. n - 1 \in 0 .. m /\ n - 1 # m
          BY <4>1, <4>4
        <5>2. g[n - 1] = f[n - 1]
          BY <5>1
        <5> QED BY <4>2, <4>4, <5>2
      <4> QED BY <4>3, <4>4
    <3> QED BY <3>1, <3>2
  <2>3. Rounds(m, g)
    <3>1. g = [n \in 0 .. m |-> g[n]]
      OBVIOUS
    <3> HIDE DEF g
    <3> QED BY <2>2, <3>1
  <2> HIDE DEF Rounds, g
  <2> QED BY <2>3
<1>6. PICK f : Rounds(MaxText, f)
  <2> HIDE DEF Rounds
  <2>1. \A m \in 0 .. MaxText : m \in Done
    <3> HIDE DEF Done
    <3> QED BY <1>4, <1>5, UpTo
  <2>2. MaxText \in 0 .. MaxText
    OBVIOUS
  <2> QED BY <2>1, <2>2
<1>7. Rounds(MaxText, round)
  <2>1. f = [n \in 0 .. MaxText |-> One(f, n)]
    BY <1>6
  <2> HIDE DEF One
  <2> QED BY <2>1, Zenon DEF round
<1> DEFINE Good == {n \in 0 .. MaxText : OneOfEach(round[n].made)}
<1>8. \A n \in 0 .. MaxText : round[n] = One(round, n)
  <2> HIDE DEF One
  <2> QED BY <1>7, Zenon
<1>9. 0 \in Good
  <2>1. round[0] = start
    BY <1>8
  <2> QED BY <1>2, <2>1
<1>10. ASSUME NEW n \in 1 .. MaxText, n - 1 \in Good PROVE n \in Good
  <2>1. round[n] = Step(round[n - 1])
    BY <1>8
  <2>2. OneOfEach(Step(round[n - 1]).made)
    BY <1>3, <1>10, Zenon
  <2> QED BY <2>1, <2>2
<1>11. MaxText \in Good
  <2> HIDE DEF Good
  <2>1. \A n \in 0 .. MaxText : n \in Good
    BY <1>9, <1>10, UpTo
  <2> QED BY <2>1
<1> QED BY <1>1, <1>11

LEMMA ParsedOnce ==
  ASSUME NEW all, ParsedMessage(all) # NULL
  PROVE  IsMessage(ParsedMessage(all))
<1> DEFINE header == ParsedDict(all, 1, Inner(all))
           next == Tok(all, header.p + 1)
           body == ParsedDict(all, header.p + 1, Inner(all))
           m == ParsedMessage(all)
<1>1. OneOfEach(header.made) /\ OneOfEach(body.made)
  BY EntriesOnce, Zenon DEF ParsedDict
<1>2. m = MessageOf(all, header, next, body)
  BY Zenon DEF ParsedMessage, WithHeader
<1> HIDE DEF header, next, body
<1>3. m = [header |-> header.made, body |-> IF next = "{" THEN body.made ELSE <<>>]
  BY <1>2, Zenon DEF MessageOf
<1> DEFINE made == IF next = "{" THEN body.made ELSE <<>>
<1>4. OneOfEach(m.header) /\ OneOfEach(m.body)
  <2>1. OneOfEach(made)
    BY <1>1, NothingTwice, Zenon
  <2> HIDE DEF m, made
  <2>2. m.header = header.made /\ m.body = made
    BY <1>3 DEF made
  <2> QED BY <1>1, <2>1, <2>2
<1>5. m = [header |-> m.header, body |-> m.body]
  <2> HIDE DEF m
  <2> QED BY <1>3
<1> HIDE DEF m
<1>6. IsMessage(m)
  BY <1>4, <1>5, Zenon DEF IsMessage
<1> QED BY <1>6 DEF m

-----------------------------------------------------------------------------
(* The messages that are built.                                            *)

LEMMA WithStringOnce ==
  ASSUME NEW dict, OneOfEach(dict), NEW key, NEW string
  PROVE  OneOfEach(WithString(dict, key, string))
BY SetOnce, Zenon DEF WithString

LEMMA HeaderOnly ==
  ASSUME NEW header, OneOfEach(header)
  PROVE  IsMessage([EmptyMessage EXCEPT !.header = header])
<1> DEFINE m == [EmptyMessage EXCEPT !.header = header]
<1>1. m.header = header /\ m.body = <<>> /\ m = [header |-> m.header, body |-> m.body]
  BY DEF EmptyMessage
<1> HIDE DEF m
<1>2. IsMessage(m)
  BY <1>1, NothingTwice, Zenon DEF IsMessage
<1> QED BY <1>2 DEF m

LEMMA RequestOnce ==
  ASSUME NEW if, NEW dri, NEW di
  PROVE  IsMessage(RequestOf(if, dri, di))
<1> DEFINE ifSet == SetObject(<<>>, "if", Num("UINT32", if))
           header == WithString(WithString(ifSet, "dri", dri), "di", di)
<1>1. OneOfEach(header)
  BY NothingTwice, SetOnce, WithStringOnce, Zenon
<1>2. RequestOf(if, dri, di) = [EmptyMessage EXCEPT !.header = header]
  BY Zenon DEF RequestOf
<1> QED BY <1>1, <1>2, HeaderOnly, Zenon

LEMMA ResponseOnce ==
  ASSUME NEW dri, NEW rsc
  PROVE  IsMessage(ResponseTo(dri, rsc))
<1> DEFINE driSet == WithString(<<>>, "dri", dri)
           header == IF rsc = 0 THEN driSet ELSE SetObject(driSet, "rsc", Num("UINT32", rsc))
<1>1. OneOfEach(driSet)
  BY NothingTwice, WithStringOnce, Zenon
<1>2. OneOfEach(header)
  BY <1>1, SetOnce, Zenon
<1>3. ResponseTo(dri, rsc) = [EmptyMessage EXCEPT !.header = header]
  BY Zenon DEF ResponseTo
<1> QED BY <1>2, <1>3, HeaderOnly, Zenon

LEMMA BodyReplaced ==
  ASSUME NEW m, IsMessage(m), NEW body, OneOfEach(body)
  PROVE  IsMessage([m EXCEPT !.body = body])
<1> DEFINE n == [m EXCEPT !.body = body]
<1>1. n.header = m.header /\ n.body = body /\ n = [header |-> n.header, body |-> n.body]
  BY DEF IsMessage
<1> HIDE DEF n
<1>2. IsMessage(n)
  BY <1>1, Zenon DEF IsMessage
<1> QED BY <1>2 DEF n

-----------------------------------------------------------------------------
(* The exchange of light-weight messages.                                  *)

LEMMA LwInitInv == Init => LwInv
BY Zenon DEF Init, LwInv

LEMMA ChangeOnce ==
  ASSUME LwInv, NEW key, NEW value, Change(key, value)
  PROVE  LwInv'
<1>1. /\ msg # NULL /\ key \in Keys(msg.body) /\ got' = got
      /\ msg' = [msg EXCEPT !.body[At(msg.body, key)].value = value]
  BY Zenon DEF Change
<1>2. IsMessage(msg)
  BY <1>1, Zenon DEF LwInv
<1> DEFINE body == [msg.body EXCEPT ![At(msg.body, key)].value = value]
<1>3. OneOfEach(body)
  BY <1>1, <1>2, ChangedOnce, Zenon DEF IsMessage
<1>4. msg' = [msg EXCEPT !.body = body]
  BY <1>1
<1> HIDE DEF body
<1>5. IsMessage(msg')
  BY <1>2, <1>3, <1>4, BodyReplaced, Zenon
<1> QED BY <1>1, <1>5, Zenon DEF LwInv

LEMMA LwNextInv == LwInv /\ [Next]_vars => LwInv'
<1> SUFFICES ASSUME LwInv, [Next]_vars PROVE LwInv'
  OBVIOUS
<1>1. ASSUME NEW dri, NEW di, NewRequest(1, dri, di) PROVE LwInv'
  BY <1>1, RequestOnce, Zenon DEF NewRequest, LwInv
<1>2. ASSUME NEW key, NEW value, SetBody(key, value) PROVE LwInv'
  <2>1. msg # NULL /\ msg' = [msg EXCEPT !.body = SetObject(msg.body, key, value)] /\ got' = got
    BY <1>2 DEF SetBody
  <2>2. IsMessage(msg)
    BY <2>1, Zenon DEF LwInv
  <2>3. OneOfEach(SetObject(msg.body, key, value))
    BY <2>2, SetOnce, Zenon DEF IsMessage
  <2>4. IsMessage(msg')
    BY <2>1, <2>2, <2>3, BodyReplaced, Zenon
  <2> QED BY <2>1, <2>4, Zenon DEF LwInv
<1>3. ASSUME NEW key, DeleteFromBody(key) PROVE LwInv'
  <2>1. msg # NULL /\ msg' = [msg EXCEPT !.body = DeleteKey(msg.body, key)] /\ got' = got
    BY <1>3 DEF DeleteFromBody
  <2>2. IsMessage(msg)
    BY <2>1, Zenon DEF LwInv
  <2>3. OneOfEach(DeleteKey(msg.body, key))
    BY <2>2, DeletedOnce, Zenon DEF IsMessage
  <2>4. IsMessage(msg')
    BY <2>1, <2>2, <2>3, BodyReplaced, Zenon
  <2> QED BY <2>1, <2>4, Zenon DEF LwInv
<1>4. ASSUME NEW key, NEW item, AddToArray(key, item) PROVE LwInv'
  BY <1>4, ChangeOnce, Zenon DEF AddToArray
<1>5. ASSUME NEW key, NEW number, SetInt(key, number) PROVE LwInv'
  BY <1>5, ChangeOnce, Zenon DEF SetInt
<1>6. ASSUME NEW key, NEW word, SetString(key, word) PROVE LwInv'
  BY <1>6, ChangeOnce, Zenon DEF SetString
<1>7. ASSUME Send PROVE LwInv'
  BY <1>7, Zenon DEF Send, LwInv
<1>8. ASSUME Receive PROVE LwInv'
  <2>1. got' = ParsedMessage(wire) /\ msg' = msg
    BY <1>8, Zenon DEF Receive
  <2> QED BY <2>1, ParsedOnce, Zenon DEF LwInv
<1>9. ASSUME NEW rsc, Answer(rsc) PROVE LwInv'
  BY <1>9, ResponseOnce, Zenon DEF Answer, LwInv
<1>10. CASE UNCHANGED vars
  BY <1>10, Zenon DEF vars, LwInv
<1> QED BY <1>1, <1>2, <1>3, <1>4, <1>5, <1>6, <1>7, <1>8, <1>9, <1>10, Zenon DEF Next

LEMMA LwInductive == Spec => []LwInv
BY LwInitInv, LwNextInv, PTL DEF Spec

\* However a light-weight message came about (built with the operations of
\* iw_fw_lwMsgUtils.c, read from any text, or built on after it was read), a
\* key occurs once in its header and once in its body, for all keys and values.
THEOREM KeysOccurOnce == Spec => []OneEntryPerKey
<1>1. LwInv => OneEntryPerKey
  <2>1. ASSUME LwInv, NEW m \in {msg, got} \ {NULL} PROVE OneOfEach(m.header) /\ OneOfEach(m.body)
    BY <2>1 DEF LwInv, IsMessage
  <2> QED BY <2>1, Zenon DEF OneOfEach, OneEntryPerKey
<1> QED BY <1>1, LwInductive, PTL
=============================================================================
