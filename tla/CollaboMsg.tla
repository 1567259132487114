------------------------------ MODULE CollaboMsg ------------------------------
(***************************************************************************)
(* The collaboration messages of src/IotwareFW/Microservice/DCFW: the      *)
(* layout of every message and of its acknowledgement, how a message is    *)
(* packed into bytes and how it is read from them.                         *)
(*                                                                         *)
(* The structures are packed and the first of the fields that share a byte *)
(* has the low bits.  A message is read with its whole buffer: for a       *)
(* shorter one the parsers return what happened to be on the stack.        *)
(***************************************************************************)
EXTENDS Integers, Sequences, SequencesExt

CONSTANTS
    PointerSize,    \* sizeof(uint8_t *): x10, x13 and x14 send a pointer
    Misread         \* an attribute that was read from the bytes of another

ASSUME PointerSizeAssumption == PointerSize \in Nat

\* A byte of two fields, the first of which has the low bits.
Byte(low, width, high) == low + 2 ^ width * high
Low(byte, width)       == byte % 2 ^ width
High(byte, width)      == byte \div 2 ^ width

Zeros(n) == [i \in 1 .. n |-> 0]

\* A kind of message.  fixed are the bytes between the header and the payload,
\* as the template of the file has them; of a payload, head is the number of
\* bytes before the one with object_id and attr_count, and attributes tells
\* whether they are sent with their values.
Kind(ack, id, qos, fixed, head, attributes) ==
    [ack |-> ack, id |-> id, qos |-> qos, fixed |-> fixed, head |-> head,
     attributes |-> attributes]

Request(id, qos, fixed)                    == Kind(0, id, qos, fixed, 0, "none")
RequestWith(id, fixed, attributes)         == Kind(0, id, 1, fixed, 1, attributes)
DefaultAck(id)                             == Kind(1, id, 0, <<>>, 0, "none")

\* One definition for each file: cm_msg_xNN and cm_msg_xNN_ack.  The length
\* field is never filled in: it is what the template says.
ServerAdvertise == {Request(0, 0, <<>>)}
Connect         == {Request(2, 1, <<0, 0, 0>>), DefaultAck(2)}
MemberInfo      == {RequestWith(3, <<0>>, "names"), DefaultAck(3)}
SetDeviceMode   == {Request(4, 1, <<Byte(0, 2, 1), 0>>), DefaultAck(4)}
CheckStatus     == {Request(5, 1, <<>>), Kind(1, 5, 0, <<Byte(0, 2, 1), 0>>, 0, "none")}
TaskCreation    == {Request(16, 1, <<0>> \o Zeros(PointerSize)), DefaultAck(16)}
TaskRunAll      == {Request(17, 1, <<>>), DefaultAck(17)}
TaskStopAll     == {Request(18, 1, <<>>), DefaultAck(18)}
TaskRun         == {Request(19, 1, <<0>> \o Zeros(PointerSize)), DefaultAck(19)}
TaskStop        == {Request(20, 1, <<0>> \o Zeros(PointerSize)), DefaultAck(20)}
AttributeWrite  == {RequestWith(21, <<0>>, "values"), DefaultAck(21)}
AttributeRead   == {RequestWith(22, <<0>>, "names"), Kind(1, 22, 0, <<0>>, 0, "values")}
TaskInputData   == {RequestWith(23, <<0>>, "values"), DefaultAck(23)}
TaskOutputData  == {RequestWith(24, <<0>>, "values"), DefaultAck(24)}

Kinds == UNION {ServerAdvertise, Connect, MemberInfo, SetDeviceMode, CheckStatus, TaskCreation,
                TaskRunAll, TaskStopAll, TaskRun, TaskStop, AttributeWrite, AttributeRead,
                TaskInputData, TaskOutputData}

-----------------------------------------------------------------------------
(* The fields that are packed. *)

\* cm_attribute_packed_attr_count and what the two bits of attr_count keep.
PackedAttrCount(count) == (count - 1) % 4

RealAttrCount(packed) == packed + 1

PackedValueLength(length) ==
    CASE length = 8 -> 3 [] length = 4 -> 2 [] length = 2 -> 1 [] OTHER -> 0

\* Mutant: the length is doubled once.
RealValueLength_Doubled(packed) == 2 * packed

RealValueLength(packed) == 2 ^ packed

\* An attribute of a message being built.
Attribute(id, values) ==
    [id |-> id, length |-> PackedValueLength(Len(values)), values |-> values]

\* A message: the fields of its header, its fixed bytes and its payload.
Message(kind, dup, code, fixed, head, object, attrs) ==
    [kind |-> kind, dup |-> dup, code |-> code, fixed |-> fixed, head |-> head,
     object |-> object, count |-> PackedAttrCount(Len(attrs)), attrs |-> attrs]

-----------------------------------------------------------------------------
(* The bytes of a message. *)

HeaderByte(kind, dup) == kind.ack + 2 * kind.id + 64 * dup + 128 * kind.qos

\* cm_header_serialize, cm_default_ack_serialize: an acknowledgement has a
\* second byte for its return code.
HeaderBytes(m) ==
    <<HeaderByte(m.kind, m.dup)>> \o (IF m.kind.ack = 1 THEN <<Byte(0, 2, m.code)>> ELSE <<>>)

SentAttrs(m) == SubSeq(m.attrs, 1, RealAttrCount(m.count))

\* An attribute that is sent, with its values or without.
BytesOf(attr, attributes) ==
    <<Byte(attr.id, 6, attr.length)>>
    \o (IF attributes = "values"
        THEN SubSeq(attr.values, 1, RealValueLength(attr.length)) ELSE <<>>)

\* cm_attributes_serialize and cm_attribute_values_serialize.
AttributeBytes(m) ==
    FlattenSeq([i \in 1 .. Len(SentAttrs(m)) |-> BytesOf(SentAttrs(m)[i], m.kind.attributes)])

Packed(m) ==
    HeaderBytes(m) \o m.fixed
    \o (IF m.kind.attributes = "none" THEN <<>>
        ELSE m.head \o <<Byte(m.object, 6, m.count)>> \o AttributeBytes(m))

\* The loop of cm_attribute_values_serialize_size.
ValuesSize(attrs) ==
    LET size[i \in 0 .. Len(attrs)] ==
            IF i = 0 THEN 0 ELSE size[i - 1] + RealValueLength(attrs[i].length)
    IN  size[Len(attrs)]

\* Mutant: the bytes that name the attributes are not counted.
AttributesSize_ValuesOnly(m) ==
    IF m.kind.attributes = "values" THEN ValuesSize(SentAttrs(m)) ELSE 0

\* cm_attributes_serialize_size and cm_attribute_values_serialize_size.
AttributesSize(m) ==
    Len(SentAttrs(m)) + (IF m.kind.attributes = "values" THEN ValuesSize(SentAttrs(m)) ELSE 0)

\* The size the serializing functions report, and allocate.
Size(m) ==
    1 + m.kind.ack + Len(m.fixed)
    + (IF m.kind.attributes = "none" THEN 0 ELSE Len(m.head) + 1 + AttributesSize(m))

-----------------------------------------------------------------------------
(* Reading a message from its bytes. *)

\* cm_header_parse: the kind of the message is read from the first byte.
KindOf(bytes) ==
    CHOOSE kind \in Kinds : /\ kind.ack = Low(bytes[1], 1)
                            /\ kind.id = Low(High(bytes[1], 1), 5)

\* The attribute at position p.
ParsedAttribute(bytes, p, attributes) ==
    LET length == High(bytes[p], 6)
        n      == IF attributes = "values" THEN RealValueLength(length) ELSE 0
    IN  [id |-> Low(bytes[p], 6), length |-> length, values |-> SubSeq(bytes, p + 1, p + n)]

\* The attributes read from position p on, and the position behind them:
\* cm_attributes_parse and cm_attribute_values_parse, when there is memory for
\* what they read (WithoutMemory).
ParsedAttributes(bytes, p, count, attributes) ==
    LET read[i \in 0 .. RealAttrCount(count)] ==
            IF i = 0 THEN [p |-> p, attrs |-> <<>>]
            ELSE LET attr == ParsedAttribute(bytes, read[i - 1].p, attributes)
                 IN  [p |-> read[i - 1].p + 1 + Len(attr.values),
                      attrs |-> Append(read[i - 1].attrs, attr)]
    IN  read[RealAttrCount(count)]

\* A message that was read, and the position behind the last byte it used.
Parsed(bytes) ==
    LET kind  == KindOf(bytes)
        first == 2 + kind.ack
        body  == first + Len(kind.fixed)
        obj   == body + kind.head
        attrs == ParsedAttributes(bytes, obj + 1, High(bytes[obj], 6), kind.attributes)
        none  == kind.attributes = "none"
    IN  [p |-> IF none THEN body ELSE attrs.p,
         msg |-> [kind   |-> kind,
                  dup    |-> Low(High(bytes[1], 6), 1),
                  code   |-> IF kind.ack = 1 THEN High(bytes[2], 2) ELSE 0,
                  fixed  |-> SubSeq(bytes, first, body - 1),
                  head   |-> IF none THEN <<>> ELSE SubSeq(bytes, body, obj - 1),
                  object |-> IF none THEN 0 ELSE Low(bytes[obj], 6),
                  count  |-> IF none THEN 0 ELSE High(bytes[obj], 6),
                  attrs  |-> IF none THEN <<>> ELSE attrs.attrs]]

\* What a reader found no memory for: the payload, the list of the attributes,
\* or the values of the attribute at a place in the list.
Lack(of, at) == [of |-> of, at |-> at]
Enough == Lack("nothing", 0)

\* What there may be no memory for in a message.  The names of attributes are
\* written to their list in any case: without it the device stops, which is
\* left out here.
Lacks(m) ==
    {Enough}
    \cup (IF m.kind.attributes # "none" THEN {Lack("payload", 0)} ELSE {})
    \cup (IF m.kind.attributes = "values"
          THEN {Lack("attributes", 0)} \cup {Lack("values", i) : i \in DOMAIN m.attrs} ELSE {})

\* What is read then.  The pointer stays before values that have no memory, so
\* that the attributes behind them are read from bytes that are not theirs.
WithoutMemory(m, lack) ==
    CASE lack.of = "payload" ->
            [m EXCEPT !.head = <<>>, !.object = 0, !.count = 0, !.attrs = <<>>]
      [] lack.of = "attributes" -> [m EXCEPT !.attrs = <<>>]
      [] lack.of = "values" ->
            [m EXCEPT !.attrs = [j \in DOMAIN m.attrs |->
                IF j < lack.at THEN m.attrs[j]
                ELSE IF j = lack.at THEN [m.attrs[j] EXCEPT !.values = <<>>] ELSE Misread]]
      [] OTHER -> m
=============================================================================
