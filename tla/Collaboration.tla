----------------------------- MODULE Collaboration -----------------------------
(***************************************************************************)
(* Two devices that exchange collaboration messages: one fills in a        *)
(* request from its template and sends its bytes, the other reads them and *)
(* answers with the acknowledgement of the same file.  Names that          *)
(* LwMessage has as well begin with Cm, as the functions of DCFW do.       *)
(***************************************************************************)
EXTENDS CollaboMsg

CONSTANTS
    None,           \* no message
    FixedByte,      \* the values of a byte the caller fills in
    Payload         \* the payloads: task_id, object_id and the attributes

ASSUME FixedByteAssumption == FixedByte \subseteq 0 .. 255

\* What the fields of a payload can hold: one attribute to four, and of each as
\* many values as two bits have a code for.
ASSUME PayloadAssumption ==
    \A load \in Payload :
        /\ load.task \in 0 .. 255 /\ load.object \in 0 .. 63
        /\ load.attrs \in Seq([id : 0 .. 63, length : 0 .. 3, values : Seq(0 .. 255)])
        /\ Len(load.attrs) \in 1 .. 4
        /\ \A i \in 1 .. Len(load.attrs) :
              /\ Len(load.attrs[i].values) \in {1, 2, 4, 8}
              /\ load.attrs[i] = Attribute(load.attrs[i].id, load.attrs[i].values)

VARIABLES
    out,    \* the message that was built last
    packet, \* its bytes, while they are under way
    size,   \* the size that was reported with them
    in,     \* what was read from the bytes
    used,   \* how many of them were used, when there was memory for all
    lack    \* what the reader found no memory for

cmVars == <<out, packet, size, in, used, lack>>

CmInit ==
    /\ out = None /\ packet = <<>> /\ size = 0
    /\ in = None /\ used = 0 /\ lack = Enough

\* The last byte of the fixed part is one a caller fills in, the payload
\* pointer of x10, x13 and x14 included.
Filled(kind, byte) ==
    IF kind.fixed = <<>> THEN <<>> ELSE [kind.fixed EXCEPT ![Len(kind.fixed)] = byte]

Built(kind, dup, code, byte, load) ==
    IF kind.attributes = "none"
    THEN [Message(kind, dup, code, Filled(kind, byte), <<>>, 0, <<>>) EXCEPT !.count = 0]
    ELSE Message(kind, dup, code, Filled(kind, byte),
                 IF kind.head = 1 THEN <<load.task>> ELSE <<>>, load.object,
                 IF kind.attributes = "values" THEN load.attrs
                 ELSE [i \in DOMAIN load.attrs |-> [load.attrs[i] EXCEPT !.values = <<>>]])

\* A request with its payload.  The serializing functions take the payload of
\* x03 and x15 to x18 for granted.
Transmit(kind, dup, code, byte, load) ==
    /\ packet = <<>>
    /\ out' = Built(kind, dup, code, byte, load)
    /\ packet' = Packed(out')
    /\ size' = Size(out')
    /\ in' = None /\ used' = 0 /\ lack' = Enough

Ask(kind, dup, byte, load) ==
    /\ in = None
    /\ kind.ack = 0
    /\ Transmit(kind, dup, 0, byte, load)

\* An acknowledgement of the request that was read.
Acknowledge(kind, code, byte, load) ==
    /\ in # None
    /\ in.kind.ack = 0
    /\ kind.ack = 1 /\ kind.id = in.kind.id
    /\ Transmit(kind, 0, code, byte, load)

\* The parsers of a kind, with memory for all they read or not.
Unpack ==
    /\ packet # <<>>
    /\ LET read == Parsed(packet)
       IN  /\ lack' \in Lacks(read.msg)
           /\ in' = WithoutMemory(read.msg, lack')
           /\ used' = IF lack' = Enough THEN read.p - 1 ELSE 0
    /\ packet' = <<>>
    /\ UNCHANGED <<out, size>>

\* The exchange is over, with its acknowledgement or without one.
Finish ==
    /\ in # None
    /\ out' = None /\ in' = None /\ size' = 0 /\ used' = 0 /\ lack' = Enough
    /\ UNCHANGED packet

CmNext ==
    \/ \E kind \in Kinds, dup \in {0, 1}, byte \in FixedByte, load \in Payload :
            Ask(kind, dup, byte, load)
    \/ \E kind \in Kinds, code \in {0, 4}, byte \in FixedByte, load \in Payload :
            Acknowledge(kind, code, byte, load)
    \/ Unpack
    \/ Finish

CmSpec == CmInit /\ [][CmNext]_cmVars

-----------------------------------------------------------------------------
(* Properties. *)

\* The device that receives a message, and knows nothing but its bytes, reads
\* the message that was built: its kind, every field and every attribute.  Where
\* it has no memory, the fields of the header and the attributes before the one
\* whose values are missing are still those of the message.
ReadAsBuilt ==
    in # None =>
        /\ lack = Enough => in = out
        /\ in.kind = out.kind /\ in.dup = out.dup /\ in.code = out.code /\ in.fixed = out.fixed
        /\ lack.of = "values" => \A i \in 1 .. lack.at - 1 : in.attrs[i] = out.attrs[i]

\* The size that is reported with a message, and allocated for it, is the
\* number of its bytes, and its reader uses them to the last; no field of a
\* byte runs out of it.
SizeIsUsed ==
    /\ \A i \in DOMAIN packet : packet[i] \in 0 .. 255
    /\ packet # <<>> => size = Len(packet)
    /\ in # None /\ lack = Enough => used = size
=============================================================================
