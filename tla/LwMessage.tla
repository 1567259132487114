------------------------------- MODULE LwMessage -------------------------------
(***************************************************************************)
(* A device and the server exchange light-weight messages: one side builds *)
(* a message with the operations of iw_fw_lwMsgUtils.c, makes a text of it *)
(* and sends it; the other side reads the text and answers what it read.   *)
(* The conversions are in LwText.                                          *)
(***************************************************************************)
EXTENDS LwText

CONSTANTS
    Key,            \* the keys of a body
    Item,           \* the values that are put into an array
    Object,         \* the other values that are put into a body
    Number,         \* the numbers of set_lwm_int
    DriText, DiText \* what is asked with

VARIABLES
    msg,    \* the message being built, NULL when there is none
    sent,   \* the message the last text was made of
    wire,   \* that text, <<>> when none is under way
    got     \* the message read from it, NULL when it was refused

vars == <<msg, sent, wire, got>>

Init == msg = NULL /\ sent = NULL /\ wire = <<>> /\ got = NULL

EmptyMessage == [header |-> <<>>, body |-> <<>>]

WithString(dict, key, text) ==
    IF text = NULL THEN dict ELSE SetObject(dict, key, Str(<<text>>))

RequestOf(if, dri, di) ==
    LET ifSet == SetObject(<<>>, "if", Num("UINT32", if))
    IN  [EmptyMessage EXCEPT !.header = WithString(WithString(ifSet, "dri", dri), "di", di)]

\* A response code of 0 is left out.
ResponseTo(dri, rsc) ==
    LET driSet == WithString(<<>>, "dri", dri)
    IN  [EmptyMessage EXCEPT !.header =
            IF rsc = 0 THEN driSet ELSE SetObject(driSet, "rsc", Num("UINT32", rsc))]

\* get_lwm_dri: only a string is a dri.
DriOf(message) ==
    LET dri == ObjectOf(message.header, "dri")
    IN  IF dri # NULL /\ Is("str", dri) THEN Head(dri.str) ELSE NULL

-----------------------------------------------------------------------------
(* The operations. *)

NewRequest(if, dri, di) ==
    /\ msg = NULL /\ wire = <<>>
    /\ msg' = RequestOf(if, dri, di)
    /\ sent' = NULL /\ got' = NULL
    /\ UNCHANGED wire

\* set_lwm_object_to_dict on the body.
SetBody(key, value) ==
    /\ msg # NULL
    /\ msg' = [msg EXCEPT !.body = SetObject(@, key, value)]
    /\ UNCHANGED <<sent, wire, got>>

\* _delete_lwm_kvo_by_key on the body.
DeleteFromBody(key) ==
    /\ msg # NULL
    /\ key \in Keys(msg.body)
    /\ msg' = [msg EXCEPT !.body = DeleteKey(@, key)]
    /\ UNCHANGED <<sent, wire, got>>

\* An object in the message is changed where it is: an item is added to an
\* array, a number becomes another INT32, a string another text.
Change(key, value) ==
    /\ msg # NULL
    /\ key \in Keys(msg.body)
    /\ msg' = [msg EXCEPT !.body[At(msg.body, key)].value = value]
    /\ UNCHANGED <<sent, wire, got>>

InBody(key, kind) == msg # NULL /\ key \in Keys(msg.body) /\ Is(kind, ObjectOf(msg.body, key))

MaxItems == 2

AddToArray(key, item) ==
    /\ InBody(key, "arr")
    /\ Len(ObjectOf(msg.body, key).arr) < MaxItems
    /\ Change(key, Arr(Added(ObjectOf(msg.body, key).arr, item)))

SetInt(key, number) == InBody(key, "num") /\ Change(key, Num("INT32", number))

SetString(key, word) == InBody(key, "str") /\ Change(key, Str(<<word>>))

\* serialize_lwm_message, and the deletion of the message that was sent.
Send ==
    /\ msg # NULL
    /\ wire' = SerializedMessage(msg)
    /\ sent' = msg
    /\ msg' = NULL
    /\ UNCHANGED got

\* parse_lwm_message_str.
Receive ==
    /\ wire # <<>>
    /\ got' = ParsedMessage(wire)
    /\ wire' = <<>>
    /\ UNCHANGED <<msg, sent>>

\* What was read is answered.
Answer(rsc) ==
    /\ msg = NULL /\ got # NULL
    /\ msg' = ResponseTo(DriOf(got), rsc)
    /\ sent' = NULL /\ got' = NULL
    /\ UNCHANGED wire

Next ==
    \/ \E dri \in DriText \cup {NULL}, di \in DiText \cup {NULL} : NewRequest(1, dri, di)
    \/ \E key \in Key, value \in Object : SetBody(key, value)
    \/ \E key \in Key : DeleteFromBody(key)
    \/ \E key \in Key, item \in Item : AddToArray(key, item)
    \/ \E key \in Key, number \in Number : SetInt(key, number)
    \/ \E key \in Key, word \in DriText : SetString(key, word)
    \/ Send
    \/ Receive
    \/ \E rsc \in {0, 200} : Answer(rsc)

Spec == Init /\ [][Next]_vars

-----------------------------------------------------------------------------
(* Properties. *)

\* However a message came about, built, read or built on, a key occurs once
\* in each of its dictionaries: get_lwm_object_from_dict stops at the first.
OneEntryPerKey ==
    \A m \in {msg, got} \ {NULL} :
        /\ \A i, j \in DOMAIN m.header : i # j => m.header[i].key # m.header[j].key
        /\ \A i, j \in DOMAIN m.body : i # j => m.body[i].key # m.body[j].key

\* The text of a number with all its digits, to two places behind the point;
\* how serialize_lwm_object prints it (Digits, Room) is not looked at.
FullDigits(number) ==
    LET n    == IF number.number < 0 THEN -number.number ELSE number.number
        cent == n % 100
        text == IF number.type \in {"FLOAT", "DOUBLE"}
                THEN ToString(n \div 100) \o "." \o (IF cent \in 1 .. 9 THEN "0" ELSE "")
                                           \o ToString(cent)
                ELSE ToString(n)
    IN  (IF number.number < 0 THEN "-" ELSE "") \o text

\* What the other side can know of a value: all that is not nested is text,
\* and an array and a dictionary turn round on the way.
Known[value \in Value] ==
    CASE Is("str", value) -> value
      [] Is("num", value) -> Str(<<FullDigits(value.num)>>)
      [] Is("arr", value) -> Arr(Reverse([i \in DOMAIN value.arr |-> Known[value.arr[i]]]))
      [] Is("dict", value) ->
            Dict(Reverse([i \in DOMAIN value.dict |->
                            Entry(value.dict[i].key, Known[value.dict[i].value])]))

\* The value is, or has in it, an empty string.
Empty[value \in Value] ==
    CASE Is("str", value) -> value.str = <<>>
      [] Is("num", value) -> FALSE
      [] Is("arr", value) -> \E i \in DOMAIN value.arr : Empty[value.arr[i]]
      [] Is("dict", value) -> \E i \in DOMAIN value.dict : Empty[value.dict[i].value]

\* The value is, or has in it, a number that the code prints as another: the
\* last digit does not fit, a zero behind the point is missing, or a sign is
\* there.
Misprinted[value \in Value] ==
    CASE Is("str", value) -> FALSE
      [] Is("num", value) -> NumberText(value.num) # FullDigits(value.num)
      [] Is("arr", value) -> \E i \in DOMAIN value.arr : Misprinted[value.arr[i]]
      [] Is("dict", value) -> \E i \in DOMAIN value.dict : Misprinted[value.dict[i].value]

\* The value is, or has in it, a dictionary of which entries are lost: one is
\* a dictionary, and another follows it in the text.
Losing[value \in Value] ==
    CASE Is("str", value) \/ Is("num", value) -> FALSE
      [] Is("arr", value) -> \E i \in DOMAIN value.arr : Losing[value.arr[i]]
      [] Is("dict", value) ->
            \/ \E i \in 1 .. Len(value.dict) - 1 : Is("dict", value.dict[i].value)
            \/ \E i \in DOMAIN value.dict : Losing[value.dict[i].value]

\* The messages the format can carry: no string is empty, no number is printed
\* as another, and no dictionary is the value of an entry that another entry
\* follows in the text.
Carried(m) == \A part \in {m.header, m.body} :
                 ~Empty[Dict(part)] /\ ~Misprinted[Dict(part)] /\ ~Losing[Dict(part)]

\* A message the format can carry arrives whole: every entry with its value,
\* in the opposite order.
RoundTrip ==
    [][Receive /\ Carried(sent) =>
            /\ got' # NULL
            /\ Dict(got'.header) = Known[Dict(sent.header)]
            /\ Dict(got'.body) = Known[Dict(sent.body)]]_vars

\* Whatever the format does to a message (it refuses one with an empty
\* string, and loses the entries behind a dictionary), the other side reads
\* only entries that were sent, with the values they were sent with unless a
\* number in them is printed as another; and when it reads anything it knows
\* the dri it has to answer with.
NothingInvented ==
    [][Receive /\ got' # NULL =>
        /\ DriOf(got') = DriOf(sent)
        /\ \A key \in Keys(got'.body) :
               /\ key \in Keys(sent.body)
               /\ \/ Misprinted[ObjectOf(sent.body, key)]
                  \/ ObjectOf(got'.body, key) = Known[ObjectOf(sent.body, key)]]_vars
=============================================================================
