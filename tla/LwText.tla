-------------------------------- MODULE LwText --------------------------------
(***************************************************************************)
(* The data and the two conversions of iw_fw_lwMsgUtils.c: what a          *)
(* light-weight message holds, the text serialize_lwm_message makes of it  *)
(* and the message parse_lwm_message_str reads from a text.                *)
(*                                                                         *)
(* A text is a sequence of tokens: the seven characters the format gives a *)
(* meaning to, and words, each of which is one run of other characters.    *)
(* White space, which the parser skips between tokens, is left out, and so *)
(* is a text cut in the middle: what the parser meets behind the end of    *)
(* its string is not in the string.                                        *)
(*                                                                         *)
(* A value is a record of one field, its kind: str, a sequence of words;   *)
(* num, the type and the number, a FLOAT or DOUBLE in hundredths, which    *)
(* the model takes to be exact; arr, a sequence of values; dict, a         *)
(* sequence of entries.  Arrays and dictionaries are lists to which the    *)
(* code adds at the head.                                                  *)
(*                                                                         *)
(* What recurs in the code is a recursive function here: over the values,  *)
(* over the rounds of a loop, over the places at which a bracket opens.    *)
(***************************************************************************)
EXTENDS Integers, Sequences, SequencesExt, TLC

CONSTANTS
    NULL,       \* no value, no message
    MaxText     \* how many rounds a loop of the parser makes: more than there are
                \* entries, items and separators between two brackets of a text

ASSUME TextAssumption == MaxText \in Nat

\* Entry, Str, Num, Arr and Dict build the structures of the header file.
Entry(key, value) == [key |-> key, value |-> value]
Str(words)        == [str |-> words]
Num(type, number) == [num |-> [number |-> number, type |-> type]]
Arr(values)       == [arr |-> values]
Dict(entries)     == [dict |-> entries]
Is(kind, value)   == kind \in DOMAIN value

\* The values a message may hold: they are nested three deep at most.
Nesting(inner) == inner \cup [arr : Seq(inner)]
                        \cup [dict : Seq([key : STRING, value : inner])]

Value == Nesting(Nesting(Nesting([str : Seq(STRING)]
                                   \cup [num : [number : Int, type : STRING]])))

Added(list, item) == <<item>> \o list

-----------------------------------------------------------------------------
(* Dictionaries. *)

Keys(dict) == {dict[i].key : i \in DOMAIN dict}

At(dict, key) == CHOOSE i \in DOMAIN dict :
                    /\ dict[i].key = key
                    /\ \A j \in 1 .. i - 1 : dict[j].key # key

ObjectOf(dict, key) == IF key \in Keys(dict) THEN dict[At(dict, key)].value ELSE NULL

DeleteKey(dict, key) == IF key \in Keys(dict) THEN RemoveAt(dict, At(dict, key)) ELSE dict

\* Mutant: an object is added without deleting the one its key had.
SetObject_Adds(dict, key, value) == Added(dict, Entry(key, value))

SetObject(dict, key, value) == Added(DeleteKey(dict, key), Entry(key, value))

-----------------------------------------------------------------------------
(* The text of a message. *)

\* How many characters snprintf leaves of a number of each type: one less
\* than the size it is given.
Room == [INT8 |-> 3, UINT8 |-> 2, INT16 |-> 5, UINT16 |-> 4, INT32 |-> 10, UINT32 |-> 9,
         FLOAT |-> 19, DOUBLE |-> 19]

Cut(text, room) == IF Len(text) > room THEN SubSeq(text, 1, room) ELSE text

\* Division as C does it, towards zero.
Trunc(a, b) == IF a < 0 THEN -((-a) \div b) ELSE a \div b

\* The digits behind the point are printed as a number of their own, with its
\* sign and without its zeros: 1.05 is "1.5" and -0.25 is "0.-25".
Digits(number) ==
    IF number.type \in {"FLOAT", "DOUBLE"}
    THEN LET whole == Trunc(number.number, 100)
         IN  ToString(whole) \o "." \o ToString(number.number - 100 * whole)
    ELSE ToString(number.number)

NumberText(number) == Cut(Digits(number), Room[number.type])

Between(texts, separator) ==
    FoldLeft(LAMBDA all, text : IF all = <<>> THEN text ELSE all \o <<separator>> \o text,
             <<>>, texts)

DictText(dict, text) ==
    <<"{">> \o Between([i \in DOMAIN dict |->
                          <<dict[i].key, "=">> \o text[dict[i].value]], ";") \o <<"}">>

Serialized[value \in Value] ==
    CASE Is("num", value)  -> <<NumberText(value.num)>>
      [] Is("str", value)  -> value.str
      [] Is("dict", value) -> DictText(value.dict, Serialized)
      [] Is("arr", value)  ->
            <<"[">> \o Between([i \in DOMAIN value.arr |-> Serialized[value.arr[i]]], ",") \o <<"]">>

SerializedDict(dict) == DictText(dict, Serialized)

\* A body without an entry has no text.
SerializedMessage(msg) ==
    SerializedDict(msg.header)
    \o (IF msg.body = <<>> THEN <<>> ELSE SerializedDict(msg.body))

-----------------------------------------------------------------------------
(* The parser.  Every function is given the text and the place it begins   *)
(* at, and returns what it made and the place it stopped at, which is the  *)
(* place the caller goes on from: a function of the code moves the         *)
(* caller's pointer.  Behind the text stands the null character.  inner is *)
(* what is read from each place at which a bracket opens.                  *)

Nul == "nul"
Tok(text, p) == IF p \in DOMAIN text THEN text[p] ELSE Nul

\* The first place from p on that holds one of the stops, or the end.
Until(text, p, stops) ==
    CHOOSE end \in p .. p + Len(text) :
        /\ Tok(text, end) \in stops \cup {Nul}
        /\ \A q \in p .. end - 1 : Tok(text, q) \notin stops \cup {Nul}

\* What a function returns, and what a round of its loop leaves to the next.
Result(ok, p, made) == [on |-> FALSE, ok |-> ok, p |-> p, made |-> made]
GoOn(p, made)       == [on |-> TRUE, ok |-> TRUE, p |-> p, made |-> made]

Keyed(key, value) == Result(value.ok, value.p, Entry(key, value.made))

Nested(inner, kind) == Result(inner.ok, inner.p, kind :> inner.made)

\* Mutant: a word goes on over the bracket that ends its dictionary.
ParsedWord_PastBracket(text, p) ==
    LET end == Until(text, p, {"=", ";"})
    IN  Result(TRUE, end, Str(SubSeq(text, p, end - 1)))

ParsedWord(text, p) ==
    LET end == Until(text, p, {"{", "}", "[", "]", "=", ";", ","})
    IN  IF Tok(text, end) \in {"{", "[", "=", ","}
        THEN Result(FALSE, end, NULL)
        ELSE Result(TRUE, end, Str(SubSeq(text, p, end - 1)))

\* The value of an entry.  It stops on the bracket that closes a dictionary
\* or an array, and on the character behind a word.
ParsedValue(text, p, inner) ==
    LET first == Tok(text, p)
    IN  CASE first = "{" -> Nested(inner[p], "dict")
          [] first = "[" -> Nested(inner[p], "arr")
          [] first \in {"]", "}", ";", "=", ","} -> Result(FALSE, p, NULL)
          [] OTHER -> ParsedWord(text, p)

\* _lwm_kvo_parsing
ParsedEntry(text, p, inner) ==
    LET equals == Until(text, p, {"{", "}", "[", "]", "=", ";", ","})
    IN  IF equals = p \/ Tok(text, equals) # "="
        THEN Result(FALSE, equals, NULL)
        ELSE Keyed(text[p], ParsedValue(text, equals + 1, inner))

\* Behind an entry.  A dictionary that is the value of an entry has stopped on
\* its own closing bracket, where this dictionary ends too.
EntriesBehind(text, entry, dict) ==
    IF ~entry.ok THEN Result(FALSE, entry.p, <<>>)
    ELSE LET all == SetObject(dict, entry.made.key, entry.made.value)
         IN  IF Tok(text, entry.p) = "}" THEN Result(TRUE, entry.p, all)
             ELSE GoOn(entry.p + 1, all)

NextEntry(text, at, inner) ==
    CASE Tok(text, at.p) \in {Nul, "}"} -> Result(TRUE, at.p, at.made)
      [] Tok(text, at.p) = ";" -> GoOn(at.p + 1, at.made)
      [] OTHER -> EntriesBehind(text, ParsedEntry(text, at.p, inner), at.made)

\* The loop of _lwm_dict_parsing: the entries, newest first; none when one of
\* them is bad.
Entries(text, p, inner) ==
    LET round[n \in 0 .. MaxText] ==
            IF n = 0 THEN GoOn(p, <<>>)
            ELSE LET at == round[n - 1] IN IF at.on THEN NextEntry(text, at, inner) ELSE at
    IN  round[MaxText]

ParsedDict(text, p, inner) ==
    Entries(text, IF Tok(text, p) = "{" THEN p + 1 ELSE p, inner)

\* Mutant: the items are added at the tail.
NextItems_Tail(items, item) == Append(items, item)

NextItems(items, item) == Added(items, item)

\* Behind an item: the next one follows a comma.
ItemsBehind(text, end, items) ==
    IF Tok(text, end) = "," THEN GoOn(end + 1, items) ELSE Result(TRUE, end, items)

\* Behind a nested value everything is skipped up to the comma or the bracket;
\* a nested value that cannot be read is left out.
NestedItem(text, items, inner, kind) ==
    ItemsBehind(text, Until(text, inner.p + 1, {",", "]"}),
                IF inner.ok THEN NextItems(items, kind :> inner.made) ELSE items)

\* A word at the end of the text is no item.
WordItem(text, p, items, end) ==
    IF Tok(text, end) = Nul THEN Result(TRUE, end, items)
    ELSE ItemsBehind(text, end, NextItems(items, Str(SubSeq(text, p, end - 1))))

NextItem(text, at, inner) ==
    LET first == Tok(text, at.p)
    IN  CASE first = Nul -> Result(TRUE, at.p, at.made)
          [] first \in {",", "]", "}", ";", "="} -> Result(FALSE, at.p, <<>>)
          [] first = "{" -> NestedItem(text, at.made, inner[at.p], "dict")
          [] first = "[" -> NestedItem(text, at.made, inner[at.p], "arr")
          [] OTHER -> WordItem(text, at.p, at.made, Until(text, at.p, {",", "]"}))

\* The loop of _lwm_new_array_parsing.
Items(text, p, inner) ==
    LET round[n \in 0 .. MaxText] ==
            IF n = 0 THEN GoOn(p, <<>>)
            ELSE LET at == round[n - 1] IN IF at.on THEN NextItem(text, at, inner) ELSE at
    IN  round[MaxText]

ParsedArray(text, p, inner) ==
    IF Tok(text, p + 1) = "]" THEN Result(TRUE, p + 1, <<>>) ELSE Items(text, p + 1, inner)

\* What is read from a bracket that opens.
Inner(text) ==
    LET inner[p \in DOMAIN text] ==
            IF text[p] = "{" THEN ParsedDict(text, p, inner) ELSE ParsedArray(text, p, inner)
    IN  inner

\* A message that goes on behind the header with anything but a bracket has no
\* body when that is a separator, and is no message when it is a word.
MessageOf(text, header, next, body) ==
    LET after == IF next = "{" THEN Tok(text, body.p + 1) ELSE next
    IN  IF Tok(text, 1) # "{" \/ after \notin {Nul, "[", "]", "}", ";", "=", ","}
        THEN NULL
        ELSE [header |-> header.made, body |-> IF next = "{" THEN body.made ELSE <<>>]

WithHeader(text, header) ==
    MessageOf(text, header, Tok(text, header.p + 1),
              ParsedDict(text, header.p + 1, Inner(text)))

\* parse_lwm_message_str: the header, and the body when a bracket follows it.
ParsedMessage(text) == WithHeader(text, ParsedDict(text, 1, Inner(text)))
=============================================================================
