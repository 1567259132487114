------------------------------ MODULE MCMessages ------------------------------
(***************************************************************************)
(* Both kinds of messages for TLC.  They share nothing but the device that *)
(* has both, so that messages of different kinds are never under way       *)
(* together.                                                               *)
(*                                                                         *)
(* The values of the light-weight messages are words, numbers that are     *)
(* printed whole and others that are not (a digit too long, a sign behind  *)
(* the point), arrays of words, of arrays and of dictionaries, and a       *)
(* dictionary of parameters.  Collaboration messages have payloads of one, *)
(* two and four attributes with values of every length, and with the       *)
(* greatest numbers their fields can hold.                                 *)
(***************************************************************************)
EXTENDS LwMessage, Collaboration

MCItem   == {Str(<<"on">>), Arr(<<Str(<<"a">>)>>),
             Dict(<<Entry("n", Str(<<"x">>)), Entry("v", Num("INT32", 7))>>)}
MCObject == {Str(<<"off">>), Str(<<>>), Num("FLOAT", 125), Num("FLOAT", -25), Arr(<<>>),
             Dict(<<Entry("p", Str(<<"y">>)), Entry("q", Arr(<<>>))>>)}
MCNumber == {-25, -2147483647}

Values(n) == [i \in 1 .. n |-> (200 + 50 * i) % 256]
Attrs(S)  == {Attribute(id, Values(n)) : id \in {1, 63}, n \in S}
Lists     == {<<a>> : a \in Attrs({1, 2, 4, 8})}
             \cup {<<a, b>> : a \in Attrs({1, 8}), b \in Attrs({2, 4})}
             \cup {<<a, b, b, a>> : a \in Attrs({1, 8}), b \in Attrs({2, 4})}
MCPayload == {[task |-> 255, object |-> object, attrs |-> list] : object \in {0, 63}, list \in Lists}

OneKind == \/ out = None /\ Next /\ UNCHANGED cmVars
           \/ msg = NULL /\ sent = NULL /\ CmNext /\ UNCHANGED vars

BothInit == Init /\ CmInit

OneKindSpec == BothInit /\ [][OneKind]_<<vars, cmVars>>
=============================================================================
