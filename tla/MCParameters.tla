----------------------------- MODULE MCParameters -----------------------------
(***************************************************************************)
(* A service of two tasks.  Both have a threshold, the second one listens  *)
(* for messages; the requests leave out and repeat what they can.          *)
(*                                                                         *)
(* TLC's own numbers have 32 bits, so that those of the code are scaled:   *)
(* a long has 21 bits here, a text room for a sign and six digits, and a   *)
(* float 14 bits.                                                          *)
(***************************************************************************)
EXTENDS Parameters

MCHalf  == 1048576
MCLeast == -999999
MCExact == 16384

MCFlexible == [t \in Task |-> IF t = "t0" THEN {"threshold", "gain", "level", "count", "ratio"}
                              ELSE {"threshold"}]
MCStatic   == [t \in Task |-> IF t = "t0" THEN {"unit"} ELSE {}]
MCTypeOf   == [threshold |-> "INT8", gain |-> "UINT16", unit |-> "STRING",
               level |-> "INT32", count |-> "UINT32", ratio |-> "FLOAT"]
\* The same with a gain of the type that no number is read for.
MCDoubleTypeOf == [MCTypeOf EXCEPT !["gain"] = "DOUBLE"]

MCNumber == {-7, 70000}

\* At the edges of what the wider types carry, and beyond them.
AtTheEdges ==
    {[level |-> MCLeast, count |-> MCHalf - 1, ratio |-> 163],
     [level |-> -MCHalf, count |-> 2 * MCHalf - 1, ratio |-> MCExact + 3],
     [level |-> MCHalf - 1, count |-> -1, ratio |-> -163]}

Mis == {Missing, <<>>, <<Service>>, <<NoService>>, <<Service, Service>>}
Tis == {Missing, <<>>, <<"t0">>, <<"t1">>, <<"t0", "t1">>, <<NoTask>>}
Fps == {Missing} \cup [{"threshold"} -> MCNumber] \cup [{"gain"} -> MCNumber] \cup [{"unit"} -> {-7}]
Names == {Missing, <<>>, <<"threshold">>, <<"gain", "threshold">>, <<"unit">>}

MCRequest ==
    [op : {"set"}, mis : {<<Service>>}, tis : Tis, fp : Fps]
    \cup [op : {"set"}, mis : {<<Service>>}, tis : {<<"t0">>}, fp : AtTheEdges]
    \cup [op : {"set"}, mis : Mis, tis : {<<"t0">>}, fp : [{"threshold"} -> MCNumber]]
    \cup [op : {"read"}, mis : {<<Service>>}, tis : Tis, fps : Names, sps : {Missing, <<"unit">>}]
    \cup [op : {"readAll"}, mis : Mis, tis : Tis, fps : {Missing}, sps : {Missing}]
    \cup [op : {"output"}, mis : Mis \cup {<<Service, NoService>>}, dri : Dri]
=============================================================================
