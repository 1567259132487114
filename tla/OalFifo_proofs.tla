--------------------------- MODULE OalFifo_proofs ---------------------------
(***************************************************************************)
(* Proofs about the ring buffer of OalFifo, for every number of blocks and *)
(* every set of values.                                                    *)
(***************************************************************************)
EXTENDS OalFifo, SequenceTheorems, TLAPS

-----------------------------------------------------------------------------
(* Positions.                                                              *)

\* The modulo of IW_PUT_FIFO_NEXT and IW_GET_FIFO_NEXT starts over at 0.
LEMMA AfterIs ==
  ASSUME NEW i \in Positions
  PROVE  /\ After(i) = IF i = BlockCount - 1 THEN 0 ELSE i + 1
         /\ After(i) \in Positions
<1>1. CASE i = BlockCount - 1
  BY <1>1, FifoAssumption DEF After, Positions
<1>2. CASE i # BlockCount - 1
  BY <1>2, FifoAssumption DEF After, Positions
<1> QED BY <1>1, <1>2

\* No two positions are followed by the same one.
LEMMA AfterInjective ==
  ASSUME NEW i \in Positions, NEW j \in Positions, i # j
  PROVE  After(i) # After(j)
<1>1. /\ After(i) = IF i = BlockCount - 1 THEN 0 ELSE i + 1
      /\ After(j) = IF j = BlockCount - 1 THEN 0 ELSE j + 1
  BY AfterIs
<1> QED BY <1>1, FifoAssumption DEF Positions

\* Distances stay within the buffer, and 0 means the same position.
LEMMA AheadIs ==
  ASSUME NEW i \in Positions, NEW j \in Positions
  PROVE  /\ Ahead(i, j) \in 0 .. BlockCount - 1
         /\ Ahead(i, j) = 0 <=> i = j
BY FifoAssumption DEF Ahead, Positions

\* One more position ahead, and one less.
LEMMA AheadOfAfter ==
  ASSUME NEW i \in Positions, NEW j \in Positions
  PROVE  /\ i # After(j) => Ahead(i, After(j)) = Ahead(i, j) + 1
         /\ i # j => Ahead(After(i), j) = Ahead(i, j) - 1
         /\ i = After(j) <=> Ahead(i, j) = BlockCount - 1
BY AfterIs, FifoAssumption DEF Ahead, Positions

-----------------------------------------------------------------------------
(* Types.                                                                  *)

LEMMA InitTypeOK == Init => TypeOK
BY FifoAssumption DEF Init, TypeOK, Positions

LEMMA ProducerTypeOK == TypeOK /\ Producer => TypeOK'
<1> SUFFICES ASSUME TypeOK, Producer PROVE TypeOK'
  OBVIOUS
<1>1. ASSUME NEW v \in Value, PutCall(v) PROVE TypeOK'
  BY <1>1 DEF TypeOK, PutCall, getVars
<1>2. CASE PutCheck
  BY <1>2 DEF TypeOK, PutCheck, getVars
<1>3. CASE PutCopy
  BY <1>3 DEF TypeOK, PutCopy, getVars
<1>4. CASE PutPublish
  BY <1>4, AfterIs DEF TypeOK, PutPublish, getVars
<1> QED BY <1>1, <1>2, <1>3, <1>4 DEF Producer

LEMMA ConsumerTypeOK == TypeOK /\ Consumer => TypeOK'
<1> SUFFICES ASSUME TypeOK, Consumer PROVE TypeOK'
  OBVIOUS
<1>1. CASE GetCall \/ GetCheck
  BY <1>1 DEF TypeOK, GetCall, GetCheck, putVars
<1>2. CASE GetCopy
  BY <1>2 DEF TypeOK, GetCopy, putVars
<1>3. CASE GetAdvance
  BY <1>3, AfterIs DEF TypeOK, GetAdvance, putVars
<1>4. CASE FlushRead \/ FlushWrite
  BY <1>4 DEF TypeOK, FlushRead, FlushWrite, putVars
<1>5. CASE CountGreater
  BY <1>5 DEF TypeOK, CountGreater, CountStep, putVars
<1>6. CASE CountSubtract
  <2>1. (put_pos + WordSize - get_pos) % WordSize \in 0 .. WordSize - 1
    BY FifoAssumption DEF TypeOK, Positions
  <2> QED BY <1>6, <2>1 DEF TypeOK, CountSubtract, CountStep, putVars
<1>7. CASE CountCompare
  BY <1>7, FifoAssumption DEF TypeOK, CountCompare, CountStep, putVars
<1>8. CASE CountWrap
  <2>1. (put_pos + BlockCount + WordSize - get_pos) % WordSize \in 0 .. WordSize - 1
    BY FifoAssumption DEF TypeOK, Positions
  <2> QED BY <1>8, <2>1 DEF TypeOK, CountWrap, CountStep, putVars
<1> QED BY <1>1, <1>2, <1>3, <1>4, <1>5, <1>6, <1>7, <1>8 DEF Consumer

\* The types of the ring buffer hold for every number of blocks (iw_fifo_t).
THEOREM TypeCorrect == Spec => []TypeOK
<1>1. TypeOK /\ [Next]_vars => TypeOK'
  BY ProducerTypeOK, ConsumerTypeOK DEF Next, vars, putVars, getVars, TypeOK
<1> QED BY <1>1, InitTypeOK, PTL DEF Spec

-----------------------------------------------------------------------------
(* The order of the positions.                                             *)

\* get_pos, the target of a flush, put_pos and the block that is being put
\* follow each other around the buffer: a producer that has found space keeps
\* it, a consumer that has found a block keeps it, and a flush goes no
\* further than what was put.
Ordered ==
  /\ putPc \in {"copy", "publish"} => get_pos # After(put_pos)
  /\ getPc \in {"copy", "advance"} => get_pos # put_pos
  /\ getPc = "flush" => Ahead(get_pos, flushTo) <= Ahead(get_pos, put_pos)

LEMMA NextOrdered == TypeOK /\ Ordered /\ [Next]_vars => Ordered'
<1> SUFFICES ASSUME TypeOK, Ordered, [Next]_vars PROVE Ordered'
  OBVIOUS
<1> USE DEF Ordered
<1>1. ASSUME NEW v \in Value, PutCall(v) PROVE Ordered'
  BY <1>1 DEF PutCall, getVars, Ahead
<1>2. CASE PutCheck
  BY <1>2 DEF PutCheck, HasSpace, getVars, Ahead, After
<1>3. CASE PutCopy
  BY <1>3 DEF PutCopy, getVars, Ahead, After
<1>4. CASE PutPublish
  <2>1. get_pos' = get_pos /\ flushTo' = flushTo /\ getPc' = getPc /\ putPc' = "idle"
    BY <1>4 DEF PutPublish, getVars
  <2>2. put_pos' = After(put_pos) /\ get_pos # After(put_pos)
    BY <1>4 DEF PutPublish
  <2>3. Ahead(get_pos, put_pos)' = Ahead(get_pos, put_pos) + 1
    BY <2>1, <2>2, AheadOfAfter DEF TypeOK, Ahead
  <2>4. getPc = "flush" => Ahead(get_pos, flushTo)' <= Ahead(get_pos, put_pos)'
    BY <2>1, <2>3, AheadIs DEF TypeOK, Ahead, Positions
  <2> QED BY <2>1, <2>2, <2>4
<1>5. CASE GetCall \/ GetCheck \/ GetCopy
  BY <1>5 DEF GetCall, GetCheck, HasBlock, GetCopy, putVars, After
<1>6. CASE GetAdvance
  <2>1. get_pos' = After(get_pos) /\ get_pos # put_pos /\ getPc' = "idle"
    BY <1>6 DEF GetAdvance
  <2>2. put_pos' = put_pos /\ putPc' = putPc
    BY <1>6 DEF GetAdvance, putVars
  <2>3. After(get_pos) # After(put_pos)
    BY <2>1, AfterInjective DEF TypeOK
  <2> QED BY <2>1, <2>2, <2>3 DEF After
<1>7. CASE FlushRead
  <2>1. Ahead(get_pos, put_pos) <= Ahead(get_pos, put_pos)
    BY AheadIs DEF TypeOK, Positions
  <2>2. /\ get_pos' = get_pos /\ put_pos' = put_pos /\ putPc' = putPc
        /\ flushTo' = put_pos /\ getPc' = "flush"
    BY <1>7 DEF FlushRead, putVars
  <2>3. (Ahead(get_pos, flushTo) <= Ahead(get_pos, put_pos))'
    BY <2>1, <2>2 DEF Ahead
  <2> QED BY <2>2, <2>3 DEF After
<1>8. CASE FlushWrite
  <2>1. get_pos' = flushTo /\ getPc' = "idle" /\ put_pos' = put_pos /\ putPc' = putPc
    BY <1>8 DEF FlushWrite, putVars
  <2>2. get_pos # After(put_pos) => flushTo # After(put_pos)
    <3>1. Ahead(get_pos, flushTo) <= Ahead(get_pos, put_pos)
      BY <1>8 DEF FlushWrite
    <3>2. get_pos # After(put_pos) =>
            Ahead(get_pos, After(put_pos)) = Ahead(get_pos, put_pos) + 1
      BY AheadOfAfter DEF TypeOK
    <3>3. Ahead(get_pos, put_pos) \in Nat
      BY AheadIs DEF TypeOK, Positions
    <3> QED BY <3>1, <3>2, <3>3
  <2> QED BY <2>1, <2>2 DEF After
<1>9. CASE CountGreater \/ CountSubtract \/ CountCompare \/ CountWrap
  BY <1>9 DEF CountGreater, CountSubtract, CountCompare, CountWrap, CountStep, putVars, After
<1>10. CASE UNCHANGED vars
  BY <1>10 DEF vars, putVars, getVars, Ahead, After
<1> QED BY <1>1, <1>2, <1>3, <1>4, <1>5, <1>6, <1>7, <1>8, <1>9, <1>10
        DEF Next, Producer, Consumer

\* The inductive invariant.
THEOREM PositionsOrdered == Spec => [](TypeOK /\ Ordered)
<1>1. Init => Ordered
  BY DEF Init, Ordered
<1>2. TypeOK /\ Ordered /\ [Next]_vars => (TypeOK /\ Ordered)'
  BY NextOrdered, ProducerTypeOK, ConsumerTypeOK DEF Next, vars, putVars, getVars, TypeOK
<1> QED BY <1>1, <1>2, InitTypeOK, PTL DEF Spec

\* The producer never writes the block the consumer reads, whatever the number
\* of blocks (iw_put_fifo against iw_get_fifo).
THEOREM BlocksStayApart == Spec => []BlocksApart
<1>1. Ordered => BlocksApart
  BY DEF Ordered, BlocksApart
<1> QED BY <1>1, PositionsOrdered, PTL
-----------------------------------------------------------------------------
(* The ring buffer implements the queue.                                   *)

\* The i-th block counted from position p.
Slot(p, i) == (p + i - 1) % BlockCount

LEMMA SlotIs ==
  ASSUME NEW p \in Positions, NEW i \in 1 .. BlockCount
  PROVE  /\ Slot(p, i) = IF p + i - 1 < BlockCount THEN p + i - 1 ELSE p + i - 1 - BlockCount
         /\ Slot(p, i) \in Positions
<1>1. CASE p + i - 1 < BlockCount
  BY <1>1, FifoAssumption DEF Slot, Positions
<1>2. CASE p + i - 1 >= BlockCount
  BY <1>2, FifoAssumption DEF Slot, Positions
<1> QED BY <1>1, <1>2, FifoAssumption DEF Positions

\* The blocks before position q are other blocks; the next one is q.
LEMMA SlotUpTo ==
  ASSUME NEW p \in Positions, NEW q \in Positions
  PROVE  /\ \A i \in 1 .. Ahead(p, q) : Slot(p, i) # q
         /\ Slot(p, Ahead(p, q) + 1) = q
<1>0. Ahead(p, q) \in 0 .. BlockCount - 1
  BY AheadIs
<1>1. ASSUME NEW i \in 1 .. Ahead(p, q) PROVE Slot(p, i) # q
  <2>1. i \in 1 .. BlockCount
    BY <1>0, FifoAssumption
  <2> QED BY <2>1, SlotIs, FifoAssumption DEF Ahead, Positions
<1>2. Slot(p, Ahead(p, q) + 1) = q
  <2>1. Ahead(p, q) + 1 \in 1 .. BlockCount
    BY <1>0, FifoAssumption
  <2> QED BY <2>1, SlotIs, FifoAssumption DEF Ahead, Positions
<1> QED BY <1>1, <1>2

\* Counting from a position further ahead.
LEMMA SlotFurther ==
  ASSUME NEW p \in Positions, NEW q \in Positions, NEW i \in Nat \ {0},
         Ahead(p, q) + i <= BlockCount
  PROVE  Slot(q, i) = Slot(p, Ahead(p, q) + i)
<1>0. Ahead(p, q) \in 0 .. BlockCount - 1
  BY AheadIs
<1>1. i \in 1 .. BlockCount /\ Ahead(p, q) + i \in 1 .. BlockCount
  BY <1>0, FifoAssumption
<1> QED BY <1>1, SlotIs, FifoAssumption DEF Ahead, Positions

Item == Value \cup {Torn}

\* The queue: one item for each block from get_pos up to put_pos.
HeldInOrder ==
  /\ Held \in Seq(Item)
  /\ Len(Held) = Ahead(get_pos, put_pos)
  /\ Len(Held) \in 0 .. BlockCount - 1
  /\ \A i \in 1 .. Len(Held) : Held[i] = block[Slot(get_pos, i)]

LEMMA HeldIs == TypeOK => HeldInOrder
<1> SUFFICES ASSUME TypeOK PROVE HeldInOrder
  OBVIOUS
<1> DEFINE n == Ahead(get_pos, put_pos)
<1>1. n \in 0 .. BlockCount - 1 /\ n \in Nat
  <2>1. n \in 0 .. BlockCount - 1
    BY AheadIs DEF TypeOK
  <2> QED BY <2>1, FifoAssumption
<1>2. Held = [i \in 1 .. n |-> block[Slot(get_pos, i)]]
  BY DEF Held, Slot
<1>3. \A i \in 1 .. n : block[Slot(get_pos, i)] \in Item
  <2>1. \A i \in 1 .. n : i \in 1 .. BlockCount
    BY <1>1, FifoAssumption
  <2> QED BY <2>1, SlotIs DEF TypeOK, Item
<1> HIDE DEF n
<1>4. Held \in [1 .. n -> Item]
  BY <1>2, <1>3
<1>5. Held \in Seq(Item)
  BY <1>1, <1>4, SeqDef
<1>6. Len(Held) = n
  <2>1. DOMAIN Held = 1 .. n /\ DOMAIN Held = 1 .. Len(Held) /\ Len(Held) \in Nat
    BY <1>4, <1>5, LenProperties
  <2> QED BY <1>1, <2>1
<1> QED BY <1>1, <1>2, <1>5, <1>6 DEF n, HeldInOrder

\* The same of the next state.
LEMMA HeldNext == TypeOK' => HeldInOrder'
BY HeldIs, PTL

\* What the two threads have at hand.
AtHand ==
  /\ putPc # "idle" => putResult = "none" /\ putValue \in Value
  /\ putPc = "publish" => block[put_pos] = putValue
  /\ getPc \in {"check", "copy", "advance"} => getResult = "none"
  /\ getPc = "advance" => getValue = block[get_pos]

LEMMA NextAtHand == TypeOK /\ Ordered /\ AtHand /\ [Next]_vars => AtHand'
<1> SUFFICES ASSUME TypeOK, Ordered, AtHand, [Next]_vars PROVE AtHand'
  OBVIOUS
<1> USE DEF AtHand
<1>1. ASSUME NEW v \in Value, PutCall(v) PROVE AtHand'
  BY <1>1 DEF PutCall, getVars
<1>2. CASE PutCheck
  <2>1. getPc = "advance" => block'[get_pos] = block[get_pos]
    BY <1>2 DEF PutCheck, Ordered, TypeOK
  <2> QED BY <1>2, <2>1 DEF PutCheck, getVars
<1>3. CASE PutCopy
  <2>1. getPc = "advance" => block'[get_pos] = block[get_pos]
    BY <1>3 DEF PutCopy, Ordered, TypeOK
  <2>2. block'[put_pos] = putValue
    BY <1>3 DEF PutCopy, TypeOK
  <2> QED BY <1>3, <2>1, <2>2 DEF PutCopy, getVars
<1>4. CASE PutPublish
  BY <1>4 DEF PutPublish, getVars
<1>5. CASE GetCall \/ GetCheck \/ GetCopy \/ GetAdvance
  BY <1>5 DEF GetCall, GetCheck, GetCopy, GetAdvance, putVars
<1>6. CASE FlushRead \/ FlushWrite
  BY <1>6 DEF FlushRead, FlushWrite, putVars
<1>7. CASE CountGreater \/ CountSubtract \/ CountCompare \/ CountWrap
  BY <1>7 DEF CountGreater, CountSubtract, CountCompare, CountWrap, CountStep, putVars
<1>8. CASE UNCHANGED vars
  BY <1>8 DEF vars, putVars, getVars
<1> QED BY <1>1, <1>2, <1>3, <1>4, <1>5, <1>6, <1>7, <1>8 DEF Next, Producer, Consumer

Dropping == IF getPc = "flush" THEN Ahead(get_pos, flushTo) ELSE 0

\* Writing the block at put_pos leaves the queue alone.
LEMMA WriteKeepsHeld ==
  ASSUME TypeOK, TypeOK', UNCHANGED <<get_pos, put_pos>>, NEW x, block' = [block EXCEPT ![put_pos] = x]
  PROVE  Held' = Held
<1>1. Ahead(get_pos, put_pos)' = Ahead(get_pos, put_pos)
  BY DEF Ahead
<1>2. \A i \in 1 .. Ahead(get_pos, put_pos) : block'[Slot(get_pos, i)] = block[Slot(get_pos, i)]
  BY SlotUpTo DEF TypeOK
<1>3. Held = [i \in 1 .. Ahead(get_pos, put_pos) |-> block[Slot(get_pos, i)]]
  BY DEF Held, Slot
<1>4. Held' = [i \in 1 .. Ahead(get_pos, put_pos) |-> block'[Slot(get_pos, i)]]
  BY <1>1 DEF Held, Slot
<1> QED BY <1>2, <1>3, <1>4

\* A step of the producer is a step of the queue.
LEMMA ProducerImplements ==
  TypeOK /\ TypeOK' /\ Ordered /\ AtHand /\ Producer => [Promise!Next]_(Promise!vars)
<1> SUFFICES ASSUME TypeOK, TypeOK', Ordered, AtHand, Producer
             PROVE  Promise!Next \/ UNCHANGED Promise!vars
  OBVIOUS
<1>a. UNCHANGED getVars => Dropping' = Dropping /\ getResult' = getResult
  BY DEF getVars, Dropping, Ahead
<1>b. UNCHANGED <<block, get_pos, put_pos>> => Held' = Held
  BY DEF Held, Ahead
<1>1. ASSUME NEW v \in Value, PutCall(v) PROVE Promise!CallPut
  BY <1>1, <1>a, <1>b DEF PutCall, getVars, Promise!CallPut, Dropping
<1>2. CASE PutCheck /\ HasSpace
  <2>1. Held' = Held
    BY <1>2, WriteKeepsHeld DEF PutCheck, getVars
  <2> QED BY <1>2, <1>a, <2>1 DEF PutCheck, Promise!vars, Dropping
<1>3. CASE PutCheck /\ ~HasSpace
  <2>1. Len(Held) = BlockCount - 1
    BY <1>3, HeldIs, AheadOfAfter DEF HasSpace, TypeOK, HeldInOrder
  <2>2. Promise!RefusePut
    BY <1>3, <1>a, <1>b, <2>1 DEF PutCheck, AtHand, getVars, Promise!RefusePut, Dropping
  <2> QED BY <2>2 DEF Promise!Next
<1>4. CASE PutCopy
  <2>1. Held' = Held
    BY <1>4, WriteKeepsHeld DEF PutCopy, getVars
  <2> QED BY <1>4, <1>a, <2>1 DEF PutCopy, Promise!vars, Dropping
<1>5. CASE PutPublish
  <2> DEFINE n == Ahead(get_pos, put_pos)
  <2>1. get_pos' = get_pos /\ put_pos' = After(put_pos) /\ block' = block /\ get_pos # After(put_pos)
    BY <1>5 DEF PutPublish, getVars, Ordered
  <2>2. n \in 0 .. BlockCount - 1 /\ n # BlockCount - 1 /\ Ahead(get_pos, put_pos)' = n + 1
    BY <2>1, AheadIs, AheadOfAfter DEF TypeOK, Ahead
  <2>3. block[Slot(get_pos, n + 1)] = putValue /\ putValue \in Value
    BY <1>5, SlotUpTo DEF AtHand, PutPublish, TypeOK
  <2>4. /\ Held \in Seq(Item) /\ Len(Held) = n
        /\ \A i \in 1 .. n : Held[i] = block[Slot(get_pos, i)]
    BY HeldIs DEF HeldInOrder
  <2>5. /\ Held' \in Seq(Item) /\ Len(Held') = n + 1
        /\ \A i \in 1 .. n + 1 : Held'[i] = block[Slot(get_pos, i)]
    BY <2>1, <2>2, HeldNext DEF HeldInOrder, Slot
  <2> HIDE DEF n
  <2>6. Held' = Append(Held, putValue)
    <3>1. /\ Append(Held, putValue) \in Seq(Item) /\ Len(Append(Held, putValue)) = n + 1
          /\ \A i \in 1 .. n : Append(Held, putValue)[i] = Held[i]
          /\ Append(Held, putValue)[n + 1] = putValue
      BY <2>2, <2>3, <2>4, AppendProperties DEF Item
    <3>2. \A i \in 1 .. n + 1 : i \in 1 .. n \/ i = n + 1
      BY <2>2
    <3>3. \A i \in 1 .. n + 1 : Held'[i] = Append(Held, putValue)[i]
      BY <2>3, <2>4, <2>5, <3>1, <3>2
    <3> QED BY <2>5, <3>1, <3>3, SeqEqual
  <2>7. Promise!Put(putValue)
    <3>1. Len(Held) < BlockCount - 1
      BY <2>2, <2>4, FifoAssumption
    <3>2. putResult = "none" /\ putResult' = "ok"
      BY <1>5 DEF PutPublish, AtHand
    <3> QED BY <1>5, <1>a, <2>6, <3>1, <3>2 DEF PutPublish, Promise!Put, Dropping
  <2> QED BY <2>3, <2>7 DEF Promise!Next
<1> QED BY <1>1, <1>2, <1>3, <1>4, <1>5 DEF Producer, Promise!Next

\* A step of the consumer is a step of the queue.
LEMMA ConsumerImplements ==
  TypeOK /\ TypeOK' /\ Ordered /\ AtHand /\ Consumer => [Promise!Next]_(Promise!vars)
<1> SUFFICES ASSUME TypeOK, TypeOK', Ordered, AtHand, Consumer
             PROVE  Promise!Next \/ UNCHANGED Promise!vars
  OBVIOUS
<1> DEFINE n == Ahead(get_pos, put_pos)
<1>a. UNCHANGED <<block, get_pos, put_pos>> => Held' = Held
  BY DEF Held, Ahead
<1>b. /\ Held \in Seq(Item) /\ Len(Held) = n /\ n \in 0 .. BlockCount - 1
      /\ \A i \in 1 .. n : Held[i] = block[Slot(get_pos, i)]
  BY HeldIs DEF HeldInOrder
<1>1. CASE GetCall
  <2>1. Promise!CallGet
    BY <1>1, <1>a DEF GetCall, putVars, Promise!CallGet
  <2> QED BY <2>1 DEF Promise!Next
<1>2. CASE GetCheck /\ HasBlock
  BY <1>2, <1>a DEF GetCheck, putVars, Promise!vars
<1>3. CASE GetCheck /\ ~HasBlock
  <2>1. Held = <<>>
    <3>1. Len(Held) = 0
      BY <1>3, <1>b, AheadIs DEF HasBlock, TypeOK
    <3> QED BY <1>b, <3>1, EmptySeq
  <2>2. Promise!RefuseGet
    BY <1>3, <1>a, <2>1 DEF GetCheck, putVars, AtHand, Promise!RefuseGet
  <2> QED BY <2>2 DEF Promise!Next
<1>4. CASE GetCopy
  BY <1>4, <1>a DEF GetCopy, putVars, Promise!vars
<1>5. CASE GetAdvance
  <2>1. /\ put_pos' = put_pos /\ get_pos' = After(get_pos) /\ block' = block /\ get_pos # put_pos
        /\ putResult' = putResult
    BY <1>5 DEF GetAdvance, putVars, Ordered
  <2>2. n \in 1 .. BlockCount - 1 /\ Ahead(get_pos, put_pos)' = n - 1
    BY <1>b, <2>1, AheadIs, AheadOfAfter DEF TypeOK, Ahead
  <2>3. Held # <<>> /\ Head(Held) = getValue
    <3>1. Held # <<>> /\ Head(Held) = Held[1]
      BY <1>b, <2>2, EmptySeq
    <3>2. Held[1] = block[Slot(get_pos, 1)] /\ Slot(get_pos, 1) = get_pos
      BY <1>b, <2>2, SlotIs, FifoAssumption DEF TypeOK, Positions
    <3> QED BY <1>5, <3>1, <3>2 DEF GetAdvance, AtHand
  <2>4. \A i \in 1 .. n - 1 : Slot(get_pos, i)' = Slot(get_pos, i + 1)
    <3> SUFFICES ASSUME NEW i \in 1 .. n - 1 PROVE Slot(After(get_pos), i) = Slot(get_pos, i + 1)
      BY <2>1 DEF Slot
    <3>1. i \in 1 .. BlockCount /\ i + 1 \in 1 .. BlockCount
      BY <2>2, FifoAssumption
    <3>2. get_pos \in Positions /\ After(get_pos) \in Positions
      BY AfterIs DEF TypeOK
    <3>3. /\ After(get_pos) = IF get_pos = BlockCount - 1 THEN 0 ELSE get_pos + 1
          /\ Slot(After(get_pos), i) = IF After(get_pos) + i - 1 < BlockCount THEN After(get_pos) + i - 1
                                     ELSE After(get_pos) + i - 1 - BlockCount
          /\ Slot(get_pos, i + 1) = IF get_pos + (i + 1) - 1 < BlockCount THEN get_pos + (i + 1) - 1
                                    ELSE get_pos + (i + 1) - 1 - BlockCount
      BY <3>1, <3>2, SlotIs, AfterIs
    <3> QED BY <3>1, <3>2, <3>3, FifoAssumption DEF Positions
  <2>5. /\ Held' \in Seq(Item) /\ Len(Held') = n - 1
        /\ \A i \in 1 .. n - 1 : Held'[i] = block[Slot(get_pos, i + 1)]
    <3>1. /\ Held' \in Seq(Item) /\ Len(Held') = n - 1
          /\ \A i \in 1 .. n - 1 : Held'[i] = block[Slot(get_pos, i)']
      BY <2>1, <2>2, HeldNext DEF HeldInOrder, Slot
    <3> QED BY <2>4, <3>1
  <2> HIDE DEF n
  <2>6. Held' = Tail(Held)
    <3>1. /\ Tail(Held) \in Seq(Item) /\ Len(Tail(Held)) = n - 1
          /\ \A i \in 1 .. n - 1 : Tail(Held)[i] = Held[i + 1]
      BY <1>b, <2>3, HeadTailProperties
    <3>2. \A i \in 1 .. n - 1 : i + 1 \in 1 .. n
      BY <2>2
    <3>3. \A i \in 1 .. n - 1 : Held'[i] = Tail(Held)[i]
      BY <1>b, <2>5, <3>1, <3>2
    <3> QED BY <2>5, <3>1, <3>3, SeqEqual
  <2>7. Promise!Get
    BY <1>5, <2>1, <2>3, <2>6 DEF GetAdvance, AtHand, Promise!Get
  <2> QED BY <2>7 DEF Promise!Next
<1>6. CASE FlushRead
  <2>1. Ahead(get_pos, flushTo)' = Len(Held)
    BY <1>6, <1>b DEF FlushRead, putVars, Ahead
  <2>2. Promise!BeginFlush
    BY <1>6, <1>a, <2>1 DEF FlushRead, putVars, Promise!BeginFlush
  <2> QED BY <2>2 DEF Promise!Next
<1>7. CASE FlushWrite
  <2> DEFINE d == Ahead(get_pos, flushTo)
  <2>1. /\ put_pos' = put_pos /\ get_pos' = flushTo /\ block' = block
        /\ putResult' = putResult /\ getResult' = getResult
        /\ getPc = "flush" /\ getPc' = "idle"
    BY <1>7 DEF FlushWrite, putVars
  <2>2. d \in 0 .. n /\ Ahead(get_pos, put_pos)' = n - d
    BY <1>b, <2>1, AheadIs, FifoAssumption DEF Ordered, TypeOK, Ahead, Positions
  <2>3. \A i \in 1 .. n - d : Slot(get_pos, i)' = Slot(get_pos, d + i)
    <3> SUFFICES ASSUME NEW i \in 1 .. n - d PROVE Slot(flushTo, i) = Slot(get_pos, d + i)
      BY <2>1 DEF Slot
    <3>1. i \in Nat \ {0} /\ d + i <= BlockCount
      BY <1>b, <2>2, FifoAssumption
    <3> QED BY <3>1, SlotFurther DEF TypeOK
  <2>4. /\ Held' \in Seq(Item) /\ Len(Held') = n - d
        /\ \A i \in 1 .. n - d : Held'[i] = block[Slot(get_pos, d + i)]
    <3>1. /\ Held' \in Seq(Item) /\ Len(Held') = n - d
          /\ \A i \in 1 .. n - d : Held'[i] = block[Slot(get_pos, i)']
      BY <2>1, <2>2, HeldNext DEF HeldInOrder, Slot
    <3> QED BY <2>3, <3>1
  <2> HIDE DEF n, d
  <2>5. Held' = SubSeq(Held, d + 1, Len(Held))
    <3>1. \A i \in d + 1 .. n : Held[i] \in Item
      BY <1>b, <2>2, ElementOfSeq
    <3>2. /\ SubSeq(Held, d + 1, n) \in Seq(Item)
          /\ Len(SubSeq(Held, d + 1, n)) = IF d + 1 <= n THEN n - (d + 1) + 1 ELSE 0
          /\ \A i \in 1 .. n - (d + 1) + 1 : SubSeq(Held, d + 1, n)[i] = Held[d + 1 + i - 1]
      BY <1>b, <2>2, <3>1, SubSeqProperties
    <3>3. Len(SubSeq(Held, d + 1, n)) = n - d
      BY <1>b, <2>2, <3>2
    <3>4. \A i \in 1 .. n - d : /\ i \in 1 .. n - (d + 1) + 1
                                /\ d + 1 + i - 1 = d + i
                                /\ d + i \in 1 .. n
      BY <1>b, <2>2
    <3>5. \A i \in 1 .. n - d : Held'[i] = SubSeq(Held, d + 1, n)[i]
      BY <1>b, <2>4, <3>2, <3>4
    <3> QED BY <1>b, <2>4, <3>2, <3>3, <3>5, SeqEqual
  <2>6. Promise!EndFlush
    BY <2>1, <2>5 DEF Promise!EndFlush, d
  <2> QED BY <2>6 DEF Promise!Next
<1>8. CASE CountGreater \/ CountSubtract \/ CountCompare \/ CountWrap
  BY <1>8, <1>a DEF CountGreater, CountSubtract, CountCompare, CountWrap, CountStep, putVars, Promise!vars
<1> QED BY <1>1, <1>2, <1>3, <1>4, <1>5, <1>6, <1>7, <1>8 DEF Consumer

\* Through every interleaving, for every number of blocks, the ring buffer is a
\* queue of block_count - 1 items (iw_put_fifo, iw_get_fifo, iw_flush_fifo).
THEOREM QueueImplemented == Spec => ImplementsQueue
<1>1. Init => Promise!Init
  <2> SUFFICES ASSUME Init PROVE Promise!Init
    OBVIOUS
  <2>1. Held = <<>>
    <3>1. Len(Held) = 0 /\ Held \in Seq(Item)
      BY InitTypeOK, HeldIs, FifoAssumption DEF Init, Ahead, HeldInOrder
    <3> QED BY <3>1, EmptySeq
  <2> QED BY <2>1 DEF Init, Promise!Init
<1>2. Init => AtHand
  BY DEF Init, AtHand
<1>3. TypeOK /\ Ordered /\ AtHand /\ [Next]_vars => (TypeOK /\ Ordered /\ AtHand)'
  BY NextOrdered, NextAtHand, ProducerTypeOK, ConsumerTypeOK
     DEF Next, vars, putVars, getVars, TypeOK
<1>4. TypeOK /\ TypeOK' /\ Ordered /\ AtHand /\ [Next]_vars => [Promise!Next]_(Promise!vars)
  <2>1. UNCHANGED vars => UNCHANGED Promise!vars
    BY DEF vars, putVars, getVars, Promise!vars, Held, Ahead
  <2> QED BY <2>1, ProducerImplements, ConsumerImplements DEF Next
<1>5. Init => Ordered
  BY DEF Init, Ordered
<1> QED BY <1>1, <1>2, <1>3, <1>4, <1>5, InitTypeOK, PTL DEF Spec, ImplementsQueue, Promise!Spec
=============================================================================
