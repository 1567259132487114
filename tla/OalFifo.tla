------------------------------ MODULE OalFifo -------------------------------
(***************************************************************************)
(* The ring buffer of the OAL (IotwareFW/oal/iw/iw_oal_fifo.c) between one *)
(* thread that puts and one that gets, flushes and counts.  There is no    *)
(* lock: the positions are volatile, each access to the other thread's     *)
(* position is a step of its own, and the copy of a block takes time.      *)
(***************************************************************************)
EXTENDS Naturals, Sequences

CONSTANTS
  Value,        \* what a block can hold
  Torn,         \* a block that is partly copied
  BlockCount,   \* block_count
  WordSize      \* 2^32: unsigned int wraps

ASSUME FifoAssumption ==
  /\ BlockCount \in Nat \ {0}
  /\ WordSize \in Nat /\ WordSize > 2 * BlockCount
  /\ Torn \notin Value /\ "none" \notin Value /\ "empty" \notin Value

VARIABLES
  block,       \* block_pdata
  put_pos,
  get_pos,
  putPc,       \* where the producer is
  putValue,    \* what it puts
  putResult,
  getPc,       \* where the consumer is
  getValue,    \* what it has copied
  getResult,
  flushTo,     \* put_pos as the flush has read it
  counted      \* what iw_count_fifo returned last

putVars == <<put_pos, putPc, putValue, putResult>>
getVars == <<get_pos, getPc, getValue, getResult, flushTo, counted>>
vars == <<block, putVars, getVars>>

-----------------------------------------------------------------------------
Positions == 0 .. BlockCount - 1

\* IW_PUT_FIFO_NEXT and IW_GET_FIFO_NEXT
After_NoWrap(pos) == pos + 1    \* mutant: the modulo is missing
After(pos) == (pos + 1) % BlockCount

\* iw_init_fifo
Init ==
  /\ block \in [Positions -> {Torn}]
  /\ put_pos = 0
  /\ get_pos = 0
  /\ putPc = "idle" /\ putValue = Torn /\ putResult = "none"
  /\ getPc = "idle" /\ getValue = Torn /\ getResult = "none"
  /\ flushTo = 0
  /\ counted = 0

-----------------------------------------------------------------------------
(* iw_put_fifo.                                                            *)

PutCall(v) ==
  /\ putPc = "idle"
  /\ putPc' = "check"
  /\ putValue' = v
  /\ putResult' = "none"
  /\ UNCHANGED <<block, put_pos, getVars>>

\* Mutant: one more block is used.
HasSpace_AnyPosition == TRUE
HasSpace == get_pos # After(put_pos)

PutCheck ==
  /\ putPc = "check"
  /\ IF HasSpace
     THEN /\ putPc' = "copy"
          /\ block' = [block EXCEPT ![put_pos] = Torn]
          /\ UNCHANGED putResult
     ELSE /\ putPc' = "idle"
          /\ putResult' = "full"
          /\ UNCHANGED block
  /\ UNCHANGED <<put_pos, putValue, getVars>>

PutCopy ==
  /\ putPc = "copy"
  /\ putPc' = "publish"
  /\ block' = [block EXCEPT ![put_pos] = putValue]
  /\ UNCHANGED <<put_pos, putValue, putResult, getVars>>

PutPublish ==
  /\ putPc = "publish"
  /\ putPc' = "idle"
  /\ put_pos' = After(put_pos)
  /\ putResult' = "ok"
  /\ UNCHANGED <<block, putValue, getVars>>

-----------------------------------------------------------------------------
(* iw_get_fifo.                                                            *)

GetCall ==
  /\ getPc = "idle"
  /\ getPc' = "check"
  /\ getResult' = "none"
  /\ UNCHANGED <<block, putVars, get_pos, getValue, flushTo, counted>>

HasBlock_Always == TRUE    \* mutant: an empty buffer is not noticed
HasBlock == put_pos # get_pos

GetCheck ==
  /\ getPc = "check"
  /\ IF HasBlock
     THEN getPc' = "copy" /\ UNCHANGED getResult
     ELSE getPc' = "idle" /\ getResult' = "empty"
  /\ UNCHANGED <<block, putVars, get_pos, getValue, flushTo, counted>>

GetCopy ==
  /\ getPc = "copy"
  /\ getPc' = "advance"
  /\ getValue' = block[get_pos]
  /\ UNCHANGED <<block, putVars, get_pos, getResult, flushTo, counted>>

GetAdvance ==
  /\ getPc = "advance"
  /\ getPc' = "idle"
  /\ get_pos' = After(get_pos)
  /\ getResult' = getValue
  /\ UNCHANGED <<block, putVars, getValue, flushTo, counted>>

-----------------------------------------------------------------------------
(* iw_flush_fifo: one assignment, a read and a write.                      *)

FlushRead ==
  /\ getPc = "idle"
  /\ getPc' = "flush"
  /\ flushTo' = put_pos
  /\ UNCHANGED <<block, putVars, get_pos, getValue, getResult, counted>>

FlushWrite ==
  /\ getPc = "flush"
  /\ getPc' = "idle"
  /\ get_pos' = flushTo
  /\ UNCHANGED <<block, putVars, getValue, getResult, flushTo, counted>>

-----------------------------------------------------------------------------
(* iw_count_fifo: three comparisons and differences, each reading put_pos. *)

CountStep(from, to, n) ==
  /\ getPc = from
  /\ getPc' = to
  /\ counted' = n
  /\ UNCHANGED <<block, putVars, get_pos, getValue, getResult, flushTo>>

CountGreater  == CountStep("idle", IF put_pos > get_pos THEN "subtract" ELSE "compare", counted)
CountSubtract == CountStep("subtract", "idle", (put_pos + WordSize - get_pos) % WordSize)
CountCompare  == IF get_pos # put_pos THEN CountStep("compare", "wrap", counted)
                 ELSE CountStep("compare", "idle", 0)
CountWrap     == CountStep("wrap", "idle", (put_pos + BlockCount + WordSize - get_pos) % WordSize)

-----------------------------------------------------------------------------
Producer == (\E v \in Value : PutCall(v)) \/ PutCheck \/ PutCopy \/ PutPublish

Consumer ==
  \/ GetCall \/ GetCheck \/ GetCopy \/ GetAdvance
  \/ FlushRead \/ FlushWrite
  \/ CountGreater \/ CountSubtract \/ CountCompare \/ CountWrap

Next == Producer \/ Consumer

Spec == Init /\ [][Next]_vars

-----------------------------------------------------------------------------
(* Properties.                                                             *)

\* The fields of iw_fifo_t and the progress of the two threads.
TypeOK ==
  /\ block \in [Positions -> Value \cup {Torn}]
  /\ put_pos \in Positions
  /\ get_pos \in Positions
  /\ putPc \in {"idle", "check", "copy", "publish"}
  /\ putValue \in Value \cup {Torn}
  /\ putResult \in {"none", "ok", "full"}
  /\ getPc \in {"idle", "check", "copy", "advance", "flush", "subtract", "compare", "wrap"}
  /\ getValue \in Value \cup {Torn}
  /\ getResult \in Value \cup {Torn, "none", "empty"}
  /\ flushTo \in Positions
  /\ counted \in 0 .. WordSize - 1

\* The two threads never work on the same block, so no get returns a block
\* that is partly written (iw_put_fifo publishes put_pos after the copy,
\* iw_get_fifo get_pos after its own).
BlocksApart == putPc \in {"copy", "publish"} /\ getPc \in {"copy", "advance"} => put_pos # get_pos

\* How far position "to" is ahead of position "from".
Ahead(from, to) == IF to >= from THEN to - from ELSE to + BlockCount - from

Held == [i \in 1 .. Ahead(get_pos, put_pos) |-> block[(get_pos + i - 1) % BlockCount]]

Promise == INSTANCE BoundedQueue WITH
  Capacity <- BlockCount - 1,
  queue <- Held,
  dropping <- IF getPc = "flush" THEN Ahead(get_pos, flushTo) ELSE 0

\* Through every interleaving of the two threads the ring buffer is a queue
\* of block_count - 1 items: first in, first out, refusing a put only when it
\* is full and a get only when it is empty, and keeping at a flush what is
\* put after it has begun.
ImplementsQueue == Promise!Spec
=============================================================================
