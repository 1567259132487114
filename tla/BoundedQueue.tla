---------------------------- MODULE BoundedQueue ----------------------------
(***************************************************************************)
(* What a bounded queue between one producer and one consumer promises.    *)
(* The calls do not block: a put is refused when, at some moment of the    *)
(* call, the queue is full, a get when it is empty.  A flush drops what    *)
(* the queue holds when it begins, and nothing that is put meanwhile.      *)
(***************************************************************************)
EXTENDS Naturals, Sequences

CONSTANTS Value, Capacity

VARIABLES
  queue,
  dropping,    \* how many of the oldest items a flush is about to drop
  putResult,   \* of the last put: "none" until it returns, then "ok" or "full"
  getResult    \* of the last get: "none" until it returns, then a value or "empty"

vars == <<queue, dropping, putResult, getResult>>

Init ==
  /\ queue = <<>>
  /\ dropping = 0
  /\ putResult = "none"
  /\ getResult = "none"

CallPut == putResult' = "none" /\ UNCHANGED <<queue, dropping, getResult>>

Put(v) ==
  /\ putResult = "none"
  /\ Len(queue) < Capacity
  /\ queue' = Append(queue, v)
  /\ putResult' = "ok"
  /\ UNCHANGED <<dropping, getResult>>

RefusePut ==
  /\ putResult = "none"
  /\ Len(queue) = Capacity
  /\ putResult' = "full"
  /\ UNCHANGED <<queue, dropping, getResult>>

CallGet == getResult' = "none" /\ UNCHANGED <<queue, dropping, putResult>>

Get ==
  /\ getResult = "none" /\ dropping = 0
  /\ queue # <<>>
  /\ getResult' = Head(queue)
  /\ queue' = Tail(queue)
  /\ UNCHANGED <<dropping, putResult>>

RefuseGet ==
  /\ getResult = "none" /\ dropping = 0
  /\ queue = <<>>
  /\ getResult' = "empty"
  /\ UNCHANGED <<queue, dropping, putResult>>

BeginFlush == dropping' = Len(queue) /\ UNCHANGED <<queue, putResult, getResult>>

EndFlush ==
  /\ queue' = SubSeq(queue, dropping + 1, Len(queue))
  /\ dropping' = 0
  /\ UNCHANGED <<putResult, getResult>>

Next ==
  \/ CallPut \/ (\E v \in Value : Put(v)) \/ RefusePut
  \/ CallGet \/ Get \/ RefuseGet
  \/ BeginFlush \/ EndFlush

Spec == Init /\ [][Next]_vars
=============================================================================
