---------------------------- MODULE MCTaskLinks ----------------------------
(***************************************************************************)
(* TaskLinks for TLC: all chains of up to MaxChain tasks.  A service is    *)
(* named by its chain.                                                     *)
(***************************************************************************)
EXTENDS TaskLinks

CONSTANTS
  Candidates,   \* the tasks of the chains
  MaxChain      \* bound: tasks in a chain

MCServices ==
  {c \in UNION {[1 .. n -> Candidates] : n \in 1 .. MaxChain} :
      \A i, j \in DOMAIN c : c[i] = c[j] => i = j}
MCChain == [c \in MCServices |-> c]
=============================================================================
