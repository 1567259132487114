---------------------------- MODULE Registration ----------------------------
(***************************************************************************)
(* What a device promises its server about registration, whatever the      *)
(* network in between does.                                                *)
(*                                                                         *)
(* The device first asks to be registered (interface 1) and is given an    *)
(* identity, then reports its microservices (interface 2), and only when   *)
(* the server has accepted that report does it serve requests.  It may     *)
(* give up: allocation can fail, and the report is sent a bounded number   *)
(* of times.  Giving up is final, nothing in the device starts again.      *)
(***************************************************************************)

VARIABLES
  phase,      \* how far the device has come
  accepted,   \* the registration steps the server has answered with success
  serving     \* TRUE when a request of the server waits or is being executed

vars == <<phase, accepted, serving>>

Init ==
  /\ phase = "unregistered"
  /\ accepted = {}
  /\ serving = FALSE

ServerAccepts(step) ==
  /\ step = 2 => phase # "unregistered"
  /\ accepted' = accepted \cup {step}
  /\ UNCHANGED <<phase, serving>>

BecomeIdentified ==
  /\ phase = "unregistered"
  /\ 1 \in accepted
  /\ phase' = "informing"
  /\ UNCHANGED <<accepted, serving>>

BecomeRegistered ==
  /\ phase = "informing"
  /\ 2 \in accepted
  /\ phase' = "registered"
  /\ UNCHANGED <<accepted, serving>>

GiveUp ==
  /\ phase \in {"unregistered", "informing"}
  /\ phase' = "abandoned"
  /\ UNCHANGED <<accepted, serving>>

Serve ==
  /\ phase = "registered"
  /\ serving' \in BOOLEAN
  /\ UNCHANGED <<phase, accepted>>

Next ==
  \/ \E step \in {1, 2} : ServerAccepts(step)
  \/ BecomeIdentified
  \/ BecomeRegistered
  \/ GiveUp
  \/ Serve

Spec == Init /\ [][Next]_vars
=============================================================================
