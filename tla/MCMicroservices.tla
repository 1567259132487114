-------------------------- MODULE MCMicroservices --------------------------
(***************************************************************************)
(* Microservices for TLC.  The service has a task of type 3 that senses, a *)
(* task that can be switched off, and one that acts on the result.         *)
(***************************************************************************)
EXTENDS Microservices

MCServices == {"monitor"}
MCChain == [s \in MCServices |-> <<"sense", "filter", "act">>]

\* The same with a task between the last two that cannot be switched off.
MCLongChain == [s \in MCServices |-> <<"sense", "filter", "scale", "act">>]
=============================================================================
