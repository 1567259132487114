----------------------------- MODULE Connections -----------------------------
(***************************************************************************)
(* The tasks of a service and the connections between them                 *)
(* (IotwareFW/Microservice/SMFW/iw_fw_microservices.c), as Microservices   *)
(* uses them.  TaskLinks shows how the code finds them.                    *)
(***************************************************************************)
EXTENDS Naturals, Sequences

CONSTANTS
  Services,      \* registered with add_micro_service
  Chain,         \* of each service, its tasks in list order
  Offloadable,   \* tasks with SET_OFFLOADING
  NoTask         \* no task, or an index no task has

Length(s) == Len(Chain[s])
TasksOf(s) == {Chain[s][i] : i \in 1 .. Length(s)}
Tasks == UNION {TasksOf(s) : s \in Services}

\* A task is in the list of a service once.
ASSUME ChainAssumption ==
  /\ Chain \in [Services -> Seq(Tasks)]
  /\ \A s \in Services : \A i, j \in 1 .. Length(s) : Chain[s][i] = Chain[s][j] => i = j
  /\ NoTask \notin Tasks
  /\ Offloadable \subseteq Tasks

Position(s, t) == CHOOSE i \in 1 .. Length(s) : Chain[s][i] = t

\* IS_ACTIVE_STATE
Active(ti) == ti.state \in {"CREATED", "RUNNING"}

-----------------------------------------------------------------------------
(* The links between the tasks: make_task_links builds a tree with one     *)
(* level per task, with a branch for on and, if the task is offloadable,   *)
(* one for off; set_connect_link hangs the connection of the tasks that    *)
(* remain under the leaf of each combination.                              *)

\* The node of the i-th task has branches.
HasBranches(s, i) == i < Length(s) \/ (i > 1 /\ Chain[s][i] \in Offloadable)

\* _find_last_task_link with _curr_task_state reaches a leaf: no task that
\* is not active lacks an off branch.
LinkFound(s, ts) ==
  /\ Length(s) > 1
  /\ \A i \in 1 .. Length(s) :
       HasBranches(s, i) => Active(ts[Chain[s][i]]) \/ Chain[s][i] \in Offloadable

\* Mutant: the next task, on or off.
Follower_Next(s, t, out) ==
  IF Position(s, t) = Length(s) THEN NoTask ELSE Chain[s][Position(s, t) + 1]

\* The task that follows t when the tasks in out are off.
Follower(s, t, out) ==
  LET later == {j \in Position(s, t) + 1 .. Length(s) : Chain[s][j] \notin out}
  IN IF later = {} THEN NoTask ELSE Chain[s][CHOOSE j \in later : \A k \in later : j <= k]

\* set_output_connect_line: the lines of the leaf overwrite the routes of
\* their start tasks; other routes stay, and so do all of them without leaf.
Connected(s, ts) ==
  LET out == {t \in TasksOf(s) \cap Offloadable : ~Active(ts[t])}
      Line(t) == Follower(s, t, out)
  IN [t \in TasksOf(s) |->
        IF LinkFound(s, ts) /\ t \notin out /\ Line(t) # NoTask
        THEN [ts[t] EXCEPT !.route = Line(t)]
        ELSE ts[t]]
=============================================================================
