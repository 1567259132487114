------------------------------ MODULE TaskLinks ------------------------------
(***************************************************************************)
(* The tree of task links of a service                                     *)
(* (IotwareFW/Microservice/SMFW/iw_fw_microservices.c): how the code finds *)
(* the connections that Connections describes by what they are.            *)
(*                                                                         *)
(* A tree is a function from paths of branches to tasks.  The generated    *)
(* code that creates a service makes the tree and hangs one list of        *)
(* connections into it for each set of tasks that may be off, in an order  *)
(* of its own.                                                             *)
(***************************************************************************)
EXTENDS Connections, FiniteSets

VARIABLES
  service,   \* the service whose life is followed
  stage,     \* how far it has come: "tasks", "links" or "run"
  links,     \* task_link_head
  lines,     \* connect_link_head of each link: start tasks with their destinations
  hung,      \* the combinations of tasks off whose connections were set
  ts         \* what matters of its tasks: state, and where output_ports[0] leads

vars == <<service, stage, links, lines, hung, ts>>

\* What the generated code sets connections for.
Combinations == SUBSET (TasksOf(service) \cap Offloadable)

NewTasks(s) == [t \in TasksOf(s) |-> [state |-> "NOT_READY", route |-> NoTask]]
NoLinks == [p \in {} |-> NoTask]

-----------------------------------------------------------------------------
(* make_task_links                                                         *)

\* _find_task_links, and a mutant that does not look behind off branches.
LinksOf_On(tree, t) == {p \in DOMAIN tree : tree[p] = t /\ \A i \in 1 .. Len(p) : p[i] = "on"}
LinksOf(tree, t) == {p \in DOMAIN tree : tree[p] = t}

\* The branches of a link.
Branches(t) == IF t \in Offloadable THEN {"on", "off"} ELSE {"on"}

\* _add_task_link: every link of start gets new links to dest.
AddTaskLink(tree, start, dest) ==
  LET grown == IF tree = NoLinks THEN [p \in {<<>>} |-> start] ELSE tree
      new == {Append(p, b) : p \in LinksOf(grown, start), b \in Branches(start)}
  IN [p \in DOMAIN grown \cup new |-> IF p \in new THEN dest ELSE grown[p]]

\* Links for each task and the next; the last one needs branches of its own
\* if it can be off, unless it is the only one.
LinkTree(s, tree) ==
  LET upTo[i \in 1 .. Length(s)] ==
        IF i = 1 THEN tree ELSE AddTaskLink(upTo[i - 1], Chain[s][i - 1], Chain[s][i])
      last == Chain[s][Length(s)]
  IN IF Length(s) <= 1 THEN tree
     ELSE IF last \in Offloadable THEN AddTaskLink(upTo[Length(s)], last, NoTask)
     ELSE upTo[Length(s)]

MakeTaskLinks ==
  /\ stage = "tasks"
  /\ stage' = "links"
  /\ links' = LinkTree(service, links)
  /\ lines' = [p \in DOMAIN links' |-> {}]
  /\ UNCHANGED <<service, hung, ts>>

-----------------------------------------------------------------------------
IsLeaf(tree, p) == \A b \in {"on", "off"} : Append(p, b) \notin DOMAIN tree

\* _find_last_task_link: the leaf whose every branch is the one that the test
\* takes, when it holds for the tasks in on.  There is none when the walk leaves
\* the tree.
LastLink(tree, on) ==
  {p \in DOMAIN tree :
     /\ IsLeaf(tree, p)
     /\ \A i \in 1 .. Len(p) : p[i] = IF tree[SubSeq(p, 1, i - 1)] \in on THEN "on" ELSE "off"}

\* _onoff_test, and a mutant that compares with the first task of the list only.
OnTasks_First(out) == {t \in TasksOf(service) : out = {} \/ t # CHOOSE u \in out : TRUE}
OnTasks(out) == TasksOf(service) \ out

\* The connections of the generated code when the tasks in out are off: each
\* task that remains leads to the next one that remains.
Lines(out) ==
  {<<t, Follower(service, t, out)>> :
      t \in {u \in TasksOf(service) \ out : Follower(service, u, out) # NoTask}}

\* set_connect_link
SetConnectLink(out) ==
  /\ stage = "links"
  /\ out \notin hung
  /\ hung' = hung \cup {out}
  /\ lines' = [p \in DOMAIN lines |->
                 IF p \in LastLink(links, OnTasks(out)) THEN Lines(out) ELSE lines[p]]
  /\ UNCHANGED <<service, stage, links, ts>>

\* set_output_connect_line, for tasks in the states and with the routes of td.
Rewired(td) ==
  LET active == {t \in DOMAIN td : Active(td[t])}
      found == UNION {lines[p] : p \in LastLink(links, active)}
  IN [t \in DOMAIN td |->
        IF \E line \in found : line[1] = t
        THEN [td[t] EXCEPT !.route = (CHOOSE line \in found : line[1] = t)[2]]
        ELSE td[t]]

-----------------------------------------------------------------------------
(* The life of the service, of which Microservices has the rest.           *)

Init ==
  /\ service \in Services
  /\ stage = "tasks"
  /\ links = NoLinks
  /\ lines = [p \in {} |-> {}]
  /\ hung = {}
  /\ ts = NewTasks(service)

\* run_micro_service: the tasks in on are started.
Run(on) ==
  /\ stage = "links" /\ hung = Combinations
  /\ stage' = "run"
  /\ ts' = Rewired([t \in TasksOf(service) |->
                      IF t \in on THEN [ts[t] EXCEPT !.state = "CREATED"] ELSE ts[t]])
  /\ UNCHANGED <<service, links, lines, hung>>

\* A thread ends.
End(t) ==
  /\ stage = "run"
  /\ Active(ts[t])
  /\ ts' = [ts EXCEPT ![t].state = "STOPPED"]
  /\ UNCHANGED <<service, stage, links, lines, hung>>

\* task_onoff; switching a task on does not start it.
Off(t) ==
  /\ stage = "run"
  /\ t \in Offloadable
  /\ ts' = Rewired([ts EXCEPT ![t] = [state |-> "STOPPED", route |-> NoTask]])
  /\ UNCHANGED <<service, stage, links, lines, hung>>

On(t) ==
  /\ stage = "run"
  /\ t \in Offloadable
  /\ ~Active(ts[t])
  /\ ts' = Rewired(ts)
  /\ UNCHANGED <<service, stage, links, lines, hung>>

\* stop_micro_service: _del_task_link, and the tasks are created anew.
Stop ==
  /\ stage = "run"
  /\ stage' = "tasks"
  /\ links' = NoLinks
  /\ lines' = [p \in {} |-> {}]
  /\ hung' = {}
  /\ ts' = NewTasks(service)
  /\ UNCHANGED service

Next ==
  \/ MakeTaskLinks
  \/ \E out \in Combinations : SetConnectLink(out)
  \/ \E on \in SUBSET TasksOf(service) : Run(on)
  \/ \E t \in TasksOf(service) : End(t) \/ Off(t) \/ On(t)
  \/ Stop

Spec == Init /\ [][Next]_vars

-----------------------------------------------------------------------------
(* Properties.                                                             *)

\* Every combination of tasks that are off has a link of its own: when its
\* connections were set none that are set later take their place
\* (set_connect_link).
OwnLink ==
  Length(service) > 1 =>
    \A out \in hung : \E p \in LastLink(links, OnTasks(out)) : lines[p] = Lines(out)

\* Whatever tasks were started, have ended or were switched, the walk through
\* the tree connects them as Connected does, which Microservices uses: with
\* the connections made for the tasks that are off now, or not at all
\* (set_output_connect_line).
WalkConnects == stage = "run" => Rewired(ts) = Connected(service, ts)
=============================================================================
