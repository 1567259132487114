---------------------------- MODULE Microservices ----------------------------
(***************************************************************************)
(* The microservices of a device                                           *)
(* (IotwareFW/Microservice/SMFW/iw_fw_microservices.c), the requests with  *)
(* which the distribution task controls them (SIFW/task_lwmsg_dist.c), and *)
(* the threads of their tasks (SMFW/base_task_type*.c).                    *)
(*                                                                         *)
(* The distribution task runs one priority above the threads               *)
(* (start_apps.c:66, add_new_task), and nothing it calls blocks: threads   *)
(* take steps only between requests, but may then be anywhere in theirs.   *)
(*                                                                         *)
(* The tasks of a service form a chain, each sending to the next one.  The *)
(* code that builds a chain comes from a generator outside the repository. *)
(* Task parameters, output values and queue contents are left out.         *)
(***************************************************************************)
EXTENDS Connections, FiniteSets

CONSTANTS
  InitiallyOff,  \* tasks with SET_INITIAL_ONOFF(FALSE)
  Producers,     \* tasks of type 3; the loops of the other types never run
  MaxListed,     \* bound: services or tasks listed in a request
  MayFail,       \* TRUE when run_task may fail, or find no memory or thread
  NoService      \* a name no service has

ASSUME ServiceAssumption ==
  /\ NoService \notin Services
  /\ InitiallyOff \subseteq Tasks /\ Producers \subseteq Tasks
  /\ MaxListed \in Nat
  /\ MayFail \in BOOLEAN

VARIABLES
  state,     \* stMicroServiceInfo.state
  copies,    \* how many times the tasks of a service are in its list
  task,      \* stTaskInfo of each task
  request,   \* the request the distribution task is executing
  at,        \* the position it has reached in the list of the request
  rsc,       \* the response code so far
  halted     \* the device has stopped in a fault

serviceVars == <<state, copies, task>>
vars == <<serviceVars, request, at, rsc, halted>>

-----------------------------------------------------------------------------
\* eSTATE_TYPE; WAITING is another name of CREATED.
States == {"NOT_READY", "CREATED", "STOPPED", "RUNNING"}

\* A thread starts, works (type 3), sends its output and ends.  "ended" is a
\* thread that has returned: task_t still refers to it.
ThreadStates == {"none", "ready", "working", "sending", "ending", "ended"}
LiveThread(ti) == ti.thread \notin {"none", "ended"}

\* held: the task into whose input queue the thread is about to send;
\* "deleted" when that queue is gone.
TaskInfo == [state  : States,
             off    : BOOLEAN,                      \* initial_state = I_S_STOP
             thread : ThreadStates,
             held   : Tasks \cup {NoTask, "deleted"},
             route  : Tasks \cup {NoTask}]          \* where output_ports[0] leads

\* add_new_task for every task of the chain.
NewTasks(s) == [t \in TasksOf(s) |-> [state |-> "NOT_READY", off |-> t \in InitiallyOff,
                                    thread |-> "none", held |-> NoTask, route |-> NoTask]]

Lists(S) == UNION {[1 .. n -> S] : n \in 1 .. MaxListed}

Request ==
  [op : {"create", "run", "stop", "delete"}, ids : Lists(Services \cup {NoService})] \cup
  [op : {"on", "off"}, id : Services \cup {NoService}, tasks : Lists(Tasks \cup {NoTask})] \cup
  [op : {"info"}]

Idle == [op |-> "none"]

\* What is left to do of the request.
Listed == IF request.op \in {"on", "off"} THEN request.tasks
          ELSE IF request.op \in {"create", "run", "stop", "delete"} THEN request.ids
          ELSE <<>>
Finished == at > Len(Listed)

-----------------------------------------------------------------------------
Init ==
  /\ state = [s \in Services |-> "NOT_READY"]
  /\ copies = [s \in Services |-> 0]
  /\ task = [s \in Services |-> NewTasks(s)]
  /\ request = Idle
  /\ at = 1
  /\ rsc = "400"
  /\ halted = FALSE

-----------------------------------------------------------------------------
(* The distribution task takes a request, executes the operation for each  *)
(* service or task it lists, and answers.                                  *)

Receive(r) ==
  /\ request = Idle
  /\ request' = r
  /\ UNCHANGED <<serviceVars, at, rsc, halted>>

\* The operation on the current element succeeds: 200.  When it fails the
\* code stays what it was; an unknown service makes it 404.
Succeed == rsc' = "200"
Refuse  == UNCHANGED rsc
Unknown == rsc' = "404"

Current(op) == request.op = op /\ ~Finished /\ at' = at + 1 /\ UNCHANGED request

OperateUnknown ==
  /\ request.op \in {"create", "run", "stop", "delete"}
  /\ Current(request.op)
  /\ request.ids[at] = NoService
  /\ Unknown
  /\ UNCHANGED <<serviceVars, halted>>

Operate(op, s) == Current(op) /\ request.ids[at] = s

\* Mutant: the state is not tested.
Create_Unchecked(s) ==
  /\ Operate("create", s)
  /\ state' = [state EXCEPT ![s] = "CREATED"]
  /\ copies' = [copies EXCEPT ![s] = @ + 1]
  /\ task' = [task EXCEPT ![s] = NewTasks(s)]
  /\ Succeed
  /\ UNCHANGED halted

\* create_micro_service
Create(s) ==
  /\ Operate("create", s)
  /\ IF state[s] = "NOT_READY"
     THEN /\ state' = [state EXCEPT ![s] = "CREATED"]
          /\ copies' = [copies EXCEPT ![s] = @ + 1]
          /\ task' = [task EXCEPT ![s] = NewTasks(s)]
          /\ Succeed
     ELSE Refuse /\ UNCHANGED serviceVars
  /\ UNCHANGED halted

\* GET_INITIAL_ONOFF
InitialOn_Always(ti) == TRUE    \* mutant: tasks that are off are run as well
InitialOn(ti) == ~ti.off

\* What run_task leaves of a task: started; created without a thread, because
\* create_task had none to give; or without memory for its parameters, or not
\* started because its initialisation fails.
Started(ti)    == [ti EXCEPT !.state = "CREATED", !.thread = "ready", !.held = NoTask]
Threadless(ti) == [ti EXCEPT !.state = "CREATED", !.thread = "none", !.held = NoTask]
NotStarted(ti) == [ti EXCEPT !.state = "STOPPED", !.thread = "none", !.held = NoTask]

\* What becomes of the task t: tasks behind a failing one, and those that are
\* off, are left alone.
RunTask(s, t, failing, poor, idle) ==
  LET ti == task[s][t]
  IN IF ~InitialOn(ti) \/ Position(s, t) > failing THEN ti
     ELSE IF Position(s, t) = failing \/ t \in poor THEN NotStarted(ti)
     ELSE IF t \in idle THEN Threadless(ti)
     ELSE Started(ti)

\* The service runs, or is stopped by the task that fails (stop_task).
RunTasks(s, failing, poor, idle) ==
  LET ts == [t \in TasksOf(s) |-> RunTask(s, t, failing, poor, idle)]
  IN IF failing <= Length(s)
     THEN /\ InitialOn(task[s][Chain[s][failing]])
          /\ state' = [state EXCEPT ![s] = "STOPPED"]
          /\ task' = [task EXCEPT ![s] = ts]
          /\ Refuse
     ELSE /\ state' = [state EXCEPT ![s] = "RUNNING"]
          /\ task' = [task EXCEPT ![s] = Connected(s, ts)]
          /\ Succeed

\* run_micro_service on a created service: run_task for each task that is on,
\* up to the first one that fails.  run_task reports success when it has no
\* memory for the parameters, and when no thread could be created.
Run(s) ==
  /\ Operate("run", s)
  /\ state[s] = "CREATED"
  /\ \E failing \in IF MayFail THEN 1 .. Length(s) + 1 ELSE {Length(s) + 1},
        poor \in IF MayFail THEN SUBSET TasksOf(s) ELSE {{}},
        idle \in IF MayFail THEN SUBSET TasksOf(s) ELSE {{}} :
       RunTasks(s, failing, poor, idle)
  /\ UNCHANGED <<copies, halted>>

\* run_micro_service on a stopped service, one whose first run failed: the
\* states say running again, no thread is created.
RunAgain(s) ==
  /\ Operate("run", s)
  /\ state[s] = "STOPPED"
  /\ state' = [state EXCEPT ![s] = "RUNNING"]
  /\ task' = [task EXCEPT ![s] =
                [t \in TasksOf(s) |-> IF @[t].state = "STOPPED" THEN [@[t] EXCEPT !.state = "RUNNING"]
                                    ELSE @[t]]]
  /\ Succeed
  /\ UNCHANGED <<copies, halted>>

\* run_micro_service in any other state prints psi->state, psi being NULL.
RunRefused(s) ==
  /\ Operate("run", s)
  /\ state[s] \notin {"CREATED", "STOPPED"}
  /\ Refuse
  /\ halted' \in BOOLEAN
  /\ UNCHANGED serviceVars

\* Mutant: only the tasks of a running service are deleted and created anew.
Stop_WhenRunning(s) ==
  /\ Operate("stop", s)
  /\ state' = [state EXCEPT ![s] = "CREATED"]
  /\ copies' = [copies EXCEPT ![s] = 1]
  /\ task' = IF state[s] = "RUNNING" THEN [task EXCEPT ![s] = NewTasks(s)] ELSE task
  /\ Succeed
  /\ UNCHANGED halted

\* stop_micro_service, whatever the state: delete the threads and the tasks,
\* then create the tasks anew.
Stop(s) ==
  /\ Operate("stop", s)
  /\ state' = [state EXCEPT ![s] = "CREATED"]
  /\ copies' = [copies EXCEPT ![s] = 1]
  /\ task' = [task EXCEPT ![s] = NewTasks(s)]
  /\ Succeed
  /\ UNCHANGED halted

\* Mutant: one stTaskInfo of each task is deleted.
Delete_One(s) ==
  /\ Operate("delete", s)
  /\ state' = [state EXCEPT ![s] = "NOT_READY"]
  /\ copies' = [copies EXCEPT ![s] = @ - 1]
  /\ task' = [task EXCEPT ![s] = NewTasks(s)]
  /\ Succeed
  /\ UNCHANGED halted

\* del_micro_service, whatever the state.
Delete(s) ==
  /\ Operate("delete", s)
  /\ state' = [state EXCEPT ![s] = "NOT_READY"]
  /\ copies' = [copies EXCEPT ![s] = 0]
  /\ task' = [task EXCEPT ![s] = NewTasks(s)]
  /\ Succeed
  /\ UNCHANGED halted

\* make_device_information_lwmsg2: services that are not running are created
\* to be described, and deleted afterwards, whether they existed or not.
Described_All(s) == TRUE    \* mutant: isRunning is not tested
Described(s) == state[s] # "RUNNING"

Info ==
  /\ request.op = "info"
  /\ request' = Idle
  /\ state' = [s \in Services |-> IF Described(s) THEN "NOT_READY" ELSE state[s]]
  /\ copies' = [s \in Services |-> IF Described(s) THEN 0 ELSE copies[s]]
  /\ task' = [s \in Services |-> IF Described(s) THEN NewTasks(s) ELSE task[s]]
  /\ UNCHANGED <<at, rsc, halted>>

-----------------------------------------------------------------------------
(* _lwmsg_offloarding: one service, a list of tasks, up to the first one   *)
(* that fails.                                                             *)

Abort(code) == at' = Len(request.tasks) + 1 /\ rsc' = code

\* get_task_info_by_idx finds the task, if the service has tasks.
Onoff(op, s, t) ==
  /\ request.op = op /\ ~Finished /\ UNCHANGED request
  /\ request.id = s /\ request.tasks[at] = t
  /\ t \in TasksOf(s) /\ copies[s] > 0

OnoffUnknown ==
  /\ request.op \in {"on", "off"} /\ ~Finished /\ UNCHANGED request
  /\ ~(/\ request.id # NoService
       /\ request.tasks[at] \in TasksOf(request.id)
       /\ copies[request.id] > 0)
  /\ Abort("404")
  /\ UNCHANGED <<serviceVars, halted>>

\* task_onoff refuses tasks that are not offloadable, or already active.
OnoffRefused(s, t) ==
  /\ \/ Onoff("on", s, t) /\ (t \notin Offloadable \/ Active(task[s][t]))
     \/ Onoff("off", s, t) /\ t \notin Offloadable
  /\ Abort("400")
  /\ UNCHANGED <<serviceVars, halted>>

\* task_onoff(ti, TRUE): the call of run_task is commented out.
TaskOn(s, t) ==
  /\ Onoff("on", s, t)
  /\ t \in Offloadable /\ ~Active(task[s][t])
  /\ task' = [task EXCEPT ![s] = Connected(s, [@ EXCEPT ![t].off = FALSE])]
  /\ at' = at + 1
  /\ Succeed
  /\ UNCHANGED <<state, copies, halted>>

\* task_onoff(ti, FALSE): the thread and the input queue are deleted, the
\* latter even while another thread is about to send into it.
TaskOff(s, t) ==
  /\ Onoff("off", s, t)
  /\ t \in Offloadable
  /\ LET dropped == [u \in TasksOf(s) |-> IF task[s][u].held = t
                                     THEN [task[s][u] EXCEPT !.held = "deleted"]
                                     ELSE task[s][u]]
     IN task' = [task EXCEPT ![s] = Connected(s, [dropped EXCEPT
                   ![t] = [state |-> "STOPPED", off |-> TRUE, thread |-> "none",
                           held |-> NoTask, route |-> NoTask]])]
  /\ at' = at + 1
  /\ Succeed
  /\ UNCHANGED <<state, copies, halted>>

\* Mutant: the task stops at the first request that fails.
Respond_OnSuccess ==
  /\ request.op \notin {"none", "info"}
  /\ Finished
  /\ rsc = "200"
  /\ request' = Idle
  /\ at' = 1
  /\ rsc' = "400"
  /\ UNCHANGED <<serviceVars, halted>>

\* The answer is sent; rsc is 400 again for the next request.
Respond ==
  /\ request.op \notin {"none", "info"}
  /\ Finished
  /\ request' = Idle
  /\ at' = 1
  /\ rsc' = "400"
  /\ UNCHANGED <<serviceVars, halted>>

-----------------------------------------------------------------------------
(* The threads.                                                            *)

ThreadStep(s, t, from, ti) ==
  /\ request = Idle
  /\ task[s][t].thread = from
  /\ task' = [task EXCEPT ![s][t] = ti]
  /\ UNCHANGED <<state, copies, request, at, rsc>>

Ended(ti) == [ti EXCEPT !.state = "STOPPED", !.thread = "ended", !.held = NoTask]

\* base_task_type1, 2 and 4 end at once, their loops being never entered.
PassBy(s, t) ==
  /\ t \notin Producers
  /\ ThreadStep(s, t, "ready", Ended(task[s][t]))
  /\ UNCHANGED halted

\* base_task_type3 runs, and sleeps before it works.
Start(s, t) ==
  /\ t \in Producers
  /\ ThreadStep(s, t, "ready", [task[s][t] EXCEPT !.state = "RUNNING", !.thread = "working"])
  /\ UNCHANGED halted

\* before_fn, which may or may not have output for the connected task.
Work(s, t) ==
  /\ \E output \in BOOLEAN :
       ThreadStep(s, t, "working",
         IF output /\ task[s][t].route # NoTask
         THEN [task[s][t] EXCEPT !.thread = "sending", !.held = task[s][t].route]
         ELSE [task[s][t] EXCEPT !.thread = "ending"])
  /\ UNCHANGED halted

\* send_queue on the handle read before; a deleted queue may be a fault.
Send(s, t) ==
  /\ ThreadStep(s, t, "sending", [task[s][t] EXCEPT !.thread = "ending", !.held = NoTask])
  /\ halted' \in IF task[s][t].held = "deleted" THEN BOOLEAN ELSE {halted}

End(s, t) ==
  /\ ThreadStep(s, t, "ending", Ended(task[s][t]))
  /\ UNCHANGED halted

-----------------------------------------------------------------------------
Thread(s, t) ==
  PassBy(s, t) \/ Start(s, t) \/ Work(s, t) \/ Send(s, t) \/ End(s, t)

Service(s) == Create(s) \/ Run(s) \/ RunAgain(s) \/ RunRefused(s) \/ Stop(s) \/ Delete(s)

Dispatch ==
  \/ OperateUnknown
  \/ \E s \in Services : Service(s)
  \/ Info
  \/ OnoffUnknown
  \/ \E s \in Services : \E t \in TasksOf(s) : OnoffRefused(s, t) \/ TaskOn(s, t) \/ TaskOff(s, t)
  \/ Respond

Next ==
  /\ ~halted
  /\ \/ \E r \in Request : Receive(r)
     \/ Dispatch
     \/ \E s \in Services : \E t \in TasksOf(s) : Thread(s, t)

Spec == Init /\ [][Next]_vars

\* The distribution task has the higher priority and its operations return.
FairSpec ==
  /\ Spec
  /\ WF_vars(~halted /\ Dispatch)

-----------------------------------------------------------------------------
(* Properties.                                                             *)

\* The structures of a device: states of stMicroServiceInfo and stTaskInfo,
\* the request at hand and its answer.
TypeOK ==
  /\ state \in [Services -> States]
  /\ copies \in [Services -> Nat]
  /\ \A s \in Services : task[s] \in [TasksOf(s) -> TaskInfo]
  /\ request \in Request \cup {Idle}
  /\ at \in 1 .. MaxListed + 1
  /\ rsc \in {"200", "400", "404"}
  /\ halted \in BOOLEAN

\* A service that is not ready has no task, any other has each of its tasks
\* once, whatever requests came before: stMicroServiceInfo.create, which adds
\* the tasks, is called by create_micro_service, stop_micro_service and
\* make_device_information_lwmsg2, and the tasks are found by position.
TasksOnce == \A s \in Services : copies[s] = IF state[s] = "NOT_READY" THEN 0 ELSE 1

\* A thread belongs to a service that was run and not stopped or deleted
\* since, and to a task that is active and not off: run_micro_service,
\* task_onoff, stop_micro_service and del_micro_service delete every other
\* thread before its stTaskInfo is freed.
ThreadsBelong ==
  \A s \in Services : \A t \in TasksOf(s) :
    LiveThread(task[s][t]) => /\ state[s] \in {"STOPPED", "RUNNING"}
                              /\ Active(task[s][t])
                              /\ ~task[s][t].off

\* In a service that is created and not yet run no task is active, so that
\* run_task refuses none, none has a thread that would be replaced, and none
\* is connected to tasks of an earlier life of the service.
CreatedIsQuiet ==
  \A s \in Services : state[s] = "CREATED" =>
    \A t \in TasksOf(s) : /\ ~Active(task[s][t])
                          /\ task[s][t].thread = "none"
                          /\ task[s][t].route = NoTask

\* What the request at hand asks to be ended.
ToEnd(s, t) ==
  \/ request.op \in {"stop", "delete"} /\ ~Finished /\ request.ids[at] = s
  \/ request.op = "off" /\ ~Finished /\ request.id = s /\ request.tasks[at] = t
  \/ request.op = "info" /\ state[s] # "RUNNING"

\* A thread that has not ended disappears only by a request to stop or delete
\* its service or to switch its task off, or, when the service is not
\* running, by a request for information.
ThreadsEndedOnDemand ==
  [][\A s \in Services : \A t \in TasksOf(s) :
       LiveThread(task[s][t]) /\ task'[s][t].thread = "none" => ToEnd(s, t)]_vars

\* When run_micro_service or task_onoff has connected the tasks of a running
\* service, each active or off and none both, an active task leads to the next
\* one that is not off (set_output_connect_line).
ConnectsActiveTasks ==
  [][\A s \in Services :
       LET ts == task'[s]
           out == {t \in TasksOf(s) : ts[t].off}
       IN /\ Run(s) \/ \E t \in TasksOf(s) : TaskOff(s, t)
          /\ state'[s] = "RUNNING"
          /\ out \subseteq Offloadable
          /\ \A t \in TasksOf(s) : Active(ts[t]) # (t \in out)
          => \A t, u \in TasksOf(s) \ out :
               /\ Position(s, t) < Position(s, u)
               /\ \A v \in TasksOf(s) \ out : Position(s, v) \notin Position(s, t) + 1 .. Position(s, u) - 1
               => ts[t].route = u]_vars

\* Every request is answered, unless a fault stops the device (lwmsg_dist_task).
RequestsAnswered == (request # Idle) ~> (request = Idle \/ halted)

-----------------------------------------------------------------------------
(* What a comment in the code says, and the code does not do.              *)

\* task_onoff: when a task goes off the connections are rearranged, so that no
\* thread that still runs sends to it.
OffRearranges ==
  [][\A s \in Services : \A t \in TasksOf(s) :
       TaskOff(s, t) => \A u \in TasksOf(s) : LiveThread(task'[s][u]) => task'[s][u].route # t]_vars
=============================================================================
