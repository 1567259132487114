------------------------- MODULE Microservices_proofs -------------------------
(***************************************************************************)
(* Proofs about the life cycle of services, tasks and threads, for every   *)
(* set of services, every chain of tasks and every choice of which of them *)
(* can be switched off, are off at first, or produce output.               *)
(***************************************************************************)
EXTENDS Microservices, SequenceTheorems, WellFoundedInduction, TLAPS

-----------------------------------------------------------------------------
(* Numbers and requests.                                                   *)

\* A set of numbers has a smallest one.
LEMMA Smallest ==
  ASSUME NEW S \in SUBSET Nat, S # {}
  PROVE  \E x \in S : \A y \in S : x <= y
<1> DEFINE R == OpToRel(<, Nat)
<1>1. IsWellFoundedOn(R, Nat)
  BY NatLessThanWellFounded
<1>2. \A x, y \in Nat : x < y => <<x, y>> \in R
  BY Zenon DEF OpToRel
<1> HIDE DEF R
<1>3. PICK x \in S : \A y \in S : ~(<<y, x>> \in R)
  BY <1>1, WFMin, Zenon
<1>4. \A y \in S : ~(y < x)
  BY <1>2, <1>3
<1> QED BY <1>4

\* A list of a request has at most MaxListed elements.
LEMMA ListsAre ==
  ASSUME NEW S, NEW list \in Lists(S)
  PROVE  list \in Seq(S) /\ Len(list) \in 1 .. MaxListed
<1>1. PICK n \in 1 .. MaxListed : list \in [1 .. n -> S]
  BY DEF Lists
<1>2. n \in Nat /\ MaxListed \in Nat
  BY ServiceAssumption
<1>3. list \in Seq(S) /\ Len(list) = n
  BY <1>1, <1>2
<1> QED BY <1>1, <1>2, <1>3

RequestTypeOK == /\ request \in Request \cup {Idle}
                 /\ at \in 1 .. MaxListed + 1
                 /\ rsc \in {"200", "400", "404"}
                 /\ halted \in BOOLEAN

\* What is left of a request fits the bound on its list.
LEMMA ListedIs ==
  ASSUME request \in Request \cup {Idle}
  PROVE  Len(Listed) \in 0 .. MaxListed
<1>1. MaxListed \in Nat
  BY ServiceAssumption
<1>2. CASE request.op \in {"on", "off"}
  <2>1. request.tasks \in Lists(Tasks \cup {NoTask})
    BY <1>2 DEF Request, Idle
  <2> QED BY <1>1, <1>2, <2>1, ListsAre DEF Listed
<1>3. CASE request.op \in {"create", "run", "stop", "delete"}
  <2>1. request.ids \in Lists(Services \cup {NoService})
    BY <1>3 DEF Request, Idle
  <2> QED BY <1>1, <1>3, <2>1, ListsAre DEF Listed
<1>4. CASE request.op \notin {"on", "off", "create", "run", "stop", "delete"}
  BY <1>1, <1>4 DEF Listed
<1> QED BY <1>2, <1>3, <1>4

-----------------------------------------------------------------------------
(* Chains and connections.                                                 *)

\* A task of a service has a place in its chain.
LEMMA PositionIs ==
  ASSUME NEW s \in Services, NEW t \in TasksOf(s)
  PROVE  /\ Position(s, t) \in 1 .. Length(s)
         /\ Chain[s][Position(s, t)] = t
         /\ Length(s) \in Nat
<1>1. \E i \in 1 .. Length(s) : Chain[s][i] = t
  BY DEF TasksOf
<1>2. Chain[s] \in Seq(Tasks)
  BY ChainAssumption
<1> QED BY <1>1, <1>2 DEF Position, Length

LEMMA TasksAre ==
  ASSUME NEW s \in Services
  PROVE  /\ TasksOf(s) \subseteq Tasks
         /\ NoTask \notin TasksOf(s)
BY ChainAssumption DEF Tasks

\* What follows a task is another task of the chain, or none.
LEMMA FollowerIs ==
  ASSUME NEW s \in Services, NEW t \in TasksOf(s), NEW out
  PROVE  Follower(s, t, out) \in TasksOf(s) \cup {NoTask}
<1> DEFINE later == {j \in Position(s, t) + 1 .. Length(s) : Chain[s][j] \notin out}
<1>1. /\ Position(s, t) \in 1 .. Length(s)
      /\ Length(s) \in Nat
  BY PositionIs
<1>2. later \in SUBSET Nat /\ later \subseteq 1 .. Length(s)
  BY <1>1
<1>3. Follower(s, t, out) =
        IF later = {} THEN NoTask ELSE Chain[s][CHOOSE j \in later : \A k \in later : j <= k]
  BY DEF Follower
<1> HIDE DEF later
<1>4. CASE later = {}
  BY <1>3, <1>4
<1>5. CASE later # {}
  <2>1. \E j \in later : \A k \in later : j <= k
    BY <1>2, <1>5, Smallest
  <2>2. (CHOOSE j \in later : \A k \in later : j <= k) \in later
    BY <2>1
  <2> QED BY <1>2, <1>3, <1>5, <2>2 DEF TasksOf
<1> QED BY <1>4, <1>5

\* Connecting tasks changes nothing but their routes.
LEMMA ConnectedIs ==
  ASSUME NEW s \in Services, NEW ts \in [TasksOf(s) -> TaskInfo]
  PROVE  /\ Connected(s, ts) \in [TasksOf(s) -> TaskInfo]
         /\ \A t \in TasksOf(s) : /\ Connected(s, ts)[t].state = ts[t].state
                                  /\ Connected(s, ts)[t].off = ts[t].off
                                  /\ Connected(s, ts)[t].thread = ts[t].thread
<1> DEFINE out == {t \in TasksOf(s) \cap Offloadable : ~Active(ts[t])}
           Line(t) == Follower(s, t, out)
           new(t) == IF LinkFound(s, ts) /\ t \notin out /\ Line(t) # NoTask
                     THEN [ts[t] EXCEPT !.route = Line(t)]
                     ELSE ts[t]
<1>1. Connected(s, ts) = [t \in TasksOf(s) |-> new(t)]
  BY DEF Connected
<1>2. ASSUME NEW t \in TasksOf(s)
      PROVE  /\ new(t) \in TaskInfo
             /\ new(t).state = ts[t].state
             /\ new(t).off = ts[t].off
             /\ new(t).thread = ts[t].thread
  <2>1. Line(t) \in Tasks \cup {NoTask}
    BY FollowerIs, TasksAre
  <2>2. ts[t] \in TaskInfo
    OBVIOUS
  <2> HIDE DEF Line
  <2> QED BY <2>1, <2>2 DEF TaskInfo
<1> HIDE DEF new
<1> QED BY <1>1, <1>2

\* Where no task is active nothing is connected: the tasks that are not off are
\* at most the last one, which leads nowhere.
LEMMA NothingConnected ==
  ASSUME NEW s \in Services, NEW ts \in [TasksOf(s) -> TaskInfo],
         \A t \in TasksOf(s) : ~Active(ts[t]),
         NEW t \in TasksOf(s)
  PROVE  Connected(s, ts)[t] = ts[t]
<1> DEFINE out == {u \in TasksOf(s) \cap Offloadable : ~Active(ts[u])}
<1> SUFFICES ASSUME LinkFound(s, ts), t \notin out
             PROVE  Follower(s, t, out) = NoTask
  BY DEF Connected
<1>1. /\ Position(s, t) \in 1 .. Length(s)
      /\ Chain[s][Position(s, t)] = t
      /\ Length(s) \in Nat
  BY PositionIs
<1>2. t \notin Offloadable
  OBVIOUS
<1>3. ~HasBranches(s, Position(s, t))
  BY <1>1, <1>2 DEF LinkFound
<1>4. Position(s, t) = Length(s)
  BY <1>1, <1>3 DEF HasBranches
<1>5. Position(s, t) + 1 .. Length(s) = {}
  BY <1>1, <1>4
<1> QED BY <1>5 DEF Follower

-----------------------------------------------------------------------------
(* The inductive invariant: what holds of every service.                   *)

ServiceTypeOK(s, st, cp, ts) == st \in States /\ cp \in Nat /\ ts \in [TasksOf(s) -> TaskInfo]

ThreadsOK(s, st, ts) ==
  \A t \in TasksOf(s) : LiveThread(ts[t]) => /\ st \in {"STOPPED", "RUNNING"}
                                             /\ Active(ts[t])
                                             /\ ~ts[t].off

Quiet(s, ts) == \A t \in TasksOf(s) : /\ ~Active(ts[t])
                                      /\ ts[t].thread = "none"
                                      /\ ts[t].route = NoTask

Good(s, st, cp, ts) == /\ ServiceTypeOK(s, st, cp, ts)
                       /\ cp = IF st = "NOT_READY" THEN 0 ELSE 1
                       /\ ThreadsOK(s, st, ts)
                       /\ st = "CREATED" => Quiet(s, ts)

Functions == /\ state = [s \in Services |-> state[s]]
             /\ copies = [s \in Services |-> copies[s]]
             /\ task = [s \in Services |-> task[s]]

ServicesOK == \A s \in Services : Good(s, state[s], copies[s], task[s])

IInv == Functions /\ ServicesOK /\ RequestTypeOK

\* A step that gives one service other values.
Becomes(s, st, cp, ts) == /\ state' = [state EXCEPT ![s] = st]
                          /\ copies' = [copies EXCEPT ![s] = cp]
                          /\ task' = [task EXCEPT ![s] = ts]

LEMMA BecomesGood ==
  ASSUME Functions, ServicesOK, NEW s \in Services, NEW st, NEW cp, NEW ts,
         Becomes(s, st, cp, ts), Good(s, st, cp, ts)
  PROVE  Functions' /\ ServicesOK'
<1>1. Functions'
  BY DEF Functions, Becomes
<1>2. ASSUME NEW u \in Services PROVE Good(u, state'[u], copies'[u], task'[u])
  <2>1. CASE u = s
    <3>1. state'[u] = st /\ copies'[u] = cp /\ task'[u] = ts
      BY <2>1 DEF Functions, Becomes
    <3> QED BY <2>1, <3>1
  <2>2. CASE u # s
    <3>1. state'[u] = state[u] /\ copies'[u] = copies[u] /\ task'[u] = task[u]
      BY <2>2 DEF Functions, Becomes
    <3> QED BY <3>1 DEF ServicesOK
  <2> QED BY <2>1, <2>2
<1> QED BY <1>1, <1>2 DEF ServicesOK

LEMMA SameServices ==
  ASSUME Functions, ServicesOK, UNCHANGED serviceVars
  PROVE  Functions' /\ ServicesOK'
<1>1. state' = state /\ copies' = copies /\ task' = task
  BY DEF serviceVars
<1> QED BY <1>1 DEF Functions, ServicesOK

\* Tasks that were added anew are quiet.
LEMMA NewTasksAre ==
  ASSUME NEW s \in Services
  PROVE  /\ NewTasks(s) \in [TasksOf(s) -> TaskInfo]
         /\ ThreadsOK(s, "CREATED", NewTasks(s)) /\ ThreadsOK(s, "NOT_READY", NewTasks(s))
         /\ Quiet(s, NewTasks(s))
BY DEF NewTasks, TaskInfo, States, ThreadStates, ThreadsOK, Quiet, LiveThread, Active

LEMMA NewTasksGood ==
  ASSUME NEW s \in Services
  PROVE  /\ Good(s, "CREATED", 1, NewTasks(s))
         /\ Good(s, "NOT_READY", 0, NewTasks(s))
BY NewTasksAre DEF Good, ServiceTypeOK, States

LEMMA InitIInv == Init => IInv
<1> SUFFICES ASSUME Init PROVE IInv
  OBVIOUS
<1>1. Functions
  BY DEF Init, Functions
<1>2. ServicesOK
  BY NewTasksGood DEF Init, ServicesOK
<1>3. MaxListed + 1 \in Nat /\ 1 <= MaxListed + 1
  BY ServiceAssumption
<1>4. RequestTypeOK
  <2>1. at \in 1 .. MaxListed + 1
    BY <1>3 DEF Init
  <2> QED BY <2>1, Zenon DEF Init, RequestTypeOK
<1> QED BY <1>1, <1>2, <1>4 DEF IInv
-----------------------------------------------------------------------------
(* The operations on a service.                                            *)

\* What the invariant says of one service.
LEMMA ServiceIs ==
  ASSUME IInv, NEW s \in Services
  PROVE  /\ Good(s, state[s], copies[s], task[s])
         /\ state[s] \in States /\ copies[s] \in Nat
         /\ task[s] \in [TasksOf(s) -> TaskInfo]
         /\ ThreadsOK(s, state[s], task[s])
         /\ state = [state EXCEPT ![s] = state[s]]
         /\ copies = [copies EXCEPT ![s] = copies[s]]
         /\ task = [task EXCEPT ![s] = task[s]]
<1>1. Good(s, state[s], copies[s], task[s])
  BY DEF IInv, ServicesOK
<1>2. /\ state = [state EXCEPT ![s] = state[s]]
      /\ copies = [copies EXCEPT ![s] = copies[s]]
      /\ task = [task EXCEPT ![s] = task[s]]
  BY DEF IInv, Functions
<1> QED BY <1>1, <1>2 DEF Good, ServiceTypeOK

LEMMA CreateKeeps ==
  ASSUME IInv, NEW s \in Services, Create(s)
  PROVE  Functions' /\ ServicesOK'
<1>1. CASE state[s] = "NOT_READY"
  <2>1. copies[s] + 1 = 1
    BY <1>1, ServiceIs DEF Good
  <2>2. Becomes(s, "CREATED", 1, NewTasks(s))
    BY <1>1, <2>1 DEF Create, Becomes
  <2> QED BY <2>2, NewTasksGood, BecomesGood DEF IInv
<1>2. CASE state[s] # "NOT_READY"
  BY <1>2, SameServices DEF Create, IInv
<1> QED BY <1>1, <1>2

\* What run_task makes of the tasks of a service that was only created.
LEMMA RunTasksKeep ==
  ASSUME NEW s \in Services, NEW ts \in [TasksOf(s) -> TaskInfo], Quiet(s, ts),
         NEW run \in [TasksOf(s) -> TaskInfo],
         \A t \in TasksOf(s) : \/ run[t] = ts[t]
                               \/ run[t] = NotStarted(ts[t]) \/ run[t] = Threadless(ts[t])
                               \/ run[t] = Started(ts[t]) /\ ~ts[t].off
  PROVE  ThreadsOK(s, "STOPPED", run) /\ ThreadsOK(s, "RUNNING", run)
<1> SUFFICES ASSUME NEW t \in TasksOf(s), LiveThread(run[t])
             PROVE  Active(run[t]) /\ ~run[t].off
  BY DEF ThreadsOK
<1>1. ts[t] \in TaskInfo /\ ts[t].thread = "none"
  BY DEF Quiet
<1>2. CASE run[t] = ts[t]
  BY <1>1, <1>2 DEF LiveThread
<1>3. CASE run[t] = NotStarted(ts[t])
  BY <1>1, <1>3 DEF LiveThread, NotStarted, TaskInfo
<1>5. CASE run[t] = Threadless(ts[t])
  BY <1>1, <1>5 DEF LiveThread, Threadless, TaskInfo
<1>4. CASE run[t] = Started(ts[t]) /\ ~ts[t].off
  <2>1. run[t].state = "CREATED" /\ run[t].off = ts[t].off
    BY <1>1, <1>4 DEF Started, TaskInfo
  <2> QED BY <1>4, <2>1 DEF Active
<1> QED BY <1>2, <1>3, <1>4, <1>5

\* Connecting tasks leaves the threads as they are.
LEMMA ConnectedThreads ==
  ASSUME NEW s \in Services, NEW ts \in [TasksOf(s) -> TaskInfo], NEW st, ThreadsOK(s, st, ts)
  PROVE  ThreadsOK(s, st, Connected(s, ts))
BY ConnectedIs DEF ThreadsOK, LiveThread, Active

LEMMA StartedIs ==
  ASSUME NEW ti \in TaskInfo
  PROVE  Started(ti) \in TaskInfo /\ NotStarted(ti) \in TaskInfo /\ Threadless(ti) \in TaskInfo
BY DEF Started, NotStarted, Threadless, TaskInfo, States, ThreadStates

LEMMA RunKeeps ==
  ASSUME IInv, NEW s \in Services, Run(s)
  PROVE  Functions' /\ ServicesOK'
<1> DEFINE run(failing, poor, idle) == [t \in TasksOf(s) |-> RunTask(s, t, failing, poor, idle)]
<1>1. task[s] \in [TasksOf(s) -> TaskInfo] /\ Quiet(s, task[s]) /\ copies[s] = 1
  BY ServiceIs DEF Good, Run
<1>2. PICK failing \in IF MayFail THEN 1 .. Length(s) + 1 ELSE {Length(s) + 1},
            poor \in IF MayFail THEN SUBSET TasksOf(s) ELSE {{}},
            idle \in IF MayFail THEN SUBSET TasksOf(s) ELSE {{}} :
        RunTasks(s, failing, poor, idle)
  BY Zenon DEF Run
<1>2a. IF failing <= Length(s)
       THEN /\ state' = [state EXCEPT ![s] = "STOPPED"]
            /\ task' = [task EXCEPT ![s] = run(failing, poor, idle)]
       ELSE /\ state' = [state EXCEPT ![s] = "RUNNING"]
            /\ task' = [task EXCEPT ![s] = Connected(s, run(failing, poor, idle))]
  BY <1>2 DEF RunTasks
<1>3. \A t \in TasksOf(s) : \/ RunTask(s, t, failing, poor, idle) = task[s][t]
                            \/ RunTask(s, t, failing, poor, idle) = NotStarted(task[s][t])
                            \/ RunTask(s, t, failing, poor, idle) = Threadless(task[s][t])
                            \/ RunTask(s, t, failing, poor, idle) = Started(task[s][t]) /\ ~task[s][t].off
  BY DEF RunTask, InitialOn
<1>4. \A t \in TasksOf(s) : RunTask(s, t, failing, poor, idle) \in TaskInfo
  BY <1>1, <1>3, StartedIs
<1>5. run(failing, poor, idle) \in [TasksOf(s) -> TaskInfo]
  BY <1>4
<1>6. ThreadsOK(s, "STOPPED", run(failing, poor, idle)) /\ ThreadsOK(s, "RUNNING", run(failing, poor, idle))
  BY <1>1, <1>3, <1>5, RunTasksKeep
<1> HIDE DEF run
<1>7. copies' = [copies EXCEPT ![s] = 1]
  BY <1>1, ServiceIs DEF Run
<1>8. CASE failing <= Length(s)
  <2>1. Good(s, "STOPPED", 1, run(failing, poor, idle))
    BY <1>5, <1>6 DEF Good, ServiceTypeOK, States
  <2>2. Becomes(s, "STOPPED", 1, run(failing, poor, idle))
    BY <1>2a, <1>7, <1>8 DEF Becomes
  <2> QED BY <2>1, <2>2, BecomesGood DEF IInv
<1>9. CASE ~(failing <= Length(s))
  <2>1. Good(s, "RUNNING", 1, Connected(s, run(failing, poor, idle)))
    BY <1>5, <1>6, ConnectedIs, ConnectedThreads DEF Good, ServiceTypeOK, States
  <2>2. Becomes(s, "RUNNING", 1, Connected(s, run(failing, poor, idle)))
    BY <1>2a, <1>7, <1>9 DEF Becomes
  <2> QED BY <2>1, <2>2, BecomesGood DEF IInv
<1> QED BY <1>8, <1>9

\* A task that the second run request marks running has no thread that lives.
LEMMA RunAgainKeeps ==
  ASSUME IInv, NEW s \in Services, RunAgain(s)
  PROVE  Functions' /\ ServicesOK'
<1> DEFINE new(t) == IF task[s][t].state = "STOPPED" THEN [task[s][t] EXCEPT !.state = "RUNNING"]
                     ELSE task[s][t]
           ts == [t \in TasksOf(s) |-> new(t)]
<1>1. /\ task[s] \in [TasksOf(s) -> TaskInfo] /\ copies[s] = 1
      /\ ThreadsOK(s, "STOPPED", task[s]) /\ state[s] = "STOPPED"
  BY ServiceIs DEF Good, RunAgain
<1>2. ASSUME NEW t \in TasksOf(s)
      PROVE  /\ new(t) \in TaskInfo
             /\ new(t).thread = task[s][t].thread /\ new(t).off = task[s][t].off
             /\ Active(task[s][t]) => Active(new(t))
  <2>1. task[s][t] \in TaskInfo
    BY <1>1
  <2> QED BY <2>1 DEF TaskInfo, States, Active
<1> HIDE DEF new
<1>3. ts \in [TasksOf(s) -> TaskInfo] /\ ThreadsOK(s, "RUNNING", ts)
  BY <1>1, <1>2 DEF ThreadsOK, LiveThread
<1>4. Good(s, "RUNNING", 1, ts)
  BY <1>3 DEF Good, ServiceTypeOK, States
<1>5. Becomes(s, "RUNNING", 1, ts)
  BY <1>1, ServiceIs DEF RunAgain, Becomes, new, IInv, Functions
<1> QED BY <1>4, <1>5, BecomesGood DEF IInv

LEMMA StopKeeps ==
  ASSUME IInv, NEW s \in Services, Stop(s)
  PROVE  Functions' /\ ServicesOK'
BY NewTasksGood, BecomesGood DEF IInv, Stop, Becomes

LEMMA DeleteKeeps ==
  ASSUME IInv, NEW s \in Services, Delete(s)
  PROVE  Functions' /\ ServicesOK'
BY NewTasksGood, BecomesGood DEF IInv, Delete, Becomes

LEMMA InfoKeeps ==
  ASSUME IInv, Info
  PROVE  Functions' /\ ServicesOK'
<1>1. Functions'
  BY DEF Info, Functions
<1>2. ASSUME NEW s \in Services PROVE Good(s, state'[s], copies'[s], task'[s])
  <2>1. CASE Described(s)
    BY <2>1, NewTasksGood DEF Info
  <2>2. CASE ~Described(s)
    BY <2>2 DEF Info, IInv, ServicesOK
  <2> QED BY <2>1, <2>2
<1> QED BY <1>1, <1>2 DEF ServicesOK

-----------------------------------------------------------------------------
(* Switching tasks on and off.                                             *)

\* Giving a service other tasks and connecting them.  In a service that was
\* not run nothing is connected, so that it stays quiet.
LEMMA ConnectGood ==
  ASSUME IInv, NEW s \in Services, NEW ts \in [TasksOf(s) -> TaskInfo],
         ThreadsOK(s, state[s], ts), state[s] = "CREATED" => Quiet(s, ts),
         task' = [task EXCEPT ![s] = Connected(s, ts)], UNCHANGED <<state, copies>>
  PROVE  Functions' /\ ServicesOK'
<1>1. state[s] = "CREATED" => Quiet(s, Connected(s, ts))
  BY NothingConnected DEF Quiet
<1>2. Good(s, state[s], copies[s], Connected(s, ts))
  BY <1>1, ServiceIs, ConnectedIs, ConnectedThreads DEF Good, ServiceTypeOK
<1>3. Becomes(s, state[s], copies[s], Connected(s, ts))
  BY ServiceIs DEF Becomes
<1> QED BY <1>2, <1>3, BecomesGood DEF IInv

LEMMA TaskOnKeeps ==
  ASSUME IInv, NEW s \in Services, NEW t \in TasksOf(s), TaskOn(s, t)
  PROVE  Functions' /\ ServicesOK'
<1> DEFINE ts == [task[s] EXCEPT ![t].off = FALSE]
<1>1. /\ task[s] \in [TasksOf(s) -> TaskInfo] /\ ThreadsOK(s, state[s], task[s])
      /\ state[s] = "CREATED" => Quiet(s, task[s])
  BY ServiceIs DEF Good
<1>2. ASSUME NEW u \in TasksOf(s)
      PROVE  /\ ts[u] \in TaskInfo
             /\ ts[u].state = task[s][u].state /\ ts[u].thread = task[s][u].thread
             /\ ts[u].route = task[s][u].route
             /\ u # t => ts[u] = task[s][u]
  BY <1>1 DEF TaskInfo
<1>3. ts \in [TasksOf(s) -> TaskInfo]
  BY <1>1, <1>2
<1>4. task' = [task EXCEPT ![s] = Connected(s, ts)] /\ UNCHANGED <<state, copies>>
  BY DEF TaskOn, IInv, Functions
<1>5. ~Active(task[s][t])
  BY DEF TaskOn
<1> HIDE DEF ts
<1>6. ThreadsOK(s, state[s], ts)
  BY <1>1, <1>2, <1>5 DEF ThreadsOK, LiveThread, Active
<1>7. state[s] = "CREATED" => Quiet(s, ts)
  BY <1>1, <1>2 DEF Quiet, Active
<1> QED BY <1>3, <1>4, <1>6, <1>7, ConnectGood

LEMMA TaskOffKeeps ==
  ASSUME IInv, NEW s \in Services, NEW t \in TasksOf(s), TaskOff(s, t)
  PROVE  Functions' /\ ServicesOK'
<1> DEFINE gone == [state |-> "STOPPED", off |-> TRUE, thread |-> "none",
                    held |-> NoTask, route |-> NoTask]
           dropped == [u \in TasksOf(s) |-> IF task[s][u].held = t
                                            THEN [task[s][u] EXCEPT !.held = "deleted"]
                                            ELSE task[s][u]]
           ts == [dropped EXCEPT ![t] = gone]
<1>1. /\ task[s] \in [TasksOf(s) -> TaskInfo] /\ ThreadsOK(s, state[s], task[s])
      /\ state[s] = "CREATED" => Quiet(s, task[s])
  BY ServiceIs DEF Good
<1>2. gone \in TaskInfo
  BY DEF TaskInfo, States, ThreadStates
<1>3. ASSUME NEW u \in TasksOf(s)
      PROVE  /\ dropped[u] \in TaskInfo
             /\ dropped[u].state = task[s][u].state /\ dropped[u].thread = task[s][u].thread
             /\ dropped[u].route = task[s][u].route /\ dropped[u].off = task[s][u].off
  BY <1>1 DEF TaskInfo
<1>4. task' = [task EXCEPT ![s] = Connected(s, ts)] /\ UNCHANGED <<state, copies>>
  BY DEF TaskOff
<1>5. dropped = [u \in TasksOf(s) |-> dropped[u]]
  OBVIOUS
<1> HIDE DEF dropped
<1>6. ASSUME NEW u \in TasksOf(s) PROVE ts[u] = IF u = t THEN gone ELSE dropped[u]
  BY <1>5
<1>7. ts \in [TasksOf(s) -> TaskInfo]
  BY <1>2, <1>3, <1>5
<1>8. ~LiveThread(gone) /\ ~Active(gone) /\ gone.thread = "none" /\ gone.route = NoTask
  BY DEF LiveThread, Active
<1> HIDE DEF ts, gone
<1>9. ThreadsOK(s, state[s], ts)
  BY <1>1, <1>3, <1>6, <1>8 DEF ThreadsOK, LiveThread, Active
<1>10. state[s] = "CREATED" => Quiet(s, ts)
  BY <1>1, <1>3, <1>6, <1>8 DEF Quiet, Active
<1> QED BY <1>4, <1>7, <1>9, <1>10, ConnectGood
-----------------------------------------------------------------------------
(* The threads.                                                            *)

\* A live thread goes on to ti: alive in an active task that is on, or ended.
LEMMA ThreadGood ==
  ASSUME IInv, NEW s \in Services, NEW t \in TasksOf(s),
         LiveThread(task[s][t]),
         NEW ti \in TaskInfo, LiveThread(ti) => Active(ti) /\ ~ti.off,
         task' = [task EXCEPT ![s][t] = ti], UNCHANGED <<state, copies>>
  PROVE  Functions' /\ ServicesOK'
<1> DEFINE ts == [task[s] EXCEPT ![t] = ti]
<1>1. /\ task[s] \in [TasksOf(s) -> TaskInfo] /\ ThreadsOK(s, state[s], task[s])
      /\ state[s] \in {"STOPPED", "RUNNING"}
  BY ServiceIs DEF ThreadsOK
<1>2. ts \in [TasksOf(s) -> TaskInfo] /\ ThreadsOK(s, state[s], ts)
  BY <1>1 DEF ThreadsOK
<1>3. Good(s, state[s], copies[s], ts)
  BY <1>1, <1>2, ServiceIs DEF Good, ServiceTypeOK
<1>4. Becomes(s, state[s], copies[s], ts)
  BY ServiceIs DEF Becomes
<1> QED BY <1>3, <1>4, BecomesGood DEF IInv

LEMMA EndedIs ==
  ASSUME NEW ti \in TaskInfo
  PROVE  Ended(ti) \in TaskInfo /\ ~LiveThread(Ended(ti))
BY DEF Ended, TaskInfo, States, ThreadStates, LiveThread

LEMMA ThreadKeeps ==
  ASSUME IInv, NEW s \in Services, NEW t \in TasksOf(s), Thread(s, t)
  PROVE  Functions' /\ ServicesOK'
<1>1. task[s] \in [TasksOf(s) -> TaskInfo] /\ ThreadsOK(s, state[s], task[s])
  BY ServiceIs
<1>2. task[s][t] \in TaskInfo
  BY <1>1
<1>3. LiveThread(task[s][t])
  BY DEF Thread, PassBy, Start, Work, Send, End, ThreadStep, LiveThread
<1>4. Active(task[s][t]) /\ ~task[s][t].off
  BY <1>1, <1>3 DEF ThreadsOK
<1>5. CASE PassBy(s, t) \/ End(s, t)
  BY <1>2, <1>3, <1>5, EndedIs, ThreadGood DEF PassBy, End, ThreadStep
<1>6. CASE Start(s, t)
  <2> DEFINE ti == [task[s][t] EXCEPT !.state = "RUNNING", !.thread = "working"]
  <2>1. ti \in TaskInfo /\ Active(ti) /\ ~ti.off
    BY <1>2, <1>4 DEF TaskInfo, States, ThreadStates, Active
  <2>2. task' = [task EXCEPT ![s][t] = ti] /\ UNCHANGED <<state, copies>>
    BY <1>6 DEF Start, ThreadStep
  <2> QED BY <1>3, <2>1, <2>2, ThreadGood
<1>7. CASE Work(s, t)
  <2>1. PICK output \in BOOLEAN :
          ThreadStep(s, t, "working",
            IF output /\ task[s][t].route # NoTask
            THEN [task[s][t] EXCEPT !.thread = "sending", !.held = task[s][t].route]
            ELSE [task[s][t] EXCEPT !.thread = "ending"])
    BY <1>7 DEF Work
  <2> DEFINE ti == IF output /\ task[s][t].route # NoTask
                   THEN [task[s][t] EXCEPT !.thread = "sending", !.held = task[s][t].route]
                   ELSE [task[s][t] EXCEPT !.thread = "ending"]
  <2>2. ti \in TaskInfo /\ Active(ti) /\ ~ti.off
    BY <1>2, <1>4 DEF TaskInfo, ThreadStates, Active
  <2>3. task' = [task EXCEPT ![s][t] = ti] /\ UNCHANGED <<state, copies>>
    BY <2>1 DEF ThreadStep
  <2> QED BY <1>3, <2>2, <2>3, ThreadGood
<1>8. CASE Send(s, t)
  <2> DEFINE ti == [task[s][t] EXCEPT !.thread = "ending", !.held = NoTask]
  <2>1. ti \in TaskInfo /\ Active(ti) /\ ~ti.off
    BY <1>2, <1>4 DEF TaskInfo, ThreadStates, Active
  <2>2. task' = [task EXCEPT ![s][t] = ti] /\ UNCHANGED <<state, copies>>
    BY <1>8 DEF Send, ThreadStep
  <2> QED BY <1>3, <2>1, <2>2, ThreadGood
<1> QED BY <1>5, <1>6, <1>7, <1>8 DEF Thread

-----------------------------------------------------------------------------
(* Requests.                                                               *)

\* Every operation leaves a request that is executed as far as at.
LEMMA DispatchRequest ==
  ASSUME IInv, Dispatch
  PROVE  RequestTypeOK'
<1>1. /\ request \in Request \cup {Idle} /\ at \in 1 .. MaxListed + 1
      /\ rsc \in {"200", "400", "404"} /\ halted \in BOOLEAN
      /\ MaxListed \in Nat /\ Len(Listed) \in 0 .. MaxListed
  BY ListedIs, ServiceAssumption DEF IInv, RequestTypeOK
<1>2. ASSUME UNCHANGED request, at' = at + 1, ~Finished,
             rsc' \in {rsc, "200", "404"}, halted' \in BOOLEAN
      PROVE  RequestTypeOK'
  <2>1. at + 1 \in 1 .. MaxListed + 1
    BY <1>1, <1>2 DEF Finished
  <2> QED BY <1>1, <1>2, <2>1 DEF RequestTypeOK
<1>3. CASE OperateUnknown
  BY <1>1, <1>2, <1>3 DEF OperateUnknown, Current, Unknown
<1>4. ASSUME NEW s \in Services, Service(s) PROVE RequestTypeOK'
  <2>1. UNCHANGED request /\ at' = at + 1 /\ ~Finished
    BY <1>4 DEF Service, Create, Run, RunAgain, RunRefused, Stop, Delete, Operate, Current
  <2>2. rsc' \in {rsc, "200", "404"}
    BY <1>4 DEF Service, Create, Run, RunTasks, RunAgain, RunRefused, Stop, Delete, Succeed, Refuse
  <2>3. halted' \in BOOLEAN
    BY <1>1, <1>4, Zenon DEF Service, Create, Run, RunAgain, RunRefused, Stop, Delete
  <2> QED BY <1>2, <2>1, <2>2, <2>3
<1>5. CASE Info
  BY <1>1, <1>5 DEF Info, RequestTypeOK
<1>6. ASSUME request.op \in {"on", "off"}, NEW code \in {"400", "404"}, Abort(code),
             UNCHANGED <<request, halted>>
      PROVE  RequestTypeOK'
  <2>1. Len(request.tasks) + 1 \in 1 .. MaxListed + 1
    BY <1>1, <1>6 DEF Listed
  <2> QED BY <1>1, <1>6, <2>1 DEF RequestTypeOK, Abort
<1>7. CASE OnoffUnknown
  BY <1>6, <1>7 DEF OnoffUnknown
<1>8. ASSUME NEW s \in Services, NEW t \in TasksOf(s),
             OnoffRefused(s, t) \/ TaskOn(s, t) \/ TaskOff(s, t)
      PROVE  RequestTypeOK'
  <2>1. CASE OnoffRefused(s, t)
    BY <1>6, <2>1 DEF OnoffRefused, Onoff
  <2>2. CASE TaskOn(s, t) \/ TaskOff(s, t)
    BY <1>1, <1>2, <2>2 DEF TaskOn, TaskOff, Onoff, Succeed
  <2> QED BY <1>8, <2>1, <2>2
<1>9. CASE Respond
  <2>1. 1 \in 1 .. MaxListed + 1
    BY <1>1
  <2> QED BY <1>1, <1>9, <2>1 DEF Respond, RequestTypeOK
<1> QED BY <1>3, <1>4, <1>5, <1>7, <1>8, <1>9 DEF Dispatch

LEMMA NextIInv == IInv /\ [Next]_vars => IInv'
<1> SUFFICES ASSUME IInv, [Next]_vars PROVE IInv'
  OBVIOUS
<1>1. CASE UNCHANGED vars
  <2>1. RequestTypeOK'
    BY <1>1 DEF vars, IInv, RequestTypeOK
  <2>2. UNCHANGED serviceVars
    BY <1>1 DEF vars
  <2> QED BY <2>1, <2>2, SameServices DEF IInv
<1>2. ASSUME NEW r \in Request, Receive(r) PROVE IInv'
  <2>1. RequestTypeOK'
    BY <1>2 DEF Receive, IInv, RequestTypeOK
  <2>2. UNCHANGED serviceVars
    BY <1>2 DEF Receive
  <2> QED BY <2>1, <2>2, SameServices DEF IInv
<1>3. CASE Dispatch
  <2>1. ASSUME OperateUnknown \/ OnoffUnknown \/ Respond PROVE Functions' /\ ServicesOK'
    <3>1. UNCHANGED serviceVars
      BY <2>1 DEF OperateUnknown, OnoffUnknown, Respond
    <3> QED BY <3>1, SameServices DEF IInv
  <2>2. ASSUME NEW s \in Services, Service(s) PROVE Functions' /\ ServicesOK'
    <3>1. CASE RunRefused(s)
      <4>1. UNCHANGED serviceVars
        BY <3>1 DEF RunRefused
      <4> QED BY <4>1, SameServices DEF IInv
    <3> QED BY <2>2, <3>1, CreateKeeps, RunKeeps, RunAgainKeeps, StopKeeps, DeleteKeeps DEF Service
  <2>3. ASSUME NEW s \in Services, NEW t \in TasksOf(s),
               OnoffRefused(s, t) \/ TaskOn(s, t) \/ TaskOff(s, t)
        PROVE  Functions' /\ ServicesOK'
    <3>1. CASE OnoffRefused(s, t)
      <4>1. UNCHANGED serviceVars
        BY <3>1 DEF OnoffRefused
      <4> QED BY <4>1, SameServices DEF IInv
    <3> QED BY <2>3, <3>1, TaskOnKeeps, TaskOffKeeps
  <2>4. Functions' /\ ServicesOK'
    BY <1>3, <2>1, <2>2, <2>3, InfoKeeps DEF Dispatch
  <2> QED BY <1>3, <2>4, DispatchRequest DEF IInv
<1>4. ASSUME NEW s \in Services, NEW t \in TasksOf(s), Thread(s, t) PROVE IInv'
  <2>1. UNCHANGED <<request, at, rsc>>
    BY <1>4 DEF Thread, PassBy, Start, Work, Send, End, ThreadStep
  <2>2. halted \in BOOLEAN
    BY DEF IInv, RequestTypeOK
  <2>3. halted' \in BOOLEAN
    BY <1>4, <2>2, Zenon DEF Thread, PassBy, Start, Work, Send, End
  <2>4. RequestTypeOK'
    BY <2>1, <2>3 DEF IInv, RequestTypeOK
  <2> QED BY <1>4, <2>4, ThreadKeeps DEF IInv
<1> QED BY <1>1, <1>2, <1>3, <1>4 DEF Next

LEMMA IInvAlways == Spec => []IInv
<1> QED BY InitIInv, NextIInv, PTL DEF Spec

-----------------------------------------------------------------------------
(* What it means.                                                          *)

\* Every variable keeps its type, whatever is requested of whatever services
\* (lwmsg_dist_task, iw_fw_microservices.c).
THEOREM TypeCorrect == Spec => []TypeOK
<1>1. IInv => TypeOK
  BY DEF IInv, Functions, ServicesOK, Good, ServiceTypeOK, RequestTypeOK, TypeOK
<1> QED BY <1>1, IInvAlways, PTL

\* The tasks of a service are in its list once, or not at all before it is
\* created (create_micro_service, stop_micro_service, del_micro_service).
THEOREM TasksListedOnce == Spec => []TasksOnce
<1>1. IInv => TasksOnce
  BY DEF IInv, ServicesOK, Good, TasksOnce
<1> QED BY <1>1, IInvAlways, PTL

\* A thread that has not ended belongs to a service that was run and to a task
\* that is active and not off (run_task, task_onoff, stop_micro_service).
THEOREM ThreadsHaveTasks == Spec => []ThreadsBelong
<1>1. IInv => ThreadsBelong
  BY DEF IInv, ServicesOK, Good, ThreadsOK, ThreadsBelong
<1> QED BY <1>1, IInvAlways, PTL

\* A service that was created and not run is quiet, even after its tasks were
\* switched on and off, which connects tasks (task_onoff).
THEOREM CreatedStaysQuiet == Spec => []CreatedIsQuiet
<1>1. IInv => CreatedIsQuiet
  BY DEF IInv, ServicesOK, Good, Quiet, CreatedIsQuiet
<1> QED BY <1>1, IInvAlways, PTL

\* A step by which a live thread disappears is an operation that ends it.
LEMMA StepEndsOnDemand ==
  ASSUME IInv, Next, NEW s \in Services, NEW t \in TasksOf(s),
         LiveThread(task[s][t]), task'[s][t].thread = "none"
  PROVE  ToEnd(s, t)
<1>1. /\ task[s] \in [TasksOf(s) -> TaskInfo] /\ ThreadsOK(s, state[s], task[s])
      /\ state[s] \in {"STOPPED", "RUNNING"}
      /\ task = [u \in Services |-> task[u]]
  BY ServiceIs DEF ThreadsOK, IInv, Functions
<1>2. task[s][t].thread # "none"
  BY DEF LiveThread
<1>3. task'[s] # task[s]
  BY <1>2
<1>4. ~\E r \in Request : Receive(r)
  BY <1>3 DEF Receive, serviceVars
<1>5. CASE Dispatch
  <2>1. ~(OperateUnknown \/ OnoffUnknown \/ Respond)
    BY <1>3 DEF OperateUnknown, OnoffUnknown, Respond, serviceVars
  <2>2. ASSUME NEW u \in Services, Service(u) PROVE ToEnd(s, t)
    <3>1. u = s
      BY <1>1, <1>3, <2>2
         DEF Service, Create, Run, RunTasks, RunAgain, RunRefused, Stop, Delete, serviceVars
    <3>2. ~Create(s) /\ ~Run(s) /\ ~RunRefused(s)
      BY <1>1, <1>3 DEF Create, Run, RunRefused, serviceVars
    <3>3. ~RunAgain(s)
      <4> SUFFICES ASSUME RunAgain(s) PROVE FALSE
        OBVIOUS
      <4>1. task'[s][t] = IF task[s][t].state = "STOPPED" THEN [task[s][t] EXCEPT !.state = "RUNNING"]
                          ELSE task[s][t]
        BY <1>1 DEF RunAgain
      <4> QED BY <1>1, <1>2, <4>1 DEF TaskInfo
    <3>4. CASE Stop(s) \/ Delete(s)
      BY <3>4 DEF Stop, Delete, Operate, Current, ToEnd
    <3> QED BY <2>2, <3>1, <3>2, <3>3, <3>4 DEF Service
  <2>3. CASE Info
    BY <1>3, <2>3 DEF Info, Described, ToEnd
  <2>4. ASSUME NEW u \in Services, NEW v \in TasksOf(u),
               OnoffRefused(u, v) \/ TaskOn(u, v) \/ TaskOff(u, v)
        PROVE  ToEnd(s, t)
    <3>1. ~OnoffRefused(u, v)
      BY <1>3 DEF OnoffRefused, serviceVars
    <3>2. u = s
      BY <1>1, <1>3, <2>4, <3>1 DEF TaskOn, TaskOff
    <3>3. ~TaskOn(s, v)
      <4> SUFFICES ASSUME TaskOn(s, v) PROVE FALSE
        OBVIOUS
      <4> DEFINE ts == [task[s] EXCEPT ![v].off = FALSE]
      <4>1. ts \in [TasksOf(s) -> TaskInfo] /\ ts[t].thread = task[s][t].thread
        BY <1>1, <2>4, <3>2 DEF TaskInfo
      <4>2. task'[s] = Connected(s, ts)
        BY <1>1 DEF TaskOn
      <4> HIDE DEF ts
      <4> QED BY <1>2, <4>1, <4>2, ConnectedIs
    <3>4. CASE TaskOff(s, v) /\ v = t
      BY <3>4 DEF TaskOff, Onoff, ToEnd
    <3>5. ~(TaskOff(s, v) /\ v # t)
      <4> SUFFICES ASSUME TaskOff(s, v), v # t PROVE FALSE
        OBVIOUS
      <4> DEFINE gone == [state |-> "STOPPED", off |-> TRUE, thread |-> "none",
                          held |-> NoTask, route |-> NoTask]
                 dropped == [u_1 \in TasksOf(s) |-> IF task[s][u_1].held = v
                                                  THEN [task[s][u_1] EXCEPT !.held = "deleted"]
                                                  ELSE task[s][u_1]]
                 ts == [dropped EXCEPT ![v] = gone]
      <4>1. gone \in TaskInfo
        BY DEF TaskInfo, States, ThreadStates
      <4>2. \A w \in TasksOf(s) : dropped[w] \in TaskInfo /\ dropped[w].thread = task[s][w].thread
        BY <1>1 DEF TaskInfo
      <4>3. dropped \in [TasksOf(s) -> TaskInfo]
        BY <1>1 DEF TaskInfo
      <4>4. task'[s] = Connected(s, ts)
        BY <1>1 DEF TaskOff
      <4> HIDE DEF gone, dropped
      <4>5. ts \in [TasksOf(s) -> TaskInfo] /\ ts[t].thread = task[s][t].thread
        BY <4>1, <4>2, <4>3
      <4> HIDE DEF ts
      <4> QED BY <1>2, <4>4, <4>5, ConnectedIs
    <3> QED BY <2>4, <3>1, <3>2, <3>3, <3>4, <3>5
  <2> QED BY <1>5, <2>1, <2>2, <2>3, <2>4 DEF Dispatch
<1>6. ASSUME NEW u \in Services, NEW v \in TasksOf(u), Thread(u, v) PROVE FALSE
  <2>1. PICK ti : task' = [task EXCEPT ![u][v] = ti] /\ ti.thread # "none"
    <3>1. task[u][v] \in TaskInfo
      BY ServiceIs
    <3>2. CASE PassBy(u, v) \/ End(u, v)
      <4>1. Ended(task[u][v]).thread = "ended"
        BY <3>1 DEF Ended, TaskInfo
      <4> QED BY <3>2, <4>1 DEF PassBy, End, ThreadStep
    <3>3. CASE Start(u, v)
      <4> DEFINE ti == [task[u][v] EXCEPT !.state = "RUNNING", !.thread = "working"]
      <4>1. ti.thread = "working"
        BY <3>1 DEF TaskInfo
      <4>2. task' = [task EXCEPT ![u][v] = ti]
        BY <3>3 DEF Start, ThreadStep
      <4> HIDE DEF ti
      <4> QED BY <4>1, <4>2
    <3>4. CASE Work(u, v)
      <4> DEFINE Out(output) == IF output /\ task[u][v].route # NoTask
                                THEN [task[u][v] EXCEPT !.thread = "sending",
                                                        !.held = task[u][v].route]
                                ELSE [task[u][v] EXCEPT !.thread = "ending"]
      <4>1. PICK output \in BOOLEAN : task' = [task EXCEPT ![u][v] = Out(output)]
        BY <3>4, Zenon DEF Work, ThreadStep
      <4>2. Out(output).thread \in {"sending", "ending"}
        BY <3>1 DEF TaskInfo
      <4> HIDE DEF Out
      <4> QED BY <4>1, <4>2
    <3>5. CASE Send(u, v)
      <4> DEFINE ti == [task[u][v] EXCEPT !.thread = "ending", !.held = NoTask]
      <4>1. ti.thread = "ending"
        BY <3>1 DEF TaskInfo
      <4>2. task' = [task EXCEPT ![u][v] = ti]
        BY <3>5 DEF Send, ThreadStep
      <4> HIDE DEF ti
      <4> QED BY <4>1, <4>2
    <3> QED BY <1>6, <3>2, <3>3, <3>4, <3>5 DEF Thread
  <2>2. task'[s][t] \in {task[s][t], ti}
    BY <1>1, <2>1
  <2> QED BY <1>2, <2>1, <2>2
<1> QED BY <1>4, <1>5, <1>6 DEF Next

\* A thread that has not ended disappears only on demand: by a request to stop
\* or delete its service, to switch its task off, or for information.
THEOREM EndedOnDemand == Spec => ThreadsEndedOnDemand
<1>1. IInv /\ [Next]_vars =>
        [\A s \in Services : \A t \in TasksOf(s) :
           LiveThread(task[s][t]) /\ task'[s][t].thread = "none" => ToEnd(s, t)]_vars
  BY StepEndsOnDemand
<1> QED BY <1>1, IInvAlways, PTL DEF Spec, ThreadsEndedOnDemand

-----------------------------------------------------------------------------
(* What is connected.                                                      *)

\* No task comes twice, so what stands at a place of the chain has that place.
LEMMA PlaceIs ==
  ASSUME NEW s \in Services, NEW i \in 1 .. Length(s)
  PROVE  Chain[s][i] \in TasksOf(s) /\ Position(s, Chain[s][i]) = i
<1>1. Chain[s][i] \in TasksOf(s)
  BY DEF TasksOf
<1>2. Position(s, Chain[s][i]) \in 1 .. Length(s) /\ Chain[s][Position(s, Chain[s][i])] = Chain[s][i]
  BY <1>1, PositionIs
<1> QED BY <1>1, <1>2, ChainAssumption

\* The follower of a task is the next one that is on.
LEMMA FollowerIsNext ==
  ASSUME NEW s \in Services, NEW out,
         NEW t \in TasksOf(s) \ out, NEW u \in TasksOf(s) \ out,
         Position(s, t) < Position(s, u),
         \A v \in TasksOf(s) \ out : Position(s, v) \notin Position(s, t) + 1 .. Position(s, u) - 1
  PROVE  Follower(s, t, out) = u
<1> DEFINE later == {j \in Position(s, t) + 1 .. Length(s) : Chain[s][j] \notin out}
           first == CHOOSE j \in later : \A k \in later : j <= k
<1>1. /\ Position(s, t) \in 1 .. Length(s) /\ Position(s, u) \in 1 .. Length(s)
      /\ Chain[s][Position(s, u)] = u /\ Length(s) \in Nat
  BY PositionIs
<1>2. Position(s, u) \in later
  BY <1>1
<1>3. ASSUME NEW j \in later PROVE Position(s, u) <= j
  <2>1. j \in 1 .. Length(s) /\ j \in Position(s, t) + 1 .. Length(s) /\ Chain[s][j] \notin out
    BY <1>1
  <2>2. Chain[s][j] \in TasksOf(s) \ out /\ Position(s, Chain[s][j]) = j
    BY <2>1, PlaceIs
  <2>3. j \notin Position(s, t) + 1 .. Position(s, u) - 1
    BY <2>2
  <2> QED BY <1>1, <2>1, <2>3
<1>4. later \subseteq Nat
  BY <1>1
<1>5. Follower(s, t, out) = IF later = {} THEN NoTask ELSE Chain[s][first]
  BY DEF Follower
<1> HIDE DEF later
<1>6. first \in later /\ \A k \in later : first <= k
  BY <1>2, <1>3
<1> HIDE DEF first
<1>7. first = Position(s, u)
  BY <1>1, <1>2, <1>3, <1>4, <1>6
<1> QED BY <1>1, <1>2, <1>5, <1>7

\* What ConnectsActiveTasks says of the tasks of one service.
Linked(s, ts) ==
  LET out == {t \in TasksOf(s) : ts[t].off}
  IN /\ out \subseteq Offloadable
     /\ \A t \in TasksOf(s) : Active(ts[t]) # (t \in out)
     => \A t, u \in TasksOf(s) \ out :
          /\ Position(s, t) < Position(s, u)
          /\ \A v \in TasksOf(s) \ out : Position(s, v) \notin Position(s, t) + 1 .. Position(s, u) - 1
          => ts[t].route = u

\* Where the tasks that are off are the ones that are not active, the leaf that
\* is found is the one of the tasks that are on.
LEMMA ConnectedLinks ==
  ASSUME NEW s \in Services, NEW ts \in [TasksOf(s) -> TaskInfo]
  PROVE  Linked(s, Connected(s, ts))
<1> DEFINE new == Connected(s, ts)
           out == {t \in TasksOf(s) : new[t].off}
           idle == {t \in TasksOf(s) \cap Offloadable : ~Active(ts[t])}
<1> SUFFICES ASSUME out \subseteq Offloadable,
                    \A t \in TasksOf(s) : Active(new[t]) # (t \in out),
                    NEW t \in TasksOf(s) \ out, NEW u \in TasksOf(s) \ out,
                    Position(s, t) < Position(s, u),
                    \A v \in TasksOf(s) \ out :
                       Position(s, v) \notin Position(s, t) + 1 .. Position(s, u) - 1
             PROVE  new[t].route = u
  BY DEF Linked
<1>1. \A v \in TasksOf(s) : new[v].state = ts[v].state
  BY ConnectedIs
<1>2. \A v \in TasksOf(s) : Active(ts[v]) <=> Active(new[v])
  BY <1>1 DEF Active
<1>3. \A v \in TasksOf(s) : ~Active(ts[v]) <=> v \in out
  <2> HIDE DEF new, out
  <2>1. \A v \in TasksOf(s) : ~Active(new[v]) <=> v \in out
    BY DEF Active
  <2> QED BY <1>2, <2>1
<1>4. idle = out
  <2>1. out \subseteq TasksOf(s)
    OBVIOUS
  <2> HIDE DEF new, out
  <2> QED BY <1>3, <2>1
<1>5. Follower(s, t, out) = u
  BY FollowerIsNext
<1>6. LinkFound(s, ts)
  <2>1. Length(s) > 1
    BY PositionIs
  <2>2. \A i \in 1 .. Length(s) : Active(ts[Chain[s][i]]) \/ Chain[s][i] \in Offloadable
    BY <1>3, PlaceIs
  <2> QED BY <2>1, <2>2 DEF LinkFound
<1>7. u # NoTask
  BY TasksAre
<1>8. new[t] = IF LinkFound(s, ts) /\ t \notin idle /\ Follower(s, t, idle) # NoTask
               THEN [ts[t] EXCEPT !.route = Follower(s, t, idle)]
               ELSE ts[t]
  BY DEF Connected
<1> HIDE DEF new, out, idle
<1>9. new[t] = [ts[t] EXCEPT !.route = u]
  BY <1>4, <1>5, <1>6, <1>7, <1>8
<1> QED BY <1>9 DEF TaskInfo

LEMMA StepConnects ==
  ASSUME IInv, NEW s \in Services,
         Run(s) \/ \E t \in TasksOf(s) : TaskOff(s, t), state'[s] = "RUNNING"
  PROVE  Linked(s, task'[s])
<1>1. task[s] \in [TasksOf(s) -> TaskInfo]
  BY ServiceIs
<1>2. CASE Run(s)
  <2> DEFINE run(failing, poor, idle) == [t \in TasksOf(s) |-> RunTask(s, t, failing, poor, idle)]
  <2>1. PICK failing \in IF MayFail THEN 1 .. Length(s) + 1 ELSE {Length(s) + 1},
              poor \in IF MayFail THEN SUBSET TasksOf(s) ELSE {{}},
              idle \in IF MayFail THEN SUBSET TasksOf(s) ELSE {{}} :
          RunTasks(s, failing, poor, idle)
    BY <1>2, Zenon DEF Run
  <2>1a. IF failing <= Length(s)
         THEN /\ state' = [state EXCEPT ![s] = "STOPPED"]
              /\ task' = [task EXCEPT ![s] = run(failing, poor, idle)]
         ELSE /\ state' = [state EXCEPT ![s] = "RUNNING"]
              /\ task' = [task EXCEPT ![s] = Connected(s, run(failing, poor, idle))]
    BY <2>1 DEF RunTasks
  <2>2. \A t \in TasksOf(s) : RunTask(s, t, failing, poor, idle) \in TaskInfo
    BY <1>1, StartedIs DEF RunTask
  <2>3. run(failing, poor, idle) \in [TasksOf(s) -> TaskInfo]
    BY <2>2
  <2> HIDE DEF run
  <2>4. ~(failing <= Length(s))
    BY <2>1a DEF IInv, Functions
  <2>5. task'[s] = Connected(s, run(failing, poor, idle))
    BY <2>1a, <2>4 DEF IInv, Functions
  <2> QED BY <2>3, <2>5, ConnectedLinks
<1>3. ASSUME NEW t \in TasksOf(s), TaskOff(s, t) PROVE Linked(s, task'[s])
  <2> DEFINE gone == [state |-> "STOPPED", off |-> TRUE, thread |-> "none",
                      held |-> NoTask, route |-> NoTask]
             dropped == [u \in TasksOf(s) |-> IF task[s][u].held = t
                                              THEN [task[s][u] EXCEPT !.held = "deleted"]
                                              ELSE task[s][u]]
             ts == [dropped EXCEPT ![t] = gone]
  <2>1. gone \in TaskInfo
    BY DEF TaskInfo, States, ThreadStates
  <2>2. dropped \in [TasksOf(s) -> TaskInfo]
    BY <1>1 DEF TaskInfo
  <2>3. task' = [task EXCEPT ![s] = Connected(s, ts)]
    BY <1>3 DEF TaskOff
  <2> HIDE DEF gone, dropped
  <2>4. ts \in [TasksOf(s) -> TaskInfo]
    BY <2>1, <2>2
  <2> HIDE DEF ts
  <2>5. task'[s] = Connected(s, ts)
    BY <2>3 DEF IInv, Functions
  <2> QED BY <2>4, <2>5, ConnectedLinks
<1> QED BY <1>2, <1>3

\* For every chain of tasks and every choice of those that can be switched off:
\* when the tasks of a running service have been connected, each active task
\* leads to the next one that is not off (set_output_connect_line).
THEOREM ActiveTasksConnected == Spec => ConnectsActiveTasks
<1>1. ASSUME IInv, NEW s \in Services
      PROVE  LET ts == task'[s]
                 out == {t \in TasksOf(s) : ts[t].off}
             IN /\ Run(s) \/ \E t \in TasksOf(s) : TaskOff(s, t)
                /\ state'[s] = "RUNNING"
                /\ out \subseteq Offloadable
                /\ \A t \in TasksOf(s) : Active(ts[t]) # (t \in out)
                => \A t, u \in TasksOf(s) \ out :
                     /\ Position(s, t) < Position(s, u)
                     /\ \A v \in TasksOf(s) \ out :
                          Position(s, v) \notin Position(s, t) + 1 .. Position(s, u) - 1
                     => ts[t].route = u
  BY <1>1, StepConnects, Zenon DEF Linked
<1>2. IInv /\ [Next]_vars =>
        [\A s \in Services :
           LET ts == task'[s]
               out == {t \in TasksOf(s) : ts[t].off}
           IN /\ Run(s) \/ \E t \in TasksOf(s) : TaskOff(s, t)
              /\ state'[s] = "RUNNING"
              /\ out \subseteq Offloadable
              /\ \A t \in TasksOf(s) : Active(ts[t]) # (t \in out)
              => \A t, u \in TasksOf(s) \ out :
                   /\ Position(s, t) < Position(s, u)
                   /\ \A v \in TasksOf(s) \ out : Position(s, v) \notin Position(s, t) + 1 .. Position(s, u) - 1
                   => ts[t].route = u]_vars
  BY <1>1
<1> QED BY <1>2, IInvAlways, PTL DEF Spec, ConnectsActiveTasks
=============================================================================
