------------------------------- MODULE NetDevice -------------------------------
(***************************************************************************)
(* The network devices of iw_dev_net.c: registration, initialisation, and   *)
(* the connection task that iw_init_network starts for a WiFi or a LoRa     *)
(* device and that keeps it connected.  One handle serves the connection    *)
(* tasks of all devices.  The drivers are external: a driver is the status  *)
(* it reports and the state of its link.                                   *)
(***************************************************************************)
EXTENDS DeviceTable

CONSTANTS MAX_NET_DEV,
          NetRoom,  \* bound: how long the model lets a table grow
          TaskId    \* the connection tasks there is memory for

ASSUME NetAssumption == /\ MAX_NET_DEV \in Nat \ {0}
                        /\ NetRoom \in Nat /\ NetRoom >= MAX_NET_DEV
                        /\ TaskId \subseteq Nat \ {0}

VARIABLES neti,     \* the table of network devices
          net,      \* by device: status and link of its driver
          task,     \* the connection tasks
          handle    \* connection_task_handle: a task, or 0

netVars == <<neti, net, task, handle>>

NetId == 1 .. NetRoom

\* DEV_NOT_INITIALIZED of a device not yet initialised and DEV_DEINITIALIZED
\* are both "off", and DEV_NOT_INITIALIZED after init is "starting": the code
\* waits in all of them.
Status == {"off", "starting", "INITIALIZED", "INIT_ERROR"}
Link == {"DISCONNECTED", "CONNECTED", "GOT_IP"}
Off == [status |-> "off", link |-> "DISCONNECTED"]

TaskPc == {"none", "start", "poll", "ready", "scan", "connect", "exited"}
NoTask == [pc |-> "none", for |-> 0, dev |-> 0]

NetTypeOK ==
    /\ Len(neti) <= NetRoom
    /\ net \in [NetId -> [status : Status, link : Link]]
    /\ task \in [TaskId -> [pc : TaskPc, for : 0 .. NetRoom, dev : 0 .. NetRoom]]
    /\ handle \in TaskId \cup {0}

NetInit ==
    /\ neti = <<>>
    /\ net = [d \in NetId |-> Off]
    /\ task = [t \in TaskId |-> NoTask]
    /\ handle = 0

--------------------------------------------------------------------------------
(* Registration *)

\* The older function checks the bus, not the room in the table, and gives the
\* device no driver.  In a full table it writes behind the array, into the
\* driver_num and the driver array of the same structure, which no lookup reads:
\* the table of the model grows past MAX_NET_DEV, as dev_num does.
iw_register_network(type, iface, port, info, name) ==
    /\ UNCHANGED <<net, task, handle>>
    /\ \/ /\ BusFree(iface, port)
          /\ TakeBus(iface, port, info)
          /\ neti' = Append(neti, Device(type, name, iface, port, {}))
       \/ ~BusFree(iface, port) /\ UNCHANGED <<busVars, neti>>

\* Mutant: when the table is full the last entry is used again.
iw_register_network__Reuse(type, name, iface, port, driver) ==
    /\ neti' = IF Len(neti) < MAX_NET_DEV
               THEN Append(neti, Device(type, name, iface, port, driver))
               ELSE [neti EXCEPT ![MAX_NET_DEV] = Device(type, name, iface, port, driver)]
    /\ UNCHANGED <<busVars, net, task, handle>>

\* Mutant: the room is not tested.
iw_register_network__Untested(type, name, iface, port, driver) ==
    /\ neti' = Append(neti, Device(type, name, iface, port, driver))
    /\ UNCHANGED <<busVars, net, task, handle>>

\* Mutant: one device more than there is room for.
iw_register_network__TooMany(type, name, iface, port, driver) ==
    /\ neti' = IF Len(neti) <= MAX_NET_DEV
               THEN Append(neti, Device(type, name, iface, port, driver))
               ELSE neti
    /\ UNCHANGED <<busVars, net, task, handle>>

\* The newer one checks the room and not the bus, and takes the driver.
iw_register_network_(type, name, iface, port, driver) ==
    /\ neti' = IF Len(neti) < MAX_NET_DEV
               THEN Append(neti, Device(type, name, iface, port, driver))
               ELSE neti
    /\ UNCHANGED <<busVars, net, task, handle>>

\* The devices whose entries iw_get_network_info fills: the first one of exactly
\* that type whatever its name, and the first later one of that name.
InfoFilled(type, name) ==
    LET same  == {i \in DOMAIN neti : neti[i].type = type}
        later == {i \in same : i > First(same) /\ neti[i].name = name}
    IN {First(same), First(later)} \ {0}

\* The lookups by type or name (iw_get_network_devid and its two variants).
iw_get_network_devid(type, name) == DevId(neti, type, name)
iw_get_network_dev_id_by_type(type) == DevIdByType(neti, type)
iw_get_network_dev_id_by_name(name) == DevIdByName(neti, name)

NetProvides(d, op) == Provides(neti, d, op)

--------------------------------------------------------------------------------
(* Initialisation, by whichever task calls it *)

Connecting == {{"WIFI"}, {"LORA"}}

\* A task that ended keeps its handle until the handle is overwritten.
Unused(t) == task[t].pc = "none" \/ (task[t].pc = "exited" /\ t # handle)

CanInit(d) == d <= Len(neti) /\ neti[d].type # {} /\ neti[d].func # {}

\* A connection task is created for the device, or there is no memory for one
\* and the handle of an earlier task is overwritten with NULL.
CreateConnectionTask(d, answer) ==
    \/ /\ answer = "SUCCESS"
       /\ \E t \in TaskId :
            /\ Unused(t)
            /\ \A u \in TaskId : Unused(u) => t <= u
            /\ task' = [task EXCEPT ![t] = [pc |-> "start", for |-> d, dev |-> 0]]
            /\ handle' = t
    \/ answer = "FAIL" /\ handle' = 0 /\ UNCHANGED task

iw_init_network(d, answer) ==
    /\ UNCHANGED <<neti, busVars>>
    /\ \/ answer = "FAIL" /\ UNCHANGED <<net, task, handle>>  \* refused, or the driver fails
       \/ /\ CanInit(d)
          /\ net' = [net EXCEPT ![d] = [Off EXCEPT !.status = "starting"]]
          /\ IF neti[d].type \in Connecting
             THEN CreateConnectionTask(d, answer)
             ELSE answer = "SUCCESS" /\ UNCHANGED <<task, handle>>

\* Mutant: the task is left running.
iw_deinit_network_KeepsTask(d) ==
    /\ net' = IF NetProvides(d, "deinit") THEN [net EXCEPT ![d] = Off] ELSE net
    /\ UNCHANGED <<neti, task, handle, busVars>>

\* Deletes the one task the handle names, whatever device it serves.
iw_deinit_network(d) ==
    /\ task' = IF handle # 0 THEN [task EXCEPT ![handle] = NoTask] ELSE task
    /\ handle' = 0
    /\ net' = IF NetProvides(d, "deinit") THEN [net EXCEPT ![d] = Off] ELSE net
    /\ UNCHANGED <<neti, busVars>>

--------------------------------------------------------------------------------
(* netConnectionTask.  A sleep ends at the next step. *)

Goto(t, pc) == task' = [task EXCEPT ![t].pc = pc]

\* iw_exit_task: nothing tells the handle.
ConnectionTaskStarts(t) ==
    /\ task[t].pc = "start"
    /\ LET d == iw_get_network_devid(neti[task[t].for].type, NoName)
       IN IF d = 0
          THEN Goto(t, "exited")
          ELSE task' = [task EXCEPT ![t].pc = "poll", ![t].dev = d]

\* The link state that the task is content with.
Connected(type, link) == \/ type = {"WIFI"} /\ link = "GOT_IP"
                         \/ type = {"LORA"} /\ link = "CONNECTED"

ConnectionTaskPolls(t) ==
    LET d == task[t].dev IN
    /\ task[t].pc = "poll"
    /\ NetProvides(d, "is_connected")
    /\ ~Connected(neti[task[t].for].type, net[d].link)
    /\ Goto(t, "ready")

ConnectionTaskChecks(t) ==
    LET d == task[t].dev IN
    /\ task[t].pc = "ready"
    /\ Goto(t, CASE ~NetProvides(d, "is_ready") -> "poll"
                 [] net[d].status = "INITIALIZED" -> "scan"
                 [] net[d].status = "INIT_ERROR" -> "exited"
                 [] OTHER -> "poll")

\* NET_SUCCESS leads on; NET_AP_NOT_FOUND, NET_TIMEOUT and NET_FAIL do not.
ConnectionTaskScans(t) ==
    /\ task[t].pc = "scan"
    /\ \/ NetProvides(task[t].dev, "scan") /\ Goto(t, "connect")
       \/ Goto(t, "poll")

ConnectSucceeds(t) ==
    LET d == task[t].dev IN
    /\ task[t].pc = "connect"
    /\ NetProvides(d, "connect")
    /\ net[d].status = "INITIALIZED"
    /\ Goto(t, "poll")
    /\ net' = [net EXCEPT ![d].link = IF neti[d].type = {"WIFI"} THEN "GOT_IP" ELSE "CONNECTED"]

ConnectFails(t) == task[t].pc = "connect" /\ Goto(t, "poll") /\ UNCHANGED net

ConnectionTask(t) ==
    /\ UNCHANGED <<neti, handle, busVars>>
    /\ \/ /\ \/ ConnectionTaskStarts(t) \/ ConnectionTaskPolls(t)
             \/ ConnectionTaskChecks(t) \/ ConnectionTaskScans(t)
          /\ UNCHANGED net
       \/ ConnectSucceeds(t)
       \/ ConnectFails(t)

\* External: a driver finishes its start, and a link comes and goes.
DriverStarted(d, status) ==
    /\ net[d].status = "starting"
    /\ net' = [net EXCEPT ![d].status = status]
    /\ UNCHANGED <<neti, task, handle, busVars>>

LinkLost(d, link) ==
    /\ \/ link = "DISCONNECTED" /\ net[d].link # "DISCONNECTED"
       \/ link = "CONNECTED" /\ net[d].link = "GOT_IP"
    /\ net' = [net EXCEPT ![d].link = link]
    /\ UNCHANGED <<neti, task, handle, busVars>>

NetDriver(d) ==
    \/ \E status \in {"INITIALIZED", "INIT_ERROR"} : DriverStarted(d, status)
    \/ \E link \in {"DISCONNECTED", "CONNECTED"} : LinkLost(d, link)

--------------------------------------------------------------------------------

Running(t) == task[t].pc \notin {"none", "exited"}
================================================================================
