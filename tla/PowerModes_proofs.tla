-------------------------- MODULE PowerModes_proofs --------------------------
(***************************************************************************)
(* Proofs about the power modes, for all periods, any memory for connection *)
(* tasks, any room in the tables and any number of failures.               *)
(***************************************************************************)
EXTENDS PowerModes, TLAPS

-----------------------------------------------------------------------------
(* The inductive invariant.                                                *)

\* The two devices of the application stay the only ones, so that both ids are 1.
OneOfEach == neti = <<WifiDev>> /\ si = <<Co2Dev>>

\* A task that runs serves the WiFi device.
TasksServe == \A t \in TaskId : Running(t) =>
                  task[t].for = 1 /\ (task[t].pc # "start" => task[t].dev = 1)

\* The flag of WifiTask says whether there is a handle, and the task it names
\* runs unless the driver failed: only then does a task end by itself.
HandleWhileOn == /\ wifi.on <=> handle # 0
                 /\ handle # 0 => Running(handle) \/ net[1].status = "INIT_ERROR"

Up == wifi.on /\ net[1].status = "INITIALIZED"

\* A link or a server connection takes a driver that is up.
LinkedWhileUp == (net[1].link # "DISCONNECTED" \/ wifi.server) => Up

\* A sequence that waits for its report, or goes on after it, has the device on;
\* the report itself takes a driver that is up, so the device that is about to be
\* switched off is one whose connection task is there.
ReportingWhileUp == /\ wifi.seq = 1 => wifi.on
                    /\ wifi.seq = 1 /\ wifi.sent => Up
                    /\ wifi.pc \in {"disconnect server", "disconnect network", "deinit"} => Up

\* The task ends with its last report.
ReportsLeft == wifi.pc # "ended" => wifi.left > 0

IInv == /\ TypeOK /\ OneOfEach
        /\ OneConnectionTask /\ TasksServe /\ HandleWhileOn
        /\ LinkedWhileUp /\ ReportingWhileUp /\ ReportsLeft

-----------------------------------------------------------------------------
(* The two devices.                                                        *)

\* The last one of one number.
LEMMA OnlyOne == Last({1}) = 1
<1>1. \A i \in {1} : \A j \in {1} : i >= j
  OBVIOUS
<1>2. (CHOOSE i \in {1} : \A j \in {1} : i >= j) \in {1}
  BY <1>1
<1> QED BY <1>2 DEF Last

LEMMA Devices ==
  ASSUME OneOfEach
  PROVE  /\ wifi_id = 1 /\ co2_id = 1
         /\ 1 \in NetId /\ 1 \in SensorId
         /\ Len(neti) = 1 /\ Len(si) = 1
         /\ CanInit(1) /\ neti[1].type = {"WIFI"} /\ neti[1].type \in Connecting
         /\ \A op \in {"deinit", "is_ready", "connect"} : NetProvides(1, op)
<1>1. /\ DOMAIN neti = {1} /\ neti[1] = WifiDev /\ Len(neti) = 1
      /\ DOMAIN si = {1} /\ si[1] = Co2Dev /\ Len(si) = 1
  BY DEF OneOfEach
<1>2. Sharing(neti, {"WIFI"}) = {1} /\ Sharing(si, {"CO2"}) = {1}
  BY <1>1 DEF Sharing, WifiDev, Co2Dev, Device
<1>3. wifi_id = 1 /\ co2_id = 1
  BY <1>2, OnlyOne DEF wifi_id, co2_id, iw_get_network_devid, iw_get_sensor_devid, DevId
<1>4. 1 \in NetId /\ 1 \in SensorId
  BY NetAssumption, SensorAssumption DEF NetId, SensorId
<1>5. /\ neti[1].type = {"WIFI"}
      /\ neti[1].func = {"init", "deinit", "is_connected", "is_ready", "scan", "connect"}
  BY <1>1 DEF WifiDev, Device
<1>6. CanInit(1) /\ neti[1].type \in Connecting
  BY <1>1, <1>5 DEF CanInit, Connecting
<1>7. \A op \in {"deinit", "is_ready", "connect"} : NetProvides(1, op)
  BY <1>1, <1>5 DEF NetProvides, Provides
<1> QED BY <1>1, <1>3, <1>4, <1>5, <1>6, <1>7

\* What TypeOK says of the parts.
WifiState == [pc : WifiPc, on : BOOLEAN, server : BOOLEAN, seq : 0 .. 2,
              tick : 0 .. WIFI_OFF - 1, prev : Power \cup {"none"}, sent : BOOLEAN,
              sendTick : 0 .. SEND_PERIOD - 1, left : 0 .. TRANS_COUNT]
Co2State == [on : BOOLEAN, seq : 0 .. 2, tick : 0 .. CO2_OFF, capture : BOOLEAN]
TaskState == [pc : TaskPc, for : 0 .. NetRoom, dev : 0 .. NetRoom]

LEMMA TypeParts ==
  TypeOK <=> /\ Len(neti) <= NetRoom /\ Len(si) <= SensorRoom
             /\ net \in [NetId -> [status : Status, link : Link]]
             /\ task \in [TaskId -> TaskState] /\ handle \in TaskId \cup {0}
             /\ sensor \in [SensorId -> {"off", "INITIALIZED"}]
             /\ power \in Power /\ wifi \in WifiState /\ co2 \in Co2State
             /\ faults \in 0 .. MaxFaults
BY DEF TypeOK, NetTypeOK, SensorTypeOK, WifiState, Co2State, TaskState

LEMMA TypePartsNext ==
  TypeOK' <=> /\ Len(neti') <= NetRoom /\ Len(si') <= SensorRoom
              /\ net' \in [NetId -> [status : Status, link : Link]]
              /\ task' \in [TaskId -> TaskState] /\ handle' \in TaskId \cup {0}
              /\ sensor' \in [SensorId -> {"off", "INITIALIZED"}]
              /\ power' \in Power /\ wifi' \in WifiState /\ co2' \in Co2State
              /\ faults' \in 0 .. MaxFaults
BY DEF TypeOK, NetTypeOK, SensorTypeOK, WifiState, Co2State, TaskState

LEMMA Periods ==
  /\ SEND_PERIOD \in Nat /\ SEND_PERIOD > 0 /\ WIFI_OFF \in Nat /\ WIFI_OFF > 0
  /\ CO2_OFF \in Nat /\ TRANS_COUNT \in Nat /\ MaxFaults \in Nat
BY PowerAssumption

LEMMA FaultsCounted ==
  ASSUME faults \in 0 .. MaxFaults, Fault \/ NoFault
  PROVE  faults' \in 0 .. MaxFaults
BY PowerAssumption DEF Fault, NoFault

LEMMA InitIInv == Init => IInv
<1> SUFFICES ASSUME Init PROVE IInv
  OBVIOUS
<1> USE PowerAssumption, NetAssumption, SensorAssumption
<1>1. OneOfEach
  BY DEF Init, OneOfEach
<1>2. 1 \in NetId /\ Len(neti) = 1 /\ Len(si) = 1
  BY <1>1, Devices
<1>3. /\ Len(neti) <= NetRoom /\ Len(si) <= SensorRoom
      /\ handle \in TaskId \cup {0} /\ power \in Power /\ faults \in 0 .. MaxFaults
  BY <1>2 DEF Init, Power
<1>4. /\ net \in [NetId -> [status : Status, link : Link]] /\ net[1] = Off
      /\ sensor \in [SensorId -> {"off", "INITIALIZED"}]
  BY <1>2 DEF Init, Off, Status, Link
<1>5. NoTask \in TaskState
  BY DEF NoTask, TaskState, TaskPc
<1>6. task \in [TaskId -> TaskState]
  BY <1>5 DEF Init
<1>7. wifi \in WifiState /\ co2 \in Co2State
  BY DEF Init, WifiState, Co2State, WifiPc
<1>8. TypeOK
  BY <1>3, <1>4, <1>6, <1>7, TypeParts
<1>9. \A t \in TaskId : ~Running(t)
  BY DEF Init, Running, NoTask
<1> QED BY <1>1, <1>4, <1>8, <1>9
        DEF IInv, Init, OneConnectionTask, TasksServe, HandleWhileOn, LinkedWhileUp,
            ReportingWhileUp, ReportsLeft, Up, Off

-----------------------------------------------------------------------------
(* WifiTask.                                                               *)

WifiAlone == UNCHANGED <<sensorVars, power, co2>> /\ (Fault \/ NoFault)

Leaving == {"disconnect server", "disconnect network", "deinit"}

\* A step of WifiTask that leaves the devices alone.
LEMMA Thinks ==
  ASSUME IInv, WifiAlone, UNCHANGED netVars,
         wifi' \in WifiState, wifi'.on = wifi.on,
         wifi'.server => Up,
         wifi'.seq = 1 => wifi.on,
         wifi'.seq = 1 /\ wifi'.sent => Up,
         wifi'.pc \in Leaving => Up,
         wifi'.pc # "ended" => wifi'.left > 0
  PROVE  IInv'
<1> USE DEF IInv
<1>1. /\ UNCHANGED <<neti, net, task, handle, si, sensor, power, co2>>
      /\ faults' \in 0 .. MaxFaults
  BY FaultsCounted, TypeParts DEF WifiAlone, netVars, sensorVars
<1>2. TypeOK'
  BY <1>1, TypeParts, TypePartsNext
<1>3. OneOfEach' /\ OneConnectionTask' /\ TasksServe'
  BY <1>1 DEF OneOfEach, OneConnectionTask, TasksServe, Running, WifiDev, Co2Dev
<1>4. Up' <=> Up
  BY <1>1 DEF Up
<1>5. HandleWhileOn' /\ LinkedWhileUp' /\ ReportingWhileUp' /\ ReportsLeft'
  BY <1>1, <1>4 DEF HandleWhileOn, LinkedWhileUp, ReportingWhileUp, ReportsLeft, Running, Leaving
<1> QED BY <1>2, <1>3, <1>5

\* No task runs while the device is off, and the link is down.
LEMMA NothingWhileOff ==
  ASSUME IInv, ~wifi.on
  PROVE  /\ handle = 0 /\ \A t \in TaskId : ~Running(t)
         /\ net[1].link = "DISCONNECTED" /\ ~wifi.server /\ wifi.seq # 1
         /\ wifi.pc \notin Leaving
BY NetAssumption DEF IInv, HandleWhileOn, OneConnectionTask, LinkedWhileUp, ReportingWhileUp, Up,
                     Leaving

LEMMA SwitchesOnSucceeds ==
  ASSUME IInv, WifiAlone, ~wifi.on, iw_init_network(wifi_id, "SUCCESS"),
         wifi' \in WifiState, wifi'.on, ~wifi'.server, wifi'.seq = 1 => ~wifi'.sent,
         wifi'.pc \notin Leaving, wifi'.pc # "ended" => wifi'.left > 0
  PROVE  IInv'
<1> USE DEF IInv
<1>1. /\ wifi_id = 1 /\ neti[1].type \in Connecting /\ 1 \in NetId
      /\ \A t \in TaskId : ~Running(t)
  BY Devices, NothingWhileOff
<1>2. PICK t \in TaskId :
         /\ task' = [task EXCEPT ![t] = [pc |-> "start", for |-> 1, dev |-> 0]]
         /\ handle' = t
         /\ net' = [net EXCEPT ![1] = [Off EXCEPT !.status = "starting"]]
         /\ neti' = neti
  BY <1>1 DEF iw_init_network, CreateConnectionTask
<1>3. /\ UNCHANGED <<si, sensor, power, co2>> /\ faults' \in 0 .. MaxFaults
  BY FaultsCounted, TypeParts DEF WifiAlone, sensorVars
<1>4. [pc |-> "start", for |-> 1, dev |-> 0] \in TaskState
  BY NetAssumption DEF TaskState, TaskPc
<1>5. /\ net \in [NetId -> [status : Status, link : Link]] /\ task \in [TaskId -> TaskState]
  BY TypeParts
<1>6. net'[1].status = "starting" /\ net'[1].link = "DISCONNECTED"
  BY <1>1, <1>2, <1>5 DEF Off
<1>7. /\ net' \in [NetId -> [status : Status, link : Link]] /\ task' \in [TaskId -> TaskState]
      /\ handle' \in TaskId
  BY <1>2, <1>4, <1>5 DEF Off, Status, Link
<1>8. TypeOK'
  BY <1>2, <1>3, <1>7, TypeParts, TypePartsNext
<1>9. /\ task'[t] = [pc |-> "start", for |-> 1, dev |-> 0]
      /\ \A u \in TaskId \ {t} : task'[u] = task[u]
  BY <1>2, <1>5
<1>10. Running(t)' /\ \A u \in TaskId \ {t} : ~Running(u)'
  BY <1>1, <1>9 DEF Running
<1>11. OneOfEach' /\ OneConnectionTask' /\ TasksServe'
  BY <1>2, <1>3, <1>9, <1>10 DEF OneOfEach, OneConnectionTask, TasksServe, WifiDev, Co2Dev
<1>12. HandleWhileOn'
  BY <1>2, <1>10, NetAssumption DEF HandleWhileOn
<1>13. LinkedWhileUp' /\ ReportingWhileUp' /\ ReportsLeft'
  BY <1>6 DEF LinkedWhileUp, ReportingWhileUp, ReportsLeft, Leaving
<1> QED BY <1>8, <1>11, <1>12, <1>13

\* No connection task is left behind by a creation that fails: there was none.
LEMMA SwitchesOnFails ==
  ASSUME IInv, WifiAlone, ~wifi.on, iw_init_network(wifi_id, "FAIL"),
         wifi' \in WifiState, ~wifi'.on, ~wifi'.server, wifi'.seq # 1,
         wifi'.pc \notin Leaving, wifi'.pc # "ended" => wifi'.left > 0
  PROVE  IInv'
<1> USE DEF IInv
<1>1. /\ wifi_id = 1 /\ neti[1].type \in Connecting /\ 1 \in NetId
      /\ handle = 0 /\ (\A t \in TaskId : ~Running(t)) /\ net[1].link = "DISCONNECTED"
  BY Devices, NothingWhileOff
<1>2. /\ task' = task /\ handle' = 0 /\ neti' = neti
      /\ net' = net \/ net' = [net EXCEPT ![1] = [Off EXCEPT !.status = "starting"]]
  BY <1>1 DEF iw_init_network, CreateConnectionTask
<1>3. /\ UNCHANGED <<si, sensor, power, co2>> /\ faults' \in 0 .. MaxFaults
  BY FaultsCounted, TypeParts DEF WifiAlone, sensorVars
<1>4. net \in [NetId -> [status : Status, link : Link]]
  BY TypeParts
<1>5. net'[1].link = "DISCONNECTED" /\ net' \in [NetId -> [status : Status, link : Link]]
  BY <1>1, <1>2, <1>4 DEF Off, Status, Link
<1>6. TypeOK'
  BY <1>2, <1>3, <1>5, TypeParts, TypePartsNext
<1>7. \A t \in TaskId : ~Running(t)'
  BY <1>1, <1>2 DEF Running
<1> QED BY <1>2, <1>3, <1>5, <1>6, <1>7
        DEF OneOfEach, OneConnectionTask, TasksServe, HandleWhileOn, LinkedWhileUp,
            ReportingWhileUp, ReportsLeft, Up, Leaving, WifiDev, Co2Dev

\* Switching on, in every mode.
LEMMA SwitchingOn ==
  ASSUME IInv, UNCHANGED <<sensorVars, power, co2>>, ~wifi.on,
         NEW w \in WifiState, NEW v \in WifiState, SwitchesOn(w, v),
         ~w.on, ~w.server, w.seq # 1, w.left > 0,
         ~v.server, v.seq = 1 => ~v.sent, v.left > 0
  PROVE  IInv'
<1>1. CASE iw_init_network(wifi_id, "SUCCESS") /\ NoFault /\ wifi' = [v EXCEPT !.on = TRUE, !.pc = "link"]
  <2>1. /\ wifi' \in WifiState /\ wifi'.on /\ wifi'.pc = "link" /\ ~wifi'.server
        /\ wifi'.seq = v.seq /\ wifi'.sent = v.sent /\ wifi'.left = v.left
    BY <1>1 DEF WifiState, WifiPc
  <2> QED BY <1>1, <2>1, SwitchesOnSucceeds DEF WifiAlone, Leaving
<1>2. CASE iw_init_network(wifi_id, "FAIL") /\ Fault /\ wifi' = [w EXCEPT !.pc = "link"]
  <2>1. /\ wifi' \in WifiState /\ ~wifi'.on /\ wifi'.pc = "link" /\ ~wifi'.server
        /\ wifi'.seq = w.seq /\ wifi'.left = w.left
    BY <1>2 DEF WifiState, WifiPc
  <2> QED BY <1>2, <2>1, SwitchesOnFails DEF WifiAlone, Leaving
<1> QED BY <1>1, <1>2 DEF SwitchesOn

\* What the task takes from the mode: its flags are what they were.
LEMMA EnteredIs ==
  ASSUME IInv
  PROVE  /\ wifi \in WifiState /\ Entered \in WifiState
         /\ Entered.on = wifi.on /\ Entered.server = wifi.server /\ Entered.sent = wifi.sent
         /\ Entered.pc = wifi.pc /\ Entered.left = wifi.left /\ Entered.tick = wifi.tick
         /\ Entered.seq = wifi.seq \/ Entered.seq = 0
<1>1. wifi \in WifiState /\ power \in Power
  BY TypeParts DEF IInv
<1> DEFINE over == [wifi EXCEPT !.prev = power, !.seq = 0]
<1>2. /\ over \in WifiState
      /\ over.on = wifi.on /\ over.server = wifi.server /\ over.sent = wifi.sent
      /\ over.pc = wifi.pc /\ over.left = wifi.left /\ over.tick = wifi.tick
      /\ over.seq = 0
  <2>1. over \in WifiState
    <3>1. \A seq \in 0 .. 2 : [wifi EXCEPT !.prev = power, !.seq = seq] \in WifiState
      BY <1>1 DEF WifiState
    <3>2. 0 \in 0 .. 2
      OBVIOUS
    <3> QED BY <3>1, <3>2, Zenon
  <2>2. over.on = wifi.on /\ over.server = wifi.server
    BY <1>1 DEF WifiState
  <2>3. over.sent = wifi.sent /\ over.pc = wifi.pc
    BY <1>1 DEF WifiState
  <2>4. over.left = wifi.left /\ over.tick = wifi.tick /\ over.seq = 0
    BY <1>1 DEF WifiState
  <2> QED BY <2>1, <2>2, <2>3, <2>4
<1>3. Entered = IF wifi.prev # power THEN over ELSE wifi
  BY DEF Entered
<1> HIDE DEF over
<1> QED BY <1>1, <1>2, <1>3

LEMMA StaysOnKeeps == IInv /\ WifiStaysOn => IInv'
<1> SUFFICES ASSUME IInv, WifiStaysOn PROVE IInv'
  OBVIOUS
<1>1. wifi \in WifiState /\ wifi.pc = "mode" /\ wifi.left > 0
  BY TypeParts DEF IInv, WifiStaysOn, Wifi, ReportsLeft
<1>2. CASE wifi.on
  <2>1. /\ wifi' = [wifi EXCEPT !.pc = "link"] /\ UNCHANGED netVars /\ WifiAlone
    BY <1>2 DEF WifiStaysOn, Wifi, NetUnchanged, WifiAlone
  <2>2. wifi' \in WifiState
    BY <1>1, <2>1 DEF WifiState, WifiPc
  <2> QED BY <1>1, <2>1, <2>2, Thinks DEF IInv, LinkedWhileUp, ReportingWhileUp, Leaving, WifiState
<1>3. CASE ~wifi.on
  <2>1. SwitchesOn(wifi, wifi) /\ UNCHANGED <<sensorVars, power, co2>>
    BY <1>3 DEF WifiStaysOn, Wifi
  <2> QED BY <1>1, <1>3, <2>1, SwitchingOn, NothingWhileOff
<1> QED BY <1>2, <1>3

LEMMA SavesOnKeeps == IInv /\ WifiSavesOn => IInv'
<1> SUFFICES ASSUME IInv, WifiSavesOn PROVE IInv'
  OBVIOUS
<1> DEFINE reporting == [Entered EXCEPT !.seq = 1, !.sent = FALSE]
<1>1. /\ wifi \in WifiState /\ Entered \in WifiState /\ wifi.pc = "mode" /\ wifi.left > 0
      /\ Entered.on = wifi.on /\ Entered.server = wifi.server /\ Entered.left = wifi.left
      /\ Entered.seq = 0
  BY EnteredIs DEF IInv, WifiSavesOn, Saving, Wifi, ReportsLeft
<1>2. /\ reporting \in WifiState /\ reporting.seq = 1 /\ ~reporting.sent
      /\ reporting.on = wifi.on /\ reporting.server = wifi.server /\ reporting.left = wifi.left
  <2>1. reporting \in WifiState
    <3>1. \A seq \in 0 .. 2, sent \in BOOLEAN :
             [Entered EXCEPT !.seq = seq, !.sent = sent] \in WifiState
      BY <1>1 DEF WifiState
    <3>2. 1 \in 0 .. 2 /\ FALSE \in BOOLEAN
      OBVIOUS
    <3> QED BY <3>1, <3>2, Zenon
  <2>2. /\ reporting.seq = 1 /\ reporting.sent = FALSE /\ reporting.on = Entered.on
        /\ reporting.server = Entered.server /\ reporting.left = Entered.left
    BY <1>1 DEF WifiState
  <2> QED BY <1>1, <2>1, <2>2
<1>3. /\ UNCHANGED <<sensorVars, power, co2>>
      /\ IF wifi.on THEN wifi' = [reporting EXCEPT !.pc = "link"] /\ NetUnchanged /\ NoFault
                    ELSE SwitchesOn(Entered, reporting)
  BY DEF WifiSavesOn, Saving, Wifi
<1> HIDE DEF reporting
<1>4. CASE wifi.on
  <2>1. /\ wifi' = [reporting EXCEPT !.pc = "link"] /\ UNCHANGED netVars /\ WifiAlone
    BY <1>3, <1>4 DEF NetUnchanged, WifiAlone
  <2>2. /\ wifi' \in WifiState /\ wifi'.on = wifi.on /\ wifi'.server = wifi.server
        /\ ~wifi'.sent /\ wifi'.pc = "link" /\ wifi'.left > 0
    BY <1>1, <1>2, <2>1 DEF WifiState, WifiPc
  <2>3. wifi'.server => Up
    BY <2>2 DEF IInv, LinkedWhileUp
  <2> QED BY <1>4, <2>1, <2>2, <2>3, Thinks DEF Leaving
<1>5. CASE ~wifi.on
  BY <1>1, <1>2, <1>3, <1>5, SwitchingOn, NothingWhileOff
<1> QED BY <1>4, <1>5

LEMMA SavesReportedKeeps == IInv /\ WifiSavesReported => IInv'
<1> SUFFICES ASSUME IInv, WifiSavesReported PROVE IInv'
  OBVIOUS
<1>1. /\ wifi \in WifiState /\ Entered \in WifiState /\ wifi.pc = "mode" /\ wifi.left > 0
      /\ Entered.on = wifi.on /\ Entered.server = wifi.server /\ Entered.left = wifi.left
      /\ Entered.seq = 1 /\ wifi.seq = 1
  BY EnteredIs DEF IInv, WifiSavesReported, Saving, Wifi, ReportsLeft
<1>2. /\ wifi' = [Entered EXCEPT !.sent = FALSE,
                                 !.pc = IF wifi.sent THEN "disconnect server" ELSE "link"]
      /\ UNCHANGED netVars /\ WifiAlone
  BY DEF WifiSavesReported, Saving, Wifi, NetUnchanged, WifiAlone
<1>3. /\ wifi' \in WifiState /\ wifi'.on = wifi.on /\ wifi'.server = wifi.server
      /\ ~wifi'.sent /\ wifi'.left > 0
      /\ wifi'.pc = IF wifi.sent THEN "disconnect server" ELSE "link"
  BY <1>1, <1>2 DEF WifiState, WifiPc
<1> QED BY <1>1, <1>2, <1>3, Thinks DEF IInv, LinkedWhileUp, ReportingWhileUp, Leaving

LEMMA SavesOffKeeps == IInv /\ WifiSavesOff => IInv'
<1> SUFFICES ASSUME IInv, WifiSavesOff PROVE IInv'
  OBVIOUS
<1>1. /\ wifi \in WifiState /\ Entered \in WifiState /\ wifi.pc = "mode" /\ wifi.left > 0
      /\ Entered.on = wifi.on /\ Entered.server = wifi.server /\ Entered.left = wifi.left
      /\ Entered.seq = 2 /\ Entered.tick = wifi.tick
  BY EnteredIs DEF IInv, WifiSavesOff, Saving, Wifi, ReportsLeft
<1>2. /\ wifi' = IF power = "LOW"
                 THEN IF wifi.tick + 1 = WIFI_OFF
                      THEN [Entered EXCEPT !.tick = 0, !.seq = 0, !.pc = "link"]
                      ELSE [Entered EXCEPT !.tick = @ + 1, !.pc = "link"]
                 ELSE [Entered EXCEPT !.pc = "link"]
      /\ UNCHANGED netVars /\ WifiAlone
  BY DEF WifiSavesOff, Saving, Wifi, NetUnchanged, WifiAlone
<1>3. /\ wifi' \in WifiState /\ wifi'.on = wifi.on /\ wifi'.server = wifi.server
      /\ wifi'.seq # 1 /\ wifi'.left > 0 /\ wifi'.pc = "link"
  <2> DEFINE Waits(tick, seq) == [Entered EXCEPT !.tick = tick, !.seq = seq, !.pc = "link"]
  <2>1. ASSUME NEW tick \in 0 .. WIFI_OFF - 1, NEW seq \in 0 .. 2
        PROVE  /\ Waits(tick, seq) \in WifiState
               /\ Waits(tick, seq).on = Entered.on /\ Waits(tick, seq).server = Entered.server
               /\ Waits(tick, seq).seq = seq /\ Waits(tick, seq).left = Entered.left
               /\ Waits(tick, seq).pc = "link"
    <3>1. Waits(tick, seq) \in WifiState
      BY <1>1, <2>1 DEF WifiState, WifiPc
    <3>2. Waits(tick, seq).on = Entered.on /\ Waits(tick, seq).server = Entered.server
      BY <1>1, <2>1 DEF WifiState
    <3>3. Waits(tick, seq).seq = seq /\ Waits(tick, seq).left = Entered.left
      BY <1>1, <2>1 DEF WifiState
    <3>4. Waits(tick, seq).pc = "link"
      BY <1>1, <2>1 DEF WifiState
    <3> QED BY <3>1, <3>2, <3>3, <3>4
  <2>2. \E tick \in 0 .. WIFI_OFF - 1, seq \in {0, 2} : wifi' = Waits(tick, seq)
    <3>1. Entered.tick \in 0 .. WIFI_OFF - 1 /\ 0 \in 0 .. WIFI_OFF - 1
      BY <1>1, Periods DEF WifiState
    <3>2. CASE power = "LOW" /\ wifi.tick + 1 = WIFI_OFF
      <4>1. wifi' = Waits(0, 0)
        BY <1>2, <3>2
      <4> QED BY <3>1, <4>1
    <3>3. CASE power = "LOW" /\ wifi.tick + 1 # WIFI_OFF
      <4>1. wifi' = [Entered EXCEPT !.tick = Entered.tick + 1, !.pc = "link"]
        BY <1>2, <3>3
      <4>2. Entered.tick + 1 \in 0 .. WIFI_OFF - 1
        BY <1>1, <3>1, <3>3, Periods
      <4>3. wifi' = Waits(Entered.tick + 1, 2)
        BY <1>1, <4>1 DEF WifiState
      <4> QED BY <4>2, <4>3
    <3>4. CASE power # "LOW"
      <4>1. wifi' = Waits(Entered.tick, 2)
        BY <1>1, <1>2, <3>4 DEF WifiState
      <4> QED BY <3>1, <4>1
    <3> QED BY <3>2, <3>3, <3>4
  <2> HIDE DEF Waits
  <2>3. PICK tick \in 0 .. WIFI_OFF - 1, seq \in {0, 2} : wifi' = Waits(tick, seq)
    BY <2>2
  <2> QED BY <1>1, <2>1, <2>3
<1> QED BY <1>1, <1>2, <1>3, Thinks DEF IInv, LinkedWhileUp, Leaving

LEMMA DisconnectsServerKeeps == IInv /\ WifiDisconnectsServer => IInv'
<1> SUFFICES ASSUME IInv, WifiDisconnectsServer PROVE IInv'
  OBVIOUS
<1>1. wifi \in WifiState /\ wifi.pc = "disconnect server"
  BY TypeParts DEF IInv, WifiDisconnectsServer, Wifi
<1>2. wifi' = [wifi EXCEPT !.pc = "disconnect network"] /\ UNCHANGED netVars /\ WifiAlone
  BY DEF WifiDisconnectsServer, Wifi, NetUnchanged, WifiAlone
<1>3. /\ wifi' \in WifiState /\ wifi'.on = wifi.on /\ wifi'.server = wifi.server
      /\ wifi'.left = wifi.left /\ wifi'.seq = wifi.seq
  BY <1>1, <1>2 DEF WifiState, WifiPc
<1>4. Up /\ wifi.on /\ wifi.left > 0
  BY <1>1 DEF IInv, ReportingWhileUp, ReportsLeft, Up
<1> QED BY <1>2, <1>3, <1>4, Thinks

LEMMA LooksAtLinkKeeps == IInv /\ WifiLooksAtLink => IInv'
<1> SUFFICES ASSUME IInv, WifiLooksAtLink PROVE IInv'
  OBVIOUS
<1>1. wifi \in WifiState /\ wifi.pc = "link" /\ wifi.left > 0
  BY TypeParts DEF IInv, WifiLooksAtLink, Wifi, ReportsLeft
<1>2. /\ wifi' = [wifi EXCEPT !.server = @ /\ GotIp,
                              !.pc = IF GotIp /\ ~wifi.server THEN "connect server" ELSE "send"]
      /\ UNCHANGED netVars /\ WifiAlone
  BY DEF WifiLooksAtLink, Wifi, NetUnchanged, WifiAlone
<1>3. GotIp \in BOOLEAN
  BY DEF GotIp
<1>4. /\ wifi' \in WifiState /\ wifi'.on = wifi.on /\ (wifi'.server => wifi.server)
      /\ wifi'.pc \in {"connect server", "send"} /\ wifi'.left = wifi.left
      /\ wifi'.seq = wifi.seq /\ wifi'.sent = wifi.sent
  BY <1>1, <1>2, <1>3 DEF WifiState, WifiPc
<1> QED BY <1>1, <1>2, <1>4, Thinks DEF IInv, LinkedWhileUp, ReportingWhileUp, Leaving

LEMMA ConnectsServerKeeps == IInv /\ WifiConnectsServer => IInv'
<1> SUFFICES ASSUME IInv, WifiConnectsServer PROVE IInv'
  OBVIOUS
<1>1. wifi \in WifiState /\ wifi.pc = "connect server" /\ wifi.left > 0
  BY TypeParts DEF IInv, WifiConnectsServer, Wifi, ReportsLeft
<1>2. /\ \/ GotIp /\ wifi' = [wifi EXCEPT !.server = TRUE, !.pc = "send"]
         \/ wifi' = [wifi EXCEPT !.pc = "send"]
      /\ UNCHANGED netVars /\ WifiAlone
  BY DEF WifiConnectsServer, Wifi, NetUnchanged, WifiAlone
<1>3. /\ wifi' \in WifiState /\ wifi'.on = wifi.on /\ (wifi'.server => wifi.server \/ GotIp)
      /\ wifi'.pc = "send" /\ wifi'.left = wifi.left
      /\ wifi'.seq = wifi.seq /\ wifi'.sent = wifi.sent
  BY <1>1, <1>2 DEF WifiState, WifiPc
<1>4. GotIp => Up
  BY Devices DEF IInv, LinkedWhileUp, GotIp
<1> QED BY <1>1, <1>2, <1>3, <1>4, Thinks DEF IInv, LinkedWhileUp, ReportingWhileUp, Leaving

\* A report is sent while the server is connected, so the driver is up.
LEMMA SendsKeeps == IInv /\ WifiSends => IInv'
<1> SUFFICES ASSUME IInv, WifiSends PROVE IInv'
  OBVIOUS
<1> DEFINE due == wifi.sendTick + 1 = SEND_PERIOD
           next == IF due THEN 0 ELSE wifi.sendTick + 1
<1>1. wifi \in WifiState /\ wifi.pc = "send" /\ wifi.left > 0
  BY TypeParts DEF IInv, WifiSends, Wifi, ReportsLeft
<1>2. /\ wifi' = IF due /\ wifi.server
                 THEN [wifi EXCEPT !.sendTick = next, !.left = @ - 1,
                                   !.sent = @ \/ wifi.left > 1,
                                   !.pc = IF wifi.left = 1 THEN "ended" ELSE "mode"]
                 ELSE [wifi EXCEPT !.sendTick = next, !.pc = "mode"]
      /\ UNCHANGED netVars /\ WifiAlone
  BY DEF WifiSends, Wifi, NetUnchanged, WifiAlone
<1>3. next \in 0 .. SEND_PERIOD - 1
  BY <1>1, PowerAssumption DEF WifiState
<1> HIDE DEF due, next
<1>4. CASE due /\ wifi.server
  <2> DEFINE sent == wifi.sent \/ wifi.left > 1
             pc == IF wifi.left = 1 THEN "ended" ELSE "mode"
  <2>3. wifi' = [wifi EXCEPT !.sendTick = next, !.left = wifi.left - 1, !.sent = sent, !.pc = pc]
    BY <1>2, <1>4
  <2>4. /\ wifi.left - 1 \in 0 .. TRANS_COUNT /\ sent \in BOOLEAN /\ pc \in {"ended", "mode"}
        /\ pc # "ended" => wifi.left - 1 > 0
    BY <1>1, Periods DEF WifiState
  <2> HIDE DEF sent, pc
  <2>1. /\ wifi' \in WifiState /\ wifi'.on = wifi.on /\ wifi'.server = wifi.server
        /\ wifi'.seq = wifi.seq /\ wifi'.pc \in {"ended", "mode"}
        /\ wifi'.pc # "ended" => wifi'.left > 0
    BY <1>1, <1>3, <2>3, <2>4 DEF WifiState, WifiPc
  <2>2. Up
    BY <1>4 DEF IInv, LinkedWhileUp
  <2> QED BY <1>2, <2>1, <2>2, Thinks DEF Up, Leaving
<1>5. CASE ~(due /\ wifi.server)
  <2>1. /\ wifi' \in WifiState /\ wifi'.on = wifi.on /\ wifi'.server = wifi.server
        /\ wifi'.seq = wifi.seq /\ wifi'.sent = wifi.sent
        /\ wifi'.pc = "mode" /\ wifi'.left = wifi.left
    BY <1>1, <1>2, <1>3, <1>5 DEF WifiState, WifiPc
  <2> QED BY <1>1, <1>2, <2>1, Thinks DEF IInv, LinkedWhileUp, ReportingWhileUp, Leaving
<1> QED BY <1>4, <1>5

\* The link is dropped while the driver is still up.
LEMMA DisconnectsNetworkKeeps == IInv /\ WifiDisconnectsNetwork => IInv'
<1> SUFFICES ASSUME IInv, WifiDisconnectsNetwork PROVE IInv'
  OBVIOUS
<1>1. /\ wifi \in WifiState /\ wifi.pc = "disconnect network"
      /\ net \in [NetId -> [status : Status, link : Link]]
  BY TypeParts DEF IInv, WifiDisconnectsNetwork, Wifi
<1>2. Up /\ wifi.left > 0 /\ wifi_id = 1 /\ 1 \in NetId
  BY <1>1, Devices DEF IInv, ReportingWhileUp, ReportsLeft
<1>3. /\ net' = [net EXCEPT ![1].link = "DISCONNECTED"] /\ wifi' = [wifi EXCEPT !.pc = "deinit"]
      /\ UNCHANGED <<neti, task, handle, si, sensor, power, co2>> /\ NoFault
  BY <1>2 DEF WifiDisconnectsNetwork, Wifi, sensorVars
<1>4. /\ wifi' \in WifiState /\ wifi'.on = wifi.on /\ wifi'.server = wifi.server
      /\ wifi'.left = wifi.left /\ wifi'.seq = wifi.seq /\ wifi'.pc = "deinit"
  BY <1>1, <1>3 DEF WifiState, WifiPc
<1>5. /\ net' \in [NetId -> [status : Status, link : Link]]
      /\ net'[1].status = net[1].status /\ net'[1].link = "DISCONNECTED"
  BY <1>1, <1>2, <1>3 DEF Link
<1>6. TypeOK'
  BY <1>3, <1>4, <1>5, FaultsCounted, TypeParts, TypePartsNext DEF IInv
<1>7. OneOfEach' /\ OneConnectionTask' /\ TasksServe'
  BY <1>3 DEF IInv, OneOfEach, OneConnectionTask, TasksServe, Running, WifiDev, Co2Dev
<1>8. Up'
  BY <1>2, <1>4, <1>5 DEF Up
<1>9. HandleWhileOn'
  BY <1>3, <1>4, <1>5 DEF IInv, HandleWhileOn, Running
<1> QED BY <1>2, <1>4, <1>6, <1>7, <1>8, <1>9
        DEF IInv, LinkedWhileUp, ReportingWhileUp, ReportsLeft, Up

\* The one task is deleted with the handle, so no task runs afterwards.
LEMMA DeinitsKeeps == IInv /\ WifiDeinits => IInv'
<1> SUFFICES ASSUME IInv, WifiDeinits PROVE IInv'
  OBVIOUS
<1>1. /\ wifi \in WifiState /\ wifi.pc = "deinit"
      /\ net \in [NetId -> [status : Status, link : Link]] /\ task \in [TaskId -> TaskState]
      /\ handle \in TaskId \cup {0}
  BY TypeParts DEF IInv, WifiDeinits, Wifi
<1>2. wifi.on /\ handle # 0 /\ wifi.left > 0 /\ wifi_id = 1 /\ 1 \in NetId /\ NetProvides(1, "deinit")
  BY <1>1, Devices DEF IInv, ReportingWhileUp, ReportsLeft, Up, HandleWhileOn
<1>3. /\ net' = [net EXCEPT ![1] = Off] /\ task' = [task EXCEPT ![handle] = NoTask] /\ handle' = 0
      /\ UNCHANGED <<neti, si, sensor, power, co2>> /\ NoFault
      /\ wifi' = [wifi EXCEPT !.on = FALSE, !.server = FALSE, !.seq = 2, !.tick = 0, !.pc = "link"]
  BY <1>2 DEF WifiDeinits, Wifi, iw_deinit_network, sensorVars
<1>4. /\ wifi' \in WifiState /\ ~wifi'.on /\ ~wifi'.server /\ wifi'.left = wifi.left
      /\ wifi'.seq = 2 /\ wifi'.pc = "link"
  <2>1. \A tick \in 0 .. WIFI_OFF - 1, seq \in 0 .. 2, on, server \in BOOLEAN, pc \in WifiPc :
           [wifi EXCEPT !.on = on, !.server = server, !.seq = seq, !.tick = tick, !.pc = pc]
               \in WifiState
    BY <1>1 DEF WifiState
  <2>2. 0 \in 0 .. WIFI_OFF - 1 /\ 2 \in 0 .. 2 /\ FALSE \in BOOLEAN /\ "link" \in WifiPc
    BY Periods DEF WifiPc
  <2>3. wifi' \in WifiState
    BY <1>3, <2>1, <2>2, Zenon
  <2>4. wifi'.on = FALSE /\ wifi'.server = FALSE
    BY <1>1, <1>3 DEF WifiState
  <2>5. wifi'.left = wifi.left /\ wifi'.seq = 2 /\ wifi'.pc = "link"
    BY <1>1, <1>3 DEF WifiState
  <2> QED BY <2>3, <2>4, <2>5
<1>5. /\ net' \in [NetId -> [status : Status, link : Link]]
      /\ net'[1].link = "DISCONNECTED"
  BY <1>1, <1>2, <1>3 DEF Off, Status, Link
<1>6. task' \in [TaskId -> TaskState]
  <2>1. NoTask \in TaskState
    BY NetAssumption DEF NoTask, TaskState, TaskPc
  <2> QED BY <1>1, <1>2, <1>3, <2>1
<1>7. TypeOK'
  BY <1>3, <1>4, <1>5, <1>6, FaultsCounted, TypeParts, TypePartsNext DEF IInv
<1>8. \A t \in TaskId : ~Running(t)'
  BY <1>1, <1>2, <1>3 DEF IInv, OneConnectionTask, Running, NoTask
<1>9. OneOfEach'
  BY <1>3 DEF IInv, OneOfEach, WifiDev, Co2Dev
<1>10. OneConnectionTask' /\ TasksServe'
  BY <1>8 DEF OneConnectionTask, TasksServe
<1>11. HandleWhileOn'
  BY <1>3, <1>4 DEF HandleWhileOn
<1>12. LinkedWhileUp' /\ ReportingWhileUp' /\ ReportsLeft'
  BY <1>2, <1>4, <1>5 DEF LinkedWhileUp, ReportingWhileUp, ReportsLeft
<1> QED BY <1>7, <1>9, <1>10, <1>11, <1>12 DEF IInv

LEMMA WifiTaskKeeps == IInv /\ WifiTask => IInv'
BY StaysOnKeeps, SavesOnKeeps, SavesReportedKeeps, SavesOffKeeps, DisconnectsServerKeeps,
   DisconnectsNetworkKeeps, DeinitsKeeps, LooksAtLinkKeeps, ConnectsServerKeeps, SendsKeeps
   DEF WifiTask

-----------------------------------------------------------------------------
(* The connection task, the driver and the link.                           *)

Outside == UNCHANGED <<neti, handle, sensorVars, power, wifi, co2>> /\ (Fault \/ NoFault)

\* What moves beside WifiTask may end its task when the driver failed, and may
\* take the link up only when the driver is up.
LEMMA NetMoves ==
  ASSUME IInv, Outside,
         net' \in [NetId -> [status : Status, link : Link]], task' \in [TaskId -> TaskState],
         \A t \in TaskId : Running(t)' => Running(t),
         TasksServe',
         handle # 0 => Running(handle)' \/ net'[1].status = "INIT_ERROR",
         net'[1].link # "DISCONNECTED" => Up', Up => Up'
  PROVE  IInv'
<1> USE DEF IInv
<1>1. UNCHANGED <<neti, handle, si, sensor, power, wifi, co2>> /\ faults' \in 0 .. MaxFaults
  BY FaultsCounted, TypeParts DEF Outside, sensorVars
<1>2. TypeOK'
  BY <1>1, TypeParts, TypePartsNext
<1>3. OneOfEach' /\ OneConnectionTask'
  BY <1>1 DEF OneOfEach, OneConnectionTask, WifiDev, Co2Dev
<1>4. HandleWhileOn'
  BY <1>1 DEF HandleWhileOn
<1>5. LinkedWhileUp' /\ ReportingWhileUp' /\ ReportsLeft'
  BY <1>1 DEF LinkedWhileUp, ReportingWhileUp, ReportsLeft
<1> QED BY <1>2, <1>3, <1>4, <1>5

\* A step of the task changes where it is, and nothing else of the tasks.
LEMMA GotoIs ==
  ASSUME task \in [TaskId -> TaskState], NEW t \in TaskId, NEW pc \in TaskPc, Goto(t, pc)
  PROVE  /\ task' \in [TaskId -> TaskState]
         /\ task'[t].pc = pc /\ task'[t].for = task[t].for /\ task'[t].dev = task[t].dev
         /\ \A u \in TaskId \ {t} : task'[u] = task[u]
BY DEF Goto, TaskState

LEMMA ConnectsKeeps ==
  ASSUME IInv, NEW t \in TaskId, Connects(t)
  PROVE  IInv'
<1> USE DEF IInv
<1>1. /\ net \in [NetId -> [status : Status, link : Link]] /\ task \in [TaskId -> TaskState]
      /\ handle \in TaskId \cup {0}
  BY TypeParts
<1>2. ConnectionTask(t) /\ Outside /\ UNCHANGED neti
  BY DEF Connects, Outside, ConnectionTask
<1>3. Running(t)
  BY <1>2 DEF ConnectionTask, ConnectionTaskStarts, ConnectionTaskPolls, ConnectionTaskChecks,
              ConnectionTaskScans, ConnectSucceeds, ConnectFails, Running
<1>4. /\ t = handle /\ wifi.on /\ task[t].for = 1
      /\ task[t].pc # "start" => task[t].dev = 1
  BY <1>3, NetAssumption DEF OneConnectionTask, TasksServe, HandleWhileOn
<1>5. neti[1].type = {"WIFI"} /\ wifi_id = 1 /\ 1 \in NetId
  BY Devices
\* However the task moves, unless it ends with the driver not failed.
<1>6. ASSUME net' = net, NEW pc \in TaskPc, Goto(t, pc), pc # "start", task[t].pc # "start",
             pc \notin {"none", "exited"} \/ net[1].status = "INIT_ERROR"
      PROVE  IInv'
  <2>1. /\ task' \in [TaskId -> TaskState]
        /\ task'[t].pc = pc /\ task'[t].for = task[t].for /\ task'[t].dev = task[t].dev
        /\ \A u \in TaskId \ {t} : task'[u] = task[u]
    BY <1>1, <1>6, GotoIs
  <2>2. \A u \in TaskId : Running(u)' => Running(u)
    BY <1>3, <2>1 DEF Running
  <2>3. TasksServe'
    BY <1>4, <1>6, <2>1 DEF TasksServe, Running
  <2>4. Running(handle)' \/ net'[1].status = "INIT_ERROR"
    BY <1>2, <1>4, <1>6, <2>1 DEF Running, Outside
  <2>5. (net'[1].link # "DISCONNECTED" => Up') /\ (Up => Up')
    BY <1>2, <1>6 DEF Outside, LinkedWhileUp, Up
  <2> QED BY <1>1, <1>2, <1>6, <2>1, <2>2, <2>3, <2>4, <2>5, NetMoves
<1>7. CASE ConnectionTaskStarts(t) /\ net' = net
  <2>1. task[t].pc = "start" /\ task' = [task EXCEPT ![t].pc = "poll", ![t].dev = 1]
    <3>1. iw_get_network_devid(neti[task[t].for].type, NoName) = 1
      BY <1>4, <1>5 DEF wifi_id
    <3> QED BY <1>7, <3>1 DEF ConnectionTaskStarts
  <2>2. /\ task' \in [TaskId -> TaskState]
        /\ task'[t].pc = "poll" /\ task'[t].for = 1 /\ task'[t].dev = 1
        /\ \A u \in TaskId \ {t} : task'[u] = task[u]
    BY <1>1, <1>4, <2>1, NetAssumption DEF TaskState, TaskPc
  <2>3. \A u \in TaskId : Running(u)' => Running(u)
    BY <1>3, <2>2 DEF Running
  <2>4. TasksServe'
    BY <2>2 DEF TasksServe, Running
  <2>5. Running(handle)'
    BY <1>2, <1>4, <2>2 DEF Running, Outside
  <2>6. (net'[1].link # "DISCONNECTED" => Up') /\ (Up => Up')
    BY <1>2, <1>7 DEF Outside, LinkedWhileUp, Up
  <2> QED BY <1>1, <1>2, <1>7, <2>2, <2>3, <2>4, <2>5, <2>6, NetMoves
<1>8. CASE ConnectionTaskPolls(t) /\ net' = net
  BY <1>6, <1>8 DEF ConnectionTaskPolls, TaskPc
<1>9. CASE ConnectionTaskChecks(t) /\ net' = net
  <2>1. task[t].dev = 1 /\ task[t].pc = "ready" /\ NetProvides(1, "is_ready")
    BY <1>4, <1>9, Devices DEF ConnectionTaskChecks
  <2>2. \/ Goto(t, "scan") \/ Goto(t, "poll")
        \/ Goto(t, "exited") /\ net[1].status = "INIT_ERROR"
    BY <1>9, <2>1 DEF ConnectionTaskChecks
  <2> QED BY <1>6, <1>9, <2>1, <2>2 DEF TaskPc
<1>10. CASE ConnectionTaskScans(t) /\ net' = net
  BY <1>6, <1>10 DEF ConnectionTaskScans, TaskPc
<1>11. CASE ConnectSucceeds(t)
  <2>1. /\ task[t].pc = "connect" /\ task[t].dev = 1 /\ net[1].status = "INITIALIZED"
        /\ Goto(t, "poll") /\ net' = [net EXCEPT ![1].link = "GOT_IP"]
    BY <1>4, <1>5, <1>11 DEF ConnectSucceeds
  <2>2. /\ task' \in [TaskId -> TaskState]
        /\ task'[t].pc = "poll" /\ task'[t].for = 1 /\ task'[t].dev = 1
        /\ \A u \in TaskId \ {t} : task'[u] = task[u]
    BY <1>1, <1>4, <2>1, GotoIs DEF TaskPc
  <2>3. \A u \in TaskId : Running(u)' => Running(u)
    BY <1>3, <2>2 DEF Running
  <2>4. TasksServe'
    BY <2>2 DEF TasksServe, Running
  <2>5. Running(handle)'
    BY <1>2, <1>4, <2>2 DEF Running, Outside
  <2>6. net' \in [NetId -> [status : Status, link : Link]] /\ net'[1].status = "INITIALIZED"
    BY <1>1, <1>5, <2>1 DEF Link
  <2>7. Up'
    BY <1>2, <1>4, <2>6 DEF Outside, Up
  <2> QED BY <1>1, <1>2, <2>2, <2>3, <2>4, <2>5, <2>6, <2>7, NetMoves
<1>12. CASE ConnectFails(t)
  BY <1>6, <1>12 DEF ConnectFails, TaskPc
<1> QED BY <1>2, <1>7, <1>8, <1>9, <1>10, <1>11, <1>12 DEF ConnectionTask

LEMMA DriverKeeps == IInv /\ (DriverStarts \/ LosesLink) => IInv'
<1> SUFFICES ASSUME IInv, DriverStarts \/ LosesLink PROVE IInv'
  OBVIOUS
<1> USE DEF IInv
<1>1. net \in [NetId -> [status : Status, link : Link]] /\ wifi_id = 1 /\ 1 \in NetId
  BY TypeParts, Devices
<1>2. task \in [TaskId -> TaskState] /\ task' = task /\ Outside
  BY TypeParts DEF DriverStarts, LosesLink, DriverStarted, LinkLost, Outside
<1>3. (\A t \in TaskId : Running(t)' <=> Running(t)) /\ TasksServe'
  BY <1>2 DEF TasksServe, Running
<1>4. Running(handle)' <=> Running(handle)
  BY <1>2 DEF Running, Outside
<1>5. CASE DriverStarts
  <2>1. PICK status \in {"INITIALIZED", "INIT_ERROR"} :
           net[1].status = "starting" /\ net' = [net EXCEPT ![1].status = status]
    BY <1>1, <1>5 DEF DriverStarts, DriverStarted
  <2>2. /\ net' \in [NetId -> [status : Status, link : Link]]
        /\ net'[1].status = status /\ net'[1].link = net[1].link
    BY <1>1, <2>1 DEF Status
  <2>3. net[1].link = "DISCONNECTED" /\ ~Up
    BY <2>1 DEF LinkedWhileUp, Up
  <2>4. handle # 0 => Running(handle)
    BY <2>1 DEF HandleWhileOn
  <2> QED BY <1>2, <1>3, <1>4, <2>2, <2>3, <2>4, NetMoves
<1>6. CASE LosesLink
  <2>1. PICK link \in {"DISCONNECTED", "CONNECTED"} :
           /\ net[1].link # "DISCONNECTED" /\ net' = [net EXCEPT ![1].link = link]
    BY <1>1, <1>6 DEF LosesLink, LinkLost
  <2>2. /\ net' \in [NetId -> [status : Status, link : Link]]
        /\ net'[1].status = net[1].status
    BY <1>1, <2>1 DEF Link
  <2>3. Up /\ Up'
    BY <1>2, <2>1, <2>2 DEF LinkedWhileUp, Up, Outside
  <2>4. handle # 0 => Running(handle)' \/ net'[1].status = "INIT_ERROR"
    BY <1>4, <2>2 DEF HandleWhileOn
  <2> QED BY <1>2, <1>3, <2>2, <2>3, <2>4, NetMoves
<1> QED BY <1>5, <1>6

-----------------------------------------------------------------------------
(* Co2ReadSensorTask and the mode.                                         *)

SensorType == [SensorId -> {"off", "INITIALIZED"}]

\* A reading only notes that there was one.
LEMMA ReadsIs ==
  ASSUME NEW c \in Co2State, Reads(c)
  PROVE  co2' \in Co2State
BY DEF Reads, Co2State

LEMMA SensorSwitched ==
  ASSUME IInv, \/ iw_deinit_sensor(co2_id)
               \/ \E answer \in {"SUCCESS", "FAIL"} : iw_init_sensor(co2_id, answer)
               \/ UNCHANGED sensorVars
  PROVE  sensor' \in SensorType /\ UNCHANGED si
<1>1. sensor \in SensorType /\ co2_id = 1 /\ 1 \in SensorId
  BY TypeParts, Devices DEF IInv, SensorType
<1> QED BY <1>1 DEF iw_deinit_sensor, iw_init_sensor, SensorType, sensorVars

LEMMA Co2SwitchesOnTo ==
  ASSUME IInv, NEW c \in Co2State, NEW v \in Co2State, Co2SwitchesOn(c, v)
  PROVE  /\ co2' \in Co2State /\ sensor' \in SensorType /\ UNCHANGED si
         /\ Fault \/ NoFault
<1>1. [v EXCEPT !.on = TRUE] \in Co2State
  BY DEF Co2State
<1> QED BY <1>1, ReadsIs, SensorSwitched DEF Co2SwitchesOn

LEMMA Co2Steps ==
  ASSUME IInv, Co2StaysOn \/ Co2Saves \/ Co2Sleeps
  PROVE  /\ co2' \in Co2State /\ sensor' \in SensorType /\ UNCHANGED si
         /\ Fault \/ NoFault
<1>1. co2 \in Co2State
  BY TypeParts DEF IInv
<1>2. CASE Co2StaysOn
  BY <1>1, <1>2, ReadsIs, SensorSwitched, Co2SwitchesOnTo DEF Co2StaysOn
<1>3. CASE Co2Sleeps
  <2>1. [co2 EXCEPT !.on = FALSE] \in Co2State
    BY <1>1 DEF Co2State
  <2> QED BY <1>1, <1>3, <2>1, ReadsIs, SensorSwitched DEF Co2Sleeps
<1>4. CASE Co2Saves
  <2> DEFINE measuring == [co2 EXCEPT !.seq = 1, !.capture = FALSE]
             off == [co2 EXCEPT !.capture = FALSE, !.on = FALSE, !.seq = 2, !.tick = 0]
             waits == IF co2.tick = CO2_OFF THEN [co2 EXCEPT !.seq = 0]
                                            ELSE [co2 EXCEPT !.tick = @ + 1]
  <2>1. \A seq \in 0 .. 2, tick \in 0 .. CO2_OFF, on, capture \in BOOLEAN :
           /\ [co2 EXCEPT !.seq = seq, !.capture = capture] \in Co2State
           /\ [co2 EXCEPT !.capture = capture, !.on = on, !.seq = seq, !.tick = tick] \in Co2State
           /\ [co2 EXCEPT !.seq = seq] \in Co2State
           /\ [co2 EXCEPT !.tick = tick] \in Co2State
    BY <1>1 DEF Co2State
  <2>2. FALSE \in BOOLEAN /\ {0, 1, 2} \subseteq 0 .. 2 /\ 0 \in 0 .. CO2_OFF
    BY Periods
  <2>3. measuring \in Co2State /\ off \in Co2State
    BY <2>1, <2>2, Zenon
  <2>4. waits \in Co2State
    <3>1. co2.tick # CO2_OFF => co2.tick + 1 \in 0 .. CO2_OFF
      BY <1>1, Periods DEF Co2State
    <3>2. [co2 EXCEPT !.seq = 0] \in Co2State
      BY <2>1, <2>2, Zenon
    <3>3. co2.tick # CO2_OFF => [co2 EXCEPT !.tick = co2.tick + 1] \in Co2State
      BY <2>1, <2>2, <3>1, Zenon
    <3> QED BY <3>2, <3>3
  <2>5. \/ Co2SwitchesOn(co2, measuring)
        \/ iw_deinit_sensor(co2_id) /\ Reads(off) /\ NoFault
        \/ UNCHANGED sensorVars /\ Reads(co2) /\ NoFault
        \/ UNCHANGED sensorVars /\ Reads(waits) /\ NoFault
    BY <1>4 DEF Co2Saves
  <2> HIDE DEF measuring, off, waits
  <2> QED BY <1>1, <2>3, <2>4, <2>5, ReadsIs, SensorSwitched, Co2SwitchesOnTo
<1> QED BY <1>2, <1>3, <1>4

\* The other task, the mode and the sensor are none of WifiTask's devices.
LEMMA OthersKeep ==
  ASSUME IInv, UNCHANGED <<netVars, wifi, si>>,
         co2' \in Co2State, sensor' \in SensorType, power' \in Power, faults' \in 0 .. MaxFaults
  PROVE  IInv'
<1> USE DEF IInv
<1>1. UNCHANGED <<neti, net, task, handle, si, wifi>>
  BY DEF netVars
<1>2. TypeOK'
  BY <1>1, TypeParts, TypePartsNext DEF SensorType
<1>3. OneOfEach' /\ OneConnectionTask' /\ TasksServe' /\ HandleWhileOn'
  BY <1>1 DEF OneOfEach, OneConnectionTask, TasksServe, HandleWhileOn, Running, WifiDev, Co2Dev
<1>4. LinkedWhileUp' /\ ReportingWhileUp' /\ ReportsLeft'
  BY <1>1 DEF LinkedWhileUp, ReportingWhileUp, ReportsLeft, Up
<1> QED BY <1>2, <1>3, <1>4

LEMMA Co2Keeps == IInv /\ Co2ReadSensorTask => IInv'
<1> SUFFICES ASSUME IInv, Co2ReadSensorTask PROVE IInv'
  OBVIOUS
<1>1. /\ co2' \in Co2State /\ sensor' \in SensorType /\ UNCHANGED <<si, netVars, power, wifi>>
      /\ Fault \/ NoFault
  BY Co2Steps DEF Co2ReadSensorTask
<1> QED BY <1>1, FaultsCounted, TypeParts, OthersKeep DEF IInv

LEMMA ModeKeeps == ASSUME IInv, NEW mode \in Power, iw_set_power_mode(mode) PROVE IInv'
<1>1. /\ UNCHANGED <<netVars, sensor, si, wifi, co2, faults>> /\ power' \in Power
  BY DEF iw_set_power_mode, sensorVars
<1> QED BY <1>1, TypeParts, OthersKeep DEF IInv, SensorType

-----------------------------------------------------------------------------
(* The theorems.                                                           *)

LEMMA NextIInv == IInv /\ [Next]_vars => IInv'
<1> SUFFICES ASSUME IInv, [Next]_vars PROVE IInv'
  OBVIOUS
<1>1. CASE UNCHANGED vars
  BY <1>1, TypeParts, OthersKeep DEF vars, sensorVars, powerVars, IInv, SensorType
<1>2. ASSUME NEW mode \in Power, iw_set_power_mode(mode) PROVE IInv'
  BY <1>2, ModeKeeps
<1>3. CASE WifiTask
  BY <1>3, WifiTaskKeeps
<1>4. CASE Co2ReadSensorTask
  BY <1>4, Co2Keeps
<1>5. ASSUME NEW t \in TaskId, Connects(t) PROVE IInv'
  BY <1>5, ConnectsKeeps
<1>6. CASE DriverStarts \/ LosesLink
  BY <1>6, DriverKeeps
<1> QED BY <1>1, <1>2, <1>3, <1>4, <1>5, <1>6 DEF Next

\* The invariant the others follow from: where the connection task and the
\* driver are in each step of WifiTask.
THEOREM PowerInductive == Spec => []IInv
<1> QED BY InitIInv, NextIInv, PTL DEF Spec

\* For all periods and any room and memory, every variable has its type: the
\* counters of the tasks keep within their periods (WifiTask, Co2ReadSensorTask).
THEOREM TypeCorrect == Spec => []TypeOK
<1>1. IInv => TypeOK
  BY DEF IInv
<1> QED BY <1>1, PowerInductive, PTL

\* However often the device is switched on and off, no connection task runs but
\* the one that the handle names (iw_init_network, iw_deinit_network).
THEOREM OneTaskAtMost == Spec => []OneConnectionTask
<1>1. IInv => OneConnectionTask
  BY DEF IInv
<1> QED BY <1>1, PowerInductive, PTL

\* WifiTask deletes a connection task that still runs, never an old handle: it
\* switches off only after a report, and a report takes a driver that is up.
THEOREM LiveTaskDeleted == Spec => []DeletesLiveTask
<1>1. IInv => DeletesLiveTask
  BY DEF IInv, DeletesLiveTask, HandleWhileOn, ReportingWhileUp, Up
<1> QED BY <1>1, PowerInductive, PTL

\* A server connection is believed in only while the device is on and its driver
\* up, and a device that was switched on is known to be (wifitask_status).
THEOREM ServerOnlyWhileOn == Spec => []ServerWhileOn
<1>1. IInv => ServerWhileOn
  BY Devices DEF IInv, ServerWhileOn, LinkedWhileUp, HandleWhileOn, Up
<1> QED BY <1>1, PowerInductive, PTL
=============================================================================
