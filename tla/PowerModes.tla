------------------------------ MODULE PowerModes -------------------------------
(***************************************************************************)
(* The power modes as the two tasks of start_apps.c (IOTWARE_MODE 1, STM32)  *)
(* follow them: WifiTask connects to a server through the WiFi device and    *)
(* reports to it, Co2ReadSensorTask reads the sensor.  Both keep their       *)
(* device on in RUN and DYNAMIC mode; in LOW mode they switch it on, use it  *)
(* once, switch it off and wait; in SLEEP mode WifiTask reports once and     *)
(* stays off, the sensor is switched off at once.  The connection task of    *)
(* the WiFi device runs beside them (NetDevice).                             *)
(*                                                                         *)
(* The periods of the code are 3 (reports), 30 and 11 (loops off in LOW      *)
(* mode) and it ends after 10 reports; they are constants here.              *)
(***************************************************************************)
EXTENDS NetDevice, Sensors

CONSTANTS SEND_PERIOD, WIFI_OFF, CO2_OFF, TRANS_COUNT,
          MaxFaults    \* bound on failures of memory, drivers, links and server

ASSUME PowerAssumption ==
    {SEND_PERIOD, WIFI_OFF, CO2_OFF, TRANS_COUNT} \subseteq Nat \ {0} /\ MaxFaults \in Nat

VARIABLES power,     \* g_pwr_mode
          wifi,      \* WifiTask and its two status flags
          co2,       \* Co2ReadSensorTask and its status flag
          faults     \* failures so far

powerVars == <<power, wifi, co2, faults>>
vars == <<busVars, netVars, sensorVars, powerVars>>

Power == {"RUN", "DYNAMIC", "LOW", "SLEEP"}

WifiDev == Device({"WIFI"}, "esp8266", "UART", CHOOSE p \in Port : TRUE,
                  {"init", "deinit", "is_connected", "is_ready", "scan", "connect"})
Co2Dev  == Device({"CO2"}, "ccs811", "I2C", CHOOSE p \in Port : TRUE,
                  {"init", "deinit", "is_ready", "read"})

wifi_id == iw_get_network_devid({"WIFI"}, NoName)
co2_id  == iw_get_sensor_devid({"CO2"}, NoName)

WifiPc == {"mode", "disconnect server", "disconnect network", "deinit",
           "link", "connect server", "send", "ended"}

\* on, server: wifitask_status and wifitask_server_connect.  seq, tick, prev:
\* mode_seq, mode_tick, power_prev.  sent: msg_send.  left: trans_count.
TypeOK ==
    /\ NetTypeOK /\ SensorTypeOK
    /\ power \in Power
    /\ wifi \in [pc : WifiPc, on : BOOLEAN, server : BOOLEAN, seq : 0 .. 2,
                 tick : 0 .. WIFI_OFF - 1, prev : Power \cup {"none"}, sent : BOOLEAN,
                 sendTick : 0 .. SEND_PERIOD - 1, left : 0 .. TRANS_COUNT]
    /\ co2 \in [on : BOOLEAN, seq : 0 .. 2, tick : 0 .. CO2_OFF, capture : BOOLEAN]
    /\ faults \in 0 .. MaxFaults

\* The devices are registered; nothing under src/ calls iw_init_device, so they
\* are off until the tasks initialise them.
Init ==
    /\ BusesFree
    /\ neti = <<WifiDev>> /\ net = [d \in NetId |-> Off]
    /\ task = [t \in TaskId |-> NoTask] /\ handle = 0
    /\ si = <<Co2Dev>> /\ sensor = [d \in SensorId |-> "off"]
    /\ power = "RUN"
    /\ wifi = [pc |-> "mode", on |-> FALSE, server |-> FALSE, seq |-> 0, tick |-> 0,
               prev |-> "none", sent |-> FALSE, sendTick |-> 0, left |-> TRANS_COUNT]
    /\ co2 = [on |-> FALSE, seq |-> 0, tick |-> 0, capture |-> FALSE]
    /\ faults = 0

Fault == faults < MaxFaults /\ faults' = faults + 1
NoFault == UNCHANGED faults

--------------------------------------------------------------------------------
(* iw_set_power_mode, by whichever task calls it; switching automatic control *)
(* off sets RUN (iw_set_autocontrol).                                         *)

iw_set_power_mode(mode) ==
    /\ power' = mode /\ power' # power
    /\ UNCHANGED <<busVars, netVars, sensorVars, wifi, co2, faults>>

--------------------------------------------------------------------------------
(* WifiTask: a loop that looks at the mode, then at the link, then at the    *)
(* clock.  It sleeps or waits for a driver between the steps.                *)

Wifi(pc) == wifi.pc = pc /\ UNCHANGED <<power, co2, busVars, sensorVars>>
NetUnchanged == UNCHANGED netVars

\* Mutant: the result of iw_init_network is not looked at.
SwitchesOn_Unchecked(w, v) ==
    \/ /\ iw_init_network(wifi_id, "SUCCESS") /\ NoFault
       /\ wifi' = [v EXCEPT !.on = TRUE, !.pc = "link"]
    \/ /\ iw_init_network(wifi_id, "FAIL") /\ Fault
       /\ wifi' = [v EXCEPT !.on = TRUE, !.pc = "link"]

\* iw_init_network and the flag, in every mode: v is what the variables of the
\* task become when the device is on.  A failure leaves the flag off.
SwitchesOn(w, v) ==
    \/ /\ iw_init_network(wifi_id, "SUCCESS") /\ NoFault
       /\ wifi' = [v EXCEPT !.on = TRUE, !.pc = "link"]
    \/ /\ iw_init_network(wifi_id, "FAIL") /\ Fault
       /\ wifi' = [w EXCEPT !.pc = "link"]

WifiStaysOn ==
    /\ Wifi("mode") /\ power \in {"RUN", "DYNAMIC"}
    /\ IF wifi.on
       THEN wifi' = [wifi EXCEPT !.pc = "link"] /\ NetUnchanged /\ NoFault
       ELSE SwitchesOn(wifi, wifi)

\* In LOW and SLEEP mode the sequence starts over when the last such mode was
\* another one; RUN and DYNAMIC mode in between do not count.
Entered == IF wifi.prev # power THEN [wifi EXCEPT !.prev = power, !.seq = 0] ELSE wifi

Saving(seq) == Wifi("mode") /\ power \in {"LOW", "SLEEP"} /\ Entered.seq = seq

WifiSavesOn ==
    LET reporting == [Entered EXCEPT !.seq = 1, !.sent = FALSE] IN
    /\ Saving(0)
    /\ IF wifi.on
       THEN wifi' = [reporting EXCEPT !.pc = "link"] /\ NetUnchanged /\ NoFault
       ELSE SwitchesOn(Entered, reporting)

\* Mutant: does not wait for a report.
WifiSavesReported_Unsent ==
    /\ Saving(1)
    /\ wifi' = [Entered EXCEPT !.sent = FALSE, !.pc = "disconnect server"]
    /\ NetUnchanged /\ NoFault

WifiSavesReported ==
    /\ Saving(1)
    /\ wifi' = [Entered EXCEPT !.sent = FALSE,
                               !.pc = IF wifi.sent THEN "disconnect server" ELSE "link"]
    /\ NetUnchanged /\ NoFault

\* Mutant: as in SLEEP mode, nothing ends the wait.
WifiSavesOff_ForEver ==
    /\ Saving(2)
    /\ wifi' = [Entered EXCEPT !.pc = "link"]
    /\ NetUnchanged /\ NoFault

WifiSavesOff ==
    /\ Saving(2)
    /\ wifi' = IF power = "LOW"
               THEN IF wifi.tick + 1 = WIFI_OFF
                    THEN [Entered EXCEPT !.tick = 0, !.seq = 0, !.pc = "link"]
                    ELSE [Entered EXCEPT !.tick = @ + 1, !.pc = "link"]
               ELSE [Entered EXCEPT !.pc = "link"]
    /\ NetUnchanged /\ NoFault

WifiDisconnectsServer ==
    /\ Wifi("disconnect server")
    /\ wifi' = [wifi EXCEPT !.pc = "disconnect network"]
    /\ NetUnchanged /\ NoFault

\* The driver drops the link, but the connection task is still there.
WifiDisconnectsNetwork ==
    /\ Wifi("disconnect network")
    /\ net' = [net EXCEPT ![wifi_id].link = "DISCONNECTED"]
    /\ wifi' = [wifi EXCEPT !.pc = "deinit"]
    /\ UNCHANGED <<neti, task, handle>> /\ NoFault

\* Mutant: the status of the server connection is not reset.
WifiDeinits_KeepsServer ==
    /\ Wifi("deinit")
    /\ iw_deinit_network(wifi_id)
    /\ wifi' = [wifi EXCEPT !.on = FALSE, !.seq = 2, !.tick = 0, !.pc = "link"]
    /\ NoFault

WifiDeinits ==
    /\ Wifi("deinit")
    /\ iw_deinit_network(wifi_id)
    /\ wifi' = [wifi EXCEPT !.on = FALSE, !.server = FALSE, !.seq = 2, !.tick = 0,
                            !.pc = "link"]
    /\ NoFault

GotIp == net[wifi_id].link = "GOT_IP"

WifiLooksAtLink ==
    /\ Wifi("link")
    /\ wifi' = [wifi EXCEPT !.server = @ /\ GotIp,
                            !.pc = IF GotIp /\ ~wifi.server THEN "connect server" ELSE "send"]
    /\ NetUnchanged /\ NoFault

\* iw_connect_server waits up to 20 s.
WifiConnectsServer ==
    /\ Wifi("connect server")
    /\ NetUnchanged
    /\ \/ GotIp /\ wifi' = [wifi EXCEPT !.server = TRUE, !.pc = "send"] /\ NoFault
       \/ GotIp /\ wifi' = [wifi EXCEPT !.pc = "send"] /\ Fault
       \/ ~GotIp /\ wifi' = [wifi EXCEPT !.pc = "send"] /\ NoFault

\* Mutant: the last report does not end the loop.
WifiSends_GoesOn ==
    LET due == wifi.sendTick + 1 = SEND_PERIOD
        tick == IF due THEN 0 ELSE wifi.sendTick + 1
    IN /\ Wifi("send")
       /\ wifi' = IF due /\ wifi.server
                  THEN [wifi EXCEPT !.sendTick = tick, !.left = @ - 1,
                                    !.sent = TRUE, !.pc = "mode"]
                  ELSE [wifi EXCEPT !.sendTick = tick, !.pc = "mode"]
       /\ NetUnchanged /\ NoFault

\* Reports every SEND_PERIOD loops and leaves the loop after the last report,
\* the device still on.
WifiSends ==
    LET due == wifi.sendTick + 1 = SEND_PERIOD
        tick == IF due THEN 0 ELSE wifi.sendTick + 1
    IN /\ Wifi("send")
       /\ wifi' = IF due /\ wifi.server
                  THEN [wifi EXCEPT !.sendTick = tick, !.left = @ - 1,
                                    !.sent = @ \/ wifi.left > 1,
                                    !.pc = IF wifi.left = 1 THEN "ended" ELSE "mode"]
                  ELSE [wifi EXCEPT !.sendTick = tick, !.pc = "mode"]
       /\ NetUnchanged /\ NoFault

WifiTask ==
    \/ WifiStaysOn \/ WifiSavesOn \/ WifiSavesReported \/ WifiSavesOff
    \/ WifiDisconnectsServer \/ WifiDisconnectsNetwork \/ WifiDeinits
    \/ WifiLooksAtLink \/ WifiConnectsServer \/ WifiSends

--------------------------------------------------------------------------------
(* Co2ReadSensorTask.  Of what happens in a loop only the power mode is      *)
(* shared, and it is read once, so a loop is one step.                       *)

\* The second half of the loop: a sensor that is ready is read when its period
\* is over, and the reading may fail.
Reads(c) == \/ co2' = c
            \/ sensor'[co2_id] = "INITIALIZED" /\ co2' = [c EXCEPT !.capture = TRUE]

Co2SwitchesOn(c, v) ==
    \/ iw_init_sensor(co2_id, "SUCCESS") /\ NoFault /\ Reads([v EXCEPT !.on = TRUE])
    \/ iw_init_sensor(co2_id, "FAIL") /\ Fault /\ Reads(c)

Co2StaysOn ==
    /\ power \in {"RUN", "DYNAMIC"}
    /\ IF co2.on THEN UNCHANGED sensorVars /\ Reads(co2) /\ NoFault
                 ELSE Co2SwitchesOn(co2, co2)

\* A sensor that is already on in LOW mode stays on, and its sequence at 0.
Co2Saves ==
    /\ power = "LOW"
    /\ \/ /\ co2.seq = 0 /\ ~co2.on
          /\ Co2SwitchesOn(co2, [co2 EXCEPT !.seq = 1, !.capture = FALSE])
       \/ /\ co2.seq = 1 /\ co2.capture
          /\ iw_deinit_sensor(co2_id)
          /\ Reads([co2 EXCEPT !.capture = FALSE, !.on = FALSE, !.seq = 2, !.tick = 0])
          /\ NoFault
       \/ /\ \/ co2.seq = 0 /\ co2.on
             \/ co2.seq = 1 /\ ~co2.capture
          /\ UNCHANGED sensorVars /\ Reads(co2) /\ NoFault
       \/ /\ co2.seq = 2
          /\ UNCHANGED sensorVars /\ NoFault
          /\ Reads(IF co2.tick = CO2_OFF THEN [co2 EXCEPT !.seq = 0]
                                         ELSE [co2 EXCEPT !.tick = @ + 1])

Co2Sleeps_WhenIdle ==    \* mutant: not in the middle of a measurement
    /\ power = "SLEEP"
    /\ IF co2.on /\ co2.seq # 1
       THEN iw_deinit_sensor(co2_id) /\ Reads([co2 EXCEPT !.on = FALSE])
       ELSE UNCHANGED sensorVars /\ Reads(co2)
    /\ NoFault

Co2Sleeps ==
    /\ power = "SLEEP"
    /\ IF co2.on THEN iw_deinit_sensor(co2_id) /\ Reads([co2 EXCEPT !.on = FALSE])
                 ELSE UNCHANGED sensorVars /\ Reads(co2)
    /\ NoFault

Co2ReadSensorTask ==
    /\ Co2StaysOn \/ Co2Saves \/ Co2Sleeps
    /\ UNCHANGED <<busVars, netVars, power, wifi>>

--------------------------------------------------------------------------------

\* A scan or connect that fails, a driver that fails and a lost link are faults.
Connects(t) ==
    /\ ConnectionTask(t)
    /\ IF task[t].pc \in {"scan", "connect"} /\ task'[t].pc = "poll" /\ net' = net
       THEN Fault ELSE NoFault
    /\ UNCHANGED <<sensorVars, power, wifi, co2>>

DriverStarts == /\ \/ DriverStarted(wifi_id, "INITIALIZED") /\ NoFault
                   \/ DriverStarted(wifi_id, "INIT_ERROR") /\ Fault
                /\ UNCHANGED <<sensorVars, power, wifi, co2>>

LosesLink == /\ \E link \in {"DISCONNECTED", "CONNECTED"} : LinkLost(wifi_id, link)
             /\ Fault
             /\ UNCHANGED <<sensorVars, power, wifi, co2>>

Next == \/ \E mode \in Power : iw_set_power_mode(mode)
        \/ WifiTask \/ Co2ReadSensorTask
        \/ \E t \in TaskId : Connects(t)
        \/ DriverStarts \/ LosesLink

\* The kernel runs every task that is not asleep, and a driver that was started
\* reports its status.
Fairness == /\ WF_vars(WifiTask) /\ WF_vars(Co2ReadSensorTask)
            /\ \A t \in TaskId : WF_vars(Connects(t))
            /\ WF_vars(DriverStarts)

Spec == Init /\ [][Next]_vars /\ Fairness

--------------------------------------------------------------------------------

\* Switching the device on and off any number of times, with creations that fail
\* and tasks that give up, never leaves a second connection task behind, nor one
\* the handle does not name (iw_init_network overwrites the handle without a look
\* at it; iw_deinit_network deletes only what it names).
OneConnectionTask == \A t \in TaskId : Running(t) => t = handle

\* The handle that iw_deinit_network deletes names a task that still runs: the
\* connection task ends by itself and does not reset it.
DeletesLiveTask == wifi.pc = "deinit" => handle # 0 /\ Running(handle)

\* WifiTask believes in a server connection only while the device is on and its
\* driver is up, so that no report is handed to a device that was released, and
\* every device that was switched on is known to be on.
ServerWhileOn == /\ wifi.server => wifi.on /\ net[wifi_id].status = "INITIALIZED"
                 /\ handle # 0 => wifi.on

Over == wifi.pc = "ended" \/ net[wifi_id].status = "INIT_ERROR"

\* In LOW mode the WiFi device is switched on and off again and again, unless its
\* driver failed or the task has ended (WifiTask, mode_seq).
LowModeSaves == <>[](power = "LOW") => /\ []<>(~wifi.on \/ Over)
                                       /\ []<>(wifi.on \/ Over)

\* In RUN mode the reports get through until the last, whatever modes came before
\* (the device may be found switched off, being switched off, or on).
RunModeReports == <>[](power = "RUN") => <>Over

\* The sensor follows the modes that say on or off, whatever the sequence of LOW
\* mode was doing when the mode changed (Co2ReadSensorTask).
SensorFollows == /\ <>[](power = "SLEEP") => <>[](sensor[co2_id] = "off")
                 /\ <>[](power \in {"RUN", "DYNAMIC"}) => <>[](sensor[co2_id] = "INITIALIZED")
================================================================================
