-------------------------------- MODULE Devices --------------------------------
(***************************************************************************)
(* The devices of a board: its network devices and its sensors share the    *)
(* buses.  iw_register_device registers them one after the other before the *)
(* operating system starts; iw_init_device then initialises the sensors, and *)
(* from there on the tasks of an application initialise and release devices *)
(* through the interface layer while the connection tasks run.              *)
(***************************************************************************)
EXTENDS NetDevice, Sensors, NetInfo

CONSTANTS NetCandidate,      \* what a board may register: records with the
          SensorCandidate,   \* arguments and the function that is called
          LoraKeys           \* the LoRa keys it may give

\* The registration functions that check a bus are given no driver, and are
\* called for devices on one of the two buses they check; the information they
\* keep of a UART is its speed.
ASSUME CandidateAssumption ==
    \A c \in NetCandidate \cup SensorCandidate :
        /\ c.port \in Port
        /\ c.info \in Nat
        /\ IF c.checks THEN c.iface \in {"UART", "I2C"} /\ (c.iface = "UART" => c.info # 0)
                       ELSE c.driver # {}

\* iw_register_device gives every network device a type and a name, and LoRa
\* takes three keys.
ASSUME ArgumentAssumption ==
    /\ \A c \in NetCandidate : c.type # {} /\ c.name # NoName
    /\ LoraKeys \subseteq [1 .. 3 -> Text \cup {NoText}]

VARIABLE started   \* iw_init_device has run

vars == <<busVars, netVars, sensorVars, infoVars, started>>

Init == /\ BusesFree /\ NetInit /\ SensorInit /\ InfoInit
        /\ started = FALSE

\* One call of iw_register_device.  A board names a device once.  Nothing in the
\* code stops the checking functions at the end of the table: NetRoom and
\* SensorRoom are where the model stops them.
RegisterNetwork(c) ==
    /\ ~started
    /\ \A d \in DOMAIN neti : neti[d].name # c.name
    /\ c.checks => Len(neti) < NetRoom
    /\ IF c.checks
       THEN iw_register_network(c.type, c.iface, c.port, c.info, c.name)
       ELSE iw_register_network_(c.type, c.name, c.iface, c.port, c.driver)
    /\ UNCHANGED <<sensorVars, infoVars, started>>

RegisterSensor(c) ==
    /\ ~started
    /\ \A d \in DOMAIN si : si[d].name # c.name
    /\ c.checks => Len(si) < SensorRoom
    /\ IF c.checks
       THEN iw_register_sensor(c.type, c.iface, c.port, c.info, c.name)
       ELSE iw_register_sensor_(c.type, c.name, c.iface, c.port, c.driver)
    /\ UNCHANGED <<netVars, infoVars, started>>

RegisterInfo ==
    /\ started' = started
    /\ UNCHANGED <<busVars, netVars, sensorVars>>
    /\ ~started
    /\ \/ \E ssid, pw \in Text \cup {NoText} : iw_register_wifi_info(ssid, pw)
       \/ \E keys \in LoraKeys : \/ iw_register_lora_abp_info(keys)
                                         \/ iw_register_lora_otaa_info(keys)
       \/ \E text \in Text : iw_register_lora_band_info(text)
       \/ \E name, pincode \in Text \cup {NoText}, mode \in {"MASTER", "none"} :
            iw_register_ble_info(name, pincode, mode)

Start == /\ ~started /\ started' = TRUE
         /\ iw_init_device
         /\ UNCHANGED <<netVars, infoVars>>

\* The applications' calls through interface_net.c and interface_sensor.c.
UseNetwork == /\ started
              /\ \E d \in NetId, answer \in {"SUCCESS", "FAIL"} :
                    iw_init_network(d, answer) \/ iw_deinit_network(d)
              /\ UNCHANGED <<sensorVars, infoVars, started>>

UseSensor == /\ started
             /\ \E d \in SensorId, answer \in {"SUCCESS", "FAIL"} :
                   iw_init_sensor(d, answer) \/ iw_deinit_sensor(d)
             /\ UNCHANGED <<netVars, infoVars, started>>

RunConnectionTask == /\ \E t \in TaskId : ConnectionTask(t)
                     /\ UNCHANGED <<sensorVars, infoVars, started>>

RunNetDriver == /\ \E d \in NetId : NetDriver(d)
                /\ UNCHANGED <<sensorVars, infoVars, started>>

Next == \/ \E c \in NetCandidate : RegisterNetwork(c)
        \/ \E c \in SensorCandidate : RegisterSensor(c)
        \/ RegisterInfo \/ Start
        \/ UseNetwork \/ UseSensor
        \/ RunConnectionTask \/ RunNetDriver

Spec == Init /\ [][Next]_vars

--------------------------------------------------------------------------------

\* Every variable has its type, and no table outgrows the model's bound.
TypeOK == /\ NetTypeOK /\ SensorTypeOK
          /\ uart \in [Port -> Nat] /\ i2c \in [Port -> {0, 1}]
          /\ started \in BOOLEAN

\* The devices that were registered with a check of their bus.
Checked(table) == {table[d] : d \in {e \in DOMAIN table : table[e].func = {}}}

\* Two devices whose registration checks the bus never share one, whether both
\* are of the same kind or one is a sensor and the other a network device
\* (iw_register_network and iw_register_sensor test the same two arrays).
BusesApart ==
    /\ \A d \in Checked(neti), e \in Checked(neti) \cup Checked(si) :
         d # e /\ d.iface = e.iface => d.port # e.port
    /\ \A d, e \in Checked(si) : d # e /\ d.iface = e.iface => d.port # e.port

\* Of two generations of registration functions that fill one table, only the
\* older leaves the array: what lies behind MAX_NET_DEV or MAX_SENSOR_DEV was
\* registered with a check of its bus, whichever came before it
\* (iw_register_network_, iw_register_sensor_).
OnlyCheckedOverflow ==
    /\ \A d \in DOMAIN neti : d > MAX_NET_DEV => neti[d].func = {}
    /\ \A d \in DOMAIN si : d > MAX_SENSOR_DEV => si[d].func = {}

\* A connection task looks its device up by type, not by the dev_id it was
\* started for; it serves that device whenever the board has one of its type
\* (iw_init_network, netConnectionTask, iw_get_network_devid).
ServesItsDevice ==
    \A t \in TaskId :
        LET for == task[t].for IN
        Running(t) /\ Cardinality(Sharing(neti, neti[for].type)) = 1 /\ task[t].pc # "start"
            => task[t].dev = for

\* What any of the lookups finds for a type or a name has it, and they agree when
\* there is one; iw_get_network_info fills the entry of the device it is asked
\* for, and of at most one other.
LookupsAgree ==
    \A d \in DOMAIN neti :
        LET type == neti[d].type
            name == neti[d].name
            byType == iw_get_network_dev_id_by_type(type)
        IN /\ iw_get_network_devid(type, name) = d
           /\ iw_get_network_dev_id_by_name(name) = d
           /\ byType # 0 /\ type \subseteq neti[byType].type
           /\ Cardinality(Sharing(neti, type)) = 1 =>
                byType = d /\ iw_get_network_devid(type, NoName) = d
           /\ d \in InfoFilled(type, name)
           /\ Cardinality(InfoFilled(type, name)) <= 2

\* A dev_id names the same device for ever: registering one leaves every earlier
\* entry of both tables as it was (the ids are kept by tasks for their lifetime).
IdsStay == [][/\ \A d \in DOMAIN neti : d \in DOMAIN neti' /\ neti'[d] = neti[d]
              /\ \A d \in DOMAIN si : d \in DOMAIN si' /\ si'[d] = si[d]]_vars
================================================================================
