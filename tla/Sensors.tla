-------------------------------- MODULE Sensors --------------------------------
(***************************************************************************)
(* The sensors of iw_dev_sensor.c: registration and initialisation.  The    *)
(* drivers are external: what a driver does is the status it reports.       *)
(***************************************************************************)
EXTENDS DeviceTable

CONSTANTS MAX_SENSOR_DEV,
          SensorRoom    \* bound: how long the model lets a table grow

ASSUME SensorAssumption == /\ MAX_SENSOR_DEV \in Nat \ {0}
                           /\ SensorRoom \in Nat /\ SensorRoom >= MAX_SENSOR_DEV

VARIABLES si,       \* the table of sensors
          sensor    \* by sensor: the status of its driver

sensorVars == <<si, sensor>>

SensorId == 1 .. SensorRoom

SensorTypeOK == /\ Len(si) <= SensorRoom
                /\ sensor \in [SensorId -> {"off", "INITIALIZED"}]

SensorInit == si = <<>> /\ sensor = [d \in SensorId |-> "off"]

\* Checks the bus and not the room in the table; gives the sensor no driver.  In
\* a full table it writes behind the array, as iw_register_network does.
iw_register_sensor(type, iface, port, info, name) ==
    /\ UNCHANGED sensor
    /\ \/ /\ BusFree(iface, port)
          /\ TakeBus(iface, port, info)
          /\ si' = Append(si, Device(type, name, iface, port, {}))
       \/ ~BusFree(iface, port) /\ UNCHANGED <<busVars, si>>

iw_register_sensor_(type, name, iface, port, driver) ==
    /\ si' = IF Len(si) < MAX_SENSOR_DEV
             THEN Append(si, Device(type, name, iface, port, driver))
             ELSE si
    /\ UNCHANGED <<busVars, sensor>>

\* The first sensor of exactly that type and name.
iw_get_sensor_info(type, name) ==
    First({i \in DOMAIN si : si[i].type = type /\ si[i].name = name})

iw_get_sensor_devid(type, name) == DevId(si, type, name)
iw_get_sensor_dev_id_by_type(type) == DevIdByType(si, type)
iw_get_sensor_dev_id_by_name(name) == DevIdByName(si, name)

SensorProvides(d, op) == Provides(si, d, op)

CanInitSensor(d) == /\ d <= Len(si)
                    /\ si[d].type # {}
                    /\ "init" \in si[d].func

iw_init_sensor(d, answer) ==
    /\ UNCHANGED <<si, busVars>>
    /\ \/ answer = "FAIL" /\ UNCHANGED sensor    \* refused, or the driver fails
       \/ /\ CanInitSensor(d) /\ answer = "SUCCESS"
          /\ sensor' = [sensor EXCEPT ![d] = "INITIALIZED"]

iw_deinit_sensor(d) ==
    /\ sensor' = IF SensorProvides(d, "deinit") THEN [sensor EXCEPT ![d] = "off"] ELSE sensor
    /\ UNCHANGED <<si, busVars>>

\* iw_init_device at start: every sensor in turn, going on when one fails.
iw_init_device ==
    /\ \E ready \in SUBSET {d \in SensorId : CanInitSensor(d)} :
         sensor' = [d \in SensorId |-> IF d \in ready THEN "INITIALIZED" ELSE sensor[d]]
    /\ UNCHANGED <<si, busVars>>
================================================================================
