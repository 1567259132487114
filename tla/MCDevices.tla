------------------------------- MODULE MCDevices -------------------------------
(***************************************************************************)
(* Devices on boards that may register the devices of iw_dev.c: those of    *)
(* the IoTware board with their drivers, and those of the disposal board,   *)
(* whose registration checks the bus and has no driver.                     *)
(***************************************************************************)
EXTENDS Devices

CONSTANTS p1, p2, wifiText, shortText

NetOps == {"init", "deinit", "is_connected", "is_ready", "scan", "connect"}

NetDev(type, name, iface, port, driver, checks) ==
    [type |-> {type}, name |-> name, iface |-> iface, port |-> port,
     info |-> 115200, driver |-> driver, checks |-> checks]

MCNetCandidate ==
    {NetDev("WIFI", "esp8266", "UART", p2, NetOps, FALSE),
     NetDev("WIFI", "wifi2", "UART", p1, NetOps, FALSE),
     NetDev("BLE", "botcle110", "UART", p1, NetOps \ {"scan", "connect"}, FALSE),
     NetDev("LORA", "atsamr35", "UART", p1, {}, TRUE)}

SensorDev(type, name, iface, port, info, driver, checks) ==
    [type |-> type, name |-> name, iface |-> iface, port |-> port,
     info |-> info, driver |-> driver, checks |-> checks]

MCSensorCandidate ==
    {SensorDev({"TMP", "HUM"}, "si7020", "I2C", p2, 0, {"init", "deinit"}, FALSE),
     SensorDev({"TMP", "HUM"}, "sht20", "I2C", p2, 0, {}, TRUE),
     SensorDev({"CO2"}, "tg400", "UART", p1, 38400, {}, TRUE)}

Long  == [of |-> wifiText, length |-> 2]
Short == [of |-> shortText, length |-> 1]
MCText == {Long, Short}
MCLoraKeys == {<<Long, Long, Long>>, <<Long, Long, Short>>, <<Short, Long, Long>>}
MCNoText == [of |-> "none", length |-> 0]

\* The settings and the devices share no variable, so a behaviour that changes
\* both shows nothing that one of its halves does not show.
SettingsApart == \/ ap.ssid = NoText /\ ap.pw = NoText /\ lora.mode = "none"
                    /\ band = NoText /\ ble.name = NoText /\ ble.pincode = NoText
                    /\ ble.mode = "none"
                 \/ ~started /\ neti = <<>> /\ si = <<>>
================================================================================
