------------------------------ MODULE DeviceTable ------------------------------
(***************************************************************************)
(* What iw_dev_net.c and iw_dev_sensor.c have in common: a table of        *)
(* registered devices that only grows, the functions that find a device in *)
(* it, and the two arrays that record which UART and which I2C bus a        *)
(* device was registered on, which both files write.                       *)
(*                                                                         *)
(* A table is a sequence; a dev_id of the code is an index less one, and    *)
(* the index 0 stands for the answer IW_FAIL.  The type of a device is the  *)
(* set of the bits of its bit mask.                                        *)
(***************************************************************************)
EXTENDS Naturals, Sequences, FiniteSets

CONSTANTS Port,     \* if_id_t
          NoName    \* the NULL name of a lookup

VARIABLES uart,     \* g_uart_using_info, by port: 0 or the information given
          i2c       \* g_i2c_using_info, by port

busVars == <<uart, i2c>>

BusesFree == uart = [p \in Port |-> 0] /\ i2c = [p \in Port |-> 0]

\* The checking registration functions refuse a bus that is in use.
BusFree(iface, port) == /\ iface = "UART" => uart[port] = 0
                        /\ iface = "I2C" => i2c[port] = 0

\* Mutant: a bus taken by UART is not recorded.
TakeBus_I2cOnly(iface, port, info) ==
    /\ uart' = uart
    /\ i2c' = IF iface = "I2C" THEN [i2c EXCEPT ![port] = 1] ELSE i2c

TakeBus(iface, port, info) ==
    /\ uart' = IF iface = "UART" THEN [uart EXCEPT ![port] = info] ELSE uart
    /\ i2c' = IF iface = "I2C" THEN [i2c EXCEPT ![port] = 1] ELSE i2c

\* What a table holds of a device.  func is the set of the operations its
\* driver provides: none for a device that was never given a driver.
Device(type, name, iface, port, func) ==
    [type |-> type, name |-> name, iface |-> iface, port |-> port, func |-> func]

First(S) == IF S = {} THEN 0 ELSE CHOOSE i \in S : \A j \in S : i <= j
Last(S)  == IF S = {} THEN 0 ELSE CHOOSE i \in S : \A j \in S : i >= j

Sharing(table, type) == {i \in DOMAIN table : table[i].type \cap type # {}}

\* Mutant: without a name the first device is taken, whatever its type.
DevId_AnyType(table, type, name) ==
    IF name = NoName
    THEN First(DOMAIN table)
    ELSE First({i \in Sharing(table, type) : table[i].name = name})

\* iw_get_network_devid leaves its loop at the first device of that name, but
\* runs to the end when no name is given.
DevId(table, type, name) ==
    IF name = NoName
    THEN Last(Sharing(table, type))
    ELSE First({i \in Sharing(table, type) : table[i].name = name})

DevIdByType(table, type) == First({i \in DOMAIN table : type \subseteq table[i].type})

DevIdByName(table, name) ==
    First({i \in DOMAIN table : table[i].type # {} /\ table[i].name = name})

\* Every operation on a device but init is handed to its driver, or fails when
\* there is no driver or the driver does not provide it.
Provides(table, dev, op) == dev \in DOMAIN table /\ op \in table[dev].func
================================================================================
