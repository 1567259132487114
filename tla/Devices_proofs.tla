---------------------------- MODULE Devices_proofs ----------------------------
(***************************************************************************)
(* Proofs about Devices, for every board: any number of candidates, ports  *)
(* and places in the tables, any number of connection tasks, any texts.    *)
(* The tables first, then what is looked up in them and the settings.      *)
(***************************************************************************)
EXTENDS Devices, SequenceTheorems, FiniteSetTheorems, WellFoundedInduction, TLAPS

-----------------------------------------------------------------------------
(* The inductive invariant.                                                *)

\* What a candidate becomes in its table.
EntryOf(c) == Device(c.type, c.name, c.iface, c.port, IF c.checks THEN {} ELSE c.driver)

NetEntry    == {EntryOf(c) : c \in NetCandidate}
SensorEntry == {EntryOf(c) : c \in SensorCandidate}

\* An entry that was registered with a check has its bus: the fact that makes
\* BusesApart inductive, for a bus that is found free belongs to no entry.
HasBus(entry) ==
    entry.func = {} =>
        /\ entry.iface \in {"UART", "I2C"} /\ entry.port \in Port
        /\ entry.iface = "UART" => uart[entry.port] # 0
        /\ entry.iface = "I2C" => i2c[entry.port] # 0

TablesOK == /\ neti \in Seq(NetEntry) /\ si \in Seq(SensorEntry)
            /\ uart \in [Port -> Nat] /\ i2c \in [Port -> {0, 1}]

BusesHeld == \A entry \in Checked(neti) \cup Checked(si) : HasBus(entry)

IInv == TablesOK /\ BusesHeld /\ BusesApart

-----------------------------------------------------------------------------
(* The tables.                                                             *)

\* A longer table has the checked entries it had, and the new one if it is one.
LEMMA CheckedAppend ==
  ASSUME NEW S, NEW table \in Seq(S), NEW entry \in S
  PROVE  Checked(Append(table, entry)) =
            Checked(table) \cup (IF entry.func = {} THEN {entry} ELSE {})
<1> DEFINE longer == Append(table, entry)
<1>1. /\ Len(longer) = Len(table) + 1
      /\ DOMAIN longer = 1 .. Len(table) + 1
      /\ DOMAIN table = 1 .. Len(table)
      /\ \A d \in DOMAIN table : longer[d] = table[d]
      /\ longer[Len(table) + 1] = entry
      /\ Len(table) \in Nat
  OBVIOUS
<1>2. DOMAIN longer = DOMAIN table \cup {Len(table) + 1} /\ Len(table) + 1 \notin DOMAIN table
  BY <1>1
<1> HIDE DEF longer
<1>3. ASSUME NEW e \in Checked(longer)
      PROVE  e \in Checked(table) \/ (entry.func = {} /\ e = entry)
  BY <1>1, <1>2, <1>3 DEF Checked
<1>4. ASSUME NEW e \in Checked(table) PROVE e \in Checked(longer)
  <2>1. PICK d \in DOMAIN table : table[d].func = {} /\ e = table[d]
    BY <1>4 DEF Checked
  <2>2. d \in DOMAIN longer /\ longer[d] = table[d]
    BY <1>1, <1>2
  <2> QED BY <2>1, <2>2 DEF Checked
<1>5. ASSUME entry.func = {} PROVE entry \in Checked(longer)
  BY <1>1, <1>2, <1>5 DEF Checked
<1> QED BY <1>3, <1>4, <1>5 DEF longer

\* Appending changes no earlier entry.
LEMMA AppendKeeps ==
  ASSUME NEW S, NEW table \in Seq(S), NEW entry \in S
  PROVE  \A d \in DOMAIN table : /\ d \in DOMAIN Append(table, entry)
                                 /\ Append(table, entry)[d] = table[d]
OBVIOUS

-----------------------------------------------------------------------------
(* The steps.  A step changes the tables and the buses in one of four ways. *)

NetStays    == neti' = neti
SensorStays == si' = si

\* A candidate is registered with a free bus, which it takes.
NetChecked(c)    == /\ c.checks /\ BusFree(c.iface, c.port) /\ TakeBus(c.iface, c.port, c.info)
                    /\ neti' = Append(neti, EntryOf(c)) /\ SensorStays
SensorChecked(c) == /\ c.checks /\ BusFree(c.iface, c.port) /\ TakeBus(c.iface, c.port, c.info)
                    /\ si' = Append(si, EntryOf(c)) /\ NetStays
\* A candidate is registered with its driver.
NetDriven(c)     == /\ ~c.checks /\ neti' = Append(neti, EntryOf(c))
                    /\ SensorStays /\ UNCHANGED busVars
SensorDriven(c)  == /\ ~c.checks /\ si' = Append(si, EntryOf(c))
                    /\ NetStays /\ UNCHANGED busVars

LEMMA FourWays ==
  ASSUME [Next]_vars
  PROVE  \/ NetStays /\ SensorStays /\ UNCHANGED busVars
         \/ \E c \in NetCandidate : NetChecked(c) \/ NetDriven(c)
         \/ \E c \in SensorCandidate : SensorChecked(c) \/ SensorDriven(c)
<1> USE DEF NetStays, SensorStays
<1>1. CASE UNCHANGED vars
  BY <1>1 DEF vars, netVars, sensorVars
<1>2. ASSUME NEW c \in NetCandidate, RegisterNetwork(c)
      PROVE  NetChecked(c) \/ NetDriven(c) \/ (NetStays /\ SensorStays /\ UNCHANGED busVars)
  <2>1. CASE c.checks
    BY <1>2, <2>1 DEF RegisterNetwork, iw_register_network, NetChecked, EntryOf, sensorVars
  <2>2. CASE ~c.checks
    BY <1>2, <2>2 DEF RegisterNetwork, iw_register_network_, NetDriven, EntryOf, sensorVars
  <2> QED BY <2>1, <2>2
<1>3. ASSUME NEW c \in SensorCandidate, RegisterSensor(c)
      PROVE  SensorChecked(c) \/ SensorDriven(c) \/ (NetStays /\ SensorStays /\ UNCHANGED busVars)
  <2>1. CASE c.checks
    BY <1>3, <2>1 DEF RegisterSensor, iw_register_sensor, SensorChecked, EntryOf, netVars
  <2>2. CASE ~c.checks
    BY <1>3, <2>2 DEF RegisterSensor, iw_register_sensor_, SensorDriven, EntryOf, netVars
  <2> QED BY <2>1, <2>2
<1>4. CASE RegisterInfo
  BY <1>4 DEF RegisterInfo, netVars, sensorVars
<1>5. CASE Start
  BY <1>5 DEF Start, iw_init_device, netVars
<1>6. CASE UseNetwork
  BY <1>6 DEF UseNetwork, iw_init_network, iw_deinit_network, sensorVars
<1>7. CASE UseSensor
  BY <1>7 DEF UseSensor, iw_init_sensor, iw_deinit_sensor, netVars
<1>8. CASE RunConnectionTask
  BY <1>8 DEF RunConnectionTask, ConnectionTask, sensorVars
<1>9. CASE RunNetDriver
  BY <1>9 DEF RunNetDriver, NetDriver, DriverStarted, LinkLost, sensorVars
<1> QED BY <1>1, <1>2, <1>3, <1>4, <1>5, <1>6, <1>7, <1>8, <1>9 DEF Next

-----------------------------------------------------------------------------
(* The buses.                                                              *)

LEMMA InitIInv == Init => IInv
<1> SUFFICES ASSUME Init PROVE IInv
  OBVIOUS
<1>1. neti = <<>> /\ si = <<>>
  BY DEF Init, NetInit, SensorInit
<1>2. TablesOK
  BY <1>1 DEF TablesOK, Init, BusesFree
<1>3. Checked(neti) = {} /\ Checked(si) = {}
  BY <1>1 DEF Checked
<1> QED BY <1>2, <1>3 DEF IInv, BusesHeld, BusesApart

\* A bus that is taken stays taken, by whichever of the two functions.
LEMMA BusesStay ==
  ASSUME TablesOK, BusesHeld, NEW c, c.port \in Port, c.info \in Nat,
         BusFree(c.iface, c.port), TakeBus(c.iface, c.port, c.info)
  PROVE  /\ uart' \in [Port -> Nat] /\ i2c' \in [Port -> {0, 1}]
         /\ \A entry \in Checked(neti) \cup Checked(si) : HasBus(entry)'
         /\ \A entry \in Checked(neti) \cup Checked(si) :
                entry.iface = c.iface => entry.port # c.port
<1> USE DEF TablesOK
<1>1. uart' \in [Port -> Nat] /\ i2c' \in [Port -> {0, 1}]
  BY DEF TakeBus
<1> SUFFICES ASSUME NEW entry \in Checked(neti) \cup Checked(si)
             PROVE  HasBus(entry)' /\ (entry.iface = c.iface => entry.port # c.port)
  BY <1>1
<1>2. entry.func = {}
  BY DEF Checked
<1>3. /\ entry.iface \in {"UART", "I2C"} /\ entry.port \in Port
      /\ entry.iface = "UART" => uart[entry.port] # 0
      /\ entry.iface = "I2C" => i2c[entry.port] # 0
  BY <1>2 DEF BusesHeld, HasBus
<1>4. entry.iface = c.iface => entry.port # c.port
  BY <1>3 DEF BusFree
<1>5. entry.iface = "UART" => uart'[entry.port] # 0
  BY <1>3, <1>4 DEF TakeBus
<1>6. entry.iface = "I2C" => i2c'[entry.port] # 0
  BY <1>3, <1>4 DEF TakeBus
<1> QED BY <1>3, <1>4, <1>5, <1>6 DEF HasBus

\* An entry that is registered with a check has the bus it took.
LEMMA BusTaken ==
  ASSUME TablesOK, NEW c \in NetCandidate \cup SensorCandidate, c.checks,
         TakeBus(c.iface, c.port, c.info)
  PROVE  HasBus(EntryOf(c))'
<1>1. /\ c.port \in Port /\ c.info \in Nat
      /\ c.iface \in {"UART", "I2C"} /\ (c.iface = "UART" => c.info # 0)
  BY CandidateAssumption
<1>2. EntryOf(c).iface = c.iface /\ EntryOf(c).port = c.port
  BY DEF EntryOf, Device
<1>3. c.iface = "UART" => uart'[c.port] # 0
  BY <1>1 DEF TablesOK, TakeBus
<1>4. c.iface = "I2C" => i2c'[c.port] # 0
  BY <1>1 DEF TablesOK, TakeBus
<1> QED BY <1>1, <1>2, <1>3, <1>4 DEF HasBus

\* The entry of a candidate says whether it was registered with a check.
LEMMA EntryFunc ==
  ASSUME NEW c \in NetCandidate \cup SensorCandidate
  PROVE  EntryOf(c).func = {} <=> c.checks
BY CandidateAssumption DEF EntryOf, Device

\* A step that leaves the buses and the checked entries alone.
LEMMA SameBuses ==
  ASSUME BusesHeld, BusesApart, UNCHANGED busVars,
         Checked(neti') = Checked(neti), Checked(si') = Checked(si)
  PROVE  BusesHeld' /\ BusesApart'
<1>1. ASSUME NEW entry PROVE HasBus(entry)' <=> HasBus(entry)
  BY DEF HasBus, busVars
<1>2. BusesHeld'
  BY <1>1 DEF BusesHeld
<1>3. BusesApart'
  BY DEF BusesApart
<1> QED BY <1>2, <1>3

LEMMA NextIInv == IInv /\ [Next]_vars => IInv'
<1> SUFFICES ASSUME IInv, [Next]_vars PROVE IInv'
  OBVIOUS
<1> USE DEF IInv
<1>1. CASE NetStays /\ SensorStays /\ UNCHANGED busVars
  <2>1. neti' = neti /\ si' = si /\ UNCHANGED busVars
    BY <1>1 DEF NetStays, SensorStays
  <2>2. Checked(neti') = Checked(neti) /\ Checked(si') = Checked(si)
    BY <2>1
  <2>3. TablesOK'
    BY <2>1 DEF TablesOK, busVars
  <2> QED BY <2>1, <2>2, <2>3, SameBuses
<1>2. ASSUME NEW c \in NetCandidate, NetChecked(c) PROVE IInv'
  <2>1. EntryOf(c) \in NetEntry /\ neti' = Append(neti, EntryOf(c)) /\ si' = si
    BY <1>2 DEF NetEntry, NetChecked, SensorStays
  <2>2. Checked(neti') = Checked(neti) \cup {EntryOf(c)} /\ Checked(si') = Checked(si)
    BY <1>2, <2>1, CheckedAppend, EntryFunc DEF TablesOK, NetChecked
  <2>3. /\ uart' \in [Port -> Nat] /\ i2c' \in [Port -> {0, 1}]
        /\ \A entry \in Checked(neti) \cup Checked(si) : HasBus(entry)'
        /\ \A entry \in Checked(neti) \cup Checked(si) :
               entry.iface = c.iface => entry.port # c.port
    BY <1>2, CandidateAssumption, BusesStay DEF NetChecked
  <2>4. HasBus(EntryOf(c))'
    BY <1>2, BusTaken DEF NetChecked
  <2>5. TablesOK'
    BY <2>1, <2>3 DEF TablesOK
  <2>6. BusesHeld'
    BY <2>2, <2>3, <2>4 DEF BusesHeld
  <2>7. EntryOf(c).iface = c.iface /\ EntryOf(c).port = c.port
    BY DEF EntryOf, Device
  <2>8. BusesApart'
    BY <2>2, <2>3, <2>7 DEF BusesApart
  <2> QED BY <2>5, <2>6, <2>8
<1>3. ASSUME NEW c \in SensorCandidate, SensorChecked(c) PROVE IInv'
  <2>1. EntryOf(c) \in SensorEntry /\ si' = Append(si, EntryOf(c)) /\ neti' = neti
    BY <1>3 DEF SensorEntry, SensorChecked, NetStays
  <2>2. Checked(si') = Checked(si) \cup {EntryOf(c)} /\ Checked(neti') = Checked(neti)
    BY <1>3, <2>1, CheckedAppend, EntryFunc DEF TablesOK, SensorChecked
  <2>3. /\ uart' \in [Port -> Nat] /\ i2c' \in [Port -> {0, 1}]
        /\ \A entry \in Checked(neti) \cup Checked(si) : HasBus(entry)'
        /\ \A entry \in Checked(neti) \cup Checked(si) :
               entry.iface = c.iface => entry.port # c.port
    BY <1>3, CandidateAssumption, BusesStay DEF SensorChecked
  <2>4. HasBus(EntryOf(c))'
    BY <1>3, BusTaken DEF SensorChecked
  <2>5. TablesOK'
    BY <2>1, <2>3 DEF TablesOK
  <2>6. BusesHeld'
    BY <2>2, <2>3, <2>4 DEF BusesHeld
  <2>7. EntryOf(c).iface = c.iface /\ EntryOf(c).port = c.port
    BY DEF EntryOf, Device
  <2>8. BusesApart'
    BY <2>2, <2>3, <2>7 DEF BusesApart
  <2> QED BY <2>5, <2>6, <2>8
<1>4. ASSUME NEW c \in NetCandidate, NetDriven(c) PROVE IInv'
  <2>1. EntryOf(c) \in NetEntry /\ neti' = Append(neti, EntryOf(c)) /\ si' = si /\ UNCHANGED busVars
    BY <1>4 DEF NetEntry, NetDriven, SensorStays
  <2>2. Checked(neti') = Checked(neti) /\ Checked(si') = Checked(si)
    <3>1. EntryOf(c).func # {}
      BY <1>4, EntryFunc DEF NetDriven
    <3>2. neti \in Seq(NetEntry)
      BY DEF TablesOK
    <3>3. Checked(Append(neti, EntryOf(c))) =
             Checked(neti) \cup (IF EntryOf(c).func = {} THEN {EntryOf(c)} ELSE {})
      BY <2>1, <3>2, CheckedAppend
    <3> QED BY <2>1, <3>1, <3>3
  <2>3. TablesOK'
    BY <2>1 DEF TablesOK, busVars
  <2> QED BY <2>1, <2>2, <2>3, SameBuses
<1>5. ASSUME NEW c \in SensorCandidate, SensorDriven(c) PROVE IInv'
  <2>1. EntryOf(c) \in SensorEntry /\ si' = Append(si, EntryOf(c)) /\ neti' = neti /\ UNCHANGED busVars
    BY <1>5 DEF SensorEntry, SensorDriven, NetStays
  <2>2. Checked(neti') = Checked(neti) /\ Checked(si') = Checked(si)
    <3>1. EntryOf(c).func # {}
      BY <1>5, EntryFunc DEF SensorDriven
    <3>2. si \in Seq(SensorEntry)
      BY DEF TablesOK
    <3>3. Checked(Append(si, EntryOf(c))) =
             Checked(si) \cup (IF EntryOf(c).func = {} THEN {EntryOf(c)} ELSE {})
      BY <2>1, <3>2, CheckedAppend
    <3> QED BY <2>1, <3>1, <3>3
  <2>3. TablesOK'
    BY <2>1 DEF TablesOK, busVars
  <2> QED BY <2>1, <2>2, <2>3, SameBuses
<1> QED BY <1>1, <1>2, <1>3, <1>4, <1>5, FourWays

LEMMA IInvAlways == Spec => []IInv
<1> QED BY InitIInv, NextIInv, PTL DEF Spec

\* On every board, two devices that were registered with a check of their bus
\* are on different buses (iw_register_network, iw_register_sensor).
THEOREM BusesStayApart == Spec => []BusesApart
<1>1. IInv => BusesApart
  BY DEF IInv
<1> QED BY <1>1, IInvAlways, PTL

-----------------------------------------------------------------------------
(* The ids.                                                                *)

\* A step leaves every entry of both tables where and as it is.
LEMMA StepKeepsEntries ==
  ASSUME TablesOK, [Next]_vars
  PROVE  /\ \A d \in DOMAIN neti : d \in DOMAIN neti' /\ neti'[d] = neti[d]
         /\ \A d \in DOMAIN si : d \in DOMAIN si' /\ si'[d] = si[d]
<1>1. CASE NetStays /\ SensorStays
  BY <1>1 DEF NetStays, SensorStays
<1>2. ASSUME NEW c \in NetCandidate, NetChecked(c) \/ NetDriven(c)
      PROVE  /\ \A d \in DOMAIN neti : d \in DOMAIN neti' /\ neti'[d] = neti[d]
             /\ si' = si
  <2>1. EntryOf(c) \in NetEntry /\ neti' = Append(neti, EntryOf(c)) /\ si' = si
    BY <1>2 DEF NetEntry, NetChecked, NetDriven, SensorStays
  <2> QED BY <2>1, AppendKeeps DEF TablesOK
<1>3. ASSUME NEW c \in SensorCandidate, SensorChecked(c) \/ SensorDriven(c)
      PROVE  /\ \A d \in DOMAIN si : d \in DOMAIN si' /\ si'[d] = si[d]
             /\ neti' = neti
  <2>1. EntryOf(c) \in SensorEntry /\ si' = Append(si, EntryOf(c)) /\ neti' = neti
    BY <1>3 DEF SensorEntry, SensorChecked, SensorDriven, NetStays
  <2> QED BY <2>1, AppendKeeps DEF TablesOK
<1> QED BY <1>1, <1>2, <1>3, FourWays

\* On every board a dev_id names the same device for ever: whatever is
\* registered later, its entry stays (iw_register_network_ and the others).
THEOREM IdsNeverChange == Spec => IdsStay
<1>1. TablesOK /\ [Next]_vars =>
        [/\ \A d \in DOMAIN neti : d \in DOMAIN neti' /\ neti'[d] = neti[d]
         /\ \A d \in DOMAIN si : d \in DOMAIN si' /\ si'[d] = si[d]]_vars
  BY StepKeepsEntries
<1>2. IInv => TablesOK
  BY DEF IInv
<1> QED BY <1>1, <1>2, IInvAlways, PTL DEF Spec, IdsStay

-----------------------------------------------------------------------------
(* The ends of the arrays.                                                 *)

\* A longer table has its entries behind the end where it had them, and the new
\* one there only when the table was full.
LEMMA AppendPast ==
  ASSUME NEW S, NEW table \in Seq(S), NEW entry \in S, NEW max \in Nat,
         \A d \in DOMAIN table : d > max => table[d].func = {},
         Len(table) < max \/ entry.func = {}
  PROVE  \A d \in DOMAIN Append(table, entry) : d > max => Append(table, entry)[d].func = {}
<1> DEFINE longer == Append(table, entry)
<1>1. /\ DOMAIN longer = 1 .. Len(table) + 1 /\ DOMAIN table = 1 .. Len(table)
      /\ \A d \in DOMAIN table : longer[d] = table[d]
      /\ longer[Len(table) + 1] = entry
      /\ Len(table) \in Nat
  OBVIOUS
<1> HIDE DEF longer
<1>2. ASSUME NEW d \in DOMAIN longer, d > max PROVE longer[d].func = {}
  <2>1. d \in DOMAIN table \/ d = Len(table) + 1
    BY <1>1
  <2>2. CASE d \in DOMAIN table
    BY <1>1, <1>2, <2>2
  <2>3. CASE d = Len(table) + 1
    <3>1. ~(Len(table) < max)
      BY <1>1, <1>2, <2>3
    <3> QED BY <1>1, <2>3, <3>1
  <2> QED BY <2>1, <2>2, <2>3
<1> QED BY <1>2 DEF longer

LEMMA NextOverflow == IInv /\ OnlyCheckedOverflow /\ [Next]_vars => OnlyCheckedOverflow'
<1> SUFFICES ASSUME IInv, OnlyCheckedOverflow, [Next]_vars PROVE OnlyCheckedOverflow'
  OBVIOUS
<1> USE DEF OnlyCheckedOverflow
<1>1. /\ neti \in Seq(NetEntry) /\ si \in Seq(SensorEntry)
      /\ MAX_NET_DEV \in Nat /\ MAX_SENSOR_DEV \in Nat
  BY NetAssumption, SensorAssumption DEF IInv, TablesOK
<1>2. CASE NetStays /\ SensorStays
  BY <1>2 DEF NetStays, SensorStays
<1>3. ASSUME NEW c \in NetCandidate, RegisterNetwork(c), neti' # neti PROVE OnlyCheckedOverflow'
  <2>1. EntryOf(c) \in NetEntry /\ neti' = Append(neti, EntryOf(c)) /\ si' = si
    BY <1>3 DEF RegisterNetwork, iw_register_network, iw_register_network_, NetEntry, EntryOf, sensorVars
  <2>2. Len(neti) < MAX_NET_DEV \/ EntryOf(c).func = {}
    BY <1>3 DEF RegisterNetwork, iw_register_network_, EntryOf, Device
  <2> QED BY <1>1, <2>1, <2>2, AppendPast
<1>4. ASSUME NEW c \in SensorCandidate, RegisterSensor(c), si' # si PROVE OnlyCheckedOverflow'
  <2>1. EntryOf(c) \in SensorEntry /\ si' = Append(si, EntryOf(c)) /\ neti' = neti
    BY <1>4 DEF RegisterSensor, iw_register_sensor, iw_register_sensor_, SensorEntry, EntryOf, netVars
  <2>2. Len(si) < MAX_SENSOR_DEV \/ EntryOf(c).func = {}
    BY <1>4 DEF RegisterSensor, iw_register_sensor_, EntryOf, Device
  <2> QED BY <1>1, <2>1, <2>2, AppendPast
<1>5. ASSUME NEW c \in NetCandidate, RegisterNetwork(c) PROVE si' = si
  BY <1>5 DEF RegisterNetwork, sensorVars
<1>6. ASSUME NEW c \in SensorCandidate, RegisterSensor(c) PROVE neti' = neti
  BY <1>6 DEF RegisterSensor, netVars
<1>7. CASE \/ UNCHANGED vars \/ RegisterInfo \/ Start \/ UseNetwork \/ UseSensor
           \/ RunConnectionTask \/ RunNetDriver
  BY <1>2, <1>7 DEF NetStays, SensorStays, vars, netVars, sensorVars, RegisterInfo, Start,
                    iw_init_device, UseNetwork, iw_init_network, iw_deinit_network, UseSensor,
                    iw_init_sensor, iw_deinit_sensor, RunConnectionTask, ConnectionTask,
                    RunNetDriver, NetDriver, DriverStarted, LinkLost
<1>8. CASE neti' = neti /\ si' = si
  BY <1>2, <1>8 DEF NetStays, SensorStays
<1> QED BY <1>3, <1>4, <1>5, <1>6, <1>7, <1>8 DEF Next

\* On every board, what lies behind the end of a table was registered by the older
\* function: no call of the newer one leaves its array, whatever was registered
\* before it, by whichever function (iw_register_network_, iw_register_sensor_).
THEOREM OnlyCheckedLeaveTheTable == Spec => []OnlyCheckedOverflow
<1>1. Init => OnlyCheckedOverflow
  BY DEF Init, NetInit, SensorInit, OnlyCheckedOverflow
<1>2. IInv /\ OnlyCheckedOverflow /\ [Next]_vars => OnlyCheckedOverflow'
  BY NextOverflow
<1> QED BY <1>1, <1>2, IInvAlways, PTL DEF Spec

-----------------------------------------------------------------------------
(***************************************************************************)
(* What is found in the device tables: by the lookups, by the connection   *)
(* tasks, which look their device up once, and by the drivers, which read  *)
(* the settings.  Any memory for connection tasks, and any texts.          *)
(***************************************************************************)

-----------------------------------------------------------------------------
(* The inductive invariants.                                               *)

\* A board names a device once, so a name has at most one entry.
NamesDiffer == \A d, e \in DOMAIN neti : neti[d].name = neti[e].name => d = e

\* A task that runs was created after the last registration, for a device of
\* the table; so what it found there is what a lookup would find now.
Serves(t) ==
    Running(t) =>
        /\ started
        /\ task[t].for \in DOMAIN neti /\ neti[task[t].for].type # {}
        /\ task[t].pc # "start" =>
              task[t].dev = iw_get_network_devid(neti[task[t].for].type, NoName)

TasksServe == \A t \in TaskId : Serves(t)

Lookups == TypeOK /\ NamesDiffer /\ TasksServe

\* Only the keys of the mode that was registered last are read.
Keys == [1 .. 3 -> Text \cup {NoText}]
KeysOfMode == /\ lora \in [mode : Mode \cup {"none"}, keys : [Mode -> Keys]]
              /\ lora.mode \in Mode => lora.keys[lora.mode] = given

-----------------------------------------------------------------------------
(* First and last.                                                         *)

LEMMA Smallest ==
  ASSUME NEW S \in SUBSET Nat, S # {}
  PROVE  \E i \in S : \A j \in S : i <= j
<1> DEFINE R == OpToRel(<, Nat)
<1>1. IsWellFoundedOn(R, Nat)
  BY NatLessThanWellFounded
<1>2. \A i, j \in Nat : i < j => <<i, j>> \in R
  BY Zenon DEF OpToRel
<1> HIDE DEF R
<1>3. PICK i \in S : \A j \in S : ~(<<j, i>> \in R)
  BY <1>1, WFMin, Zenon
<1>4. \A j \in S : ~(j < i)
  BY <1>2, <1>3
<1> QED BY <1>4

\* The largest number up to n is the one that is closest to n.
LEMMA Largest ==
  ASSUME NEW n \in Nat, NEW S \in SUBSET (1 .. n), S # {}
  PROVE  \E i \in S : \A j \in S : i >= j
<1> DEFINE D == {k \in Nat : n - k \in S}
<1>1. D # {}
  <2>1. PICK i \in S : TRUE
    OBVIOUS
  <2>2. n - i \in Nat /\ n - (n - i) = i
    OBVIOUS
  <2> QED BY <2>1, <2>2
<1>2. PICK k \in D : \A j \in D : k <= j
  BY <1>1, Smallest
<1>3. ASSUME NEW j \in S PROVE n - k >= j
  <2>1. n - j \in Nat /\ n - (n - j) = j
    OBVIOUS
  <2>2. k <= n - j
    BY <1>2, <2>1
  <2> QED BY <2>2
<1> QED BY <1>2, <1>3

LEMMA FirstIs ==
  ASSUME NEW S \in SUBSET Nat, S # {}
  PROVE  First(S) \in S /\ \A j \in S : First(S) <= j
BY Smallest DEF First

LEMMA LastIs ==
  ASSUME NEW n \in Nat, NEW S \in SUBSET (1 .. n), S # {}
  PROVE  Last(S) \in S /\ \A j \in S : Last(S) >= j
<1>1. \E i \in S : \A j \in S : i >= j
  BY Largest
<1> QED BY <1>1 DEF Last

\* Of one there is no choice.
LEMMA OfOne ==
  ASSUME NEW n \in Nat, NEW d \in 1 .. n
  PROVE  First({d}) = d /\ Last({d}) = d
<1>1. {d} \in SUBSET Nat /\ {d} \in SUBSET (1 .. n) /\ {d} # {}
  OBVIOUS
<1> QED BY <1>1, FirstIs, LastIs

-----------------------------------------------------------------------------
(* The lookups.                                                            *)

\* The entries of the table of network devices.
LEMMA Entries ==
  ASSUME TablesOK
  PROVE  /\ Len(neti) \in Nat /\ DOMAIN neti = 1 .. Len(neti)
         /\ \A d \in DOMAIN neti : neti[d].type # {} /\ neti[d].name # NoName
<1>1. neti \in Seq(NetEntry)
  BY DEF TablesOK
<1>2. ASSUME NEW d \in DOMAIN neti PROVE neti[d].type # {} /\ neti[d].name # NoName
  <2>1. neti[d] \in NetEntry
    BY <1>1
  <2>2. PICK c \in NetCandidate : neti[d] = EntryOf(c)
    BY <2>1 DEF NetEntry
  <2>3. neti[d].type = c.type /\ neti[d].name = c.name
    BY <2>2 DEF EntryOf, Device
  <2> QED BY <2>3, ArgumentAssumption
<1> QED BY <1>1, <1>2

LEMMA AloneInType ==
  ASSUME TablesOK, NEW d \in DOMAIN neti, neti[d].type # {},
         Cardinality(Sharing(neti, neti[d].type)) = 1
  PROVE  Sharing(neti, neti[d].type) = {d}
<1> DEFINE S == Sharing(neti, neti[d].type)
<1>1. d \in S /\ S \in SUBSET (1 .. Len(neti)) /\ Len(neti) \in Nat
  BY Entries DEF Sharing
<1> HIDE DEF S
<1>2. IsFiniteSet(S)
  <2>1. 1 \in Int /\ Len(neti) \in Int
    BY <1>1
  <2>2. IsFiniteSet(1 .. Len(neti))
    BY <2>1, FS_Interval
  <2> QED BY <1>1, <2>2, FS_Subset
<1>3. PICK e : S = {e}
  BY <1>2, FS_Singleton DEF S
<1> QED BY <1>1, <1>3 DEF S

\* The lookups in a table where a name has one entry.
LEMMA LookupsFind == TablesOK /\ NamesDiffer => LookupsAgree
<1> SUFFICES ASSUME TablesOK, NamesDiffer, NEW d \in DOMAIN neti
             PROVE  LET type == neti[d].type
                        name == neti[d].name
                        byType == iw_get_network_dev_id_by_type(type)
                    IN /\ iw_get_network_devid(type, name) = d
                       /\ iw_get_network_dev_id_by_name(name) = d
                       /\ byType # 0 /\ type \subseteq neti[byType].type
                       /\ Cardinality(Sharing(neti, type)) = 1 =>
                            byType = d /\ iw_get_network_devid(type, NoName) = d
                       /\ d \in InfoFilled(type, name)
                       /\ Cardinality(InfoFilled(type, name)) <= 2
  BY DEF LookupsAgree
<1> DEFINE type == neti[d].type
           name == neti[d].name
           byType == iw_get_network_dev_id_by_type(type)
<1>1. /\ Len(neti) \in Nat /\ DOMAIN neti = 1 .. Len(neti) /\ d \in 1 .. Len(neti)
      /\ type # {} /\ name # NoName
  BY Entries
<1>2. First({d}) = d /\ Last({d}) = d
  BY <1>1, OfOne
<1>3. \A e \in DOMAIN neti : neti[e].name = name <=> e = d
  BY DEF NamesDiffer
<1>4. iw_get_network_devid(type, name) = d
  <2>1. {i \in Sharing(neti, type) : neti[i].name = name} = {d}
    BY <1>1, <1>3 DEF Sharing
  <2> QED BY <1>1, <1>2, <2>1 DEF iw_get_network_devid, DevId
<1>5. iw_get_network_dev_id_by_name(name) = d
  <2>1. {i \in DOMAIN neti : neti[i].type # {} /\ neti[i].name = name} = {d}
    BY <1>1, <1>3
  <2> QED BY <1>2, <2>1 DEF iw_get_network_dev_id_by_name, DevIdByName
<1>6. /\ byType \in {i \in DOMAIN neti : type \subseteq neti[i].type}
      /\ byType # 0 /\ type \subseteq neti[byType].type
  <2> DEFINE S == {i \in DOMAIN neti : type \subseteq neti[i].type}
  <2>1. S \in SUBSET Nat /\ d \in S
    BY <1>1
  <2>2. byType = First(S)
    BY DEF iw_get_network_dev_id_by_type, DevIdByType
  <2> HIDE DEF S, byType
  <2>3. byType \in S
    BY <2>1, <2>2, FirstIs
  <2> QED BY <1>1, <2>3 DEF S
<1>7. ASSUME Cardinality(Sharing(neti, type)) = 1
      PROVE  byType = d /\ iw_get_network_devid(type, NoName) = d
  <2>1. Sharing(neti, type) = {d}
    BY <1>1, <1>7, AloneInType
  <2>2. byType \in Sharing(neti, type)
    BY <1>1, <1>6 DEF Sharing
  <2> QED BY <1>2, <2>1, <2>2 DEF iw_get_network_devid, DevId
<1>8. d \in InfoFilled(type, name) /\ Cardinality(InfoFilled(type, name)) <= 2
  <2> DEFINE same == {i \in DOMAIN neti : neti[i].type = type}
             later == {i \in same : i > First(same) /\ neti[i].name = name}
  <2>1. InfoFilled(type, name) = {First(same), First(later)} \ {0}
    BY DEF InfoFilled
  <2>2. same \in SUBSET Nat /\ d \in same /\ d # 0
    BY <1>1
  <2>3. First(same) \in same /\ First(same) <= d
    BY <2>2, FirstIs
  <2>4. First(same) # d => later = {d}
    <3> DEFINE f == First(same)
    <3>1. f \in Nat /\ d \in Nat /\ f <= d /\ same \subseteq DOMAIN neti
      BY <1>1, <2>2, <2>3
    <3> HIDE DEF f, same
    <3>2. f # d => d > f
      BY <3>1
    <3>3. \A i \in same : neti[i].name = name <=> i = d
      BY <1>3, <3>1
    <3> QED BY <2>2, <3>2, <3>3 DEF f
  <2>5. First(same) # d => First(later) = d
    BY <1>2, <2>4
  <2> HIDE DEF same, later
  <2>6. IsFiniteSet({First(same)}) /\ Cardinality({First(same)}) = 1
    BY FS_Singleton
  <2>7. /\ IsFiniteSet({First(same)} \cup {First(later)})
        /\ Cardinality({First(same)} \cup {First(later)}) <= 2
    BY <2>6, FS_AddElement
  <2>8. InfoFilled(type, name) \in SUBSET ({First(same)} \cup {First(later)})
    BY <2>1
  <2>9. /\ Cardinality(InfoFilled(type, name)) <= Cardinality({First(same)} \cup {First(later)})
        /\ Cardinality(InfoFilled(type, name)) \in Nat
        /\ Cardinality({First(same)} \cup {First(later)}) \in Nat
    BY <2>7, <2>8, FS_Subset, FS_CardinalityType
  <2> QED BY <2>1, <2>2, <2>5, <2>7, <2>9
<1> QED BY <1>4, <1>5, <1>6, <1>7, <1>8

-----------------------------------------------------------------------------
(* Types.                                                                  *)

TaskState == [pc : TaskPc, for : 0 .. NetRoom, dev : 0 .. NetRoom]
NetState  == [status : Status, link : Link]

LEMMA TypeParts ==
  TypeOK <=> /\ Len(neti) <= NetRoom /\ Len(si) <= SensorRoom
             /\ net \in [NetId -> NetState]
             /\ task \in [TaskId -> TaskState] /\ handle \in TaskId \cup {0}
             /\ sensor \in [SensorId -> {"off", "INITIALIZED"}]
             /\ uart \in [Port -> Nat] /\ i2c \in [Port -> {0, 1}] /\ started \in BOOLEAN
BY DEF TypeOK, NetTypeOK, SensorTypeOK, NetState, TaskState

LEMMA TypePartsNext ==
  TypeOK' <=> /\ Len(neti') <= NetRoom /\ Len(si') <= SensorRoom
              /\ net' \in [NetId -> NetState]
              /\ task' \in [TaskId -> TaskState] /\ handle' \in TaskId \cup {0}
              /\ sensor' \in [SensorId -> {"off", "INITIALIZED"}]
              /\ uart' \in [Port -> Nat] /\ i2c' \in [Port -> {0, 1}] /\ started' \in BOOLEAN
BY DEF TypeOK, NetTypeOK, SensorTypeOK, NetState, TaskState

LEMMA InitLookups == Init => Lookups
<1> SUFFICES ASSUME Init PROVE Lookups
  OBVIOUS
<1> USE NetAssumption, SensorAssumption DEF Init, NetInit, SensorInit, BusesFree
<1>1. Len(neti) <= NetRoom /\ Len(si) <= SensorRoom
  OBVIOUS
<1>2. net \in [NetId -> NetState]
  BY DEF Off, NetState, Status, Link
<1>3. NoTask \in TaskState
  BY DEF NoTask, TaskState, TaskPc
<1>4. task \in [TaskId -> TaskState] /\ handle \in TaskId \cup {0} /\ started \in BOOLEAN
  BY <1>3
<1>5. sensor \in [SensorId -> {"off", "INITIALIZED"}] /\ uart \in [Port -> Nat] /\ i2c \in [Port -> {0, 1}]
  OBVIOUS
<1>6. TypeOK
  BY <1>1, <1>2, <1>4, <1>5, TypeParts
<1>7. NamesDiffer
  BY DEF NamesDiffer
<1>8. TasksServe
  BY DEF TasksServe, Serves, Running, NoTask
<1> QED BY <1>6, <1>7, <1>8 DEF Lookups

-----------------------------------------------------------------------------
(* The steps.                                                              *)

\* A step after the last registration, or one that registers no network device:
\* the tables it leaves, and the tasks serve.
LEMMA Moves ==
  ASSUME Lookups, TablesOK', neti' = neti, Len(si') <= SensorRoom, started' \in BOOLEAN,
         net' \in [NetId -> NetState], task' \in [TaskId -> TaskState],
         handle' \in TaskId \cup {0}, sensor' \in [SensorId -> {"off", "INITIALIZED"}],
         \A t \in TaskId : Serves(t)'
  PROVE  Lookups'
<1>1. TypeOK'
  BY TypeParts, TypePartsNext DEF Lookups, TablesOK
<1>2. NamesDiffer'
  BY DEF Lookups, NamesDiffer
<1> QED BY <1>1, <1>2 DEF Lookups, TasksServe

LEMMA SameTask ==
  ASSUME Lookups, neti' = neti, started => started', NEW t \in TaskId, task'[t] = task[t]
  PROVE  Serves(t)'
BY DEF Lookups, TasksServe, Serves, Running, iw_get_network_devid

LEMMA SameTasks ==
  ASSUME Lookups, neti' = neti, started => started', task' = task
  PROVE  \A t \in TaskId : Serves(t)'
BY SameTask

\* Before the start no task runs, so a longer table misleads none.
LEMMA RegistersNetwork ==
  ASSUME Lookups, TablesOK, TablesOK', NEW c \in NetCandidate, RegisterNetwork(c)
  PROVE  Lookups'
<1>1. /\ UNCHANGED <<si, sensor, net, task, handle, started>> /\ ~started
      /\ \A d \in DOMAIN neti : neti[d].name # c.name
  BY DEF RegisterNetwork, iw_register_network, iw_register_network_, sensorVars
<1>2. \/ neti' = neti
      \/ neti' = Append(neti, EntryOf(c)) /\ Len(neti) < NetRoom
  <2>1. Len(neti) < MAX_NET_DEV => Len(neti) < NetRoom
    <3>1. Len(neti) \in Nat
      BY DEF TablesOK
    <3> QED BY <3>1, NetAssumption
  <2> QED BY <2>1 DEF RegisterNetwork, iw_register_network, iw_register_network_, EntryOf
<1>3. CASE neti' = neti
  <2>1. \A t \in TaskId : Serves(t)'
    BY <1>1, <1>3, SameTasks
  <2> QED BY <1>1, <1>3, <2>1, TypeParts, Moves DEF Lookups
<1>4. CASE neti' = Append(neti, EntryOf(c)) /\ Len(neti) < NetRoom
  <2>1. neti \in Seq(NetEntry) /\ EntryOf(c) \in NetEntry /\ EntryOf(c).name = c.name
    BY DEF TablesOK, NetEntry, EntryOf, Device
  <2>2. /\ Len(neti') = Len(neti) + 1 /\ Len(neti) \in Nat
        /\ DOMAIN neti = 1 .. Len(neti) /\ DOMAIN neti' = 1 .. Len(neti) + 1
        /\ \A d \in DOMAIN neti : neti'[d] = neti[d]
        /\ neti'[Len(neti) + 1] = EntryOf(c)
    BY <1>4, <2>1
  <2>3. Len(neti') <= NetRoom
    BY <1>4, <2>2, NetAssumption
  <2>4. TypeOK'
    BY <1>1, <2>3, TypeParts, TypePartsNext DEF Lookups, TablesOK
  <2>5. NamesDiffer'
    <3>1. \A d \in DOMAIN neti' : d \in DOMAIN neti \/ d = Len(neti) + 1
      BY <2>2
    <3> QED BY <1>1, <2>1, <2>2, <3>1 DEF Lookups, NamesDiffer
  <2>6. TasksServe'
    BY <1>1 DEF Lookups, TasksServe, Serves, Running
  <2> QED BY <2>4, <2>5, <2>6 DEF Lookups
<1> QED BY <1>2, <1>3, <1>4

\* What changes sensors and settings is of no concern to the tasks.
LEMMA NotNetwork ==
  ASSUME Lookups, TablesOK', UNCHANGED netVars, started => started', started' \in BOOLEAN,
         Len(si') <= SensorRoom, sensor' \in [SensorId -> {"off", "INITIALIZED"}]
  PROVE  Lookups'
<1>1. neti' = neti /\ net' = net /\ task' = task /\ handle' = handle
  BY DEF netVars
<1>2. \A t \in TaskId : Serves(t)'
  BY <1>1, SameTasks
<1> QED BY <1>1, <1>2, TypeParts, Moves DEF Lookups

LEMMA RegistersSensor ==
  ASSUME Lookups, TablesOK, TablesOK', NEW c \in SensorCandidate, RegisterSensor(c)
  PROVE  Lookups'
<1>1. UNCHANGED <<netVars, sensor, started>>
  BY DEF RegisterSensor, iw_register_sensor, iw_register_sensor_
<1>2. \/ si' = si
      \/ si' = Append(si, EntryOf(c)) /\ Len(si) < SensorRoom
  <2>1. Len(si) < MAX_SENSOR_DEV => Len(si) < SensorRoom
    <3>1. Len(si) \in Nat
      BY DEF TablesOK
    <3> QED BY <3>1, SensorAssumption
  <2> QED BY <2>1 DEF RegisterSensor, iw_register_sensor, iw_register_sensor_, EntryOf
<1>3. Len(si') <= SensorRoom
  <2>1. si \in Seq(SensorEntry) /\ EntryOf(c) \in SensorEntry /\ Len(si) <= SensorRoom
    BY TypeParts DEF TablesOK, SensorEntry, Lookups
  <2>2. Len(Append(si, EntryOf(c))) = Len(si) + 1 /\ Len(si) \in Nat
    BY <2>1
  <2> QED BY <1>2, <2>1, <2>2, SensorAssumption
<1> QED BY <1>1, <1>3, TypeParts, NotNetwork DEF Lookups

LEMMA UsesSensors ==
  ASSUME Lookups, TablesOK', RegisterInfo \/ Start \/ UseSensor
  PROVE  Lookups'
<1>1. sensor \in [SensorId -> {"off", "INITIALIZED"}] /\ Len(si) <= SensorRoom
  BY TypeParts DEF Lookups
<1>2. UNCHANGED <<netVars, si>> /\ started' \in {started, TRUE}
  BY DEF RegisterInfo, Start, UseSensor, iw_init_device, iw_init_sensor, iw_deinit_sensor, sensorVars
<1>3. sensor' \in [SensorId -> {"off", "INITIALIZED"}]
  <2>1. CASE RegisterInfo
    BY <1>1, <2>1 DEF RegisterInfo, sensorVars
  <2>2. CASE Start
    BY <1>1, <2>2 DEF Start, iw_init_device
  <2>3. CASE UseSensor
    BY <1>1, <2>3 DEF UseSensor, iw_init_sensor, iw_deinit_sensor
  <2> QED BY <2>1, <2>2, <2>3
<1> QED BY <1>1, <1>2, <1>3, TypeParts, NotNetwork DEF Lookups

\* Creating a connection task, deleting one, or neither: the new task serves the
\* device it was created for.
LEMMA UsesNetwork ==
  ASSUME Lookups, TablesOK, TablesOK', UseNetwork
  PROVE  Lookups'
<1>1. /\ net \in [NetId -> NetState] /\ task \in [TaskId -> TaskState]
      /\ handle \in TaskId \cup {0} /\ Off \in NetState
  BY TypeParts DEF Lookups, Off, NetState, Status, Link
<1>2. UNCHANGED <<neti, si, sensor, started>> /\ started
  BY DEF UseNetwork, iw_init_network, iw_deinit_network, sensorVars
<1>3. Len(si') <= SensorRoom /\ sensor' \in [SensorId -> {"off", "INITIALIZED"}]
  BY <1>2, TypeParts DEF Lookups
<1>4. PICK d \in NetId, answer \in {"SUCCESS", "FAIL"} :
         iw_init_network(d, answer) \/ iw_deinit_network(d)
  BY DEF UseNetwork
<1>5. CASE UNCHANGED <<net, task, handle>>
  BY <1>1, <1>2, <1>3, <1>5, SameTasks, Moves
<1>6. CASE iw_init_network(d, answer) /\ ~UNCHANGED <<net, task, handle>>
  <2>1. CanInit(d) /\ net' = [net EXCEPT ![d] = [Off EXCEPT !.status = "starting"]]
    BY <1>6 DEF iw_init_network
  <2>2. net' \in [NetId -> NetState]
    BY <1>1, <2>1 DEF NetState, Status
  <2>3. CASE UNCHANGED task /\ handle' \in {handle, 0}
    BY <1>1, <1>2, <1>3, <2>2, <2>3, SameTasks, Moves
  <2>4. CASE \E t \in TaskId : /\ task' = [task EXCEPT ![t] = [pc |-> "start", for |-> d, dev |-> 0]]
                               /\ handle' = t
    <3>1. PICK t \in TaskId : /\ task' = [task EXCEPT ![t] = [pc |-> "start", for |-> d, dev |-> 0]]
                              /\ handle' = t
      BY <2>4
    <3>2. [pc |-> "start", for |-> d, dev |-> 0] \in TaskState
      BY NetAssumption DEF TaskState, TaskPc, NetId
    <3>3. /\ task' \in [TaskId -> TaskState]
          /\ task'[t] = [pc |-> "start", for |-> d, dev |-> 0]
          /\ \A u \in TaskId \ {t} : task'[u] = task[u]
      BY <1>1, <3>1, <3>2
    <3>4. d \in DOMAIN neti /\ neti[d].type # {}
      BY <2>1, Entries, NetAssumption DEF CanInit, NetId
    <3>5. Serves(t)'
      BY <1>2, <3>3, <3>4 DEF Serves
    <3>6. \A u \in TaskId : Serves(u)'
      BY <1>2, <3>3, <3>5, SameTask
    <3> QED BY <1>1, <1>2, <1>3, <2>2, <3>1, <3>3, <3>6, Moves
  <2> QED BY <1>6, <2>3, <2>4 DEF iw_init_network, CreateConnectionTask
<1>7. CASE iw_deinit_network(d)
  <2>1. /\ net' \in [NetId -> NetState] /\ handle' = 0
    BY <1>1, <1>7 DEF iw_deinit_network
  <2>2. NoTask \in TaskState /\ ~(NoTask.pc \notin {"none", "exited"})
    BY NetAssumption DEF NoTask, TaskState, TaskPc
  <2>3. /\ task' \in [TaskId -> TaskState]
        /\ \A u \in TaskId : task'[u] = NoTask \/ task'[u] = task[u]
    BY <1>1, <1>7, <2>2 DEF iw_deinit_network
  <2>4. ASSUME NEW u \in TaskId PROVE Serves(u)'
    <3>1. CASE task'[u] = NoTask
      BY <2>2, <3>1 DEF Serves, Running
    <3>2. CASE task'[u] = task[u]
      BY <1>2, <3>2, SameTask
    <3> QED BY <2>3, <3>1, <3>2
  <2> QED BY <1>1, <1>2, <1>3, <2>1, <2>3, <2>4, Moves
<1> QED BY <1>4, <1>5, <1>6, <1>7

LEMMA GotoIs ==
  ASSUME task \in [TaskId -> TaskState], NEW t \in TaskId, NEW pc \in TaskPc, Goto(t, pc)
  PROVE  /\ task' \in [TaskId -> TaskState]
         /\ task'[t].pc = pc /\ task'[t].for = task[t].for /\ task'[t].dev = task[t].dev
         /\ \A u \in TaskId \ {t} : task'[u] = task[u]
BY DEF Goto, TaskState

\* A lookup by type finds a device of the table, or none.
LEMMA DevIdIs ==
  ASSUME Lookups, TablesOK, NEW type
  PROVE  iw_get_network_devid(type, NoName) \in 0 .. NetRoom
<1>1. /\ Sharing(neti, type) \in SUBSET (1 .. Len(neti)) /\ Len(neti) \in Nat
      /\ Len(neti) <= NetRoom
  BY Entries, TypeParts DEF Sharing, Lookups
<1>2. CASE Sharing(neti, type) = {}
  BY <1>2, NetAssumption DEF iw_get_network_devid, DevId, Last
<1>3. CASE Sharing(neti, type) # {}
  <2>1. Last(Sharing(neti, type)) \in 1 .. Len(neti)
    BY <1>1, <1>3, LastIs
  <2> QED BY <1>1, <2>1, NetAssumption DEF iw_get_network_devid, DevId
<1> QED BY <1>2, <1>3

\* The task looks its device up in its first step, and keeps what it found.
LEMMA RunsConnectionTask ==
  ASSUME Lookups, TablesOK, TablesOK', RunConnectionTask
  PROVE  Lookups'
<1>1. net \in [NetId -> NetState] /\ task \in [TaskId -> TaskState] /\ handle \in TaskId \cup {0}
  BY TypeParts DEF Lookups
<1>2. UNCHANGED <<neti, handle, si, sensor, started>>
  BY DEF RunConnectionTask, ConnectionTask, sensorVars
<1>3. /\ Len(si') <= SensorRoom /\ sensor' \in [SensorId -> {"off", "INITIALIZED"}]
      /\ started' \in BOOLEAN
  BY <1>2, TypeParts DEF Lookups
<1>4. PICK t \in TaskId : ConnectionTask(t)
  BY DEF RunConnectionTask
<1>5. Running(t)
  BY <1>4 DEF ConnectionTask, ConnectionTaskStarts, ConnectionTaskPolls, ConnectionTaskChecks,
              ConnectionTaskScans, ConnectSucceeds, ConnectFails, Running
<1>6. /\ started /\ task[t].for \in DOMAIN neti /\ neti[task[t].for].type # {}
      /\ task[t].pc # "start" =>
            task[t].dev = iw_get_network_devid(neti[task[t].for].type, NoName)
  BY <1>5 DEF Lookups, TasksServe, Serves
<1>7. net' \in [NetId -> NetState]
  BY <1>1, <1>4 DEF ConnectionTask, ConnectSucceeds, ConnectFails, NetState, Link
<1>8. ASSUME NEW pc \in TaskPc, Goto(t, pc), task[t].pc # "start" \/ pc = "exited"
      PROVE  Lookups'
  <2>1. /\ task' \in [TaskId -> TaskState]
        /\ task'[t].pc = pc /\ task'[t].for = task[t].for /\ task'[t].dev = task[t].dev
        /\ \A u \in TaskId \ {t} : task'[u] = task[u]
    BY <1>1, <1>8, GotoIs
  <2>2. Serves(t)'
    <3>1. CASE pc = "exited"
      BY <2>1, <3>1 DEF Serves, Running
    <3>2. CASE task[t].pc # "start"
      BY <1>2, <1>6, <2>1, <3>2 DEF Serves, iw_get_network_devid
    <3> QED BY <1>8, <3>1, <3>2
  <2>3. \A u \in TaskId : Serves(u)'
    BY <1>2, <2>1, <2>2, SameTask
  <2> QED BY <1>1, <1>2, <1>3, <1>7, <2>1, <2>3, Moves
<1>9. CASE ConnectionTaskStarts(t)
  <2> DEFINE d == iw_get_network_devid(neti[task[t].for].type, NoName)
  <2>1. CASE d = 0
    BY <1>8, <1>9, <2>1 DEF ConnectionTaskStarts, TaskPc
  <2>2. CASE d # 0
    <3>1. task' = [task EXCEPT ![t].pc = "poll", ![t].dev = d]
      BY <1>9, <2>2 DEF ConnectionTaskStarts
    <3>2. d \in 0 .. NetRoom
      BY DevIdIs
    <3> HIDE DEF d
    <3>3. /\ task' \in [TaskId -> TaskState]
          /\ task'[t].for = task[t].for /\ task'[t].dev = d
          /\ \A u \in TaskId \ {t} : task'[u] = task[u]
      BY <1>1, <3>1, <3>2 DEF TaskState, TaskPc
    <3>4. Serves(t)'
      BY <1>2, <1>6, <3>3 DEF Serves, iw_get_network_devid, d
    <3>5. \A u \in TaskId : Serves(u)'
      BY <1>2, <3>3, <3>4, SameTask
    <3> QED BY <1>1, <1>2, <1>3, <1>7, <3>3, <3>5, Moves
  <2> QED BY <2>1, <2>2
<1>10. CASE ConnectionTaskChecks(t)
  <2>1. task[t].pc = "ready" /\ \E pc \in {"poll", "scan", "exited"} : Goto(t, pc)
    BY <1>10 DEF ConnectionTaskChecks
  <2> QED BY <1>8, <2>1 DEF TaskPc
<1>11. CASE \/ ConnectionTaskPolls(t) \/ ConnectionTaskScans(t)
            \/ ConnectSucceeds(t) \/ ConnectFails(t)
  BY <1>8, <1>11 DEF ConnectionTaskPolls, ConnectionTaskScans, ConnectSucceeds, ConnectFails, TaskPc
<1> QED BY <1>4, <1>9, <1>10, <1>11 DEF ConnectionTask

LEMMA RunsDriver ==
  ASSUME Lookups, TablesOK', RunNetDriver
  PROVE  Lookups'
<1>1. net \in [NetId -> NetState] /\ task \in [TaskId -> TaskState] /\ handle \in TaskId \cup {0}
  BY TypeParts DEF Lookups
<1>2. UNCHANGED <<neti, task, handle, si, sensor, started>>
  BY DEF RunNetDriver, NetDriver, DriverStarted, LinkLost, sensorVars
<1>3. net' \in [NetId -> NetState]
  BY <1>1 DEF RunNetDriver, NetDriver, DriverStarted, LinkLost, NetState, Status, Link
<1> QED BY <1>1, <1>2, <1>3, SameTasks, TypeParts, Moves DEF Lookups

LEMMA NextLookups == IInv /\ Lookups /\ [Next]_vars => Lookups'
<1> SUFFICES ASSUME IInv, Lookups, [Next]_vars PROVE Lookups'
  OBVIOUS
<1>1. TablesOK /\ TablesOK'
  BY NextIInv DEF IInv
<1>2. CASE UNCHANGED vars
  BY <1>1, <1>2, TypeParts, NotNetwork DEF vars, sensorVars, Lookups
<1>3. ASSUME NEW c \in NetCandidate, RegisterNetwork(c) PROVE Lookups'
  BY <1>1, <1>3, RegistersNetwork
<1>4. ASSUME NEW c \in SensorCandidate, RegisterSensor(c) PROVE Lookups'
  BY <1>1, <1>4, RegistersSensor
<1>5. CASE RegisterInfo \/ Start \/ UseSensor
  BY <1>1, <1>5, UsesSensors
<1>6. CASE UseNetwork
  BY <1>1, <1>6, UsesNetwork
<1>7. CASE RunConnectionTask
  BY <1>1, <1>7, RunsConnectionTask
<1>8. CASE RunNetDriver
  BY <1>1, <1>8, RunsDriver
<1> QED BY <1>2, <1>3, <1>4, <1>5, <1>6, <1>7, <1>8 DEF Next

LEMMA LookupsAlways == Spec => [](IInv /\ Lookups)
<1>1. Init => IInv /\ Lookups
  BY InitIInv, InitLookups
<1>2. IInv /\ Lookups /\ [Next]_vars => (IInv /\ Lookups)'
  BY NextIInv, NextLookups
<1> QED BY <1>1, <1>2, PTL DEF Spec

\* On every board, and however far the tables are followed behind their arrays,
\* every variable has its type (iw_register_network, iw_register_sensor).
THEOREM TypeCorrect == Spec => []TypeOK
<1>1. IInv /\ Lookups => TypeOK
  BY DEF Lookups
<1> QED BY <1>1, LookupsAlways, PTL

\* On every board the lookups by type, by name and by both find the device that
\* has them, whatever else is registered (iw_get_network_devid and the others).
THEOREM LookupsAlwaysAgree == Spec => []LookupsAgree
<1>1. IInv /\ Lookups => LookupsAgree
  BY LookupsFind DEF IInv, Lookups
<1> QED BY <1>1, LookupsAlways, PTL

\* On every board a connection task that found a device by its type serves the
\* one it was created for, when it is the only one of that type (iw_init_network,
\* netConnectionTask).
THEOREM TasksServeTheirDevice == Spec => []ServesItsDevice
<1>1. IInv /\ Lookups => ServesItsDevice
  <2> SUFFICES ASSUME IInv, Lookups, NEW t \in TaskId,
                      Running(t), task[t].pc # "start",
                      Cardinality(Sharing(neti, neti[task[t].for].type)) = 1
               PROVE  task[t].dev = task[t].for
    BY DEF ServesItsDevice
  <2> DEFINE d == task[t].for
  <2>1. /\ d \in DOMAIN neti /\ neti[d].type # {}
        /\ task[t].dev = iw_get_network_devid(neti[d].type, NoName)
    BY DEF Lookups, TasksServe, Serves
  <2>2. TablesOK
    BY DEF IInv
  <2>3. Sharing(neti, neti[d].type) = {d}
    BY <2>1, <2>2, AloneInType
  <2>4. Last({d}) = d
    BY <2>1, <2>2, Entries, OfOne
  <2> QED BY <2>1, <2>3, <2>4 DEF iw_get_network_devid, DevId
<1> QED BY <1>1, LookupsAlways, PTL

-----------------------------------------------------------------------------
(* The settings.                                                           *)

LEMMA RegisterLoraKeeps ==
  ASSUME KeysOfMode, NEW mode \in Mode, NEW keys \in LoraKeys, RegisterLora(mode, keys)
  PROVE  KeysOfMode'
<1>1. keys \in Keys
  BY ArgumentAssumption DEF Keys
<1>2. [i \in 1 .. 3 |-> Replaced(lora.keys[mode][i], keys[i])] = keys
  BY <1>1 DEF Replaced, Keys
<1>3. /\ lora' = [mode |-> mode, keys |-> [lora.keys EXCEPT ![mode] = keys]]
      /\ given' = keys
  BY <1>2 DEF RegisterLora
<1>4. lora.keys \in [Mode -> Keys]
  BY DEF KeysOfMode
<1>5. /\ [lora.keys EXCEPT ![mode] = keys] \in [Mode -> Keys]
      /\ [lora.keys EXCEPT ![mode] = keys][mode] = keys
  BY <1>1, <1>4
<1> QED BY <1>3, <1>5 DEF KeysOfMode

LEMMA NextKeys == KeysOfMode /\ [Next]_vars => KeysOfMode'
<1> SUFFICES ASSUME KeysOfMode, [Next]_vars PROVE KeysOfMode'
  OBVIOUS
<1>1. CASE UNCHANGED <<lora, given>>
  BY <1>1 DEF KeysOfMode
<1>2. CASE RegisterInfo /\ ~UNCHANGED <<lora, given>>
  <2>1. \E keys \in LoraKeys : RegisterLora("JOIN_ABP", keys) \/ RegisterLora("JOIN_OTAA", keys)
    BY <1>2 DEF RegisterInfo, iw_register_wifi_info, iw_register_lora_band_info,
                iw_register_ble_info, iw_register_lora_abp_info, iw_register_lora_otaa_info
  <2> QED BY <2>1, RegisterLoraKeeps DEF Mode
<1> QED BY <1>1, <1>2 DEF Next, vars, infoVars, RegisterNetwork, RegisterSensor, Start,
                          UseNetwork, UseSensor, RunConnectionTask, RunNetDriver

LEMMA InitKeys == Init => KeysOfMode
<1> SUFFICES ASSUME Init PROVE KeysOfMode
  OBVIOUS
<1>1. lora = [mode |-> "none", keys |-> [m \in Mode |-> <<NoText, NoText, NoText>>]]
  BY DEF Init, InfoInit
<1>2. <<NoText, NoText, NoText>> \in Keys
  BY DEF Keys
<1>3. [m \in Mode |-> <<NoText, NoText, NoText>>] \in [Mode -> Keys]
  BY <1>2
<1> QED BY <1>1, <1>3 DEF KeysOfMode, Mode

\* For all texts and keys, the keys that a driver reads are the three that were
\* registered last, of whichever mode (iw_get_lora_info).
THEOREM LoraKeysStayTogether == Spec => []LoraKeysTogether
<1>1. KeysOfMode => LoraKeysTogether
  BY DEF KeysOfMode, LoraKeysTogether, iw_get_lora_info
<1> QED BY <1>1, InitKeys, NextKeys, PTL DEF Spec
=============================================================================
