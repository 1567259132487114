----------------------------- MODULE LwMsgCore ------------------------------
(***************************************************************************)
(* The light-weight message path of a device                               *)
(* (IotwareFW/Microservice/SIFW/iw_fw_lwMsgCore.c): the task that sorts    *)
(* what arrives (iw_fw_lwMsgRx), the task that sends and retransmits       *)
(* (iw_fw_lwMsgTx), the queues between them and the distribution task, and *)
(* the registration dialogue they carry out when the device starts.        *)
(*                                                                         *)
(* The Wi-Fi task, the network and the server are not part of the          *)
(* repository.  They are modelled from what the two tasks expect of them:  *)
(* messages in the air can be lost, delayed, reordered and, when           *)
(* MayDuplicate, delivered more than once.                                 *)
(*                                                                         *)
(* A message keeps the header entries the code looks at.  "dri" is the     *)
(* identifier a response repeats from its request; "rsc" is present in     *)
(* responses only.  "400" stands for every response code other than 200.   *)
(***************************************************************************)
EXTENDS Naturals, Sequences, FiniteSets

CONSTANTS
  RETRANSMISSION_COUNT, \* times a request other than the registration is sent
  ResponsePolls,        \* RESONSE_WAIT_TIME / 100: polls of the response queue per attempt
  DriLimit,             \* largest dri before lwmsg_tx_dri restarts at 1
  QueueLength,          \* mainQUEUE_LENGTH: send, receive and response queues
  NetworkQueueLength,   \* length of xNetworkTx and xNetworkRx
  AirLimit,             \* bound: messages in the air at once
  ReportLimit,          \* bound: output reports the application makes
  ServerDris,           \* dris the server uses in its own requests
  ServerCodes,          \* codes with which the server answers
  MayFail,              \* TRUE when allocations may fail and input may not parse
  MayDuplicate,         \* TRUE when the network may deliver a message again
  NoMsg                 \* not a message

ASSUME ConstantsAssumption ==
  /\ RETRANSMISSION_COUNT \in Nat \ {0}
  /\ ResponsePolls \in Nat \ {0}
  /\ DriLimit \in Nat /\ DriLimit > 2
  /\ QueueLength \in Nat \ {0}
  /\ NetworkQueueLength \in Nat \ {0}
  /\ AirLimit \in Nat \ {0}
  /\ ReportLimit \in Nat
  /\ ServerDris \subseteq 1 .. DriLimit
  /\ ServerCodes \subseteq {"200", "400"}
  /\ MayFail \in BOOLEAN
  /\ MayDuplicate \in BOOLEAN

VARIABLES
  booted,        \* start_apps has requested the registration
  enabled,       \* network_enabled
  reports,       \* output reports made so far
  lwmsg_tx_dri,  \* the next dri
  registered,    \* _device_registered
  sendQueue,     \* lwmsg_send_queue
  recvQueue,     \* lwmsg_receive_queue
  rXrespMsg,     \* responses handed from the Rx to the Tx task
  xNetworkTx,    \* from the Tx task to the Wi-Fi task
  xNetworkRx,    \* from the Wi-Fi task to the Rx task
  txPc,          \* where the Tx task is
  txMsg,         \* xReceivedStructure: the message the Tx task is sending
  attempt,       \* i: how often the request has been tried
  waited,        \* some / 100: polls since the request was last sent
  distMsg,       \* the request the distribution task is executing
  air,           \* messages in the network
  granted        \* history: device requests the server has answered with 200

deviceVars == <<booted, reports, enabled, lwmsg_tx_dri, registered>>
txVars     == <<txPc, txMsg, attempt, waited>>
queueVars  == <<sendQueue, recvQueue, rXrespMsg, xNetworkTx, xNetworkRx>>
serverVars == <<air, granted>>
vars       == <<deviceVars, txVars, queueVars, distMsg, serverVars>>

-----------------------------------------------------------------------------
DEV_REG        == 1    \* eLWM_IF_DEV_REG
MS_INFO_REPORT == 2    \* eLWM_IF_DEV_MS_INFO_REPORT
OUTPUT_REPORT  == 14   \* eLWM_IF_MS_OUTPUT_REPORT
MS_RUN         == 11   \* eLWM_IF_MS_RUN, for every interface the server may call
NO_IF          == 0    \* a response has no interface id

Dris == 1 .. DriLimit

Message == [to  : {"server", "device"},
            if  : {NO_IF, DEV_REG, MS_INFO_REPORT, MS_RUN, OUTPUT_REPORT},
            dri : Dris,
            rsc : {"none", "200", "400"}]

ASSUME NoMsgAssumption == NoMsg \notin Message

DeviceRequest(if, dri) == [to |-> "server", if |-> if, dri |-> dri, rsc |-> "none"]
ServerRequest(dri)     == [to |-> "device", if |-> MS_RUN, dri |-> dri, rsc |-> "none"]
Response(to, dri, rsc) == [to |-> to, if |-> NO_IF, dri |-> dri, rsc |-> rsc]

IsResponse(m) == m.rsc # "none"

\* Does rsp answer req with success?  The strcmp tests of iw_fw_lwMsgTx.
Matches(req, rsp) == rsp.dri = req.dri /\ rsp.rsc = "200"

EndsWait_AnyCode(req, rsp) ==    \* mutant: the response code is not looked at
  IF req.if = DEV_REG THEN rsp.dri = req.dri ELSE TRUE

\* Does rsp end the wait for an answer to req (is_break)?  The registration
\* waits for its own answer; any other request also stops at a 200 that
\* answers something else ("error unknown response").
EndsWait(req, rsp) ==
  IF req.if = DEV_REG THEN Matches(req, rsp) ELSE rsp.rsc = "200"

\* get_lwm_tx_dri hands out lwmsg_tx_dri and moves on to this one.
NextDri == IF lwmsg_tx_dri + 1 > DriLimit THEN 1 ELSE lwmsg_tx_dri + 1

\* send_queue with no waiting time: a full queue refuses the message.
HasRoom(q, length) == Len(q) < length
Offered_Unbounded(q, length, m) == Append(q, m)    \* mutant: the queue is never full
Offered(q, length, m) == IF HasRoom(q, length) THEN Append(q, m) ELSE q

\* The outcomes of an operation that allocates.
Succeeds == IF MayFail THEN BOOLEAN ELSE {TRUE}

\* The Tx task is done with its message.
TxReturnsToIdle ==
  /\ txPc' = "idle"
  /\ txMsg' = NoMsg
  /\ attempt' = 0
  /\ waited' = 0

-----------------------------------------------------------------------------
Init ==
  /\ booted = FALSE
  /\ reports = 0
  /\ enabled = FALSE
  /\ lwmsg_tx_dri = 1
  /\ registered = FALSE
  /\ sendQueue = <<>>
  /\ recvQueue = <<>>
  /\ rXrespMsg = <<>>
  /\ xNetworkTx = <<>>
  /\ xNetworkRx = <<>>
  /\ txPc = "start"
  /\ txMsg = NoMsg
  /\ attempt = 0
  /\ waited = 0
  /\ distMsg = NoMsg
  /\ air = {}
  /\ granted = {}

-----------------------------------------------------------------------------
(* The application: start_apps, and the tasks of a running microservice.   *)

\* The tail of start_apps: ask for registration, unless the message could
\* not be built.  The tasks of the device are already running.
StartApps ==
  /\ ~booted
  /\ booted' = TRUE
  /\ lwmsg_tx_dri' = NextDri
  /\ \E built \in Succeeds :
       sendQueue' = IF built
                    THEN Offered(sendQueue, QueueLength, DeviceRequest(DEV_REG, lwmsg_tx_dri))
                    ELSE sendQueue
  /\ UNCHANGED <<reports, enabled, registered, recvQueue, rXrespMsg, xNetworkTx, xNetworkRx,
                 txVars, distMsg, serverVars>>

\* A task of a microservice reports an output value.  Such tasks run only
\* after the server has asked for it, so only on a registered device.
Report ==
  /\ registered
  /\ reports < ReportLimit
  /\ reports' = reports + 1
  /\ lwmsg_tx_dri' = NextDri
  /\ sendQueue' = Offered(sendQueue, QueueLength, DeviceRequest(OUTPUT_REPORT, lwmsg_tx_dri))
  /\ UNCHANGED <<booted, enabled, registered, recvQueue, rXrespMsg, xNetworkTx, xNetworkRx,
                 txVars, distMsg, serverVars>>

\* set_lwmsg_network_enabled, called by the Wi-Fi task.
SetNetworkEnabled ==
  /\ enabled' \in BOOLEAN
  /\ enabled' # enabled
  /\ UNCHANGED <<booted, reports, lwmsg_tx_dri, registered, txVars, queueVars, distMsg, serverVars>>

-----------------------------------------------------------------------------
(* The Tx task: iw_fw_lwMsgTx.                                             *)

\* Create the response queue; until then responses have nowhere to go.
TxStart ==
  /\ txPc = "start"
  /\ txPc' = "idle"
  /\ UNCHANGED <<deviceVars, txMsg, attempt, waited, queueVars, distMsg, serverVars>>

\* The network is enabled: wait in recv_queue for the next message, for as
\* long as it takes and whatever becomes of the network meanwhile.
TxCheckNetwork ==
  /\ txPc = "idle"
  /\ enabled
  /\ txPc' = "receive"
  /\ UNCHANGED <<deviceVars, txMsg, attempt, waited, queueVars, distMsg, serverVars>>

\* The next message.  One that cannot be serialized is dropped.
TxReceive ==
  /\ txPc = "receive"
  /\ sendQueue # <<>>
  /\ sendQueue' = Tail(sendQueue)
  /\ \E serialized \in Succeeds :
       IF serialized
       THEN /\ txPc' = IF IsResponse(Head(sendQueue)) THEN "respond" ELSE "send"
            /\ txMsg' = Head(sendQueue)
            /\ UNCHANGED <<attempt, waited>>
       ELSE TxReturnsToIdle
  /\ UNCHANGED <<deviceVars, recvQueue, rXrespMsg, xNetworkTx, xNetworkRx, distMsg, serverVars>>

NextAttempt_Limited ==    \* mutant: the registration is given up like any request
  IF attempt + 1 < RETRANSMISSION_COUNT
  THEN /\ txPc' = "send"
       /\ attempt' = attempt + 1
       /\ waited' = 0
       /\ UNCHANGED txMsg
  ELSE TxReturnsToIdle

NextAttempt_Unlimited ==    \* mutant: i is not incremented
  /\ txPc' = "send"
  /\ waited' = 0
  /\ UNCHANGED <<attempt, txMsg>>

\* One more attempt is over: i++, and the loop ends when the request is not
\* the registration and has been tried often enough.  The count of the
\* registration, which the loop test ignores, is kept at its bound.
NextAttempt ==
  IF attempt + 1 < RETRANSMISSION_COUNT \/ txMsg.if = DEV_REG
  THEN /\ txPc' = "send"
       /\ attempt' = IF attempt + 1 < RETRANSMISSION_COUNT THEN attempt + 1 ELSE attempt
       /\ waited' = 0
       /\ UNCHANGED txMsg
  ELSE TxReturnsToIdle

\* Put the request on xNetworkTx and start waiting.  A queue that stays full
\* for 100 ms costs the attempt.
TxSendRequest ==
  /\ txPc = "send"
  /\ IF HasRoom(xNetworkTx, NetworkQueueLength)
     THEN /\ xNetworkTx' = Append(xNetworkTx, txMsg)
          /\ txPc' = "wait"
          /\ waited' = 0
          /\ UNCHANGED <<txMsg, attempt>>
     ELSE /\ NextAttempt
          /\ UNCHANGED xNetworkTx
  /\ UNCHANGED <<deviceVars, sendQueue, recvQueue, rXrespMsg, xNetworkRx, distMsg, serverVars>>

\* One poll of the response queue that finds nothing.
TxPollEmpty ==
  /\ txPc = "wait"
  /\ waited < ResponsePolls
  /\ rXrespMsg = <<>>
  /\ waited' = waited + 1
  /\ UNCHANGED <<deviceVars, txPc, txMsg, attempt, queueVars, distMsg, serverVars>>

\* One poll that finds a response which does not end the wait: an error, or
\* for the registration the answer to something else.
TxPollOther ==
  /\ txPc = "wait"
  /\ waited < ResponsePolls
  /\ rXrespMsg # <<>>
  /\ ~EndsWait(txMsg, Head(rXrespMsg))
  /\ rXrespMsg' = Tail(rXrespMsg)
  /\ waited' = waited + 1
  /\ UNCHANGED <<deviceVars, txPc, txMsg, attempt, sendQueue, recvQueue, xNetworkTx, xNetworkRx,
                 distMsg, serverVars>>

Registers_AnyAnswer(req, rsp) ==    \* mutant: the dri of the answer is not compared
  req.if = MS_INFO_REPORT /\ rsp.rsc = "200"

\* What the answer to the registration and to the microservice report do:
\* the first queues the report, unless it cannot be built, on the queue the
\* Tx task itself reads; the second marks the device registered.
Registers(req, rsp) == req.if = MS_INFO_REPORT /\ Matches(req, rsp)

TxPollEnding ==
  /\ txPc = "wait"
  /\ waited < ResponsePolls
  /\ rXrespMsg # <<>>
  /\ EndsWait(txMsg, Head(rXrespMsg))
  /\ rXrespMsg' = Tail(rXrespMsg)
  /\ IF txMsg.if = DEV_REG
     THEN /\ lwmsg_tx_dri' = NextDri
          /\ \E built \in Succeeds :
               sendQueue' = IF built
                            THEN Offered(sendQueue, QueueLength,
                                         DeviceRequest(MS_INFO_REPORT, lwmsg_tx_dri))
                            ELSE sendQueue
     ELSE UNCHANGED <<lwmsg_tx_dri, sendQueue>>
  /\ registered' = (registered \/ Registers(txMsg, Head(rXrespMsg)))
  /\ TxReturnsToIdle
  /\ UNCHANGED <<booted, reports, enabled, recvQueue, xNetworkTx, xNetworkRx, distMsg, serverVars>>

\* The last poll brought no end: try again or give up.
TxTimeout ==
  /\ txPc = "wait"
  /\ waited = ResponsePolls
  /\ NextAttempt
  /\ UNCHANGED <<deviceVars, queueVars, distMsg, serverVars>>

\* A response is sent once; when xNetworkTx stays full it is lost.
TxSendResponse ==
  /\ txPc = "respond"
  /\ xNetworkTx' = Offered(xNetworkTx, NetworkQueueLength, txMsg)
  /\ TxReturnsToIdle
  /\ UNCHANGED <<deviceVars, sendQueue, recvQueue, rXrespMsg, xNetworkRx, distMsg, serverVars>>

-----------------------------------------------------------------------------
(* The Rx task: iw_fw_lwMsgRx, one iteration of its loop.                  *)

RxReceive_Unregistered ==    \* mutant: requests are accepted before the registration
  /\ xNetworkRx # <<>>
  /\ xNetworkRx' = Tail(xNetworkRx)
  /\ LET m == Head(xNetworkRx)
     IN IF IsResponse(m)
        THEN /\ rXrespMsg' = Offered(rXrespMsg, QueueLength, m)
             /\ UNCHANGED recvQueue
        ELSE /\ recvQueue' = Offered(recvQueue, QueueLength, m)
             /\ UNCHANGED rXrespMsg
  /\ UNCHANGED <<deviceVars, txVars, sendQueue, xNetworkTx, distMsg, serverVars>>

\* A response goes to the Tx task, if its queue exists and has room; a
\* request goes to the distribution task, if the device is registered and
\* the queue has room; whatever cannot be parsed is dropped.
RxReceive ==
  /\ xNetworkRx # <<>>
  /\ xNetworkRx' = Tail(xNetworkRx)
  /\ LET m == Head(xNetworkRx)
     IN \E parsed \in Succeeds :
          /\ rXrespMsg' = IF parsed /\ IsResponse(m) /\ txPc # "start"
                          THEN Offered(rXrespMsg, QueueLength, m)
                          ELSE rXrespMsg
          /\ recvQueue' = IF parsed /\ ~IsResponse(m) /\ registered
                          THEN Offered(recvQueue, QueueLength, m)
                          ELSE recvQueue
  /\ UNCHANGED <<deviceVars, txVars, sendQueue, xNetworkTx, distMsg, serverVars>>

-----------------------------------------------------------------------------
(* The distribution task: lwmsg_dist_task takes a request, executes it and *)
(* queues the response, if there is one: a request to read an output that  *)
(* has no value yet is not answered.  What the task executes is the        *)
(* subject of other modules.                                               *)

DistReceive ==
  /\ distMsg = NoMsg
  /\ recvQueue # <<>>
  /\ distMsg' = Head(recvQueue)
  /\ recvQueue' = Tail(recvQueue)
  /\ UNCHANGED <<deviceVars, txVars, sendQueue, rXrespMsg, xNetworkTx, xNetworkRx, serverVars>>

DistRespond ==
  /\ distMsg # NoMsg
  /\ distMsg' = NoMsg
  /\ \E answered \in BOOLEAN :
       sendQueue' = IF answered
                    THEN Offered(sendQueue, QueueLength, Response("server", distMsg.dri, "200"))
                    ELSE sendQueue
  /\ UNCHANGED <<deviceVars, txVars, recvQueue, rXrespMsg, xNetworkTx, xNetworkRx, serverVars>>

-----------------------------------------------------------------------------
(* Outside the repository: the Wi-Fi task, the network and the server.     *)

\* A message leaves the air, or stays to be delivered again.
Departs(m) == \E stays \in IF MayDuplicate THEN BOOLEAN ELSE {FALSE} :
                 air' = IF stays THEN air ELSE air \ {m}

WifiSend ==
  /\ xNetworkTx # <<>>
  /\ Cardinality(air) < AirLimit
  /\ xNetworkTx' = Tail(xNetworkTx)
  /\ air' = air \cup {Head(xNetworkTx)}
  /\ UNCHANGED <<deviceVars, txVars, sendQueue, recvQueue, rXrespMsg, xNetworkRx, distMsg, granted>>

WifiReceive(m) ==
  /\ m \in air
  /\ m.to = "device"
  /\ HasRoom(xNetworkRx, NetworkQueueLength)
  /\ xNetworkRx' = Append(xNetworkRx, m)
  /\ Departs(m)
  /\ UNCHANGED <<deviceVars, txVars, sendQueue, recvQueue, rXrespMsg, xNetworkTx, distMsg, granted>>

Lose(m) ==
  /\ m \in air
  /\ air' = air \ {m}
  /\ UNCHANGED <<deviceVars, txVars, queueVars, distMsg, granted>>

\* The server answers a request of the device; when the network duplicates,
\* the request may still reach it again.
ServerAnswer(m, rsc) ==
  /\ m \in air
  /\ m.to = "server"
  /\ ~IsResponse(m)
  /\ \E stays \in IF MayDuplicate /\ Cardinality(air) < AirLimit THEN BOOLEAN ELSE {FALSE} :
       air' = (IF stays THEN air ELSE air \ {m}) \cup {Response("device", m.dri, rsc)}
  /\ granted' = IF rsc = "200" THEN granted \cup {m} ELSE granted
  /\ UNCHANGED <<deviceVars, txVars, queueVars, distMsg>>

ServerSendRequest(dri) ==
  /\ Cardinality(air) < AirLimit
  /\ air' = air \cup {ServerRequest(dri)}
  /\ UNCHANGED <<deviceVars, txVars, queueVars, distMsg, granted>>

-----------------------------------------------------------------------------
Application == StartApps \/ Report \/ SetNetworkEnabled

TxWork ==
  \/ TxStart
  \/ TxReceive
  \/ TxSendRequest
  \/ TxPollEmpty
  \/ TxPollOther
  \/ TxPollEnding
  \/ TxTimeout
  \/ TxSendResponse

TxTask == TxCheckNetwork \/ TxWork

DistTask == DistReceive \/ DistRespond

Environment ==
  \/ WifiSend
  \/ \E m \in air : WifiReceive(m) \/ Lose(m) \/ \E rsc \in ServerCodes : ServerAnswer(m, rsc)
  \/ \E dri \in ServerDris : ServerSendRequest(dri)

Next == Application \/ TxTask \/ RxReceive \/ DistTask \/ Environment

Spec == Init /\ [][Next]_vars

-----------------------------------------------------------------------------
Contents(q) == {q[i] : i \in 1 .. Len(q)}

\* The device still holds its request on interface if.
Pending(if) == \E m \in Contents(sendQueue) \cup {txMsg} : m # NoMsg /\ m.if = if

TypeOK ==
  /\ booted \in BOOLEAN
  /\ reports \in 0 .. ReportLimit
  /\ enabled \in BOOLEAN
  /\ lwmsg_tx_dri \in Dris
  /\ registered \in BOOLEAN
  /\ sendQueue \in Seq(Message) /\ Len(sendQueue) <= QueueLength
  /\ recvQueue \in Seq(Message) /\ Len(recvQueue) <= QueueLength
  /\ rXrespMsg \in Seq(Message) /\ Len(rXrespMsg) <= QueueLength
  /\ xNetworkTx \in Seq(Message) /\ Len(xNetworkTx) <= NetworkQueueLength
  /\ xNetworkRx \in Seq(Message) /\ Len(xNetworkRx) <= NetworkQueueLength
  /\ txPc \in {"start", "idle", "receive", "send", "wait", "respond"}
  /\ txMsg \in Message \cup {NoMsg}
  /\ (txMsg = NoMsg) <=> (txPc \in {"start", "idle", "receive"})
  /\ attempt \in 0 .. RETRANSMISSION_COUNT - 1
  /\ waited \in 0 .. ResponsePolls
  /\ distMsg \in Message \cup {NoMsg}
  /\ air \subseteq Message
  /\ granted \subseteq Message

\* A device that takes itself for registered has had its microservice report
\* (interface 2) accepted: no lost, late or repeated answer to another
\* request sets _device_registered.
RegisteredMeansAccepted ==
  registered => \E m \in granted : m.if = MS_INFO_REPORT

\* While the Tx task deals with the registration (interface 1), whose answer
\* makes it walk the microservices and queue the report, no request of the
\* server is waiting or being executed, so the list of microservices is not
\* shared; and the send queue is empty, so the report is never refused.
RegistrationRunsAlone ==
  (txMsg # NoMsg /\ txMsg.if = DEV_REG) =>
    /\ recvQueue = <<>> /\ distMsg = NoMsg
    /\ sendQueue = <<>>

\* The registration dialogue as its abstract promise.
phase ==
  IF registered THEN "registered"
  ELSE IF Pending(MS_INFO_REPORT) THEN "informing"
  ELSE IF Pending(DEV_REG) \/ ~booted THEN "unregistered"
  ELSE "abandoned"

Dialogue == INSTANCE Registration WITH
  accepted <- {m.if : m \in granted} \cap {DEV_REG, MS_INFO_REPORT},
  serving  <- recvQueue # <<>> \/ distMsg # NoMsg

\* Whatever the network does, the device goes through the registration
\* phases in order, each on the server's answer to that very step, serves
\* requests only at the end, and never starts over.
ImplementsRegistration == Dialogue!Spec

\* The comment of iw_fw_lwMsgTx (iw_fw_lwMsgCore.c:82-83): after a send the
\* task waits for the response, and sends again when none comes.  So it
\* leaves a request unanswered only after the last attempt.
SendsUntilAnswered ==
  [][ txPc = "wait" /\ txPc' = "idle" =>
        \/ rXrespMsg # <<>> /\ Matches(txMsg, Head(rXrespMsg))
        \/ attempt + 1 = RETRANSMISSION_COUNT ]_vars

-----------------------------------------------------------------------------
(* Fairness: the tasks of the device run, the Wi-Fi task sends, nothing    *)
(* stays in the air for ever, and the link is enabled again and again.     *)
Fairness ==
  /\ WF_vars(StartApps)
  /\ WF_vars(~enabled /\ SetNetworkEnabled)
  /\ SF_vars(TxCheckNetwork)
  /\ WF_vars(TxWork)
  /\ WF_vars(RxReceive)
  /\ WF_vars(DistTask)
  /\ WF_vars(WifiSend)
  /\ WF_vars(\E m \in air : WifiReceive(m) \/ Lose(m))

\* The link is lossy but fair: when the registration is sent without end, the
\* answer to it arrives without end.
SendsRegistration == WifiSend /\ Head(xNetworkTx).if = DEV_REG
GetsAnswer(dri)   == WifiReceive(Response("device", dri, "200"))
FairLink == []<><<SendsRegistration>>_vars => []<><<GetsAnswer(1)>>_vars

FairSpec == Spec /\ Fairness

\* The registration message is repeated without limit until it is answered
\* (iw_fw_lwMsgCore.c:84 and the loop test at 127): on a fair link the
\* dialogue gets past interface 1, however many copies and answers are lost.
EventuallyIdentified == FairLink => <>Pending(MS_INFO_REPORT)

\* Every other request leaves the Tx task, answered or given up, so a silent
\* server cannot keep the device from sending.
RequestsEnd ==
  (txPc = "send" /\ txMsg # NoMsg /\ txMsg.if # DEV_REG) ~> (txPc = "idle")
=============================================================================
