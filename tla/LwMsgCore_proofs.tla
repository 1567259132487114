-------------------------- MODULE LwMsgCore_proofs --------------------------
(***************************************************************************)
(* Proofs about LwMsgCore for every value of its constants: any queue      *)
(* lengths, any number of retransmissions, any dri range, any behaviour of *)
(* the network and the server.                                             *)
(***************************************************************************)
EXTENDS LwMsgCore, SequenceTheorems, TLAPS

-----------------------------------------------------------------------------
(* What the queue operations preserve.                                     *)

\* send_queue keeps the element type and the length of a queue.
LEMMA OfferedKeeps ==
  ASSUME NEW S, NEW q \in Seq(S), NEW n \in Nat, Len(q) <= n, NEW m \in S
  PROVE  Offered(q, n, m) \in Seq(S) /\ Len(Offered(q, n, m)) <= n
BY AppendProperties, LenProperties DEF Offered, HasRoom

LEMMA AppendKeeps ==
  ASSUME NEW S, NEW q \in Seq(S), NEW n \in Nat, HasRoom(q, n), NEW m \in S
  PROVE  Append(q, m) \in Seq(S) /\ Len(Append(q, m)) <= n
BY AppendProperties, LenProperties DEF HasRoom

\* recv_queue keeps them, too.
LEMMA TailKeeps ==
  ASSUME NEW S, NEW q \in Seq(S), NEW n \in Nat, Len(q) <= n, q # <<>>
  PROVE  Head(q) \in S /\ Tail(q) \in Seq(S) /\ Len(Tail(q)) <= n
BY HeadTailProperties, LenProperties

\* Every message the tasks and the server build is a message.
LEMMA MessagesBuilt ==
  ASSUME NEW dri \in Dris
  PROVE  /\ \A if \in {DEV_REG, MS_INFO_REPORT, OUTPUT_REPORT} : DeviceRequest(if, dri) \in Message
         /\ ServerRequest(dri) \in Message
         /\ \A to \in {"server", "device"}, rsc \in {"200", "400"} : Response(to, dri, rsc) \in Message
BY DEF DeviceRequest, ServerRequest, Response, Message

\* get_lwm_tx_dri stays in range.
LEMMA NextDriInRange ==
  ASSUME lwmsg_tx_dri \in Dris
  PROVE  NextDri \in Dris
BY ConstantsAssumption DEF Dris, NextDri

-----------------------------------------------------------------------------
(* Type correctness.                                                       *)

LEMMA InitTypeOK == Init => TypeOK
<1>1. <<>> \in Seq(Message) /\ Len(<<>>) = 0
  BY EmptySeq
<1>2. 1 \in Dris
  BY ConstantsAssumption DEF Dris
<1>3. 0 \in 0 .. ReportLimit /\ 0 \in 0 .. RETRANSMISSION_COUNT - 1 /\ 0 \in 0 .. ResponsePolls
  BY ConstantsAssumption
<1>4. 0 <= QueueLength /\ 0 <= NetworkQueueLength
  BY ConstantsAssumption
<1> SUFFICES ASSUME Init PROVE TypeOK
  OBVIOUS
<1> QED
  BY <1>1, <1>2, <1>3, <1>4 DEF Init, TypeOK

LEMMA NextTypeOK == TypeOK /\ [Next]_vars => TypeOK'
<1> SUFFICES ASSUME TypeOK, [Next]_vars PROVE TypeOK'
  OBVIOUS
<1> USE ConstantsAssumption, NoMsgAssumption
<1>1. CASE StartApps
  <2>1. DeviceRequest(DEV_REG, lwmsg_tx_dri) \in Message
    BY MessagesBuilt DEF TypeOK
  <2>2. sendQueue' \in Seq(Message) /\ Len(sendQueue') <= QueueLength
    BY <1>1, <2>1, OfferedKeeps DEF StartApps, TypeOK
  <2> QED
    BY <1>1, <2>2, NextDriInRange DEF StartApps, TypeOK, txVars, serverVars
<1>2. CASE Report
  <2>1. DeviceRequest(OUTPUT_REPORT, lwmsg_tx_dri) \in Message
    BY MessagesBuilt DEF TypeOK
  <2>2. sendQueue' \in Seq(Message) /\ Len(sendQueue') <= QueueLength
    BY <1>2, <2>1, OfferedKeeps DEF Report, TypeOK
  <2> QED
    BY <1>2, <2>2, NextDriInRange DEF Report, TypeOK, txVars, serverVars
<1>3. CASE SetNetworkEnabled
  BY <1>3 DEF SetNetworkEnabled, TypeOK, txVars, queueVars, serverVars
<1>4. CASE TxStart
  BY <1>4 DEF TxStart, TypeOK, deviceVars, queueVars, serverVars
<1>5. CASE TxCheckNetwork
  BY <1>5 DEF TxCheckNetwork, TypeOK, deviceVars, queueVars, serverVars
<1>6. CASE TxReceive
  <2>1. /\ Head(sendQueue) \in Message
        /\ sendQueue' \in Seq(Message) /\ Len(sendQueue') <= QueueLength
    BY <1>6, TailKeeps DEF TxReceive, TypeOK
  <2> QED
    BY <1>6, <2>1 DEF TxReceive, TypeOK, TxReturnsToIdle, deviceVars, serverVars
<1>7. CASE TxSendRequest
  <2>1. txMsg \in Message
    BY <1>7 DEF TxSendRequest, TypeOK
  <2>2. xNetworkTx' \in Seq(Message) /\ Len(xNetworkTx') <= NetworkQueueLength
    <3>1. /\ xNetworkTx \in Seq(Message) /\ Len(xNetworkTx) <= NetworkQueueLength
          /\ NetworkQueueLength \in Nat
      BY DEF TypeOK
    <3>2. xNetworkTx' = IF HasRoom(xNetworkTx, NetworkQueueLength)
                        THEN Append(xNetworkTx, txMsg) ELSE xNetworkTx
      BY <1>7 DEF TxSendRequest
    <3> QED
      BY <2>1, <3>1, <3>2, AppendKeeps
  <2> QED
    <3>1. CASE HasRoom(xNetworkTx, NetworkQueueLength)
      BY <1>7, <2>1, <2>2, <3>1 DEF TxSendRequest, TypeOK, deviceVars, serverVars
    <3>2. CASE ~HasRoom(xNetworkTx, NetworkQueueLength)
      BY <1>7, <2>1, <2>2, <3>2
         DEF TxSendRequest, TypeOK, NextAttempt, TxReturnsToIdle, deviceVars, serverVars
    <3> QED
      BY <3>1, <3>2
<1>8. CASE TxPollEmpty
  BY <1>8 DEF TxPollEmpty, TypeOK, deviceVars, queueVars, serverVars
<1>9. CASE TxPollOther
  <2>1. rXrespMsg' \in Seq(Message) /\ Len(rXrespMsg') <= QueueLength
    BY <1>9, TailKeeps DEF TxPollOther, TypeOK
  <2> QED
    BY <1>9, <2>1 DEF TxPollOther, TypeOK, deviceVars, serverVars
<1>10. CASE TxPollEnding
  <2>1. rXrespMsg' \in Seq(Message) /\ Len(rXrespMsg') <= QueueLength
    BY <1>10, TailKeeps DEF TxPollEnding, TypeOK
  <2>2. DeviceRequest(MS_INFO_REPORT, lwmsg_tx_dri) \in Message
    BY MessagesBuilt DEF TypeOK
  <2>3. sendQueue' \in Seq(Message) /\ Len(sendQueue') <= QueueLength
    <3>1. sendQueue' \in {sendQueue, Offered(sendQueue, QueueLength,
                                           DeviceRequest(MS_INFO_REPORT, lwmsg_tx_dri))}
      BY <1>10 DEF TxPollEnding
    <3> QED
      BY <2>2, <3>1, OfferedKeeps DEF TypeOK
  <2>4. lwmsg_tx_dri' \in Dris /\ registered' \in BOOLEAN
    BY <1>10, NextDriInRange DEF TxPollEnding, TypeOK
  <2> QED
    BY <1>10, <2>1, <2>3, <2>4 DEF TxPollEnding, TypeOK, TxReturnsToIdle, serverVars
<1>11. CASE TxTimeout
  BY <1>11 DEF TxTimeout, TypeOK, NextAttempt, TxReturnsToIdle, deviceVars, queueVars, serverVars
<1>12. CASE TxSendResponse
  <2>1. txMsg \in Message
    BY <1>12 DEF TxSendResponse, TypeOK
  <2>2. xNetworkTx' \in Seq(Message) /\ Len(xNetworkTx') <= NetworkQueueLength
    BY <1>12, <2>1, OfferedKeeps DEF TxSendResponse, TypeOK
  <2> QED
    BY <1>12, <2>2 DEF TxSendResponse, TypeOK, TxReturnsToIdle, deviceVars, serverVars
<1>13. CASE RxReceive
  <2>1. /\ Head(xNetworkRx) \in Message
        /\ xNetworkRx' \in Seq(Message) /\ Len(xNetworkRx') <= NetworkQueueLength
    BY <1>13, TailKeeps DEF RxReceive, TypeOK
  <2>2. rXrespMsg' \in Seq(Message) /\ Len(rXrespMsg') <= QueueLength
    <3>1. rXrespMsg' \in {rXrespMsg, Offered(rXrespMsg, QueueLength, Head(xNetworkRx))}
      BY <1>13 DEF RxReceive
    <3> QED
      BY <2>1, <3>1, OfferedKeeps DEF TypeOK
  <2>3. recvQueue' \in Seq(Message) /\ Len(recvQueue') <= QueueLength
    <3>1. recvQueue' \in {recvQueue, Offered(recvQueue, QueueLength, Head(xNetworkRx))}
      BY <1>13 DEF RxReceive
    <3> QED
      BY <2>1, <3>1, OfferedKeeps DEF TypeOK
  <2> QED
    BY <1>13, <2>1, <2>2, <2>3 DEF RxReceive, TypeOK, deviceVars, txVars, serverVars
<1>14. CASE DistReceive
  <2>1. /\ distMsg' \in Message
        /\ recvQueue' \in Seq(Message) /\ Len(recvQueue') <= QueueLength
    BY <1>14, TailKeeps DEF DistReceive, TypeOK
  <2> QED
    BY <1>14, <2>1 DEF DistReceive, TypeOK, deviceVars, txVars, serverVars
<1>15. CASE DistRespond
  <2>1. Response("server", distMsg.dri, "200") \in Message
    <3>1. distMsg.dri \in Dris
      BY <1>15 DEF DistRespond, TypeOK, Message
    <3> QED
      BY <3>1, MessagesBuilt
  <2>2. sendQueue' \in Seq(Message) /\ Len(sendQueue') <= QueueLength
    BY <1>15, <2>1, OfferedKeeps DEF DistRespond, TypeOK
  <2> QED
    BY <1>15, <2>2 DEF DistRespond, TypeOK, deviceVars, txVars, serverVars
<1>16. CASE WifiSend
  <2>1. /\ Head(xNetworkTx) \in Message
        /\ xNetworkTx' \in Seq(Message) /\ Len(xNetworkTx') <= NetworkQueueLength
    BY <1>16, TailKeeps DEF WifiSend, TypeOK
  <2>2. air' \subseteq Message
    BY <1>16, <2>1 DEF WifiSend, TypeOK
  <2> QED
    BY <1>16, <2>1, <2>2 DEF WifiSend, TypeOK, deviceVars, txVars
<1>17. ASSUME NEW m \in air, WifiReceive(m) PROVE TypeOK'
  <2>1. xNetworkRx' \in Seq(Message) /\ Len(xNetworkRx') <= NetworkQueueLength
    BY <1>17, AppendKeeps DEF WifiReceive, TypeOK
  <2>2. air' \subseteq Message
    BY <1>17 DEF WifiReceive, Departs, TypeOK
  <2> QED
    BY <1>17, <2>1, <2>2 DEF WifiReceive, TypeOK, deviceVars, txVars
<1>18. ASSUME NEW m \in air, Lose(m) PROVE TypeOK'
  BY <1>18 DEF Lose, TypeOK, deviceVars, txVars, queueVars
<1>19. ASSUME NEW m \in air, NEW rsc \in ServerCodes, ServerAnswer(m, rsc) PROVE TypeOK'
  <2>1. m \in Message /\ Response("device", m.dri, rsc) \in Message
    <3>1. m \in Message /\ m.dri \in Dris
      BY DEF TypeOK, Message
    <3> QED
      BY <3>1, MessagesBuilt
  <2>2. air' \subseteq Message /\ granted' \subseteq Message
    BY <1>19, <2>1 DEF ServerAnswer, TypeOK
  <2> QED
    BY <1>19, <2>2 DEF ServerAnswer, TypeOK, deviceVars, txVars, queueVars
<1>20. ASSUME NEW dri \in ServerDris, ServerSendRequest(dri) PROVE TypeOK'
  <2>1. ServerRequest(dri) \in Message
    BY MessagesBuilt DEF Dris
  <2>2. air' \subseteq Message
    BY <1>20, <2>1 DEF ServerSendRequest, TypeOK
  <2> QED
    BY <1>20, <2>2 DEF ServerSendRequest, TypeOK, deviceVars, txVars, queueVars
<1>21. CASE UNCHANGED vars
  BY <1>21 DEF vars, deviceVars, txVars, queueVars, serverVars, TypeOK
<1> QED
  BY <1>1, <1>2, <1>3, <1>4, <1>5, <1>6, <1>7, <1>8, <1>9, <1>10, <1>11, <1>12, <1>13, <1>14,
     <1>15, <1>16, <1>17, <1>18, <1>19, <1>20, <1>21
     DEF Next, Application, TxTask, TxWork, DistTask, Environment

\* The queues of the message path never exceed their lengths, hold messages
\* only, and the Tx task has a message exactly when it is sending one
\* (iw_fw_lwMsgRx and iw_fw_lwMsgTx).
THEOREM TypeCorrect == Spec => []TypeOK
<1>1. Init => TypeOK
  BY InitTypeOK
<1>2. TypeOK /\ [Next]_vars => TypeOK'
  BY NextTypeOK
<1> QED
  BY <1>1, <1>2, PTL DEF Spec

-----------------------------------------------------------------------------
(* The registration.  RegisteredMeansAccepted is not inductive: a response *)
(* under way could repeat any dri.  Until the device is registered it has  *)
(* built two requests at most, so these are all the messages there are:    *)

DevReg == DeviceRequest(DEV_REG, 1)
MsInfo == DeviceRequest(MS_INFO_REPORT, 2)

\* The requests the device has sent.
Outbound == IF lwmsg_tx_dri = 3 THEN {DevReg, MsInfo} ELSE {DevReg}

\* What may come in: requests of the server, refusals, and answers to
\* requests the server has granted.
Inbound ==
  {m \in Message :
     /\ m.to = "device"
     /\ m.rsc = "200" => \E g \in granted : g \in {DevReg, MsInfo} /\ g.dri = m.dri}

\* The device holds nothing, or m, in its send queue or in the Tx task.
HoldsNothing  == sendQueue = <<>> /\ txMsg = NoMsg
HoldsOnly(m)  == \/ sendQueue = <<m>> /\ txMsg = NoMsg
                 \/ sendQueue = <<>> /\ txMsg = m

\* How far the dialogue has come; holding nothing is having given up.
Stage ==
  \/ ~booted /\ lwmsg_tx_dri = 1 /\ HoldsNothing
  \/ booted /\ lwmsg_tx_dri = 2 /\ (HoldsNothing \/ HoldsOnly(DevReg))
  \/ booted /\ lwmsg_tx_dri = 3 /\ (HoldsNothing \/ HoldsOnly(MsInfo))

WhileUnregistered ==
  ~registered =>
    /\ recvQueue = <<>> /\ distMsg = NoMsg
    /\ Stage
    /\ xNetworkTx \in Seq(Outbound)
    /\ xNetworkRx \in Seq(Inbound)
    /\ rXrespMsg \in Seq(Inbound)
    /\ air \subseteq Inbound \cup Outbound

OnceRegistered ==
  registered =>
    /\ booted
    /\ \E m \in granted : m.if = MS_INFO_REPORT
    /\ sendQueue \in Seq({m \in Message : m.if # DEV_REG})
    /\ txMsg # NoMsg => txMsg.if # DEV_REG

IInv == TypeOK /\ WhileUnregistered /\ OnceRegistered

\* The two requests, field by field.
LEMMA TwoRequests ==
  /\ DevReg \in Message /\ DevReg.to = "server" /\ DevReg.if = DEV_REG /\ DevReg.dri = 1
  /\ MsInfo \in Message /\ MsInfo.to = "server" /\ MsInfo.if = MS_INFO_REPORT /\ MsInfo.dri = 2
  /\ DevReg # NoMsg /\ MsInfo # NoMsg /\ DevReg # MsInfo
  /\ ~IsResponse(DevReg) /\ ~IsResponse(MsInfo)
  /\ Outbound \subseteq {DevReg, MsInfo}
<1>1. 1 \in Dris /\ 2 \in Dris
  BY ConstantsAssumption DEF Dris
<1>2. DevReg \in Message /\ MsInfo \in Message
  BY <1>1, MessagesBuilt DEF DevReg, MsInfo
<1> QED
  BY <1>2, NoMsgAssumption DEF DevReg, MsInfo, DeviceRequest, IsResponse, Outbound, DEV_REG, MS_INFO_REPORT

\* What Offered does to an empty queue, and recv_queue to a queue of one.
LEMMA QueueOfOne ==
  ASSUME NEW m \in Message
  PROVE  /\ Offered(<<>>, QueueLength, m) = <<m>>
         /\ Head(<<m>>) = m /\ Tail(<<m>>) = <<>> /\ <<m>> # <<>>
BY ConstantsAssumption DEF Offered, HasRoom

LEMMA InitIInv == Init => IInv
<1> SUFFICES ASSUME Init PROVE IInv
  OBVIOUS
<1>1. TypeOK
  BY InitTypeOK
<1>2. WhileUnregistered
  BY EmptySeq DEF Init, WhileUnregistered, Stage, HoldsNothing
<1>3. OnceRegistered
  BY DEF Init, OnceRegistered
<1> QED
  BY <1>1, <1>2, <1>3 DEF IInv

\* Each step keeps what is known of an unregistered device.
LEMMA NextWhileUnregistered == IInv /\ [Next]_vars => WhileUnregistered'
<1> SUFFICES ASSUME IInv, [Next]_vars, ~registered, ~registered' PROVE WhileUnregistered'
  <2>1. ASSUME [Next]_vars, registered, registered \in BOOLEAN PROVE registered'
    BY <2>1 DEF Next, Application, TxTask, TxWork, DistTask, Environment, StartApps, Report,
       SetNetworkEnabled, TxStart, TxCheckNetwork, TxReceive, TxSendRequest, TxPollEmpty, TxPollOther,
       TxPollEnding, TxTimeout, TxSendResponse, RxReceive, DistReceive, DistRespond, WifiSend,
       WifiReceive, Lose, ServerAnswer, ServerSendRequest, vars, deviceVars
  <2> QED
    BY <2>1 DEF IInv, TypeOK, WhileUnregistered
<1>a. /\ TypeOK
      /\ recvQueue = <<>> /\ distMsg = NoMsg
      /\ Stage
      /\ xNetworkTx \in Seq(Outbound)
      /\ xNetworkRx \in Seq(Inbound)
      /\ rXrespMsg \in Seq(Inbound)
      /\ air \subseteq Inbound \cup Outbound
  BY DEF IInv, WhileUnregistered
<1>b. UNCHANGED lwmsg_tx_dri => Outbound' = Outbound
  BY DEF Outbound
<1>c. UNCHANGED granted => Inbound' = Inbound
  BY DEF Inbound
<1>d. (UNCHANGED <<booted, lwmsg_tx_dri, sendQueue, txMsg>>) => Stage'
  BY <1>a DEF Stage, HoldsNothing, HoldsOnly
<1>1. CASE StartApps
  <2>1. /\ ~booted /\ lwmsg_tx_dri = 1 /\ sendQueue = <<>> /\ txMsg = NoMsg
    BY <1>1, <1>a DEF StartApps, Stage, HoldsNothing
  <2>2. booted' /\ lwmsg_tx_dri' = 2 /\ txMsg' = NoMsg
    BY <1>1, <2>1, ConstantsAssumption DEF StartApps, NextDri, txVars
  <2>3. sendQueue' \in {<<>>, <<DevReg>>}
    BY <1>1, <2>1, TwoRequests, QueueOfOne DEF StartApps, DevReg
  <2>4. Stage'
    BY <2>2, <2>3 DEF Stage, HoldsNothing, HoldsOnly
  <2>5. Outbound' = Outbound
    BY <2>1, <2>2 DEF Outbound
  <2> QED
    BY <1>1, <1>a, <1>c, <2>4, <2>5 DEF StartApps, WhileUnregistered, serverVars
<1>2. CASE Report
  BY <1>2 DEF Report
<1>3. CASE SetNetworkEnabled
  BY <1>3, <1>a, <1>b, <1>c, <1>d
     DEF SetNetworkEnabled, WhileUnregistered, txVars, queueVars, serverVars
<1>4. CASE TxStart
  BY <1>4, <1>a, <1>b, <1>c, <1>d DEF TxStart, WhileUnregistered, deviceVars, queueVars, serverVars
<1>5. CASE TxCheckNetwork
  BY <1>5, <1>a, <1>b, <1>c, <1>d DEF TxCheckNetwork, WhileUnregistered, deviceVars, queueVars, serverVars
<1>6. CASE TxReceive
  <2>1. Stage'
    <3>1. txMsg = NoMsg /\ sendQueue # <<>>
      BY <1>6, <1>a DEF TxReceive, TypeOK
    <3>2. PICK m \in {DevReg, MsInfo} : sendQueue = <<m>>
      BY <3>1, <1>a DEF Stage, HoldsNothing, HoldsOnly
    <3>3. sendQueue' = <<>> /\ txMsg' \in {NoMsg, m}
      BY <1>6, <3>2, TwoRequests, QueueOfOne DEF TxReceive, TxReturnsToIdle
    <3> QED
      BY <1>6, <1>a, <3>1, <3>2, <3>3 DEF TxReceive, Stage, HoldsNothing, HoldsOnly, deviceVars
  <2> QED
    BY <1>6, <1>a, <1>b, <1>c, <2>1 DEF TxReceive, WhileUnregistered, deviceVars, serverVars
<1>7. CASE TxSendRequest
  <2>1. txMsg # NoMsg /\ txMsg \in Outbound /\ sendQueue = <<>>
    BY <1>7, <1>a DEF TxSendRequest, TypeOK, Stage, HoldsNothing, HoldsOnly, Outbound
  <2>2. xNetworkTx' \in Seq(Outbound)
    <3>1. xNetworkTx' \in {xNetworkTx, Append(xNetworkTx, txMsg)}
      BY <1>7 DEF TxSendRequest
    <3>2. Append(xNetworkTx, txMsg) \in Seq(Outbound)
      BY <1>a, <2>1, AppendProperties
    <3> QED
      BY <1>a, <3>1, <3>2
  <2>3. Stage'
    <3>1. sendQueue' = <<>> /\ txMsg' \in {txMsg, NoMsg}
      BY <1>7, <2>1 DEF TxSendRequest, NextAttempt, TxReturnsToIdle
    <3> QED
      BY <1>7, <1>a, <2>1, <3>1 DEF TxSendRequest, Stage, HoldsNothing, HoldsOnly, deviceVars
  <2> QED
    BY <1>7, <1>a, <1>b, <1>c, <2>2, <2>3 DEF TxSendRequest, WhileUnregistered, deviceVars, serverVars
<1>8. CASE TxPollEmpty
  BY <1>8, <1>a, <1>b, <1>c, <1>d DEF TxPollEmpty, WhileUnregistered, deviceVars, queueVars, serverVars
<1>9. CASE TxPollOther
  <2>1. rXrespMsg' \in Seq(Inbound)
    BY <1>9, <1>a, HeadTailProperties DEF TxPollOther
  <2> QED
    BY <1>9, <1>a, <1>b, <1>c, <1>d, <2>1 DEF TxPollOther, WhileUnregistered, deviceVars, serverVars
<1>10. CASE TxPollEnding
  <2>1. rXrespMsg' \in Seq(Inbound)
    BY <1>10, <1>a, <1>c, HeadTailProperties DEF TxPollEnding, serverVars
  <2>2. sendQueue = <<>> /\ txMsg' = NoMsg /\ booted
    BY <1>10, <1>a DEF TxPollEnding, TypeOK, Stage, HoldsNothing, HoldsOnly, TxReturnsToIdle
  <2>3. CASE txMsg.if = DEV_REG
    <3>1. lwmsg_tx_dri = 2 /\ lwmsg_tx_dri' = 3
      <4>1. txMsg # NoMsg
        BY <1>10, <1>a DEF TxPollEnding, TypeOK
      <4>2. lwmsg_tx_dri = 2
        BY <4>1, <1>a, <2>2, <2>3, TwoRequests DEF Stage, HoldsNothing, HoldsOnly, DEV_REG, MS_INFO_REPORT
      <4> QED
        BY <4>2, <1>10, <2>3, ConstantsAssumption DEF TxPollEnding, NextDri
    <3>2. sendQueue' \in {<<>>, <<MsInfo>>}
      <4>1. Offered(sendQueue, QueueLength, DeviceRequest(MS_INFO_REPORT, lwmsg_tx_dri)) = <<MsInfo>>
        BY <2>2, <3>1, TwoRequests, QueueOfOne DEF MsInfo
      <4> QED
        BY <1>10, <2>2, <2>3, <4>1 DEF TxPollEnding
    <3>3. Stage'
      BY <1>10, <2>2, <3>1, <3>2 DEF TxPollEnding, Stage, HoldsNothing, HoldsOnly
    <3>4. Outbound \subseteq Outbound'
      BY <3>1 DEF Outbound
    <3>5. xNetworkTx' \in Seq(Outbound')
      BY <1>10, <1>a, <3>4, SeqMonotonic DEF TxPollEnding
    <3> QED
      BY <1>10, <1>a, <1>c, <2>1, <3>3, <3>4, <3>5 DEF TxPollEnding, WhileUnregistered, serverVars
  <2>4. CASE txMsg.if # DEV_REG
    <3>1. Stage'
      BY <1>10, <1>a, <2>2, <2>4 DEF TxPollEnding, Stage, HoldsNothing, HoldsOnly
    <3> QED
      BY <1>10, <1>a, <1>b, <1>c, <2>1, <2>4, <3>1 DEF TxPollEnding, WhileUnregistered, serverVars
  <2> QED
    BY <2>3, <2>4
<1>11. CASE TxTimeout
  <2>1. Stage'
    <3>1. sendQueue = <<>> /\ txMsg # NoMsg
      BY <1>11, <1>a DEF TxTimeout, TypeOK, Stage, HoldsNothing, HoldsOnly
    <3>2. sendQueue' = <<>> /\ txMsg' \in {txMsg, NoMsg}
      BY <1>11, <3>1 DEF TxTimeout, NextAttempt, TxReturnsToIdle, queueVars
    <3> QED
      BY <1>11, <1>a, <3>1, <3>2 DEF TxTimeout, Stage, HoldsNothing, HoldsOnly, deviceVars
  <2> QED
    BY <1>11, <1>a, <1>b, <1>c, <2>1 DEF TxTimeout, WhileUnregistered, deviceVars, queueVars, serverVars
<1>12. CASE TxSendResponse
  <2>1. txMsg # NoMsg /\ txMsg \in Outbound /\ sendQueue = <<>>
    BY <1>12, <1>a DEF TxSendResponse, TypeOK, Stage, HoldsNothing, HoldsOnly, Outbound
  <2>2. xNetworkTx' \in Seq(Outbound)
    BY <1>12, <1>a, <2>1, AppendProperties DEF TxSendResponse, Offered
  <2>3. Stage'
    BY <1>12, <1>a, <2>1 DEF TxSendResponse, TxReturnsToIdle, Stage, HoldsNothing, HoldsOnly, deviceVars
  <2> QED
    BY <1>12, <1>a, <1>b, <1>c, <2>2, <2>3 DEF TxSendResponse, WhileUnregistered, deviceVars, serverVars
<1>13. CASE RxReceive
  <2>1. Head(xNetworkRx) \in Inbound /\ xNetworkRx' \in Seq(Inbound)
    BY <1>13, <1>a, HeadTailProperties DEF RxReceive
  <2>2. rXrespMsg' \in Seq(Inbound)
    <3>1. rXrespMsg' \in {rXrespMsg, Offered(rXrespMsg, QueueLength, Head(xNetworkRx))}
      BY <1>13 DEF RxReceive
    <3>2. Append(rXrespMsg, Head(xNetworkRx)) \in Seq(Inbound)
      BY <1>a, <2>1, AppendProperties
    <3> QED
      BY <1>a, <3>1, <3>2 DEF Offered
  <2>3. recvQueue' = <<>>
    BY <1>13, <1>a DEF RxReceive
  <2> QED
    BY <1>13, <1>a, <1>b, <1>c, <1>d, <2>1, <2>2, <2>3
       DEF RxReceive, WhileUnregistered, deviceVars, txVars, serverVars
<1>14. CASE DistReceive
  BY <1>14, <1>a DEF DistReceive
<1>15. CASE DistRespond
  BY <1>15, <1>a DEF DistRespond
<1>16. CASE WifiSend
  <2>1. Head(xNetworkTx) \in Outbound /\ xNetworkTx' \in Seq(Outbound)
    BY <1>16, <1>a, HeadTailProperties DEF WifiSend
  <2> QED
    BY <1>16, <1>a, <1>b, <1>c, <1>d, <2>1 DEF WifiSend, WhileUnregistered, deviceVars, txVars
<1>17. ASSUME NEW m \in air, WifiReceive(m) PROVE WhileUnregistered'
  <2>1. m \in Inbound
    BY <1>17, <1>a, TwoRequests DEF WifiReceive
  <2>2. xNetworkRx' \in Seq(Inbound)
    BY <1>17, <1>a, <2>1, AppendProperties DEF WifiReceive
  <2>3. air' \subseteq air
    BY <1>17 DEF WifiReceive, Departs
  <2> QED
    BY <1>17, <1>a, <1>b, <1>c, <1>d, <2>2, <2>3 DEF WifiReceive, WhileUnregistered, deviceVars, txVars
<1>18. ASSUME NEW m \in air, Lose(m) PROVE WhileUnregistered'
  BY <1>18, <1>a, <1>b, <1>c, <1>d DEF Lose, WhileUnregistered, deviceVars, txVars, queueVars
<1>19. ASSUME NEW m \in air, NEW rsc \in ServerCodes, ServerAnswer(m, rsc) PROVE WhileUnregistered'
  <2>1. m \in {DevReg, MsInfo} /\ m \in Outbound
    BY <1>19, <1>a, TwoRequests DEF ServerAnswer, Inbound
  <2>2. granted \subseteq granted' /\ (rsc = "200" => m \in granted')
    BY <1>19 DEF ServerAnswer
  <2>3. Inbound \subseteq Inbound'
    BY <2>2 DEF Inbound
  <2>4. Response("device", m.dri, rsc) \in Inbound'
    <3>1. Response("device", m.dri, rsc) \in Message
      BY <2>1, TwoRequests, MessagesBuilt, ConstantsAssumption DEF Message
    <3>2. /\ Response("device", m.dri, rsc).to = "device"
          /\ Response("device", m.dri, rsc).dri = m.dri
          /\ Response("device", m.dri, rsc).rsc = rsc
      BY DEF Response
    <3> QED
      BY <2>1, <2>2, <3>1, <3>2 DEF Inbound
  <2>5. air' \subseteq air \cup {Response("device", m.dri, rsc)}
    BY <1>19 DEF ServerAnswer
  <2>6. /\ xNetworkRx' \in Seq(Inbound')
        /\ rXrespMsg' \in Seq(Inbound')
    BY <1>19, <1>a, <2>3, SeqMonotonic DEF ServerAnswer, queueVars
  <2> QED
    BY <1>19, <1>a, <1>b, <1>d, <2>3, <2>4, <2>5, <2>6
       DEF ServerAnswer, WhileUnregistered, deviceVars, txVars, queueVars
<1>20. ASSUME NEW dri \in ServerDris, ServerSendRequest(dri) PROVE WhileUnregistered'
  <2>1. ServerRequest(dri) \in Inbound
    <3>1. ServerRequest(dri) \in Message
      BY ConstantsAssumption, MessagesBuilt DEF Dris
    <3> QED
      BY <3>1 DEF Inbound, ServerRequest
  <2> QED
    BY <1>20, <1>a, <1>b, <1>c, <1>d, <2>1
       DEF ServerSendRequest, WhileUnregistered, deviceVars, txVars, queueVars
<1>21. CASE UNCHANGED vars
  BY <1>21, <1>a, <1>b, <1>c, <1>d
     DEF vars, deviceVars, txVars, queueVars, serverVars, WhileUnregistered
<1> QED
  BY <1>1, <1>2, <1>3, <1>4, <1>5, <1>6, <1>7, <1>8, <1>9, <1>10, <1>11, <1>12, <1>13, <1>14,
     <1>15, <1>16, <1>17, <1>18, <1>19, <1>20, <1>21
     DEF Next, Application, TxTask, TxWork, DistTask, Environment

\* Each step keeps what is known of a registered device, and the step that
\* registers it establishes it.
LEMMA NextOnceRegistered == IInv /\ [Next]_vars => OnceRegistered'
<1> SUFFICES ASSUME IInv, [Next]_vars, registered' PROVE OnceRegistered'
  BY DEF OnceRegistered
<1> DEFINE Later == {m \in Message : m.if # DEV_REG}
<1>a. TypeOK /\ TypeOK'
  BY NextTypeOK DEF IInv
<1>b. granted \subseteq granted'
  BY DEF Next, Application, TxTask, TxWork, DistTask, Environment, StartApps, Report,
     SetNetworkEnabled, TxStart, TxCheckNetwork, TxReceive, TxSendRequest, TxPollEmpty, TxPollOther,
     TxPollEnding, TxTimeout, TxSendResponse, RxReceive, DistReceive, DistRespond, WifiSend,
     WifiReceive, Lose, ServerAnswer, ServerSendRequest, vars, serverVars
<1>1. CASE registered
  <2>a. /\ booted
        /\ \E m \in granted : m.if = MS_INFO_REPORT
        /\ sendQueue \in Seq(Later)
        /\ txMsg # NoMsg => txMsg.if # DEV_REG
    BY <1>1 DEF IInv, OnceRegistered
  <2>b. \E m \in granted' : m.if = MS_INFO_REPORT
    BY <1>b, <2>a
  <2>c. booted'
    BY <2>a DEF Next, Application, TxTask, TxWork, DistTask, Environment, StartApps, Report,
     SetNetworkEnabled, TxStart, TxCheckNetwork, TxReceive, TxSendRequest, TxPollEmpty, TxPollOther,
     TxPollEnding, TxTimeout, TxSendResponse, RxReceive, DistReceive, DistRespond, WifiSend,
     WifiReceive, Lose, ServerAnswer, ServerSendRequest, vars, deviceVars
  <2>d. (UNCHANGED <<sendQueue, txMsg>>) => OnceRegistered'
    BY <2>a, <2>b, <2>c DEF OnceRegistered
  <2>e. (sendQueue' = sendQueue /\ txMsg' \in {txMsg, NoMsg}) => OnceRegistered'
    BY <2>a, <2>b, <2>c DEF OnceRegistered
  <2>1. CASE Report
    <3>1. DeviceRequest(OUTPUT_REPORT, lwmsg_tx_dri) \in Later
      <4>1. DeviceRequest(OUTPUT_REPORT, lwmsg_tx_dri) \in Message
        BY <1>a, MessagesBuilt DEF TypeOK
      <4>2. DeviceRequest(OUTPUT_REPORT, lwmsg_tx_dri).if # DEV_REG
        BY DEF DeviceRequest, DEV_REG, OUTPUT_REPORT
      <4> QED
        BY <4>1, <4>2
    <3>2. sendQueue' \in Seq(Later)
      BY <2>1, <2>a, <3>1, AppendProperties DEF Report, Offered
    <3> QED
      BY <2>1, <2>a, <2>b, <2>c, <3>2 DEF Report, OnceRegistered, txVars
  <2>2. CASE TxReceive
    <3>1. Head(sendQueue) \in Later /\ sendQueue' \in Seq(Later)
      BY <2>2, <2>a, HeadTailProperties DEF TxReceive
    <3>2. txMsg' \in {Head(sendQueue), NoMsg}
      BY <2>2 DEF TxReceive, TxReturnsToIdle
    <3> QED
      BY <2>b, <2>c, <3>1, <3>2 DEF OnceRegistered
  <2>3. CASE TxPollEnding
    <3>1. txMsg.if # DEV_REG
      BY <2>3, <2>a, <1>a DEF TxPollEnding, TypeOK
    <3> QED
      BY <2>3, <2>e, <3>1 DEF TxPollEnding, TxReturnsToIdle
  <2>4. CASE DistRespond
    <3>1. Response("server", distMsg.dri, "200") \in Later
      <4>1. distMsg.dri \in Dris
        BY <2>4, <1>a DEF DistRespond, TypeOK, Message
      <4>2. Response("server", distMsg.dri, "200") \in Message
        BY <4>1, MessagesBuilt
      <4>3. Response("server", distMsg.dri, "200").if # DEV_REG
        BY DEF Response, NO_IF, DEV_REG
      <4> QED
        BY <4>2, <4>3
    <3>2. sendQueue' \in Seq(Later)
      BY <2>4, <2>a, <3>1, AppendProperties DEF DistRespond, Offered
    <3> QED
      BY <2>4, <2>a, <2>b, <2>c, <3>2 DEF DistRespond, OnceRegistered, txVars
  <2>5. CASE TxSendRequest \/ TxTimeout \/ TxSendResponse
    BY <2>5, <2>e DEF TxSendRequest, TxTimeout, TxSendResponse, NextAttempt, TxReturnsToIdle, queueVars
  <2> QED
    BY <2>a, <2>d, <2>1, <2>2, <2>3, <2>4, <2>5
       DEF Next, Application, TxTask, TxWork, DistTask, Environment, StartApps,
       SetNetworkEnabled, TxStart, TxCheckNetwork, TxPollEmpty, TxPollOther,
       RxReceive, DistReceive, WifiSend,
       WifiReceive, Lose, ServerAnswer, ServerSendRequest, vars, txVars, queueVars
<1>2. CASE ~registered
  <2>1. TxPollEnding
    BY <1>2 DEF Next, Application, TxTask, TxWork, DistTask, Environment, StartApps, Report,
     SetNetworkEnabled, TxStart, TxCheckNetwork, TxReceive, TxSendRequest, TxPollEmpty, TxPollOther,
     TxTimeout, TxSendResponse, RxReceive, DistReceive, DistRespond, WifiSend,
     WifiReceive, Lose, ServerAnswer, ServerSendRequest, vars, deviceVars
  <2>2. txMsg.if = MS_INFO_REPORT /\ Matches(txMsg, Head(rXrespMsg)) /\ txMsg # NoMsg
    BY <1>2, <2>1, <1>a DEF TxPollEnding, Registers, TypeOK
  <2>3. booted /\ sendQueue = <<>> /\ txMsg = MsInfo
    BY <1>2, <2>2, TwoRequests
       DEF IInv, WhileUnregistered, Stage, HoldsNothing, HoldsOnly, DEV_REG, MS_INFO_REPORT
  <2>4. Head(rXrespMsg) \in Inbound
    BY <1>2, <2>1, HeadTailProperties DEF IInv, WhileUnregistered, TxPollEnding
  <2>5. MsInfo \in granted
    BY <2>2, <2>3, <2>4, TwoRequests DEF Inbound, Matches
  <2>6. txMsg' = NoMsg /\ sendQueue' = <<>> /\ booted'
    BY <2>1, <2>2, <2>3 DEF TxPollEnding, TxReturnsToIdle, DEV_REG, MS_INFO_REPORT
  <2> QED
    BY <1>b, <2>5, <2>6, TwoRequests, EmptySeq DEF OnceRegistered
<1> QED
  BY <1>1, <1>2, <1>a DEF TypeOK

\* The strengthening of the registration invariants holds in every state.
THEOREM RegistrationInductive == Spec => []IInv
<1>1. IInv /\ [Next]_vars => IInv'
  BY NextTypeOK, NextWhileUnregistered, NextOnceRegistered DEF IInv
<1> QED
  BY InitIInv, <1>1, PTL DEF Spec

\* A device takes itself for registered only after the server has accepted
\* its microservice report, whatever answers were lost, late or repeated
\* (set_device_is_registered in iw_fw_lwMsgTx).
THEOREM RegisteredOnlyWhenAccepted == Spec => []RegisteredMeansAccepted
<1>1. IInv => RegisteredMeansAccepted
  BY DEF IInv, OnceRegistered, RegisteredMeansAccepted
<1> QED
  BY <1>1, RegistrationInductive, PTL

\* The registration has the device for itself: while its answer is awaited no
\* request of the server waits or is executed (the test of
\* get_device_is_registered in iw_fw_lwMsgRx), and the send queue is empty.
THEOREM RegistrationAlone == Spec => []RegistrationRunsAlone
<1>1. IInv => RegistrationRunsAlone
  BY DEF IInv, TypeOK, OnceRegistered, WhileUnregistered, Stage, HoldsNothing, HoldsOnly,
     RegistrationRunsAlone
<1> QED
  BY <1>1, RegistrationInductive, PTL

-----------------------------------------------------------------------------
(* The refinement: every step of the device, the network and the server is *)
(* a step of Registration or changes nothing of it.                        *)

\* The phase of an unregistered device, from its stage.
PhaseFollowsStage ==
  ~registered =>
    /\ ~booted /\ HoldsNothing => phase = "unregistered"
    /\ HoldsOnly(DevReg) => phase = "unregistered"
    /\ booted /\ HoldsNothing => phase = "abandoned"
    /\ HoldsOnly(MsInfo) => phase = "informing"

LEMMA PhaseOfStage == PhaseFollowsStage
<1>1. HoldsNothing => ~Pending(DEV_REG) /\ ~Pending(MS_INFO_REPORT)
  BY DEF HoldsNothing, Pending, Contents
<1>2. HoldsOnly(DevReg) => Pending(DEV_REG) /\ ~Pending(MS_INFO_REPORT)
  <2>1. Contents(<<>>) = {} /\ Contents(<<DevReg>>) = {DevReg}
    BY DEF Contents
  <2> QED
    BY <2>1, TwoRequests DEF HoldsOnly, Pending, DEV_REG, MS_INFO_REPORT
<1>3. HoldsOnly(MsInfo) => Pending(MS_INFO_REPORT)
  <2>1. Contents(<<>>) = {} /\ Contents(<<MsInfo>>) = {MsInfo}
    BY DEF Contents
  <2> QED
    BY <2>1, TwoRequests DEF HoldsOnly, Pending
<1> QED
  BY <1>1, <1>2, <1>3 DEF phase, PhaseFollowsStage

LEMMA InitImplements == Init => Dialogue!Init
<1> SUFFICES ASSUME Init PROVE Dialogue!Init
  OBVIOUS
<1>1. TypeOK /\ ~registered /\ ~booted /\ HoldsNothing
  BY InitTypeOK DEF Init, HoldsNothing
<1>2. phase = "unregistered"
  BY <1>1, PhaseOfStage DEF PhaseFollowsStage
<1>3. {m.if : m \in granted} \cap {DEV_REG, MS_INFO_REPORT} = {}
  BY DEF Init
<1>4. ~(recvQueue # <<>> \/ distMsg # NoMsg)
  BY DEF Init
<1> QED
  BY <1>2, <1>3, <1>4 DEF Dialogue!Init

LEMMA NextImplements == IInv /\ IInv' /\ [Next]_vars => [Dialogue!Next]_(Dialogue!vars)
<1> DEFINE accepted == {m.if : m \in granted} \cap {DEV_REG, MS_INFO_REPORT}
           serving  == recvQueue # <<>> \/ distMsg # NoMsg
<1> SUFFICES ASSUME IInv, IInv', [Next]_vars
             PROVE  Dialogue!Next \/ UNCHANGED <<phase, accepted, serving>>
  BY DEF Dialogue!vars
<1>a. TypeOK /\ TypeOK'
  BY DEF IInv
<1>e. PhaseFollowsStage /\ PhaseFollowsStage'
  BY PhaseOfStage, PTL
<1>b. ASSUME NEW m \in air, NEW rsc \in ServerCodes, ServerAnswer(m, rsc),
             m.if = MS_INFO_REPORT => phase # "unregistered"
      PROVE  Dialogue!Next \/ UNCHANGED <<phase, accepted, serving>>
  <2>1. UNCHANGED <<phase, serving>>
    BY <1>b DEF ServerAnswer, deviceVars, txVars, queueVars, phase, Pending
  <2>2. CASE UNCHANGED accepted
    BY <2>1, <2>2
  <2>3. CASE ~UNCHANGED accepted
    <3>1. granted' = granted \cup {m} /\ m.if \in {DEV_REG, MS_INFO_REPORT}
      BY <1>b, <2>3 DEF ServerAnswer
    <3>2. accepted' = accepted \cup {m.if}
      BY <3>1
    <3>3. Dialogue!ServerAccepts(m.if)
      BY <1>b, <2>1, <3>2 DEF Dialogue!ServerAccepts, MS_INFO_REPORT
    <3> QED
      BY <3>1, <3>3 DEF Dialogue!Next, DEV_REG, MS_INFO_REPORT
  <2> QED
    BY <2>2, <2>3
<1>c. CASE UNCHANGED vars
  BY <1>c DEF vars, deviceVars, txVars, queueVars, serverVars, phase, Pending
<1>d. ASSUME Next, ~\E m \in air, rsc \in ServerCodes : ServerAnswer(m, rsc)
      PROVE  UNCHANGED granted
  BY <1>d DEF Next, Application, TxTask, TxWork, DistTask, Environment, StartApps, Report,
     SetNetworkEnabled, TxStart, TxCheckNetwork, TxReceive, TxSendRequest, TxPollEmpty, TxPollOther,
     TxPollEnding, TxTimeout, TxSendResponse, RxReceive, DistReceive, DistRespond, WifiSend,
     WifiReceive, Lose, ServerSendRequest, serverVars
<1>1. CASE registered /\ Next
  <2>1. phase = "registered"
    BY <1>1 DEF phase
  <2>2. registered'
    BY <1>1, <1>a DEF Next, Application, TxTask, TxWork, DistTask, Environment, StartApps, Report,
     SetNetworkEnabled, TxStart, TxCheckNetwork, TxReceive, TxSendRequest, TxPollEmpty, TxPollOther,
     TxPollEnding, TxTimeout, TxSendResponse, RxReceive, DistReceive, DistRespond, WifiSend,
     WifiReceive, Lose, ServerAnswer, ServerSendRequest, deviceVars, TypeOK
  <2>3. phase' = "registered"
    BY <2>2 DEF phase
  <2>4. CASE \E m \in air, rsc \in ServerCodes : ServerAnswer(m, rsc)
    BY <1>b, <2>1, <2>4
  <2>5. CASE UNCHANGED granted
    <3>1. UNCHANGED accepted /\ serving' \in BOOLEAN
      BY <2>5
    <3>2. Dialogue!Serve
      BY <2>1, <2>3, <3>1 DEF Dialogue!Serve
    <3> QED
      BY <3>2 DEF Dialogue!Next
  <2> QED
    BY <1>1, <1>d, <2>4, <2>5
<1>2. CASE ~registered /\ registered' /\ Next
  <2>1. TxPollEnding
    BY <1>2 DEF Next, Application, TxTask, TxWork, DistTask, Environment, StartApps, Report,
     SetNetworkEnabled, TxStart, TxCheckNetwork, TxReceive, TxSendRequest, TxPollEmpty, TxPollOther,
     TxTimeout, TxSendResponse, RxReceive, DistReceive, DistRespond, WifiSend,
     WifiReceive, Lose, ServerAnswer, ServerSendRequest, deviceVars
  <2>2. txMsg.if = MS_INFO_REPORT /\ txMsg # NoMsg
    BY <1>2, <2>1, <1>a DEF TxPollEnding, Registers, TypeOK
  <2>3. HoldsOnly(MsInfo)
    BY <1>2, <2>2, TwoRequests
       DEF IInv, WhileUnregistered, Stage, HoldsNothing, HoldsOnly, DEV_REG, MS_INFO_REPORT
  <2>4. phase = "informing" /\ phase' = "registered"
    <3>1. phase = "informing"
      BY <1>2, <1>a, <2>3, <1>e DEF PhaseFollowsStage
    <3>2. phase' = "registered"
      BY <1>2 DEF phase
    <3> QED
      BY <3>1, <3>2
  <2>5. UNCHANGED <<accepted, serving>>
    BY <2>1, <1>2 DEF TxPollEnding, serverVars
  <2>6. 2 \in accepted
    <3>1. \E m \in granted : m.if = MS_INFO_REPORT
      BY <1>2, <2>1 DEF IInv, OnceRegistered, TxPollEnding, serverVars
    <3> QED
      BY <3>1 DEF MS_INFO_REPORT
  <2>7. Dialogue!BecomeRegistered
    BY <2>4, <2>5, <2>6 DEF Dialogue!BecomeRegistered
  <2> QED
    BY <2>7 DEF Dialogue!Next
<1>3. CASE ~registered /\ ~registered' /\ Next
  <2>a. Stage /\ Stage'
    BY <1>3 DEF IInv, WhileUnregistered
  <2>b. serving = FALSE /\ serving' = FALSE
    BY <1>3 DEF IInv, WhileUnregistered
  <2>c. phase \in {"unregistered", "informing", "abandoned"}
    BY <1>3 DEF phase
  <2>1. CASE \E m \in air, rsc \in ServerCodes : ServerAnswer(m, rsc)
    <3>1. PICK m \in air, rsc \in ServerCodes : ServerAnswer(m, rsc)
      BY <2>1
    <3>2. ASSUME m.if = MS_INFO_REPORT PROVE phase # "unregistered"
      <4>1. m \in Outbound
        BY <1>3, <3>1 DEF IInv, WhileUnregistered, ServerAnswer, Inbound
      <4>2. lwmsg_tx_dri = 3
        BY <3>2, <4>1, TwoRequests DEF Outbound, DEV_REG, MS_INFO_REPORT
      <4> QED
        BY <4>2, <2>a, <1>3, <1>e DEF Stage, PhaseFollowsStage
    <3> QED
      BY <1>b, <3>1, <3>2
  <2>2. CASE phase' = phase /\ UNCHANGED granted
    BY <2>2, <2>b
  <2>3. CASE phase' = "abandoned" /\ phase # "abandoned" /\ UNCHANGED granted
    <3>1. UNCHANGED <<accepted, serving>>
      BY <2>3, <2>b
    <3>2. Dialogue!GiveUp
      BY <2>3, <2>c, <3>1 DEF Dialogue!GiveUp
    <3> QED
      BY <3>2 DEF Dialogue!Next
  <2>4. CASE UNCHANGED lwmsg_tx_dri /\ UNCHANGED booted /\ UNCHANGED granted
    <3>1. HoldsNothing => HoldsNothing'
      BY <1>3, <2>4, <1>a DEF Next, Application, TxTask, TxWork, DistTask, Environment, StartApps, Report,
        SetNetworkEnabled, TxStart, TxCheckNetwork, TxReceive, TxSendRequest, TxPollEmpty, TxPollOther,
        TxPollEnding, TxTimeout, TxSendResponse, RxReceive, DistReceive, DistRespond, WifiSend,
        WifiReceive, Lose, ServerAnswer, ServerSendRequest, HoldsNothing, TypeOK,
        txVars, queueVars, IInv, WhileUnregistered
    <3>2. phase' = phase \/ (phase # "abandoned" /\ phase' = "abandoned")
      BY <1>3, <2>4, <2>a, <3>1, <1>a, <1>e DEF Stage, PhaseFollowsStage
    <3> QED
      BY <2>2, <2>3, <2>4, <3>2
  <2>5. CASE StartApps
    <3>1. phase = "unregistered" /\ phase' \in {"unregistered", "abandoned"}
      <4>1. ~booted /\ HoldsNothing /\ lwmsg_tx_dri = 1
        BY <2>5, <2>a DEF StartApps, Stage
      <4>2. booted' /\ lwmsg_tx_dri' = 2
        BY <2>5, <4>1, ConstantsAssumption DEF StartApps, NextDri
      <4> QED
        BY <1>3, <1>a, <2>a, <4>1, <4>2, <1>e DEF Stage, PhaseFollowsStage
    <3>2. UNCHANGED granted
      BY <2>5 DEF StartApps, serverVars
    <3> QED
      BY <2>2, <2>3, <3>1, <3>2
  <2>6. CASE TxPollEnding /\ txMsg.if = DEV_REG
    <3>1. /\ txMsg # NoMsg /\ booted /\ booted' /\ UNCHANGED granted
      BY <2>6, <2>a, <1>a DEF TxPollEnding, TypeOK, Stage, HoldsNothing, serverVars
    <3>2. HoldsOnly(DevReg) /\ lwmsg_tx_dri = 2 /\ txMsg = DevReg
      BY <2>6, <2>a, <3>1, TwoRequests DEF Stage, HoldsNothing, HoldsOnly, DEV_REG, MS_INFO_REPORT
    <3>3. lwmsg_tx_dri' = 3
      BY <2>6, <3>2, ConstantsAssumption DEF TxPollEnding, NextDri
    <3>4. phase = "unregistered" /\ phase' \in {"informing", "abandoned"}
      BY <1>3, <1>a, <2>a, <3>1, <3>2, <3>3, <1>e DEF Stage, PhaseFollowsStage
    <3>5. 1 \in accepted
      <4>1. Head(rXrespMsg) \in Inbound
        BY <1>3, <2>6, HeadTailProperties DEF IInv, WhileUnregistered, TxPollEnding
      <4>2. Matches(DevReg, Head(rXrespMsg))
        BY <2>6, <3>2 DEF TxPollEnding, EndsWait
      <4>3. DevReg \in granted
        BY <4>1, <4>2, TwoRequests DEF Inbound, Matches
      <4> QED
        BY <4>3, TwoRequests DEF DEV_REG
    <3>6. CASE phase' = "informing"
      <4>1. Dialogue!BecomeIdentified
        BY <2>b, <3>1, <3>4, <3>5, <3>6 DEF Dialogue!BecomeIdentified
      <4> QED
        BY <4>1 DEF Dialogue!Next
    <3> QED
      BY <2>3, <3>1, <3>4, <3>6
  <2>7. \/ StartApps
        \/ TxPollEnding /\ txMsg.if = DEV_REG
        \/ \E m \in air, rsc \in ServerCodes : ServerAnswer(m, rsc)
        \/ UNCHANGED lwmsg_tx_dri /\ UNCHANGED booted /\ UNCHANGED granted
    BY <1>3 DEF Next, Application, TxTask, TxWork, DistTask, Environment, Report,
        SetNetworkEnabled, TxStart, TxCheckNetwork, TxReceive, TxSendRequest, TxPollEmpty, TxPollOther,
        TxPollEnding, TxTimeout, TxSendResponse, RxReceive, DistReceive, DistRespond, WifiSend,
        WifiReceive, Lose, ServerSendRequest, deviceVars, serverVars
  <2> QED
    BY <2>1, <2>4, <2>5, <2>6, <2>7
<1> QED
  BY <1>c, <1>1, <1>2, <1>3

\* Whatever the network loses, delays or repeats, the device goes through the
\* registration phases in order and on the server's word (the whole of
\* iw_fw_lwMsgTx and iw_fw_lwMsgRx implements Registration).
THEOREM RegistrationImplemented == Spec => ImplementsRegistration
<1>1. Init => Dialogue!Init
  BY InitImplements
<1>2. IInv /\ IInv' /\ [Next]_vars => [Dialogue!Next]_(Dialogue!vars)
  BY NextImplements
<1> QED
  BY <1>1, <1>2, RegistrationInductive, PTL DEF Spec, ImplementsRegistration, Dialogue!Spec
=============================================================================
