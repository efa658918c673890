------------------------- MODULE Components_proofs --------------------------
(***************************************************************************)
(* The components on the network, each for every value of its constants,   *)
(* and the behaviours of MC_Components, in which any one component runs:   *)
(* what its runs check of each component follows from the component's own  *)
(* inductive invariant.                                                    *)
(***************************************************************************)
EXTENDS MC_Components, Serial_proofs, Board_proofs, FiniteSetTheorems, WellFoundedInduction,
        TLAPS

-----------------------------------------------------------------------------
(* WiFiUDP and the multicast socket.                                       *)

\* A call of WiFiUDP keeps the invariant.
LEMMA UDPStepKept ==
    ASSUME UDPInv, [UDPNext]_udpVars
    PROVE  UDPInv'
  <1>1. /\ is_initialized' \in BOOLEAN /\ packetActive' \in BOOLEAN
        /\ packetSendFailed' \in BOOLEAN
    <2> USE DEF UDPInv, UDPTypeOK
    <2>1. ASSUME NEW n \in 0..MaxUDPBytes, UDPWrite(n)
          PROVE  packetSendFailed' \in BOOLEAN
      BY <2>1, Zenon DEF UDPWrite
    <2>2. QED
      BY <2>1, Zenon DEF UDPNext, UDPBegin, UDPStop, beginPacketFails, NoPacket, packetVars,
                         beginPacket, UDPWrite, endPacket, UDPRead, udpVars
  <1> USE UDPAssumption DEF UDPInv, UDPTypeOK, PacketKnown, NoAddress, EmptyAddress
  <1>2. CASE UDPBegin \/ UDPStop \/ beginPacketFails
    BY <1>1, <1>2 DEF UDPBegin, UDPStop, beginPacketFails, NoPacket, packetVars
  <1>3. ASSUME NEW a \in Addresses, beginPacket(a)
        PROVE  UDPInv'
    BY <1>1, <1>3 DEF beginPacket
  <1>4. ASSUME NEW n \in 0..MaxUDPBytes, UDPWrite(n)
        PROVE  UDPInv'
    <2>1. PICK result \in -1..n :
            /\ packetSendFailed' = (packetSendFailed \/ result # n)
            /\ sent' = IF result > 0 THEN sent + result ELSE sent
      BY <1>4 DEF UDPWrite
    <2>2. ~packetSendFailed' => ~packetSendFailed /\ result = n
      BY <2>1, Zenon
    <2>3. sent' \in Nat /\ sent' <= sent + n /\ (~packetSendFailed' => sent' = sent + n)
      BY <2>1, <2>2
    <2>4. packetSendFailed' => packetActive'
      BY <1>4 DEF UDPWrite
    <2>5. QED
      BY <1>1, <1>4, <2>2, <2>3, <2>4 DEF UDPWrite
  <1>5. CASE endPacket
    BY <1>1, <1>5 DEF endPacket, NoPacket, packetVars
  <1>6. CASE UDPRead
    BY <1>1, <1>6 DEF UDPRead
  <1>7. CASE UNCHANGED udpVars
    BY <1>7 DEF udpVars
  <1>8. QED
    BY <1>2, <1>3, <1>4, <1>5, <1>6, <1>7 DEF UDPNext

\* The inductive invariant of WiFiUDP holds over every sequence of calls.
THEOREM UDPInvariant == UDPSpec => []UDPInv
  <1>1. UDPInit => UDPInv
    <2>1. UDPInit => /\ is_initialized \in BOOLEAN /\ packetActive \in BOOLEAN
                     /\ packetSendFailed \in BOOLEAN
      BY Zenon DEF UDPInit
    <2>2. QED
      BY <2>1, UDPAssumption DEF UDPInit, UDPInv, UDPTypeOK, PacketKnown, NoAddress
  <1>2. QED
    BY <1>1, UDPStepKept, PTL DEF UDPSpec

\* endPacket returns 1 only for a packet that was sent whole, to where beginPacket said:
\* EndPacketHonest, over every sequence of calls.
THEOREM UDPHonest == UDPSpec => EndPacketHonest
  <1>1. UDPInv /\ [UDPNext]_udpVars =>
          [endPacket /\ endResult' = 1
             => sent = asked /\ (~readSince => sentTo \subseteq {destination})]_udpVars
    BY DEF UDPInv, PacketKnown, endPacket, UDPTypeOK
  <1>2. QED
    BY <1>1, UDPInvariant, PTL DEF UDPSpec, EndPacketHonest

\* A call of the multicast socket keeps the invariant.
LEMMA MulticastStepKept ==
    ASSUME MulticastInv, [MulticastNext]_multicastVars
    PROVE  MulticastInv'
  <1>1. /\ socket_' \in BOOLEAN /\ packetActive_' \in BOOLEAN
        /\ overflow_' \in BOOLEAN /\ failed_' \in BOOLEAN
    BY Zenon DEF MulticastInv, MulticastTypeOK, MulticastNext, beginMulticast, MulticastStop,
         Stopped, BeginMulticastPacket, MulticastWrite, MulticastRead, EndMulticastPacket,
         parsePacket, MulticastFlush, multicastVars, sendVars, receiveVars
  <1> USE MulticastAssumption DEF MulticastInv, MulticastTypeOK, sendVars, receiveVars
  <1>2. CASE beginMulticast \/ MulticastStop
    BY <1>1, <1>2 DEF beginMulticast, MulticastStop, Stopped
  <1>3. ASSUME NEW portGiven \in BOOLEAN, BeginMulticastPacket(portGiven)
        PROVE  MulticastInv'
    BY <1>1, <1>3 DEF BeginMulticastPacket
  <1>4. ASSUME NEW n \in 0..MaxAsked, MulticastWrite(n)
        PROVE  MulticastInv'
    BY <1>1, <1>4 DEF MulticastWrite
  <1>5. ASSUME NEW n \in 0..MaxAsked, MulticastRead(n)
        PROVE  MulticastInv'
    BY <1>1, <1>5 DEF MulticastRead
  <1>6. CASE EndMulticastPacket
    BY <1>1, <1>6 DEF EndMulticastPacket, Sendable
  <1>7. CASE parsePacket \/ MulticastFlush
    BY <1>1, <1>7 DEF parsePacket, MulticastFlush
  <1>8. CASE UNCHANGED multicastVars
    BY <1>8 DEF multicastVars
  <1>9. QED
    BY <1>2, <1>3, <1>4, <1>5, <1>6, <1>7, <1>8 DEF MulticastNext

\* The inductive invariant of the multicast socket holds over every sequence of calls.
THEOREM MulticastInvariant == MulticastSpec => []MulticastInv
  <1>1. MulticastInit => MulticastInv
    <2>1. MulticastInit => /\ socket_ \in BOOLEAN /\ packetActive_ \in BOOLEAN
                           /\ overflow_ \in BOOLEAN /\ failed_ \in BOOLEAN
      BY Zenon DEF MulticastInit
    <2>2. QED
      BY <2>1, MulticastAssumption DEF MulticastInit, MulticastInv, MulticastTypeOK
  <1>2. QED
    BY <1>1, MulticastStepKept, PTL DEF MulticastSpec

\* A multicast datagram goes out whole or not at all: DatagramWhole, for every capacity.
THEOREM DatagramsWhole == MulticastSpec => DatagramWhole
  <1>1. MulticastInv /\ [MulticastNext]_multicastVars =>
          [EndMulticastPacket =>
             IF datagram' > 0 THEN datagram' = askedFor ELSE failed_']_multicastVars
    BY DEF MulticastInv, MulticastTypeOK, EndMulticastPacket, Sendable
  <1>2. QED
    BY <1>1, MulticastInvariant, PTL DEF MulticastSpec, DatagramWhole

-----------------------------------------------------------------------------
(* WiFiClass and the provisioning client.                                  *)

\* A call of WiFiClass, or a change of the signal, keeps the invariant.
LEMMA WiFiStepKept ==
    ASSUME WiFiInv, [WiFiNext]_wifiVars
    PROVE  WiFiInv'
  <1>0. /\ network \in BOOLEAN /\ signal \in BOOLEAN /\ is_wifi_inited \in BOOLEAN
        /\ is_station_inited \in BOOLEAN /\ is_ap_inited \in BOOLEAN
    BY Zenon DEF WiFiInv, WiFiTypeOK
  <1>1. /\ network' \in BOOLEAN /\ signal' \in BOOLEAN /\ is_wifi_inited' \in BOOLEAN
        /\ is_station_inited' \in BOOLEAN /\ is_ap_inited' \in BOOLEAN
    <2>1. signal' \in BOOLEAN
      BY <1>0, Zenon DEF WiFiNext, begin, begin_ssid, beginAP, disconnect, disconnectAP,
           scanNetworks, SignalChanges, wifiVars, driver_connect, driver_disconnect,
           SystemWiFiConnect, SystemWiFiAPStart
    <2>2. QED
      BY <1>0, <2>1, Zenon DEF WiFiNext, begin, begin_ssid, beginAP, disconnect, disconnectAP,
           scanNetworks, SignalChanges, wifiVars, flagVars, Began, InitSystemWiFi
  <1>2. {network, signal, is_wifi_inited, is_station_inited, is_ap_inited}' \subseteq BOOLEAN
    BY <1>1, Zenon
  <1>3. /\ chosen' \in Interfaces /\ up' \subseteq Interfaces /\ stopFailed' \subseteq Interfaces
        /\ current_status' \in {"WL_IDLE_STATUS", "WL_CONNECTED", "WL_DISCONNECTED",
                                "WL_SCAN_COMPLETED"}
        /\ InterfacesAsBelieved' /\ (signal' => up' # {})
    <2> USE <1>0, <1>1 DEF WiFiInv, WiFiTypeOK, InterfacesAsBelieved, status, Interfaces, Station,
              Soft_AP, flagVars, driver_connect, driver_disconnect, set_interface
    <2>1. CASE begin \/ begin_ssid
      <3>1. PICK ok \in BOOLEAN :
              /\ \/ ~ok /\ UNCHANGED <<chosen, up, signal, stopFailed>>
                 \/ set_interface(Station) /\ driver_connect(Station, ok)
              /\ Began(ok)
        BY <2>1, Zenon DEF begin, begin_ssid, SystemWiFiConnect
      <3>2. /\ is_station_inited' <=> ok
            /\ ok => signal'
            /\ signal' => ok \/ signal
            /\ is_ap_inited' = is_ap_inited
        BY <3>1, Zenon DEF Began, driver_connect
      <3>3. CASE ok
        <4>1. /\ chosen' = Station /\ up' = up \cup {Station} /\ stopFailed' = stopFailed \ {Station}
              /\ current_status' = "WL_CONNECTED"
          BY <3>1, <3>3, Zenon DEF Began, set_interface, driver_connect
        <4>2. QED
          BY <3>2, <3>3, <4>1
      <3>4. CASE ~ok
        <4>1. /\ chosen' \in {chosen, Station} /\ up' = up /\ stopFailed' = stopFailed
              /\ current_status' = "WL_DISCONNECTED" /\ ~is_station_inited
          BY <2>1, <3>1, <3>4, Zenon DEF Began, set_interface, driver_connect, begin, begin_ssid
        <4>2. QED
          BY <3>2, <3>4, <4>1
      <3>5. QED
        BY <3>3, <3>4
    <2>3. CASE beginAP
      <3>1. PICK ok \in BOOLEAN :
              /\ ok => network'
              /\ IF network' THEN SystemWiFiAPStart(ok)
                 ELSE UNCHANGED <<chosen, up, signal, stopFailed>>
              /\ is_ap_inited' = ok
              /\ current_status' = IF ok THEN "WL_CONNECTED" ELSE "WL_DISCONNECTED"
        BY <2>3, Zenon DEF beginAP
      <3>2. /\ is_ap_inited' <=> ok
            /\ ok => signal'
            /\ signal' => ok \/ signal
            /\ is_station_inited' = is_station_inited
        BY <2>3, <3>1, Zenon DEF beginAP, SystemWiFiAPStart, driver_connect
      <3>3. CASE ok
        <4>1. /\ chosen' = Soft_AP /\ up' = up \cup {Soft_AP} /\ stopFailed' = stopFailed \ {Soft_AP}
              /\ current_status' = "WL_CONNECTED"
          BY <3>1, <3>3, Zenon DEF SystemWiFiAPStart, set_interface, driver_connect
        <4>2. QED
          BY <3>2, <3>3, <4>1
      <3>4. CASE ~ok
        <4>1. /\ chosen' \in {chosen, Soft_AP} /\ up' = up /\ stopFailed' = stopFailed
              /\ current_status' = "WL_DISCONNECTED" /\ ~is_ap_inited
          BY <2>3, <3>1, <3>4, Zenon
             DEF SystemWiFiAPStart, set_interface, driver_connect, beginAP
        <4>2. QED
          BY <3>2, <3>4, <4>1
      <3>5. QED
        BY <3>3, <3>4
    <2>4. CASE disconnectAP
      BY <2>4 DEF disconnectAP
    <2>5. CASE disconnect
      BY <2>5 DEF disconnect
    <2>6. CASE scanNetworks \/ SignalChanges
      BY <2>6 DEF scanNetworks, SignalChanges
    <2>7. CASE UNCHANGED wifiVars
      BY <2>7 DEF wifiVars
    <2>8. QED
      BY <2>1, <2>3, <2>4, <2>5, <2>6, <2>7 DEF WiFiNext
  <1>4. QED
    BY <1>2, <1>3 DEF WiFiInv, WiFiTypeOK

\* The interfaces that WiFiClass believes up are, whatever the driver answers and in whatever
\* order station and access point are started and stopped.
THEOREM WiFiInvariant == WiFiSpec => []WiFiInv
  <1>1. WiFiInit => WiFiInv
    BY DEF WiFiInit, WiFiInv, WiFiTypeOK, InterfacesAsBelieved, status, Interfaces, Station,
           Soft_AP, InitSystemWiFi
  <1>2. QED
    BY <1>1, WiFiStepKept, PTL DEF WiFiSpec

\* A step of the registration, of its callbacks or of their timing out keeps the invariant.
LEMMA DPSStepKept ==
    ASSUME DPSInv, [DPSNext]_dpsVars
    PROVE  DPSInv'
  <1>0. /\ is_iothub_from_dps \in BOOLEAN /\ misused \in BOOLEAN /\ answered \in BOOLEAN
        /\ dps_frame.result \in BOOLEAN /\ dps_frame.handle \in BOOLEAN
        /\ dps_frame.given \in BOOLEAN /\ dps_frame.proxy \in BOOLEAN
    BY DEF DPSInv, DPSTypeOK, FrameTyped
  <1>1. is_iothub_from_dps' \in BOOLEAN /\ misused' \in BOOLEAN /\ answered' \in BOOLEAN
    BY <1>0, Zenon DEF DPSNext, DevkitDPSSetAuthType, DevkitDPSClientStart, DiceInit, PlatformInit,
         Create, Options, DoWork, Destroy, RegisterDone, Return, dpsVars
  <1>2. FrameTyped'
    <2> USE DEF DPSInv, FrameTyped
    <2>1. ASSUME NEW params \in BOOLEAN, NEW proxy \in BOOLEAN, NEW uds \in readUDSString,
                 DevkitDPSClientStart(params, uds, proxy)
          PROVE  FrameTyped'
      <3>1. dps_frame' = dps_frame
              \/ dps_frame' = [given |-> params, uds |-> uds, proxy |-> proxy, result |-> params,
                               handle |-> FALSE]
        BY <2>1, Zenon DEF DevkitDPSClientStart
      <3>2. \A r, h \in BOOLEAN :
              [given |-> params, uds |-> uds, proxy |-> proxy, result |-> r, handle |-> h]
                 \in [given : BOOLEAN, uds : readUDSString, proxy : BOOLEAN, result : BOOLEAN,
                      handle : BOOLEAN]
        BY <2>1
      <3>3. QED
        BY <3>1, <3>2, Zenon
    <2>2. CASE Create
      BY <2>2 DEF Create
    <2>3. CASE Options
      BY <2>3 DEF Options
    <2>4. CASE Destroy
      BY <2>4 DEF Destroy
    <2>5. QED
      BY <2>1, <2>2, <2>3, <2>4, Zenon
         DEF DPSNext, DevkitDPSSetAuthType, DiceInit, PlatformInit, DoWork, RegisterDone, dpsVars
  <1> DEFINE Kept ==
        /\ g_auth_type \in DPSAuthTypes /\ dps_at \in DPSPoints
        /\ user_ctx \in [iothub_uri : Hubs \union {"NULL"}, registration_complete : 0 .. 2]
        /\ HandleKnown /\ ContextCleared /\ HubKnown
  <1>3. Kept'
    <2> USE <1>0, <1>1, DPSAssumption
        DEF DPSInv, DPSTypeOK, FrameTyped, HandleKnown, ContextCleared, HubKnown,
            NoContext, DPSPoints, Return
    <2>1. ASSUME NEW t \in DPSAuthTypes, DevkitDPSSetAuthType(t)
          PROVE  Kept'
      BY <2>1 DEF DevkitDPSSetAuthType
    <2>2. ASSUME NEW params \in BOOLEAN, NEW proxy \in BOOLEAN, NEW uds \in readUDSString,
                 DevkitDPSClientStart(params, uds, proxy)
          PROVE  Kept'
      <3>1. misused' <=> misused \/ (~params /\ is_iothub_from_dps)
        BY <2>2, Zenon DEF DevkitDPSClientStart
      <3>2. CASE params /\ is_iothub_from_dps
        BY <2>2, <3>1, <3>2 DEF DevkitDPSClientStart
      <3>3. CASE ~(params /\ is_iothub_from_dps)
        <4>1. /\ ~answered' /\ dps_at' \in {"dice", "init"}
              /\ dps_frame' = [given |-> params, uds |-> uds, proxy |-> proxy, result |-> params,
                               handle |-> FALSE]
          BY <2>2, <3>3 DEF DevkitDPSClientStart
        <4>2. ~dps_frame'.handle
          BY <4>1
        <4>3. /\ dps_at = "idle"
              /\ UNCHANGED <<g_auth_type, is_iothub_from_dps, user_ctx, assigned>>
          BY <2>2 DEF DevkitDPSClientStart
        <4>4. QED
          BY <3>1, <3>3, <4>1, <4>2, <4>3
      <3>4. QED
        BY <3>2, <3>3
    <2>3. CASE DiceInit
      BY <2>3 DEF DiceInit
    <2>4. CASE PlatformInit
      BY <2>4 DEF PlatformInit
    <2>5. CASE Create
      BY <2>5 DEF Create
    <2>6. CASE Options
      BY <2>6 DEF Options
    <2>7. CASE DoWork
      BY <2>7 DEF DoWork, RegisterCallback
    <2>8. CASE Destroy
      BY <2>8 DEF Destroy
    <2>9. CASE RegisterDone
      <3>1. /\ is_iothub_from_dps' <=> (is_iothub_from_dps \/ user_ctx.registration_complete = 1)
            /\ answered' => user_ctx.registration_complete = 1
        BY <2>9, Zenon DEF RegisterDone
      <3>2. QED
        BY <2>9, <3>1 DEF RegisterDone
    <2>10. CASE UNCHANGED dpsVars
      BY <2>10 DEF dpsVars
    <2>11. QED
      BY <2>1, <2>2, <2>3, <2>4, <2>5, <2>6, <2>7, <2>8, <2>9, <2>10 DEF DPSNext
  <1>4. QED
    BY <1>1, <1>2, <1>3 DEF DPSInv, DPSTypeOK

\* The inductive invariant of the provisioning client holds over every registration.
THEOREM DPSInvariant == DPSSpec => []DPSInv
  <1>1. DPSInit => DPSInv
    <2>1. DPSInit => is_iothub_from_dps \in BOOLEAN /\ misused \in BOOLEAN /\ answered \in BOOLEAN
      BY Zenon DEF DPSInit
    <2>2. DPSInit => FrameTyped /\ HandleKnown
      <3>1. FALSE \in BOOLEAN /\ TRUE \in BOOLEAN
        BY Zenon
      <3>2. QED
        BY <3>1 DEF DPSInit, FrameTyped, HandleKnown, readUDSString
    <2>3. QED
      BY <2>1, <2>2 DEF DPSInit, DPSInv, DPSTypeOK, ContextCleared, HubKnown,
           NoContext, DPSPoints, DPSAuthTypes
  <1>2. QED
    BY <1>1, DPSStepKept, PTL DEF DPSSpec

\* The hub that is given out is the one the service assigned.
LEMMA DPSInvKeepsHub == DPSInv => AssignmentKept
  BY DEF DPSInv, DPSTypeOK, HandleKnown, HubKnown, AssignmentKept, DevkitDPSGetIoTHubURI

-----------------------------------------------------------------------------
(* WebSocketClient.                                                        *)

\* A control frame leaves what the server sees of a message, or ends it all.
LEMMA WSControlSeen ==
    ASSUME NEW seen \in DataTypes \cup {"none", "refused", "lost", "closed"},
           NEW type \in ControlTypes
    PROVE  ServerAfter(seen, type, TRUE) \in {seen, "closed"}
  BY DEF ServerAfter, DataTypes, ControlTypes

\* So does its whole write, with the socket and _firstFrame as they were.
LEMMA WSControlKeeps ==
    ASSUME WSInv, tcpSocket, NEW type \in ControlTypes, SendControl(type)
    PROVE  (WSStreamLegal /\ SendersAgree)' /\ serverSees' \in {serverSees, "closed", "lost"}
  <1>1. serverSees \in DataTypes \cup {"none", "refused", "lost", "closed"}
    BY DEF WSInv, WSTypeOK, WSStreamLegal
  <1>2. serverSees' \in {serverSees, "closed", "lost"}
    BY <1>1, WSControlSeen DEF SendControl, Written
  <1>3. tcpSocket' = tcpSocket /\ firstFrame' = firstFrame
    BY DEF SendControl
  <1>4. QED
    BY <1>2, <1>3 DEF WSInv, WSStreamLegal, SendersAgree, DataTypes

\* What the server makes of the client's frames stays legal, and both keep the
\* same idea of whether a message is under way.
LEMMA WSStreamKept ==
    ASSUME WSInv, WSNext
    PROVE  WSStreamLegal' /\ SendersAgree'
  <1>1. CASE Renew \/ connect
    BY <1>1 DEF Renew, connect, DataTypes, WSInv, WSStreamLegal, SendersAgree
  <1>2. ASSUME NEW op, NEW fin, NEW len, ServerSends(op, fin, len)
        PROVE  WSStreamLegal' /\ SendersAgree'
    BY <1>2 DEF ServerSends, WSInv, WSStreamLegal, SendersAgree
  <1>3. ASSUME NEW type \in DataTypes, NEW isFinal \in BOOLEAN, send(type, isFinal)
        PROVE  WSStreamLegal' /\ SendersAgree'
    <2>1. /\ tcpSocket /\ tcpSocket' = tcpSocket /\ firstFrame' = isFinal
          /\ serverSees' \in {ServerAfter(serverSees, IF firstFrame THEN type ELSE "Cont", isFinal),
                              "lost"}
      BY <1>3 DEF send, Written
    <2>2. serverSees \in DataTypes \cup {"none", "refused", "lost", "closed"}
      BY DEF WSInv, WSTypeOK, WSStreamLegal
    <2>3. CASE serverSees \in {"refused", "lost", "closed"}
      <3>1. \A op, fin : ServerAfter(serverSees, op, fin) = serverSees
        BY <2>3 DEF ServerAfter
      <3>2. serverSees' \in {"refused", "lost", "closed"} /\ tcpSocket'
        BY <2>1, <2>3, <3>1
      <3>3. QED
        BY <3>2 DEF WSStreamLegal, SendersAgree, DataTypes
    <2>4. CASE serverSees = "none"
      <3>1. firstFrame
        BY <2>4 DEF WSInv, SendersAgree
      <3>2. ServerAfter(serverSees, type, isFinal) = IF isFinal THEN "none" ELSE type
        BY <2>4 DEF ServerAfter, DataTypes
      <3>3. QED
        BY <2>1, <3>1, <3>2 DEF WSStreamLegal, SendersAgree, DataTypes
    <2>5. CASE serverSees \in DataTypes
      <3>1. ~firstFrame
        BY <2>5 DEF WSInv, SendersAgree
      <3>2. ServerAfter(serverSees, "Cont", isFinal) = IF isFinal THEN "none" ELSE serverSees
        BY <2>5 DEF ServerAfter, DataTypes
      <3>3. QED
        BY <2>1, <2>5, <3>1, <3>2 DEF WSStreamLegal, SendersAgree, DataTypes
    <2>6. QED
      BY <2>2, <2>3, <2>4, <2>5
  <1>4. CASE sendPing \/ close
    BY <1>4, WSControlKeeps DEF sendPing, close, ControlTypes
  <1>5. CASE receive
    <2>1. \/ UNCHANGED <<tcpSocket, firstFrame, serverSees>>
          \/ SendControl("Pong") \/ SendControl("Close")
      BY <1>5, Zenon DEF receive, Answer
    <2>2. tcpSocket
      BY <1>5 DEF receive
    <2>3. CASE UNCHANGED <<tcpSocket, firstFrame, serverSees>>
      BY <2>3 DEF WSInv, WSStreamLegal, SendersAgree
    <2>4. QED
      BY <2>1, <2>2, <2>3, WSControlKeeps DEF ControlTypes
  <1>6. CASE ReceiveNothing
    BY <1>6 DEF ReceiveNothing, DataTypes, WSInv, WSStreamLegal, SendersAgree
  <1>7. QED
    BY <1>1, <1>2, <1>3, <1>4, <1>5, <1>6 DEF WSNext

\* A frame the server adds is of the message it is sending.
LEMMA WSInboxSent ==
    ASSUME InboxTyped, NEW op \in DataTypes \cup ControlTypes \cup {"Cont"},
           NEW fin \in BOOLEAN, NEW len \in PayloadLengths, ServerSends(op, fin, len)
    PROVE  InboxTyped'
  <1>0. PICK n \in Nat : n = Len(inbox)
    BY DEF InboxTyped
  <1> DEFINE f == [op |-> op, fin |-> fin, len |-> len,
                   of |-> IF op = "Cont" THEN serverMsg ELSE op]
  <1>1. /\ inbox' = Append(inbox, f) /\ disturbed' = disturbed /\ messageType' = messageType
        /\ op \in DataTypes => serverMsg = "none"
        /\ op = "Cont" => serverMsg # "none" /\ serverMsg # "closed"
        /\ op \in ControlTypes => fin
        /\ serverMsg # "closed"
    BY DEF ServerSends, Listening
  <1>2. /\ n \in Nat /\ n = Len(inbox) /\ inbox \in Seq(Frames)
        /\ serverMsg \in DataTypes \cup {"none", "closed"}
    BY <1>0 DEF InboxTyped
  <1>3. f \in Frames
    BY <1>1, <1>2 DEF Frames, DataTypes, ControlTypes
  <1>4. /\ inbox' \in Seq(Frames) /\ Len(inbox') = n + 1 /\ inbox'[n + 1] = f
        /\ \A i \in 1..n : inbox'[i] = inbox[i]
    BY <1>1, <1>2, <1>3
  <1>5. serverMsg' = IF op = "Close" THEN "closed"
                     ELSE IF op \in {"Ping", "Pong"} THEN serverMsg
                     ELSE IF fin THEN "none" ELSE f.of
    BY <1>1, <1>4 DEF ServerSends, DataTypes, ControlTypes
  <1>6. serverMsg' \in DataTypes \cup {"none", "closed"}
    BY <1>1, <1>2, <1>5 DEF DataTypes, ControlTypes
  <1>7. /\ f.op = op /\ (op = "Cont" => f.of = serverMsg) /\ (op # "Cont" => f.of = op)
        /\ op \in DataTypes => op # "Cont"
        /\ serverMsg' \in DataTypes /\ op \notin DataTypes => serverMsg' = serverMsg
        /\ serverMsg' \in DataTypes /\ op \in DataTypes => serverMsg' = op
    BY <1>1, <1>2, <1>5 DEF DataTypes, ControlTypes
  <1>8. \A a \in Nat : \A b \in 0..n : Within(a, b)' /\ a >= 1 => Within(a, b)
    BY <1>2, <1>4 DEF Within
  <1>9. \A a \in 1..(n + 1) : Within(a, n + 1)' => op \notin DataTypes /\ Within(a, n)
    BY <1>2, <1>4, <1>7 DEF Within
  <1>10. ASSUME NEW i \in 1..(n + 1), inbox'[i].op \in DataTypes
         PROVE  /\ inbox'[i].of = inbox'[i].op
                /\ \A k \in (i + 1)..(n + 1) :
                     inbox'[k].op = "Cont" /\ Within(i + 1, k - 1)' => inbox'[k].of = inbox'[i].op
                /\ serverMsg' \in DataTypes /\ Within(i + 1, n + 1)' => serverMsg' = inbox'[i].op
    <2>1. CASE i = n + 1
      BY <1>2, <1>4, <1>7, <1>10, <2>1
    <2>2. CASE i \in 1..n
      <3>1. /\ inbox'[i] = inbox[i] /\ inbox[i].op \in DataTypes
            /\ inbox[i].of = inbox[i].op
            /\ \A k \in (i + 1)..n :
                 inbox[k].op = "Cont" /\ Within(i + 1, k - 1) => inbox[k].of = inbox[i].op
            /\ serverMsg \in DataTypes /\ Within(i + 1, n) => serverMsg = inbox[i].op
        BY <1>2, <1>4, <1>10, <2>2 DEF InboxTyped
      <3>2. ASSUME NEW k \in (i + 1)..(n + 1), inbox'[k].op = "Cont", Within(i + 1, k - 1)'
            PROVE  inbox'[k].of = inbox'[i].op
        <4>1. Within(i + 1, k - 1)
          BY <1>2, <1>8, <2>2, <3>2
        <4>2. CASE k \in 1..n
          <5>1. k \in (i + 1)..n /\ inbox'[k] = inbox[k]
            BY <1>2, <1>4, <2>2, <3>2, <4>2
          <5>2. QED
            BY <3>1, <3>2, <4>1, <5>1
        <4>3. CASE k = n + 1
          <5>1. Within(i + 1, n)
            BY <1>2, <4>1, <4>3
          <5>2. f.of = serverMsg /\ serverMsg \in DataTypes
            BY <1>1, <1>2, <1>4, <1>7, <3>2, <4>3
          <5>3. QED
            BY <1>4, <3>1, <4>3, <5>1, <5>2
        <4>4. QED
          BY <1>2, <2>2, <3>2, <4>2, <4>3
      <3>3. serverMsg' \in DataTypes /\ Within(i + 1, n + 1)' => serverMsg' = inbox'[i].op
        BY <1>2, <1>7, <1>9, <2>2, <3>1
      <3>4. QED
        BY <3>1, <3>2, <3>3
    <2>3. QED
      BY <1>2, <1>10, <2>1, <2>2
  <1>11. ASSUME ~disturbed
         PROVE  /\ \A k \in 1..(n + 1) :
                     inbox'[k].op = "Cont" /\ Within(1, k - 1)' => inbox'[k].of = messageType
                /\ serverMsg' \in DataTypes /\ Within(1, n + 1)' => serverMsg' = messageType
    <2>1. /\ \A k \in 1..n :
               inbox[k].op = "Cont" /\ Within(1, k - 1) => inbox[k].of = messageType
          /\ serverMsg \in DataTypes /\ Within(1, n) => serverMsg = messageType
      BY <1>2, <1>11 DEF InboxTyped
    <2>2. ASSUME NEW k \in 1..(n + 1), inbox'[k].op = "Cont", Within(1, k - 1)'
          PROVE  inbox'[k].of = messageType
      <3>1. Within(1, k - 1)
        BY <1>2, <1>8, <2>2
      <3>2. CASE k \in 1..n
        BY <1>4, <2>1, <2>2, <3>1, <3>2
      <3>3. CASE k = n + 1
        <4>1. f.of = serverMsg /\ serverMsg \in DataTypes
          BY <1>1, <1>2, <1>4, <1>7, <2>2, <3>3
        <4>2. Within(1, n)
          BY <1>2, <3>1, <3>3
        <4>3. QED
          BY <1>4, <2>1, <3>3, <4>1, <4>2
      <3>4. QED
        BY <1>2, <3>2, <3>3
    <2>3. QED
      BY <1>2, <1>7, <1>9, <2>1, <2>2
  <1>12. QED
    BY <1>1, <1>4, <1>6, <1>10, <1>11 DEF InboxTyped

\* A frame received leaves the rest of the inbox, and the type the client keeps
\* is that of the message begun unless it was disturbed.
LEMMA WSInboxReceived ==
    ASSUME InboxTyped, receive
    PROVE  InboxTyped' /\ (~disturbed' => receiveResult'.type = receiveResult'.of)
  <1>0. PICK n \in Nat : n = Len(inbox)
    BY DEF InboxTyped
  <1> DEFINE f == Head(inbox)
             type == IF f.len > BufferSize THEN Overrun ELSE TypeOf(f.op, messageType)
  <1>1. /\ inbox # <<>> /\ inbox' = Tail(inbox) /\ serverMsg' = serverMsg
        /\ messageType' = type
        /\ receiveResult'.type = type /\ receiveResult'.of = f.of
        /\ disturbed' = IF f.op \in DataTypes THEN type = Overrun
                        ELSE disturbed \/ f.op \in ControlTypes \/ type = Overrun
    BY DEF receive
  <1>2. /\ inbox \in Seq(Frames) /\ n \in Nat \ {0} /\ n = Len(inbox)
        /\ f = inbox[1] /\ f \in Frames
    BY <1>0, <1>1 DEF InboxTyped
  <1>3. /\ inbox' \in Seq(Frames) /\ Len(inbox') = n - 1
        /\ \A i \in 1..(n - 1) : inbox'[i] = inbox[i + 1]
    BY <1>1, <1>2
  <1>4. \A a \in 1..n, b \in 0..(n - 1) : Within(a, b)' => Within(a + 1, b + 1)
    <2> SUFFICES ASSUME NEW a \in 1..n, NEW b \in 0..(n - 1), Within(a, b)',
                        NEW j \in (a + 1)..(b + 1)
                 PROVE  inbox[j].op \notin DataTypes
      BY DEF Within
    <2>1. j - 1 \in a..b /\ j - 1 \in 1..(n - 1)
      BY <1>2
    <2>2. inbox'[j - 1] = inbox[(j - 1) + 1] /\ (j - 1) + 1 = j
      BY <1>2, <1>3, <2>1
    <2>3. QED
      BY <2>1, <2>2 DEF Within
  <1>5. ASSUME NEW i \in 1..(n - 1), inbox'[i].op \in DataTypes
        PROVE  /\ inbox'[i].of = inbox'[i].op
               /\ \A k \in (i + 1)..(n - 1) :
                    inbox'[k].op = "Cont" /\ Within(i + 1, k - 1)' => inbox'[k].of = inbox'[i].op
               /\ serverMsg' \in DataTypes /\ Within(i + 1, n - 1)' => serverMsg' = inbox'[i].op
    <2>1. /\ inbox'[i] = inbox[i + 1] /\ i + 1 \in 1..n
          /\ inbox[i + 1].of = inbox[i + 1].op
          /\ \A k \in (i + 2)..n :
               inbox[k].op = "Cont" /\ Within(i + 2, k - 1) => inbox[k].of = inbox[i + 1].op
          /\ serverMsg \in DataTypes /\ Within(i + 2, n) => serverMsg = inbox[i + 1].op
      <3>1. i + 1 \in 1..n /\ (i + 1) + 1 = i + 2
        BY <1>2
      <3>2. QED
        BY <1>2, <1>3, <1>5, <3>1 DEF InboxTyped
    <2>2. ASSUME NEW k \in (i + 1)..(n - 1), inbox'[k].op = "Cont", Within(i + 1, k - 1)'
          PROVE  inbox'[k].of = inbox'[i].op
      <3>1. k + 1 \in (i + 2)..n /\ k \in 1..(n - 1) /\ (k + 1) - 1 = k
        BY <1>2
      <3>2. inbox'[k] = inbox[k + 1]
        BY <1>3, <3>1
      <3>3. Within(i + 2, k)
        <4>1. (i + 1) + 1 = i + 2 /\ (k - 1) + 1 = k /\ i + 1 \in 1..n /\ k - 1 \in 0..(n - 1)
          BY <1>2
        <4>2. QED
          BY <1>4, <2>2, <4>1
      <3>4. QED
        BY <2>1, <2>2, <3>1, <3>2, <3>3
    <2>3. ASSUME Within(i + 1, n - 1)' PROVE Within(i + 2, n)
      <3>1. (i + 1) + 1 = i + 2 /\ (n - 1) + 1 = n /\ i + 1 \in 1..n /\ n - 1 \in 0..(n - 1)
        BY <1>2
      <3>2. QED
        BY <1>4, <2>3, <3>1
    <2>4. QED
      BY <1>1, <2>1, <2>2, <2>3
  <1>6. ASSUME ~disturbed'
        PROVE  /\ type = f.of
               /\ \A k \in 2..n : inbox[k].op = "Cont" /\ Within(2, k - 1) => inbox[k].of = type
               /\ serverMsg \in DataTypes /\ Within(2, n) => serverMsg = type
    <2>1. f.op \notin ControlTypes /\ type # Overrun /\ type = TypeOf(f.op, messageType)
      BY <1>1, <1>6 DEF DataTypes, ControlTypes
    <2>2. CASE f.op \in DataTypes
      <3>1. type = f.op
        BY <2>1, <2>2 DEF TypeOf, DataTypes
      <3>2. QED
        BY <1>2, <2>2, <3>1 DEF InboxTyped
    <2>3. CASE f.op \notin DataTypes
      <3>1. f.op = "Cont" /\ ~disturbed /\ type = messageType
        BY <1>1, <1>2, <1>6, <2>1, <2>3 DEF Frames, TypeOf
      <3>2. \A b \in 1..n : Within(2, b) => Within(1, b)
        BY <1>2, <2>3 DEF Within
      <3>3. Within(1, 0)
        BY DEF Within
      <3>4. QED
        BY <1>2, <3>1, <3>2, <3>3 DEF InboxTyped
    <2>4. QED
      BY <2>2, <2>3
  <1>7. ASSUME ~disturbed'
        PROVE  /\ \A k \in 1..(n - 1) :
                    inbox'[k].op = "Cont" /\ Within(1, k - 1)' => inbox'[k].of = messageType'
               /\ serverMsg' \in DataTypes /\ Within(1, n - 1)' => serverMsg' = messageType'
    <2>1. ASSUME NEW k \in 1..(n - 1), inbox'[k].op = "Cont", Within(1, k - 1)'
          PROVE  inbox'[k].of = messageType'
      <3>1. k + 1 \in 2..n /\ (k + 1) - 1 = k /\ 1 \in 1..n /\ k - 1 \in 0..(n - 1)
            /\ (k - 1) + 1 = k
        BY <1>2
      <3>2. Within(2, k)
        BY <1>4, <2>1, <3>1
      <3>3. QED
        BY <1>1, <1>3, <1>6, <1>7, <2>1, <3>1, <3>2
    <2>2. ASSUME Within(1, n - 1)' PROVE Within(2, n)
      <3>1. 1 \in 1..n /\ n - 1 \in 0..(n - 1) /\ (n - 1) + 1 = n
        BY <1>2
      <3>2. QED
        BY <1>4, <2>2, <3>1
    <2>3. QED
      BY <1>1, <1>6, <1>7, <2>1, <2>2
  <1>8. InboxTyped'
    BY <1>1, <1>3, <1>5, <1>7, SMTT(60) DEF InboxTyped
  <1>9. QED
    BY <1>1, <1>6, <1>8

\* The values stay within their types.
LEMMA WSTypeKept ==
    ASSUME WSInv, WSNext
    PROVE  WSTypeOK'
  <1> DEFINE Types_ == DataTypes \cup ControlTypes \cup {Overrun, "Timeout"}
             Seen == DataTypes \cup {"none", "refused", "lost", "closed", "error"}
  <1>1. tcpSocket' \in BOOLEAN /\ firstFrame' \in BOOLEAN /\ disturbed' \in BOOLEAN
    <2> USE DEF WSInv, WSTypeOK, WSNext, Renew, connect, ServerSends, send, sendPing, close,
                receive, ReceiveNothing, Answer, SendControl, link
    <2>1. tcpSocket' \in BOOLEAN
      BY Zenon
    <2>2. firstFrame' \in BOOLEAN
      BY Zenon
    <2>3. disturbed' \in BOOLEAN
      BY Zenon
    <2>4. QED
      BY <2>1, <2>2, <2>3
  <1>2. serverSees \in Seen /\ messageType \in Types_
    BY DEF WSInv, WSTypeOK
  <1>3. Len(inbox) \in Nat /\ Len(inbox) <= MaxInbox /\ inbox \in Seq(Frames)
    BY DEF WSInv, WSTypeOK, InboxTyped
  <1>4. receiveResult.type \in Types_ \cup {"NULL"} /\ NULL.type = "NULL"
    BY DEF WSInv, WSTypeOK, NULL
  <1>5. \A op \in DataTypes \cup ControlTypes \cup {"Cont"}, fin \in BOOLEAN :
           ServerAfter(serverSees, op, fin) \in Seen
    BY <1>2 DEF ServerAfter, DataTypes, ControlTypes
  <1>6. \A op \in DataTypes \cup ControlTypes \cup {"Cont"} : TypeOf(op, messageType) \in Types_
    BY <1>2 DEF TypeOf, DataTypes, ControlTypes
  <1>7. \A type \in ControlTypes : SendControl(type) => serverSees' \in Seen
    BY <1>5 DEF SendControl, Written
  <1>8. /\ serverSees' \in Seen /\ messageType' \in Types_ /\ Len(inbox') <= MaxInbox
        /\ receiveResult'.type \in Types_ \cup {"NULL"}
    <2>1. CASE Renew \/ connect
      BY <2>1, <1>2, <1>3, <1>4, WSAssumption DEF Renew, connect, DataTypes
    <2>2. ASSUME NEW op, NEW fin, NEW len, ServerSends(op, fin, len)
          PROVE  /\ serverSees' \in Seen /\ messageType' \in Types_ /\ Len(inbox') <= MaxInbox
                 /\ receiveResult'.type \in Types_ \cup {"NULL"}
      <3>1. Len(inbox) < MaxInbox /\ Len(inbox') = Len(inbox) + 1
        BY <1>3, <2>2 DEF ServerSends
      <3>2. Len(inbox') <= MaxInbox
        BY <1>3, <3>1, WSAssumption
      <3>3. QED
        BY <2>2, <1>2, <1>4, <3>2 DEF ServerSends
    <2>3. ASSUME NEW type \in DataTypes, NEW isFinal \in BOOLEAN, send(type, isFinal)
          PROVE  /\ serverSees' \in Seen /\ messageType' \in Types_ /\ Len(inbox') <= MaxInbox
                 /\ receiveResult'.type \in Types_ \cup {"NULL"}
      <3>1. serverSees' \in Seen
        BY <2>3, <1>5 DEF send, Written
      <3>2. messageType' \in Types_
        BY <2>3, <1>2 DEF send
      <3>3. QED
        BY <2>3, <1>3, <1>4, <3>1, <3>2 DEF send
    <2>4. CASE sendPing \/ close
      BY <2>4, <1>2, <1>3, <1>4, <1>7 DEF sendPing, close, ControlTypes
    <2>5. CASE receive
      <3>1. Head(inbox) \in Frames /\ Len(inbox') <= Len(inbox) /\ Len(inbox') \in Nat
        BY <2>5, <1>3 DEF receive
      <3>2. messageType' \in Types_
        BY <2>5, <1>6, <3>1 DEF receive, Frames
      <3>3. receiveResult'.type = messageType'
        BY <2>5 DEF receive
      <3>4. \/ serverSees' = serverSees
            \/ SendControl("Pong") \/ SendControl("Close")
        BY <2>5, Zenon DEF receive, Answer
      <3>5. serverSees' \in Seen
        BY <1>2, <1>7, <3>4 DEF ControlTypes
      <3>6. QED
        BY <1>3, <3>1, <3>2, <3>3, <3>5, WSAssumption
    <2>6. CASE ReceiveNothing
      <3>a. \A i \in 1..Len(inbox) : inbox[i] \in Frames
        BY <1>3
      <3>b. \A f \in Frames : f.op \in DataTypes \cup ControlTypes \cup {"Cont"}
        BY DEF Frames
      <3>1. \A i \in 1..Len(inbox) : inbox[i].op \in DataTypes \cup ControlTypes \cup {"Cont"}
        BY <3>a, <3>b
      <3>2. QED
        BY <2>6, <1>2, <1>3, <1>4, <1>6, <3>1, WSAssumption DEF ReceiveNothing, NULL
    <2>7. QED
      BY <2>1, <2>2, <2>3, <2>4, <2>5, <2>6 DEF WSNext
  <1>9. serverMsg' \in DataTypes \cup {"none", "closed"}
    <2>1. ASSUME NEW op \in DataTypes \cup ControlTypes \cup {"Cont"},
                 NEW fin \in BOOLEAN, NEW len \in PayloadLengths, ServerSends(op, fin, len)
          PROVE  serverMsg' \in DataTypes \cup {"none", "closed"}
      BY <2>1, WSInboxSent DEF WSInv, InboxTyped
    <2>2. CASE Renew
      BY <2>2 DEF Renew
    <2>3. serverMsg \in DataTypes \cup {"none", "closed"}
      BY DEF WSInv, WSTypeOK
    <2>4. QED
      BY <2>1, <2>2, <2>3, Zenon DEF WSNext, connect, send, sendPing, close, receive,
                                     ReceiveNothing
  <1>10. QED
    BY <1>1, <1>8, <1>9 DEF WSTypeOK

\* The inbox stays a run of the server's messages.
LEMMA WSInboxKept ==
    ASSUME WSInv, WSNext
    PROVE  InboxTyped'
  <1> USE DEF WSInv
  <1>1. CASE Renew
    BY <1>1 DEF Renew, InboxTyped
  <1>2. CASE connect \/ sendPing \/ close
    BY <1>2 DEF connect, sendPing, close, InboxTyped, Within
  <1>3. ASSUME NEW op \in DataTypes \cup ControlTypes \cup {"Cont"},
               NEW fin \in BOOLEAN, NEW len \in PayloadLengths, ServerSends(op, fin, len)
        PROVE  InboxTyped'
    BY <1>3, WSInboxSent
  <1>4. ASSUME NEW type \in DataTypes, NEW isFinal \in BOOLEAN, send(type, isFinal)
        PROVE  InboxTyped'
    <2>1. /\ inbox' = inbox /\ serverMsg' = serverMsg
          /\ disturbed' \/ (messageType' = messageType /\ disturbed' = disturbed)
      BY <1>4, Zenon DEF send
    <2>2. QED
      BY <2>1 DEF InboxTyped, Within
  <1>5. CASE receive
    BY <1>5, WSInboxReceived
  <1>6. CASE ReceiveNothing
    <2>1. /\ serverMsg' = serverMsg
          /\ \/ inbox' = inbox /\ messageType' = messageType /\ disturbed' = disturbed
             \/ inbox' = <<>> /\ disturbed'
      BY <1>6, Zenon DEF ReceiveNothing
    <2>2. CASE inbox' = <<>> /\ disturbed'
      BY <2>1, <2>2 DEF InboxTyped
    <2>3. QED
      BY <2>1, <2>2 DEF InboxTyped, Within
  <1>7. QED
    BY <1>1, <1>2, <1>3, <1>4, <1>5, <1>6 DEF WSNext

\* The invariant of the client and its server, for every number of frames on
\* their way.
THEOREM WSInvariant == WSSpec => []WSInv
  <1>1. WSInit => WSInv
    <2> SUFFICES ASSUME WSInit PROVE WSInv
      OBVIOUS
    <2>1. WSTypeOK
      <3>1. tcpSocket \in BOOLEAN /\ firstFrame \in BOOLEAN /\ disturbed \in BOOLEAN
        BY Zenon DEF WSInit
      <3>2. QED
        BY <3>1, WSAssumption DEF WSInit, WSTypeOK, NULL
    <2>2. WSStreamLegal /\ SendersAgree /\ InboxTyped
      BY DEF WSInit, WSStreamLegal, SendersAgree, InboxTyped, DataTypes
    <2>3. QED
      BY <2>1, <2>2 DEF WSInv
  <1>2. WSInv /\ [WSNext]_wsVars => WSInv'
    <2> SUFFICES ASSUME WSInv, [WSNext]_wsVars PROVE WSInv'
      OBVIOUS
    <2>1. CASE WSNext
      BY <2>1, WSTypeKept, WSStreamKept, WSInboxKept DEF WSInv
    <2>2. CASE UNCHANGED wsVars
      <3>1. WSTypeOK'
        BY <2>2, Zenon DEF wsVars, link, WSInv, WSTypeOK
      <3>2. WSStreamLegal' /\ SendersAgree'
        BY <2>2 DEF wsVars, link, WSInv, WSStreamLegal, SendersAgree
      <3>3. InboxTyped'
        BY <2>2 DEF wsVars, link, WSInv, InboxTyped, Within
      <3>4. QED
        BY <3>1, <3>2, <3>3 DEF WSInv
    <2>3. QED
      BY <2>1, <2>2
  <1>3. QED
    BY <1>1, <1>2, PTL DEF WSSpec

\* The frames WebSocketClient writes always form messages for the server: a
\* continuation only within a message and a new message only after the last, in
\* whatever order the application's sends, pings and closes, the answers receive
\* gives, and failures come.
THEOREM WSStreamIsLegal == WSSpec => []WSStreamLegal
  <1>1. WSInv => WSStreamLegal
    BY DEF WSInv
  <1>2. QED
    BY <1>1, WSInvariant, PTL

\* receive reports a data frame with the type of the server's message it belongs
\* to, unless the shared _messageType was set within that message.
THEOREM WSTypeIsReported == WSSpec => WSTypeReported
  <1>1. WSInv /\ [WSNext]_wsVars =>
          [receive /\ ~disturbed' => receiveResult'.type = receiveResult'.of]_wsVars
    BY WSInboxReceived DEF WSInv
  <1>2. QED
    BY <1>1, WSInvariant, PTL DEF WSSpec, WSTypeReported

-----------------------------------------------------------------------------
(* TelemetryQueue.                                                         *)

\* Whether a sequence holds m, and whether it holds nothing twice.
Holds_(q, m) == \E i \in DOMAIN q : q[i] = m
NoneRepeated(q) == \A i, j \in DOMAIN q : q[i] = q[j] => i = j

\* Taking the head of a sequence without repetitions takes the head's value out of it.
LEMMA HoldsTail ==
    ASSUME NEW S, NEW q \in Seq(S), q # <<>>, NoneRepeated(q)
    PROVE  /\ NoneRepeated(Tail(q))
           /\ \A m : Holds_(Tail(q), m) <=> Holds_(q, m) /\ m # Head(q)
  <1>1. /\ Tail(q) \in Seq(S) /\ Len(Tail(q)) = Len(q) - 1 /\ Len(q) \in Nat \ {0}
        /\ DOMAIN Tail(q) = 1..(Len(q) - 1) /\ DOMAIN q = 1..Len(q)
        /\ \A i \in 1..(Len(q) - 1) : Tail(q)[i] = q[i + 1]
        /\ Head(q) = q[1]
    OBVIOUS
  <1>2. NoneRepeated(Tail(q))
    BY <1>1 DEF NoneRepeated
  <1>3. ASSUME NEW m, Holds_(Tail(q), m)
        PROVE  Holds_(q, m) /\ m # Head(q)
    BY <1>1, <1>3 DEF Holds_, NoneRepeated
  <1>4. ASSUME NEW m, Holds_(q, m), m # Head(q)
        PROVE  Holds_(Tail(q), m)
    <2>1. PICK i \in 1..Len(q) : q[i] = m
      BY <1>1, <1>4 DEF Holds_
    <2>2. i # 1 /\ i - 1 \in 1..(Len(q) - 1) /\ (i - 1) + 1 = i
      BY <1>1, <1>4, <2>1
    <2>3. QED
      BY <1>1, <2>1, <2>2 DEF Holds_
  <1>5. QED
    BY <1>2, <1>3, <1>4

\* Appending a value the sequence does not hold adds it.
LEMMA HoldsAppend ==
    ASSUME NEW S, NEW q \in Seq(S), NEW x \in S, NoneRepeated(q), ~Holds_(q, x)
    PROVE  /\ NoneRepeated(Append(q, x))
           /\ \A m : Holds_(Append(q, x), m) <=> Holds_(q, m) \/ m = x
  <1>1. /\ Append(q, x) \in Seq(S) /\ DOMAIN Append(q, x) = 1..(Len(q) + 1)
        /\ Len(q) \in Nat /\ DOMAIN q = 1..Len(q)
        /\ \A i \in 1..Len(q) : Append(q, x)[i] = q[i]
        /\ Append(q, x)[Len(q) + 1] = x
    OBVIOUS
  <1>2. QED
    BY <1>1 DEF Holds_, NoneRepeated

\* The types, the producers and the room they saw.
LEMMA TelemetryTypesKept ==
    ASSUME TelemetryInv, [TelemetryNext]_telemetryVars
    PROVE  /\ TelemetryTypeOK' /\ (m_pool \in Seq(1..created))' /\ (telemetry_worker \in 0..created)'
           /\ ProducersTyped' /\ RoomSeen'
  <1> DEFINE Kept ==
        /\ m_pool \in Seq(1..created) /\ Len(m_pool) <= MESSAGE_QUEUE_SIZE
        /\ telemetry_worker \in 0..created /\ created \in 0..MaxMessages
        /\ freed \subseteq 1..created /\ overwritten \subseteq 1..created /\ raced \subseteq Producers
        /\ ProducersTyped /\ RoomSeen
  <1>1. rssi' \in BOOLEAN
    BY Zenon DEF TelemetryInv, TelemetryTypeOK, TelemetryNext, Send, PushTest, Push, Worker,
         WorkerPop, WorkerSent, Network, telemetryVars
  <1>2. Kept'
    <2> USE TelemetryAssumption DEF TelemetryInv, TelemetryTypeOK, ProducersTyped, RoomSeen,
                                    NoMessage, Waiting
    <2>1. ASSUME NEW p \in Producers, Send(p)
          PROVE  Kept'
      <3>1. m_pool \in Seq(1..created')
        BY <2>1 DEF Send
      <3>2. QED
        BY <2>1, <3>1 DEF Send
    <2>2. ASSUME NEW p \in Producers, PushTest(p)
          PROVE  Kept'
      <3>1. CASE full
        <4>1. producer' = [producer EXCEPT ![p] = Waiting] /\ freed' = freed \cup {producer[p].msg}
          BY <2>2, <3>1 DEF PushTest
        <4>2. producer[p].msg \in 1..created
          BY <2>2 DEF PushTest
        <4>3. QED
          BY <2>2, <4>1, <4>2 DEF PushTest
      <3>2. CASE ~full
        <4>1. producer' = [producer EXCEPT ![p].at = "push"] /\ freed' = freed
          BY <2>2, <3>2 DEF PushTest
        <4>2. Len(m_pool) < MESSAGE_QUEUE_SIZE /\ m_pool' = m_pool
          BY <2>2, <3>2 DEF PushTest, full
        <4>3. QED
          BY <2>2, <4>1, <4>2 DEF PushTest
      <3>3. QED
        BY <3>1, <3>2
    <2>3. ASSUME NEW p \in Producers, Push(p)
          PROVE  Kept'
      <3>1. producer[p].msg \in 1..created
        BY <2>3 DEF Push
      <3>0. /\ ProducersTyped'
            /\ raced' \subseteq Producers
            /\ \A q \in Producers : producer'[q].at = "push" => q \in raced'
            /\ created' = created /\ telemetry_worker' = telemetry_worker /\ freed' = freed
        BY <2>3 DEF Push
      <3>2. CASE full
        <4>1. m_pool # <<>> /\ Tail(m_pool) \in Seq(1..created) /\ Head(m_pool) \in 1..created
              /\ Len(Tail(m_pool)) = Len(m_pool) - 1
          BY <3>2 DEF full
        <4>2. m_pool' = Append(Tail(m_pool), producer[p].msg)
              /\ overwritten' = overwritten \cup {Head(m_pool)}
          BY <2>3, <3>2 DEF Push
        <4>3. m_pool' \in Seq(1..created) /\ Len(m_pool') = Len(m_pool)
          BY <3>1, <4>1, <4>2
        <4>4. QED
          BY <3>0, <4>1, <4>2, <4>3
      <3>3. CASE ~full
        <4>1. m_pool' = Append(m_pool, producer[p].msg) /\ overwritten' = overwritten
          BY <2>3, <3>3 DEF Push
        <4>2. m_pool' \in Seq(1..created) /\ Len(m_pool') = Len(m_pool) + 1
              /\ Len(m_pool') <= MESSAGE_QUEUE_SIZE
          BY <3>1, <3>3, <4>1 DEF full
        <4>3. QED
          BY <3>0, <4>1, <4>2
      <3>4. QED
        BY <3>2, <3>3
    <2>4. CASE WorkerPop
      <3>1. Tail(m_pool) \in Seq(1..created) /\ Head(m_pool) \in 1..created
            /\ Len(Tail(m_pool)) = Len(m_pool) - 1
        BY <2>4 DEF WorkerPop
      <3>2. QED
        BY <2>4, <3>1 DEF WorkerPop
    <2>5. CASE WorkerSent
      BY <2>5 DEF WorkerSent
    <2>6. CASE Network \/ UNCHANGED telemetryVars
      BY <2>6 DEF Network, telemetryVars
    <2>7. QED
      BY <2>1, <2>2, <2>3, <2>4, <2>5, <2>6 DEF TelemetryNext, Worker
  <1>3. (m_pool \in Seq(1..MaxMessages))' /\ (telemetry_worker \in 0..MaxMessages)'
    BY <1>2, TelemetryAssumption
  <1>4. QED
    BY <1>1, <1>2, <1>3 DEF TelemetryTypeOK, ProducersTyped

\* A message moves from one place to the next and stays in one place.
LEMMA TelemetryPlacesKept ==
    ASSUME TelemetryInv, [TelemetryNext]_telemetryVars
    PROVE  HeldOnce' /\ OnePlace'
  <1> USE TelemetryAssumption DEF TelemetryInv, TelemetryTypeOK, ProducersTyped, HeldOnce, OnePlace,
                                  InHand, Cached, NoMessage, Waiting
  <1>1. ASSUME NEW p \in Producers, Send(p)
        PROVE  HeldOnce' /\ OnePlace'
    BY <1>1 DEF Send
  <1>2. ASSUME NEW p \in Producers, PushTest(p)
        PROVE  HeldOnce' /\ OnePlace'
    <2>1. CASE full
      <3>1. /\ producer' = [producer EXCEPT ![p] = Waiting] /\ freed' = freed \cup {producer[p].msg}
            /\ UNCHANGED <<m_pool, telemetry_worker, created, overwritten>>
        BY <1>2, <2>1 DEF PushTest
      <3>2. producer[p].msg \in 1..created
        BY <1>2 DEF PushTest
      <3>3. \A m \in 1..created : InHand(m)' <=> InHand(m) /\ m # producer[p].msg
        BY <3>1, <3>2
      <3>4. HeldOnce'
        BY <3>1, <3>2
      <3>5. \A m : Cached(m)' <=> Cached(m)
        BY <3>1
      <3>6. InHand(producer[p].msg)
        BY <3>2
      <3>7. OnePlace'
        <4> HIDE DEF InHand, Cached
        <4> QED
          BY <3>1, <3>2, <3>3, <3>5, <3>6
      <3>8. QED
        BY <3>4, <3>7
    <2>2. CASE ~full
      <3>1. /\ producer' = [producer EXCEPT ![p].at = "push"]
            /\ UNCHANGED <<m_pool, telemetry_worker, created, freed, overwritten>>
        BY <1>2, <2>2 DEF PushTest
      <3>2. \A q \in Producers : producer'[q].msg = producer[q].msg
        BY <3>1
      <3>3. \A m : (InHand(m)' <=> InHand(m)) /\ (Cached(m)' <=> Cached(m))
        BY <3>1, <3>2
      <3>4. HeldOnce'
        BY <3>1, <3>2
      <3>5. OnePlace'
        <4> HIDE DEF InHand, Cached
        <4> QED
          BY <3>1, <3>3
      <3>6. QED
        BY <3>4, <3>5
    <2>3. QED
      BY <2>1, <2>2
  <1>3. ASSUME NEW p \in Producers, Push(p)
        PROVE  HeldOnce' /\ OnePlace'
    <2> DEFINE x == producer[p].msg
    <2>1. /\ producer' = [producer EXCEPT ![p] = Waiting]
          /\ UNCHANGED <<telemetry_worker, created, freed>>
      BY <1>3 DEF Push
    <2>2. x \in 1..created /\ InHand(x) /\ ~Cached(x)
      <3>1. x \in 1..created
        BY <1>3 DEF Push
      <3>2. InHand(x)
        OBVIOUS
      <3> HIDE DEF InHand, Cached, x
      <3>3. QED
        BY <3>1, <3>2
    <2>3. \A m \in 1..created : InHand(m)' <=> InHand(m) /\ m # x
      BY <2>1, <2>2
    <2>4. \A q, r \in Producers : producer'[q].msg = producer'[r].msg /\ producer'[q].msg # NoMessage
                                   => q = r
      BY <2>1, <2>2
    <2>5. NoneRepeated(m_pool) /\ \A m : Cached(m) <=> Holds_(m_pool, m)
      BY DEF NoneRepeated, Holds_
    <2>6. CASE full
      <3>1. m_pool # <<>>
        BY <2>6 DEF full
      <3>2. /\ m_pool' = Append(Tail(m_pool), x)
            /\ overwritten' = overwritten \cup {Head(m_pool)}
        BY <1>3, <2>6 DEF Push
      <3>3. /\ NoneRepeated(Tail(m_pool))
            /\ \A m : Holds_(Tail(m_pool), m) <=> Cached(m) /\ m # Head(m_pool)
        BY <2>5, <3>1, HoldsTail
      <3>4. Tail(m_pool) \in Seq(1..created) /\ Head(m_pool) \in 1..created /\ Cached(Head(m_pool))
        BY <3>1
      <3>5. /\ NoneRepeated(m_pool')
            /\ \A m : Holds_(m_pool', m) <=> (Cached(m) /\ m # Head(m_pool)) \/ m = x
        <4>1. ~Holds_(Tail(m_pool), x)
          BY <2>2, <3>3
        <4> HIDE DEF Cached, x
        <4>2. /\ NoneRepeated(Append(Tail(m_pool), x))
              /\ \A m : Holds_(Append(Tail(m_pool), x), m) <=> Holds_(Tail(m_pool), m) \/ m = x
          BY <2>2, <3>3, <3>4, <4>1, HoldsAppend, ZenonT(60)
        <4>3. QED
          BY <3>2, <3>3, <4>2, Zenon
      <3>6. \A m : Cached(m)' <=> (Cached(m) /\ m # Head(m_pool)) \/ m = x
        BY <3>5 DEF Holds_
      <3>7. HeldOnce'
        BY <2>4, <3>5 DEF NoneRepeated
      <3>8. OnePlace'
        <4> HIDE DEF InHand, Cached
        <4> QED
          BY <2>1, <2>2, <2>3, <3>2, <3>4, <3>6, Zenon
      <3>9. QED
        BY <3>7, <3>8
    <2>7. CASE ~full
      <3>1. m_pool' = Append(m_pool, x) /\ overwritten' = overwritten
        BY <1>3, <2>7 DEF Push
      <3>2. /\ NoneRepeated(m_pool')
            /\ \A m : Holds_(m_pool', m) <=> Cached(m) \/ m = x
        <4>1. ~Holds_(m_pool, x) /\ m_pool \in Seq(1..created)
          BY <2>2, <2>5
        <4> HIDE DEF Cached, x
        <4>2. QED
          BY <2>2, <2>5, <3>1, <4>1, HoldsAppend
      <3>3. \A m : Cached(m)' <=> Cached(m) \/ m = x
        BY <3>2 DEF Holds_
      <3>4. HeldOnce'
        BY <2>4, <3>2 DEF NoneRepeated
      <3>5. OnePlace'
        <4> HIDE DEF InHand, Cached
        <4> QED
          BY <2>1, <2>2, <2>3, <3>1, <3>3, Zenon
      <3>6. QED
        BY <3>4, <3>5
    <2>8. QED
      BY <2>6, <2>7
  <1>4. CASE WorkerPop
    <2>1. /\ m_pool # <<>> /\ m_pool' = Tail(m_pool) /\ telemetry_worker' = Head(m_pool)
          /\ telemetry_worker = 0
          /\ UNCHANGED <<producer, created, freed, overwritten>>
      BY <1>4 DEF WorkerPop
    <2>2. NoneRepeated(m_pool) /\ \A m : Cached(m) <=> Holds_(m_pool, m)
      BY DEF NoneRepeated, Holds_
    <2>3. /\ NoneRepeated(m_pool')
          /\ \A m : Holds_(m_pool', m) <=> Cached(m) /\ m # Head(m_pool)
      BY <2>1, <2>2, HoldsTail
    <2>4. \A m : Cached(m)' <=> Cached(m) /\ m # Head(m_pool)
      BY <2>3 DEF Holds_
    <2>5. \A m : InHand(m)' <=> InHand(m)
      BY <2>1
    <2>6. Head(m_pool) \in 1..created /\ Cached(Head(m_pool))
      BY <2>1
    <2>7. HeldOnce'
      BY <2>1, <2>3 DEF NoneRepeated
    <2>8. OnePlace'
      <3>1. \A m \in 1..created : m # 0
        OBVIOUS
      <3> HIDE DEF InHand, Cached
      <3> QED
        BY <2>1, <2>4, <2>5, <2>6, <3>1, Zenon
    <2>9. QED
      BY <2>7, <2>8
  <1>5. CASE WorkerSent
    BY <1>5 DEF WorkerSent
  <1>6. CASE Network \/ UNCHANGED telemetryVars
    BY <1>6 DEF Network, telemetryVars
  <1>7. QED
    BY <1>1, <1>2, <1>3, <1>4, <1>5, <1>6 DEF TelemetryNext, Worker

\* Every telemetry message is in one place, for every number of producers and messages and
\* every size of the cache.
THEOREM TelemetryInvariant == TelemetrySpec => []TelemetryInv
  <1>1. TelemetryInit => TelemetryInv
    BY TelemetryAssumption
       DEF TelemetryInit, TelemetryInv, TelemetryTypeOK, ProducersTyped, HeldOnce, OnePlace,
           InHand, Cached, RoomSeen, Waiting, NoMessage
  <1>2. TelemetryInv /\ [TelemetryNext]_telemetryVars => TelemetryInv'
    BY TelemetryTypesKept, TelemetryPlacesKept DEF TelemetryInv
  <1>3. QED
    BY <1>1, <1>2, PTL DEF TelemetrySpec

\* A cached message is overwritten only when another producer pushed between this one's
\* test for room and its push.
THEOREM OverwritesRaced == TelemetrySpec => OverwriteNeedsRace
  <1> DEFINE A == \A p \in Producers :
         producer[p].at = "push" /\ producer'[p].at = "idle" /\ overwritten' # overwritten
           => p \in raced
  <1>1. TelemetryInv /\ [TelemetryNext]_telemetryVars => [A]_telemetryVars
    <2> SUFFICES ASSUME TelemetryInv, TelemetryNext, NEW p \in Producers, producer[p].at = "push",
                        producer'[p].at = "idle", overwritten' # overwritten
                 PROVE  p \in raced
      BY DEF telemetryVars
    <2>1. PICK q \in Producers : Push(q)
      BY Zenon DEF TelemetryNext, Send, PushTest, Worker, WorkerPop, WorkerSent, Network
    <2>2. p = q
      BY <2>1 DEF Push, TelemetryInv, ProducersTyped, Waiting
    <2>3. full
      BY <2>1 DEF Push
    <2>4. QED
      BY <2>1, <2>2, <2>3, TelemetryAssumption DEF TelemetryInv, RoomSeen, full
  <1>2. QED
    BY <1>1, TelemetryInvariant, PTL DEF TelemetrySpec, OverwriteNeedsRace

\* The cardinalities of the places of a message add up to one.
LEMMA TelemetryInvAccounts == TelemetryInv => MessageAccounted
  <1> SUFFICES ASSUME TelemetryInv, NEW m \in 1..created
               PROVE  Cardinality({p \in Producers : producer[p].msg = m})
                        + Cardinality({i \in DOMAIN m_pool : m_pool[i] = m})
                        + Cardinality({x \in {"worker"} : telemetry_worker = m})
                        + Cardinality({x \in {"freed"} : m \in freed})
                        + Cardinality({x \in {"lost"} : m \in overwritten}) = 1
    BY DEF MessageAccounted
  <1>1. Cardinality({p \in Producers : producer[p].msg = m}) = IF InHand(m) THEN 1 ELSE 0
    <2>1. CASE InHand(m)
      <3>1. PICK p \in Producers : producer[p].msg = m
        BY <2>1 DEF InHand
      <3>2. {q \in Producers : producer[q].msg = m} = {p}
        BY <3>1 DEF TelemetryInv, HeldOnce, NoMessage
      <3>3. QED
        BY <2>1, <3>2, FS_Singleton
    <2>2. CASE ~InHand(m)
      <3>1. {q \in Producers : producer[q].msg = m} = {}
        BY <2>2 DEF InHand
      <3>2. QED
        BY <2>2, <3>1, FS_EmptySet
    <2>3. QED
      BY <2>1, <2>2
  <1>2. Cardinality({i \in DOMAIN m_pool : m_pool[i] = m}) = IF Cached(m) THEN 1 ELSE 0
    <2>1. CASE Cached(m)
      <3>1. PICK i \in DOMAIN m_pool : m_pool[i] = m
        BY <2>1 DEF Cached
      <3>2. {j \in DOMAIN m_pool : m_pool[j] = m} = {i}
        BY <3>1 DEF TelemetryInv, HeldOnce
      <3>3. QED
        BY <2>1, <3>2, FS_Singleton
    <2>2. CASE ~Cached(m)
      <3>1. {j \in DOMAIN m_pool : m_pool[j] = m} = {}
        BY <2>2 DEF Cached
      <3>2. QED
        BY <2>2, <3>1, FS_EmptySet
    <2>3. QED
      BY <2>1, <2>2
  <1>3. ASSUME NEW c, NEW P \in BOOLEAN
        PROVE  Cardinality({x \in {c} : P}) = IF P THEN 1 ELSE 0
    <2>1. CASE P
      <3>1. {x \in {c} : P} = {c}
        BY <2>1
      <3>2. QED
        BY <2>1, <3>1, FS_Singleton
    <2>2. CASE ~P
      <3>1. {x \in {c} : P} = {}
        BY <2>2
      <3>2. QED
        BY <2>2, <3>1, FS_EmptySet
    <2>3. QED
      BY <2>1, <2>2
  <1>4. /\ Cardinality({x \in {"worker"} : telemetry_worker = m}) = IF telemetry_worker = m THEN 1 ELSE 0
        /\ Cardinality({x \in {"freed"} : m \in freed}) = IF m \in freed THEN 1 ELSE 0
        /\ Cardinality({x \in {"lost"} : m \in overwritten}) = IF m \in overwritten THEN 1 ELSE 0
    BY <1>3
  <1>5. QED
    BY <1>1, <1>2, <1>4 DEF TelemetryInv, OnePlace

-----------------------------------------------------------------------------
(* HTTPServer.                                                             *)

\* socket gives the lowest free descriptor: one of the stack's that nobody holds.
LEMMA NewFdIsFree ==
    ASSUME Free # {}
    PROVE  NewFd \in Fds /\ owner[NewFd] = "free"
  <1>1. Free \subseteq Nat
    BY HTTPAssumption DEF Free
  <1>2. PICK x \in Free : \A y \in Free : ~(<<y, x>> \in OpToRel(<, Nat))
    BY <1>1, WFMin, NatLessThanWellFounded, Zenon
  <1>3. \A y \in Free : x <= y
    <2> SUFFICES ASSUME NEW y \in Free
                 PROVE  x <= y
      OBVIOUS
    <2>1. x \in Nat /\ y \in Nat /\ ~(<<y, x>> \in OpToRel(<, Nat))
      BY <1>1, <1>2
    <2>2. ~(y < x)
      BY <2>1, Zenon DEF OpToRel
    <2>3. x \in Nat /\ y \in Nat
      BY <2>1, Zenon
    <2>4. QED
      BY <2>2, <2>3
  <1>4. NewFd \in Free
    BY <1>3, Zenon DEF NewFd, Min
  <1>5. QED
    BY <1>4 DEF Free

\* The flags of httpd.c and app_httpd.cpp stay flags.
LEMMA HTTPBooleans ==
    ASSUME HTTPTypeOK, [HTTPNext]_httpVars
    PROVE  /\ httpd_stop_req' \in BOOLEAN
           /\ is_http_init' \in BOOLEAN /\ is_handlers_registered' \in BOOLEAN
           /\ torn' \in BOOLEAN /\ foreign' \in BOOLEAN
  <1> USE DEF httpVars, httpdVars, appVars, netVars, AppUnchanged, At, Unless, CloseAll, Continue
  <1>0. /\ httpd_stop_req \in BOOLEAN
        /\ is_http_init \in BOOLEAN /\ is_handlers_registered \in BOOLEAN
        /\ torn \in BOOLEAN /\ foreign \in BOOLEAN
    BY Zenon DEF HTTPTypeOK
  <1>1. CASE Thread
    BY <1>0, <1>1, Zenon DEF Thread, SetupSocket, SetupBind, SetupStore, Select, Accept,
       Accepted, Serve,
         RecvClosed, RecvFails, CloseClient, ClearClient, SuspendCloseHttp, SuspendClearHttp,
         SuspendCloseClient, SuspendClearClient, SuspendState
  <1>2. CASE Caller \/ httpd_server_start \/ app_httpd_stop
    BY <1>0, <1>2, Zenon DEF Caller, httpd_server_start, app_httpd_stop, AlreadyStarted,
       CreateThread,
         CreateFails, SetRunning, RegisterHandlers, LocalConnect, LocalConnectFails, WaitForHalt,
         HaltOrTimeout, DeleteThread, Cleanup
  <1>3. CASE FromPeer
    BY <1>0, <1>3, Zenon DEF FromPeer, RequestLine, HeadersRead, TagsRead, BodyPurged, FormRefused,
         FormStored, ClientConnects, ClientGoes
  <1>4. CASE OtherOpens \/ OtherCloses \/ UNCHANGED httpVars
    BY <1>0, <1>4, Zenon DEF OtherOpens, OtherCloses
  <1>5. QED
    BY <1>1, <1>2, <1>3, <1>4, Zenon DEF HTTPNext

\* The steps of httpd_handle_message only move the thread, and only while it serves.
Handling ==
    \/ RecvClosed \/ RecvFails
    \/ RequestLine \/ HeadersRead \/ TagsRead \/ BodyPurged \/ FormRefused

\* The steps of httpd_handle_message move only the thread, and only while it serves.
LEMMA HandlingMoves ==
    ASSUME Handling
    PROVE  /\ th \in Serving /\ th' \in Serving
           /\ UNCHANGED <<httpdVars, appVars, netVars, thFd, app, wake, polls, torn, foreign>>
  <1>1. PICK from \in Serving, to \in SUBSET Serving : Continue(from, to)
    <2>1. Sent \in SUBSET Serving
      BY DEF Sent, Serving
    <2>2. /\ {"line", "purgeHeaders", "purgeTags", "purgeBody", "body"} \subseteq Serving
          /\ {"close"} \in SUBSET Serving /\ {"serve"} \in SUBSET Serving
          /\ {"purgeHeaders"} \in SUBSET Serving /\ {"body"} \in SUBSET Serving
          /\ {"purgeTags"} \in SUBSET Serving /\ {"serve", "purgeBody"} \in SUBSET Serving
      BY DEF Serving
    <2>3. QED
      BY <2>1, <2>2, Zenon DEF Handling, RecvClosed, RecvFails, RequestLine, HeadersRead, TagsRead,
           BodyPurged, FormRefused
  <1>2. QED
    BY <1>1 DEF Continue, AppUnchanged, httpdVars, appVars, netVars

\* A step keeps the types, and the local descriptor is held where the code holds one.
LEMMA HTTPTypesKept ==
    ASSUME HTTPInv, [HTTPNext]_httpVars
    PROVE  HTTPTypeOK'
  <1> USE HTTPAssumption, NewFdIsFree, HTTPBooleans DEF HTTPInv, StateKnown, HTTPTypeOK,
     ListenersKnown, VariablesCleared, NoFd, httpdVars, appVars, netVars, AppUnchanged,
     ThreadUnchanged, At, Opened, Free, Closed, CloseAll, Unless, ThPCs, AppPCs
  <1>1. CASE UNCHANGED httpVars
    BY <1>1 DEF httpVars
  <1>2. CASE OtherOpens
    BY <1>2 DEF OtherOpens
  <1>3. CASE OtherCloses
    BY <1>3 DEF OtherCloses
  <1>4. CASE ClientConnects
    BY <1>4 DEF ClientConnects
  <1>5. CASE ClientGoes
    BY <1>5 DEF ClientGoes
  <1>6. CASE SetupSocket
    BY <1>6 DEF SetupSocket
  <1>7. CASE SetupBind
    <2>1. CASE th' = "store"
      BY <1>7, <2>1 DEF SetupBind
    <2>2. CASE th' = "suspend"
      <3>1. /\ thFd' = NoFd /\ http_sockfd' = NoFd
            /\ UNCHANGED <<client_sockfd, httpd_state, peer, appVars, app, wake, polls>>
            /\ CloseAll({thFd}, "httpd")
        BY <1>7, <2>2, Zenon DEF SetupBind
      <3>2. /\ owner' \in [Fds -> {"free", "httpd", "app", "other"}]
            /\ listeners' \subseteq Fds /\ backlog' \in 0..MaxBacklog
        BY <3>1
      <3>3. QED
        BY <2>2, <3>1, <3>2
    <2>3. QED
      BY <1>7, <2>1, <2>2 DEF SetupBind
  <1>8. CASE SetupStore
    BY <1>8 DEF SetupStore
  <1>9. CASE Select
    BY <1>9 DEF Select
  <1>10. CASE Accept
    BY <1>10 DEF Accept
  <1>11. CASE Accepted
    BY <1>11 DEF Accepted
  <1>12. CASE Serve
    BY <1>12 DEF Serve
  <1>13. CASE Handling
    <2>1. /\ th \in Serving /\ th' \in Serving
          /\ UNCHANGED <<httpdVars, appVars, netVars, thFd, app, wake, polls, torn, foreign>>
      BY <1>13, HandlingMoves
    <2>2. QED
      BY <2>1 DEF Serving
  <1>15. CASE CloseClient
    BY <1>15 DEF CloseClient
  <1>16. CASE ClearClient
    BY <1>16 DEF ClearClient
  <1>17. CASE SuspendCloseHttp
    BY <1>17 DEF SuspendCloseHttp
  <1>18. CASE SuspendClearHttp
    BY <1>18 DEF SuspendClearHttp
  <1>19. CASE SuspendCloseClient
    BY <1>19 DEF SuspendCloseClient
  <1>20. CASE SuspendClearClient
    BY <1>20 DEF SuspendClearClient
  <1>21. CASE SuspendState
    BY <1>21 DEF SuspendState
  <1>22. CASE httpd_server_start
    BY <1>22 DEF httpd_server_start
  <1>23. CASE AlreadyStarted
    BY <1>23 DEF AlreadyStarted
  <1>24. CASE CreateThread
    BY <1>24 DEF CreateThread
  <1>25. CASE CreateFails
    BY <1>25 DEF CreateFails
  <1>26. CASE SetRunning
    BY <1>26 DEF SetRunning
  <1>27. CASE RegisterHandlers
    BY <1>27 DEF RegisterHandlers
  <1>28. CASE app_httpd_stop
    BY <1>28 DEF app_httpd_stop
  <1>29. CASE LocalConnect
    BY <1>29 DEF LocalConnect
  <1>30. CASE LocalConnectFails
    BY <1>30 DEF LocalConnectFails
  <1>31. CASE WaitForHalt
    BY <1>31 DEF WaitForHalt
  <1>32. CASE HaltOrTimeout
    BY <1>32 DEF HaltOrTimeout
  <1>33. CASE DeleteThread
    BY <1>33 DEF DeleteThread
  <1>34. CASE Cleanup
    BY <1>34 DEF Cleanup
  <1>36. CASE FormStored
    BY <1>36 DEF FormStored
  <1>37. QED
    BY <1>1, <1>2, <1>3, <1>4, <1>5, <1>6, <1>7, <1>8, <1>9, <1>10, <1>11, <1>12, <1>13, <1>15,
       <1>16, <1>17, <1>18, <1>19, <1>20, <1>21, <1>22, <1>23, <1>24, <1>25, <1>26, <1>27, <1>28,
       <1>29, <1>30, <1>31, <1>32, <1>33, <1>34, <1>36, Zenon DEF HTTPNext, Caller, Thread,
       FromPeer, Handling

\* What KnownFds is, by the place of the thread.
KnownTable ==
    /\ th = "none" /\ app # "cleanup" => KnownFds = {}
    /\ th = "none" /\ app = "cleanup" => KnownFds = {http_sockfd, client_sockfd} \ {NoFd}
    /\ th \in {"setup", "suspendClear", "suspendState", "suspended"} => KnownFds = {}
    /\ th \in {"bind", "store"} => KnownFds = {thFd}
    /\ th \in {"select", "handle", "clear"} => KnownFds = {http_sockfd}
    /\ th = "accepted" => KnownFds = {http_sockfd, thFd}
    /\ th \in Serving => KnownFds = {http_sockfd, client_sockfd}
    /\ th = "suspend" => KnownFds = {http_sockfd, client_sockfd} \ {NoFd}
    /\ th \in {"suspendHttp", "suspendClient"} => KnownFds = {client_sockfd} \ {NoFd}

\* The cases of KnownFds exclude each other.
LEMMA KnownIs == KnownTable /\ KnownTable'
  <1>1. KnownTable
    BY DEF KnownTable, KnownFds, Serving
  <1>2. KnownTable'
    BY DEF KnownTable, KnownFds, Serving
  <1>3. QED
    BY <1>1, <1>2

\* Where the state says there is a thread there is one, and the two variables are -1
\* wherever the code has cleared them.
LEMMA HTTPControlKept ==
    ASSUME HTTPInv, HTTPTypeOK', [HTTPNext]_httpVars
    PROVE  StateKnown' /\ VariablesCleared'
  <1> USE HTTPAssumption DEF httpdVars, appVars, netVars, AppUnchanged, ThreadUnchanged, At,
     Unless, NoFd, HTTPInv, HTTPTypeOK,
          StateKnown, VariablesCleared, ThPCs, AppPCs
  <1>1. CASE UNCHANGED httpVars
    BY <1>1 DEF httpVars
  <1>2. CASE OtherOpens
    BY <1>2 DEF OtherOpens
  <1>3. CASE OtherCloses
    BY <1>3 DEF OtherCloses
  <1>4. CASE ClientConnects
    BY <1>4 DEF ClientConnects
  <1>5. CASE ClientGoes
    BY <1>5 DEF ClientGoes
  <1>6. CASE SetupSocket
    BY <1>6 DEF SetupSocket
  <1>7. CASE SetupBind
    BY <1>7 DEF SetupBind
  <1>8. CASE SetupStore
    BY <1>8 DEF SetupStore
  <1>9. CASE Select
    BY <1>9 DEF Select
  <1>10. CASE Accept
    BY <1>10 DEF Accept
  <1>11. CASE Accepted
    BY <1>11 DEF Accepted
  <1>12. CASE Serve
    BY <1>12 DEF Serve
  <1>13. CASE Handling
    <2>1. /\ th \in Serving /\ th' \in Serving
          /\ UNCHANGED <<httpdVars, appVars, netVars, thFd, app, wake, polls, torn, foreign>>
      BY <1>13, HandlingMoves
    <2>2. QED
      BY <2>1 DEF Serving
  <1>14. CASE CloseClient
    BY <1>14 DEF CloseClient
  <1>15. CASE ClearClient
    BY <1>15 DEF ClearClient
  <1>16. CASE SuspendCloseHttp
    BY <1>16 DEF SuspendCloseHttp
  <1>17. CASE SuspendClearHttp
    BY <1>17 DEF SuspendClearHttp
  <1>18. CASE SuspendCloseClient
    BY <1>18 DEF SuspendCloseClient
  <1>19. CASE SuspendClearClient
    BY <1>19 DEF SuspendClearClient
  <1>20. CASE SuspendState
    BY <1>20 DEF SuspendState
  <1>21. CASE httpd_server_start
    BY <1>21 DEF httpd_server_start
  <1>22. CASE AlreadyStarted
    BY <1>22 DEF AlreadyStarted
  <1>23. CASE CreateThread
    BY <1>23 DEF CreateThread
  <1>24. CASE CreateFails
    BY <1>24 DEF CreateFails
  <1>25. CASE SetRunning
    BY <1>25 DEF SetRunning
  <1>26. CASE RegisterHandlers
    BY <1>26 DEF RegisterHandlers
  <1>27. CASE app_httpd_stop
    BY <1>27 DEF app_httpd_stop
  <1>28. CASE LocalConnect
    BY <1>28 DEF LocalConnect
  <1>29. CASE LocalConnectFails
    BY <1>29 DEF LocalConnectFails
  <1>30. CASE WaitForHalt
    BY <1>30 DEF WaitForHalt
  <1>31. CASE HaltOrTimeout
    BY <1>31 DEF HaltOrTimeout
  <1>32. CASE DeleteThread
    BY <1>32 DEF DeleteThread
  <1>33. CASE Cleanup
    BY <1>33 DEF Cleanup
  <1>34. CASE FormStored
    BY <1>34 DEF FormStored
  <1>35. QED
    BY <1>1, <1>2, <1>3, <1>4, <1>5, <1>6, <1>7, <1>8, <1>9, <1>10, <1>11, <1>12, <1>13, <1>14,
       <1>15, <1>16, <1>17, <1>18, <1>19, <1>20, <1>21, <1>22, <1>23, <1>24, <1>25, <1>26, <1>27,
       <1>28, <1>29, <1>30, <1>31, <1>32, <1>33, <1>34, Zenon
       DEF HTTPNext, Caller, Thread, FromPeer, Handling

\* accept never gives the descriptor of the listening socket, which is held.
LEMMA HTTPDistinctKept ==
    ASSUME HTTPInv, [HTTPNext]_httpVars
    PROVE  SocketsDistinct'
  <1> USE HTTPAssumption, NewFdIsFree DEF httpdVars, appVars, netVars, AppUnchanged,
     ThreadUnchanged, At, Unless, NoFd, HTTPInv, HTTPTypeOK,
          SocketsDistinct, VariablesCleared, SocketsHeld, KnownFds, Serving
  <1>1. CASE UNCHANGED httpVars
    BY <1>1 DEF httpVars
  <1>2. CASE OtherOpens
    BY <1>2 DEF OtherOpens
  <1>3. CASE OtherCloses
    BY <1>3 DEF OtherCloses
  <1>4. CASE ClientConnects
    BY <1>4 DEF ClientConnects
  <1>5. CASE ClientGoes
    BY <1>5 DEF ClientGoes
  <1>6. CASE SetupSocket
    BY <1>6 DEF SetupSocket
  <1>7. CASE SetupBind
    BY <1>7 DEF SetupBind
  <1>8. CASE SetupStore
    BY <1>8 DEF SetupStore
  <1>9. CASE Select
    BY <1>9 DEF Select
  <1>10. CASE Accept
    BY <1>10 DEF Accept
  <1>11. CASE Accepted
    BY <1>11 DEF Accepted
  <1>12. CASE Serve
    BY <1>12 DEF Serve
  <1>13. CASE Handling
    <2>1. /\ th \in Serving /\ th' \in Serving
          /\ UNCHANGED <<httpdVars, appVars, netVars, thFd, app, wake, polls, torn, foreign>>
      BY <1>13, HandlingMoves
    <2>2. QED
      BY <2>1 DEF Serving
  <1>14. CASE CloseClient
    BY <1>14 DEF CloseClient
  <1>15. CASE ClearClient
    BY <1>15 DEF ClearClient
  <1>16. CASE SuspendCloseHttp
    BY <1>16 DEF SuspendCloseHttp
  <1>17. CASE SuspendClearHttp
    BY <1>17 DEF SuspendClearHttp
  <1>18. CASE SuspendCloseClient
    BY <1>18 DEF SuspendCloseClient
  <1>19. CASE SuspendClearClient
    BY <1>19 DEF SuspendClearClient
  <1>20. CASE SuspendState
    BY <1>20 DEF SuspendState
  <1>21. CASE httpd_server_start
    BY <1>21 DEF httpd_server_start
  <1>22. CASE AlreadyStarted
    BY <1>22 DEF AlreadyStarted
  <1>23. CASE CreateThread
    BY <1>23 DEF CreateThread
  <1>24. CASE CreateFails
    BY <1>24 DEF CreateFails
  <1>25. CASE SetRunning
    BY <1>25 DEF SetRunning
  <1>26. CASE RegisterHandlers
    BY <1>26 DEF RegisterHandlers
  <1>27. CASE app_httpd_stop
    BY <1>27 DEF app_httpd_stop
  <1>28. CASE LocalConnect
    BY <1>28 DEF LocalConnect
  <1>29. CASE LocalConnectFails
    BY <1>29 DEF LocalConnectFails
  <1>30. CASE WaitForHalt
    BY <1>30 DEF WaitForHalt
  <1>31. CASE HaltOrTimeout
    BY <1>31 DEF HaltOrTimeout
  <1>32. CASE DeleteThread
    BY <1>32 DEF DeleteThread
  <1>33. CASE Cleanup
    BY <1>33 DEF Cleanup
  <1>34. CASE FormStored
    BY <1>34 DEF FormStored
  <1>35. QED
    BY <1>1, <1>2, <1>3, <1>4, <1>5, <1>6, <1>7, <1>8, <1>9, <1>10, <1>11, <1>12, <1>13, <1>14,
       <1>15, <1>16, <1>17, <1>18, <1>19, <1>20, <1>21, <1>22, <1>23, <1>24, <1>25, <1>26, <1>27,
       <1>28, <1>29, <1>30, <1>31, <1>32, <1>33, <1>34, Zenon
       DEF HTTPNext, Caller, Thread, FromPeer, Handling

\* Only the server's sockets listen, and a connection waits only where one listens.
LEMMA HTTPListenersKept ==
    ASSUME HTTPInv, [HTTPNext]_httpVars
    PROVE  ListenersKnown'
  <1> USE HTTPAssumption, NewFdIsFree DEF httpdVars, appVars, netVars, AppUnchanged,
     ThreadUnchanged, At, Unless, NoFd, HTTPInv,
          HTTPTypeOK, StateKnown, ListenersKnown, CloseAll, Closed, Opened, Free
  <1>1. CASE UNCHANGED httpVars
    BY <1>1 DEF httpVars
  <1>2. CASE OtherOpens
    BY <1>2 DEF OtherOpens
  <1>3. CASE OtherCloses
    BY <1>3 DEF OtherCloses
  <1>4. CASE ClientConnects
    <2>1. listeners # {} /\ UNCHANGED <<owner, listeners, th, app, wake>>
      BY <1>4 DEF ClientConnects
    <2>2. backlog' > 0
      BY <1>4 DEF ClientConnects
    <2>3. QED
      BY <2>1, <2>2
  <1>5. CASE ClientGoes
    BY <1>5 DEF ClientGoes
  <1>6. CASE SetupSocket
    BY <1>6 DEF SetupSocket
  <1>7. CASE SetupBind
    <2>1. CASE th' = "store"
      <3>1. owner[thFd] = "httpd" /\ thFd \in Fds
        BY <1>7, KnownIs DEF SocketsHeld, KnownTable, SetupBind
      <3>2. listeners' = {thFd} /\ UNCHANGED <<owner, backlog, app, wake>>
        BY <1>7, <2>1, Zenon DEF SetupBind
      <3>3. QED
        BY <2>1, <3>1, <3>2
    <2>2. CASE th' = "suspend"
      <3>1. owner[thFd] = "httpd"
        BY <1>7, KnownIs DEF SocketsHeld, KnownTable, SetupBind
      <3>2. CloseAll({thFd}, "httpd") /\ UNCHANGED <<app, wake>>
        BY <1>7, <2>2, Zenon DEF SetupBind
      <3>3. QED
        BY <2>2, <3>1, <3>2
    <2>3. QED
      BY <1>7, <2>1, <2>2 DEF SetupBind
  <1>8. CASE SetupStore
    BY <1>8 DEF SetupStore
  <1>9. CASE Select
    BY <1>9 DEF Select
  <1>10. CASE Accept
    BY <1>10 DEF Accept
  <1>11. CASE Accepted
    BY <1>11 DEF Accepted
  <1>12. CASE Serve
    BY <1>12 DEF Serve
  <1>13. CASE Handling
    <2>1. /\ th \in Serving /\ th' \in Serving
          /\ UNCHANGED <<httpdVars, appVars, netVars, thFd, app, wake, polls, torn, foreign>>
      BY <1>13, HandlingMoves
    <2>2. QED
      BY <2>1 DEF Serving
  <1>14. CASE CloseClient
    <2>1. /\ client_sockfd \in Fds /\ owner[client_sockfd] = "httpd"
      BY <1>14, KnownIs DEF CloseClient, Serving, SocketsHeld, KnownTable
    <2>2. /\ CloseAll({client_sockfd}, "httpd") /\ UNCHANGED <<app, wake>>
          /\ th' \in {"suspend", "clear"}
      BY <1>14 DEF CloseClient
    <2>3. QED
      BY <2>1, <2>2
  <1>15. CASE ClearClient
    BY <1>15 DEF ClearClient
  <1>16. CASE SuspendCloseHttp
    BY <1>16, KnownIs DEF SuspendCloseHttp, SocketsHeld, KnownTable
  <1>17. CASE SuspendClearHttp
    BY <1>17 DEF SuspendClearHttp
  <1>18. CASE SuspendCloseClient
    BY <1>18, KnownIs DEF SuspendCloseClient, SocketsHeld, KnownTable
  <1>19. CASE SuspendClearClient
    BY <1>19 DEF SuspendClearClient
  <1>20. CASE SuspendState
    BY <1>20 DEF SuspendState
  <1>21. CASE httpd_server_start
    BY <1>21 DEF httpd_server_start
  <1>22. CASE AlreadyStarted
    BY <1>22 DEF AlreadyStarted
  <1>23. CASE CreateThread
    BY <1>23 DEF CreateThread
  <1>24. CASE CreateFails
    BY <1>24 DEF CreateFails
  <1>25. CASE SetRunning
    BY <1>25 DEF SetRunning
  <1>26. CASE RegisterHandlers
    BY <1>26 DEF RegisterHandlers
  <1>27. CASE app_httpd_stop
    BY <1>27 DEF app_httpd_stop
  <1>28. CASE LocalConnect
    <2>1. /\ listeners # {} /\ UNCHANGED <<listeners, th>>
          /\ app' = "wait" /\ wake' = NewFd /\ owner' = [owner EXCEPT ![NewFd] = "app"]
          /\ NewFd \in Fds /\ owner[NewFd] = "free" /\ app # "wait"
      BY <1>28 DEF LocalConnect
    <2>2. backlog' > 0
      BY <1>28 DEF LocalConnect
    <2>3. QED
      BY <2>1, <2>2
  <1>29. CASE LocalConnectFails
    BY <1>29 DEF LocalConnectFails
  <1>30. CASE WaitForHalt
    BY <1>30 DEF WaitForHalt
  <1>31. CASE HaltOrTimeout
    BY <1>31 DEF HaltOrTimeout
  <1>32. CASE DeleteThread
    BY <1>32 DEF DeleteThread
  <1>33. CASE Cleanup
    BY <1>33, KnownIs DEF Cleanup, SocketsHeld, KnownTable
  <1>34. CASE FormStored
    BY <1>34 DEF FormStored
  <1>35. QED
    BY <1>1, <1>2, <1>3, <1>4, <1>5, <1>6, <1>7, <1>8, <1>9, <1>10, <1>11, <1>12, <1>13, <1>14,
       <1>15, <1>16, <1>17, <1>18, <1>19, <1>20, <1>21, <1>22, <1>23, <1>24, <1>25, <1>26, <1>27,
       <1>28, <1>29, <1>30, <1>31, <1>32, <1>33, <1>34, Zenon
       DEF HTTPNext, Caller, Thread, FromPeer, Handling

\* A thread deleted where every descriptor is in its variable leaves the variables
\* that httpd_close_sockets goes by.
LEMMA DeletedKnown ==
    ASSUME HTTPInv, DeleteThread, ~torn'
    PROVE  ~torn /\ th # "none" /\ KnownFds' = KnownFds
  <1>1. ~torn /\ th \notin Unrecorded
    BY Zenon DEF DeleteThread
  <1>2. th # "none"
    BY DEF HTTPInv, StateKnown, DeleteThread
  <1>3. KnownFds' = {http_sockfd, client_sockfd} \ {NoFd}
    BY KnownIs DEF KnownTable, DeleteThread, httpdVars
  <1>4. \A fd \in KnownFds : fd # NoFd
    BY <1>2, HTTPAssumption DEF HTTPInv, SocketsHeld, NoFd
  <1>5. KnownFds = {http_sockfd, client_sockfd} \ {NoFd}
    BY <1>1, <1>2, <1>4, KnownIs DEF KnownTable, Unrecorded, HTTPInv, HTTPTypeOK, ThPCs,
       VariablesCleared, Serving
  <1>6. QED
    BY <1>1, <1>2, <1>3, <1>5

\* What the thread and the variables account for is open, and the server's.
LEMMA HTTPHeldKept ==
    ASSUME HTTPInv, StateKnown', VariablesCleared', [HTTPNext]_httpVars
    PROVE  SocketsHeld'
  <1> USE HTTPAssumption, NewFdIsFree, HTTPBooleans, KnownIs DEF httpdVars, appVars, netVars,
     AppUnchanged, ThreadUnchanged, At, Unless, NoFd, HTTPInv, HTTPTypeOK, KnownTable,
          StateKnown, VariablesCleared, SocketsDistinct, ListenersKnown, SocketsHeld, CloseAll,
             Closed, Opened, Free, ThPCs, Serving
  <1>1. CASE UNCHANGED httpVars
    BY <1>1 DEF httpVars
  <1>2. CASE OtherOpens
    BY <1>2 DEF OtherOpens
  <1>3. CASE OtherCloses
    <2>1. PICK fd \in Fds :
            owner[fd] = "other" /\ owner' = [f \in Fds |-> IF f \in {fd} THEN "free" ELSE owner[f]]
      BY <1>3, Zenon DEF OtherCloses
    <2>2. KnownFds' = KnownFds /\ (torn' <=> torn) /\ th' = th
      BY <1>3, Zenon DEF OtherCloses, KnownFds
    <2>3. QED
      BY <2>1, <2>2
  <1>4. CASE ClientConnects
    BY <1>4 DEF ClientConnects
  <1>5. CASE ClientGoes
    BY <1>5 DEF ClientGoes
  <1>6. CASE SetupSocket
    BY <1>6 DEF SetupSocket
  <1>7. CASE SetupBind
    BY <1>7 DEF SetupBind
  <1>8. CASE SetupStore
    BY <1>8 DEF SetupStore
  <1>9. CASE Select
    BY <1>9 DEF Select
  <1>10. CASE Accept
    BY <1>10 DEF Accept
  <1>11. CASE Accepted
    BY <1>11 DEF Accepted
  <1>12. CASE Serve
    BY <1>12 DEF Serve
  <1>13. CASE Handling
    <2>1. /\ th \in Serving /\ th' \in Serving
          /\ UNCHANGED <<httpdVars, appVars, netVars, thFd, app, wake, polls, torn, foreign>>
      BY <1>13, HandlingMoves
    <2>2. QED
      BY <2>1 DEF Serving
  <1>14. CASE CloseClient
    BY <1>14 DEF CloseClient
  <1>15. CASE ClearClient
    BY <1>15 DEF ClearClient
  <1>16. CASE SuspendCloseHttp
    BY <1>16 DEF SuspendCloseHttp
  <1>17. CASE SuspendClearHttp
    BY <1>17 DEF SuspendClearHttp
  <1>18. CASE SuspendCloseClient
    BY <1>18 DEF SuspendCloseClient
  <1>19. CASE SuspendClearClient
    BY <1>19 DEF SuspendClearClient
  <1>20. CASE SuspendState
    BY <1>20 DEF SuspendState
  <1>21. CASE httpd_server_start
    BY <1>21 DEF httpd_server_start
  <1>22. CASE AlreadyStarted
    BY <1>22 DEF AlreadyStarted
  <1>23. CASE CreateThread
    BY <1>23 DEF CreateThread
  <1>24. CASE CreateFails
    BY <1>24 DEF CreateFails
  <1>25. CASE SetRunning
    BY <1>25 DEF SetRunning
  <1>26. CASE RegisterHandlers
    BY <1>26 DEF RegisterHandlers
  <1>27. CASE app_httpd_stop
    BY <1>27 DEF app_httpd_stop
  <1>28. CASE LocalConnect
    BY <1>28 DEF LocalConnect
  <1>29. CASE LocalConnectFails
    BY <1>29 DEF LocalConnectFails
  <1>30. CASE WaitForHalt
    BY <1>30 DEF WaitForHalt
  <1>31. CASE HaltOrTimeout
    BY <1>31 DEF HaltOrTimeout
  <1>32. CASE DeleteThread
    <2>1. UNCHANGED <<owner>> /\ th' = "none"
      BY <1>32 DEF DeleteThread
    <2>2. ASSUME ~torn' PROVE ~torn /\ th # "none" /\ KnownFds' = KnownFds
      BY <1>32, <2>2, DeletedKnown
    <2>3. QED
      BY <2>1, <2>2
  <1>33. CASE Cleanup
    BY <1>33 DEF Cleanup
  <1>34. CASE FormStored
    BY <1>34 DEF FormStored
  <1>35. QED
    BY <1>1, <1>2, <1>3, <1>4, <1>5, <1>6, <1>7, <1>8, <1>9, <1>10, <1>11, <1>12, <1>13, <1>14,
       <1>15, <1>16, <1>17, <1>18, <1>19, <1>20, <1>21, <1>22, <1>23, <1>24, <1>25, <1>26, <1>27,
       <1>28, <1>29, <1>30, <1>31, <1>32, <1>33, <1>34, Zenon
       DEF HTTPNext, Caller, Thread, FromPeer, Handling

\* What the server opened is accounted for.
LEMMA HTTPRecordedKept ==
    ASSUME HTTPInv, StateKnown', VariablesCleared', [HTTPNext]_httpVars
    PROVE  SocketsRecorded'
  <1> USE HTTPAssumption, NewFdIsFree, HTTPBooleans, KnownIs DEF httpdVars, appVars, netVars,
     AppUnchanged, ThreadUnchanged, At, Unless, NoFd, HTTPInv, HTTPTypeOK, KnownTable,
          StateKnown, VariablesCleared, SocketsDistinct, SocketsRecorded, CloseAll, Closed,
             Opened, Free, ThPCs, Serving
  <1>1. CASE UNCHANGED httpVars
    BY <1>1 DEF httpVars
  <1>2. CASE OtherOpens
    BY <1>2 DEF OtherOpens
  <1>3. CASE OtherCloses
    BY <1>3, ZenonT(60) DEF OtherCloses
  <1>4. CASE ClientConnects
    BY <1>4 DEF ClientConnects
  <1>5. CASE ClientGoes
    BY <1>5 DEF ClientGoes
  <1>6. CASE SetupSocket
    BY <1>6 DEF SetupSocket
  <1>7. CASE SetupBind
    BY <1>7 DEF SetupBind
  <1>8. CASE SetupStore
    BY <1>8 DEF SetupStore
  <1>9. CASE Select
    BY <1>9 DEF Select
  <1>10. CASE Accept
    BY <1>10 DEF Accept
  <1>11. CASE Accepted
    BY <1>11 DEF Accepted
  <1>12. CASE Serve
    BY <1>12 DEF Serve
  <1>13. CASE Handling
    <2>1. /\ th \in Serving /\ th' \in Serving
          /\ UNCHANGED <<httpdVars, appVars, netVars, thFd, app, wake, polls, torn, foreign>>
      BY <1>13, HandlingMoves
    <2>2. QED
      BY <2>1 DEF Serving
  <1>14. CASE CloseClient
    BY <1>14 DEF CloseClient
  <1>15. CASE ClearClient
    BY <1>15 DEF ClearClient
  <1>16. CASE SuspendCloseHttp
    BY <1>16 DEF SuspendCloseHttp
  <1>17. CASE SuspendClearHttp
    BY <1>17 DEF SuspendClearHttp
  <1>18. CASE SuspendCloseClient
    BY <1>18 DEF SuspendCloseClient
  <1>19. CASE SuspendClearClient
    BY <1>19 DEF SuspendClearClient
  <1>20. CASE SuspendState
    BY <1>20 DEF SuspendState
  <1>21. CASE httpd_server_start
    BY <1>21 DEF httpd_server_start
  <1>22. CASE AlreadyStarted
    BY <1>22 DEF AlreadyStarted
  <1>23. CASE CreateThread
    BY <1>23 DEF CreateThread
  <1>24. CASE CreateFails
    BY <1>24 DEF CreateFails
  <1>25. CASE SetRunning
    BY <1>25 DEF SetRunning
  <1>26. CASE RegisterHandlers
    BY <1>26 DEF RegisterHandlers
  <1>27. CASE app_httpd_stop
    BY <1>27 DEF app_httpd_stop
  <1>28. CASE LocalConnect
    BY <1>28 DEF LocalConnect
  <1>29. CASE LocalConnectFails
    BY <1>29 DEF LocalConnectFails
  <1>30. CASE WaitForHalt
    BY <1>30 DEF WaitForHalt
  <1>31. CASE HaltOrTimeout
    BY <1>31 DEF HaltOrTimeout
  <1>32. CASE DeleteThread
    <2>1. UNCHANGED <<owner>> /\ th' = "none"
      BY <1>32 DEF DeleteThread
    <2>2. ASSUME ~torn' PROVE ~torn /\ th # "none" /\ KnownFds' = KnownFds
      BY <1>32, <2>2, DeletedKnown
    <2>3. QED
      BY <2>1, <2>2
  <1>33. CASE Cleanup
    BY <1>33 DEF Cleanup
  <1>34. CASE FormStored
    BY <1>34 DEF FormStored
  <1>35. QED
    BY <1>1, <1>2, <1>3, <1>4, <1>5, <1>6, <1>7, <1>8, <1>9, <1>10, <1>11, <1>12, <1>13, <1>14,
       <1>15, <1>16, <1>17, <1>18, <1>19, <1>20, <1>21, <1>22, <1>23, <1>24, <1>25, <1>26, <1>27,
       <1>28, <1>29, <1>30, <1>31, <1>32, <1>33, <1>34, Zenon
       DEF HTTPNext, Caller, Thread, FromPeer, Handling

\* Every close is of a socket the closer opened, or of none.
LEMMA HTTPOwnKept ==
    ASSUME HTTPInv, [HTTPNext]_httpVars
    PROVE  ClosesOwnSockets'
  <1> USE HTTPAssumption, HTTPBooleans, KnownIs DEF httpdVars, appVars, netVars, AppUnchanged,
     ThreadUnchanged, At, Unless, NoFd, HTTPInv, HTTPTypeOK,
          StateKnown, KnownTable, VariablesCleared, ClosesOwnSockets, ListenersKnown,
             SocketsHeld, CloseAll,
          ThPCs, Serving
  <1>1. CASE UNCHANGED httpVars
    BY <1>1 DEF httpVars
  <1>2. CASE OtherOpens
    BY <1>2 DEF OtherOpens
  <1>3. CASE OtherCloses
    BY <1>3 DEF OtherCloses
  <1>4. CASE ClientConnects
    BY <1>4 DEF ClientConnects
  <1>5. CASE ClientGoes
    BY <1>5 DEF ClientGoes
  <1>6. CASE SetupSocket
    BY <1>6 DEF SetupSocket
  <1>7. CASE SetupBind
    BY <1>7 DEF SetupBind
  <1>8. CASE SetupStore
    BY <1>8 DEF SetupStore
  <1>9. CASE Select
    BY <1>9 DEF Select
  <1>10. CASE Accept
    BY <1>10 DEF Accept
  <1>11. CASE Accepted
    BY <1>11 DEF Accepted
  <1>12. CASE Serve
    BY <1>12 DEF Serve
  <1>13. CASE Handling
    <2>1. /\ th \in Serving /\ th' \in Serving
          /\ UNCHANGED <<httpdVars, appVars, netVars, thFd, app, wake, polls, torn, foreign>>
      BY <1>13, HandlingMoves
    <2>2. QED
      BY <2>1 DEF Serving
  <1>14. CASE CloseClient
    BY <1>14 DEF CloseClient
  <1>15. CASE ClearClient
    BY <1>15 DEF ClearClient
  <1>16. CASE SuspendCloseHttp
    BY <1>16 DEF SuspendCloseHttp
  <1>17. CASE SuspendClearHttp
    BY <1>17 DEF SuspendClearHttp
  <1>18. CASE SuspendCloseClient
    BY <1>18 DEF SuspendCloseClient
  <1>19. CASE SuspendClearClient
    BY <1>19 DEF SuspendClearClient
  <1>20. CASE SuspendState
    BY <1>20 DEF SuspendState
  <1>21. CASE httpd_server_start
    BY <1>21 DEF httpd_server_start
  <1>22. CASE AlreadyStarted
    BY <1>22 DEF AlreadyStarted
  <1>23. CASE CreateThread
    BY <1>23 DEF CreateThread
  <1>24. CASE CreateFails
    BY <1>24 DEF CreateFails
  <1>25. CASE SetRunning
    BY <1>25 DEF SetRunning
  <1>26. CASE RegisterHandlers
    BY <1>26 DEF RegisterHandlers
  <1>27. CASE app_httpd_stop
    BY <1>27 DEF app_httpd_stop
  <1>28. CASE LocalConnect
    BY <1>28 DEF LocalConnect
  <1>29. CASE LocalConnectFails
    BY <1>29 DEF LocalConnectFails
  <1>30. CASE WaitForHalt
    BY <1>30 DEF WaitForHalt
  <1>31. CASE HaltOrTimeout
    BY <1>31 DEF HaltOrTimeout
  <1>32. CASE DeleteThread
    BY <1>32 DEF DeleteThread
  <1>33. CASE Cleanup
    BY <1>33 DEF Cleanup
  <1>34. CASE FormStored
    BY <1>34 DEF FormStored
  <1>35. QED
    BY <1>1, <1>2, <1>3, <1>4, <1>5, <1>6, <1>7, <1>8, <1>9, <1>10, <1>11, <1>12, <1>13, <1>14,
       <1>15, <1>16, <1>17, <1>18, <1>19, <1>20, <1>21, <1>22, <1>23, <1>24, <1>25, <1>26, <1>27,
       <1>28, <1>29, <1>30, <1>31, <1>32, <1>33, <1>34, Zenon
       DEF HTTPNext, Caller, Thread, FromPeer, Handling

\* The inductive invariant of the HTTP server holds: what httpd.c's thread and its
\* two variables account for are the sockets it has open, wherever the thread stands
\* and whenever app_httpd_stop deletes it.
THEOREM HTTPInvariant == HTTPSpec => []HTTPInv
  <1>1. HTTPInit => HTTPInv
    <2> SUFFICES ASSUME HTTPInit
                 PROVE  HTTPInv
      OBVIOUS
    <2>1. HTTPTypeOK
      <3>1. /\ httpd_stop_req \in BOOLEAN /\ is_http_init \in BOOLEAN
            /\ is_handlers_registered \in BOOLEAN /\ torn \in BOOLEAN /\ foreign \in BOOLEAN
        BY Zenon DEF HTTPInit
      <3>2. QED
        BY <3>1, HTTPAssumption DEF HTTPInit, HTTPTypeOK, NoFd, ThPCs, AppPCs, Pages
    <2>2. StateKnown /\ VariablesCleared /\ SocketsDistinct /\ ListenersKnown
      BY DEF HTTPInit, StateKnown, VariablesCleared, SocketsDistinct, ListenersKnown, Serving
    <2>3. SocketsHeld /\ SocketsRecorded
      BY KnownIs DEF HTTPInit, SocketsHeld, SocketsRecorded, KnownTable
    <2>4. ClosesOwnSockets
      BY Zenon DEF HTTPInit, ClosesOwnSockets
    <2>5. QED
      BY <2>1, <2>2, <2>3, <2>4, Zenon DEF HTTPInv
  <1>2. HTTPInv /\ [HTTPNext]_httpVars => HTTPInv'
    <2> SUFFICES ASSUME HTTPInv, [HTTPNext]_httpVars
                 PROVE  HTTPInv'
      OBVIOUS
    <2>1. HTTPTypeOK'
      BY HTTPTypesKept
    <2>2. StateKnown' /\ VariablesCleared'
      BY <2>1, HTTPControlKept
    <2>3. SocketsHeld' /\ SocketsRecorded'
      BY <2>2, HTTPHeldKept, HTTPRecordedKept
    <2>4. SocketsDistinct' /\ ListenersKnown' /\ ClosesOwnSockets'
      BY HTTPDistinctKept, HTTPListenersKept, HTTPOwnKept
    <2>5. QED
      BY <2>1, <2>2, <2>3, <2>4, Zenon DEF HTTPInv
  <1>3. QED
    BY <1>1, <1>2, PTL DEF HTTPSpec

\* What the invariant says of a server that was stopped.
LEMMA HTTPInvReleases == HTTPInv => StoppedMeansReleased /\ ClosesOwnSockets
  BY KnownIs, HTTPAssumption DEF HTTPInv, HTTPTypeOK, StateKnown, SocketsRecorded, KnownTable,
     StoppedMeansReleased, ListenersKnown

\* httpd_stop leaves no thread and no socket behind, and no descriptor is closed that
\* another task has been given meanwhile, unless the thread was deleted between a
\* descriptor and its variable; for every number of descriptors and every fault.
THEOREM HTTPReleases == HTTPSpec => [](StoppedMeansReleased /\ ClosesOwnSockets)
  BY HTTPInvariant, HTTPInvReleases, PTL

-----------------------------------------------------------------------------
(* ConsoleCLI.                                                             *)

Messages == {"syntax", "nothing", "unknown", "usage", "invalid", "success", "already", "failed",
   "printed"}

\* What a command says is one of the messages of console_cli.cpp.
LEMMA CommandSays ==
    ASSUME NEW argv, NEW o \in Performed(argv)
    PROVE  o.said \subseteq Messages
  <1>w. ASSUME NEW word, NEW zone, NEW n, NEW e \in write_eeprom(word, zone, n)
        PROVE  \E w, m : e = [wrote |-> w, said |-> {m}] /\ m \in {"success", "failed"}
    BY <1>w DEF write_eeprom, Says
  <1>s. ASSUME NEW m \in Messages, NEW e \in Says(m)
        PROVE  e.said \subseteq Messages
    BY <1>s DEF Says
  <1>1. ASSUME NEW e \in wifi_ssid_command(argv)
        PROVE  e.said \subseteq Messages
    <2>1. CASE e \in Says("usage") \/ e \in Says("invalid")
      BY <2>1, <1>s DEF Messages
    <2>2. CASE e \in write_eeprom(argv[2], "ssid", SSIDZoneSize)
      <3>1. PICK w, m : e = [wrote |-> w, said |-> {m}] /\ m \in {"success", "failed"}
        BY <2>2, <1>w
      <3>2. QED
        BY <3>1 DEF Messages
    <2>3. QED
      BY <1>1, <2>1, <2>2, Zenon DEF wifi_ssid_command
  <1>2. ASSUME NEW e \in wifi_pwd_Command(argv)
        PROVE  e.said \subseteq Messages
    <2> DEFINE pwd == IF Len(argv) = 1 THEN <<>> ELSE argv[2]
               warning == IF Len(pwd) + 1 > WIFI_PWD_MAX_LEN THEN {"invalid"} ELSE {}
    <2>1. PICK f \in write_eeprom(pwd, "pwd", PwdZoneSize) : e = [f EXCEPT !.said = @ \union warning]
      BY <1>2, Zenon DEF wifi_pwd_Command
    <2>2. PICK w, m : f = [wrote |-> w, said |-> {m}] /\ m \in {"success", "failed"}
      <3> HIDE DEF pwd, warning
      <3>1. f \in write_eeprom(pwd, "pwd", PwdZoneSize)
        BY <2>1, Zenon
      <3>2. QED
        BY <3>1, <1>w
    <2>3. warning \subseteq {"invalid"}
      OBVIOUS
    <2> HIDE DEF warning
    <2>4. e.said = {m} \union warning
      BY <2>1, <2>2
    <2>5. QED
      BY <2>2, <2>3, <2>4 DEF Messages
  <1>3. ASSUME NEW e \in enable_secure_command(argv)
        PROVE  e.said \subseteq Messages
    <2>1. \/ e.said = {"success"}
          \/ e \in Says("failed") \/ e \in Says("already") \/ e \in Says("usage")
      BY <1>3 DEF enable_secure_command
    <2>2. QED
      BY <2>1, <1>s DEF Messages
  <1>4. CASE o \in Says("unknown") \/ o \in Says("printed")
    BY <1>4, <1>s DEF Messages
  <1>5. QED
    BY <1>1, <1>2, <1>3, <1>4, Zenon DEF Performed

\* The line never outgrows INBUF_SIZE and its echo has its length, whatever is typed
\* and deleted.
LEMMA ConsoleStepKept ==
    ASSUME ConsoleInv, [ConsoleNext]_consoleVars
    PROVE  ConsoleInv'
  <1> USE DEF ConsoleInv, ConsoleTypeOK
  <1>1. CASE get_input
    <2>1. PICK ch \in keyboard : Typed(ch)
      BY <1>1 DEF get_input
    <2>2. ran'.said = {}
      BY <2>1 DEF Typed, NoLine
    <2>3. CASE Len(inbuf) + 1 >= INBUF_SIZE
      <3>1. inbuf' = <<>> /\ terminal' = <<>> /\ keyboard' = keyboard
        BY <2>1, <2>3 DEF Typed
      <3>2. QED
        BY <2>2, <3>1, ConsoleAssumption
    <2>4. CASE ~(Len(inbuf) + 1 >= INBUF_SIZE)
      <3>1. PICK e \in keyboard \union {"*"} : terminal' = Append(terminal, e)
        BY <2>1, <2>4 DEF Typed
      <3>2. inbuf' = Append(inbuf, ch) /\ keyboard' = keyboard
        BY <2>1, <2>4 DEF Typed
      <3>3. QED
        BY <2>2, <2>4, <3>1, <3>2, ConsoleAssumption
    <2>5. QED
      BY <2>3, <2>4
  <1>2. CASE Delete
    <2>1. /\ inbuf' = SubSeq(inbuf, 1, Len(inbuf) - 1)
          /\ terminal' = SubSeq(terminal, 1, Len(terminal) - 1)
          /\ keyboard' = keyboard /\ inbuf # <<>> /\ ran' = NoLine
      BY <1>2 DEF Delete, Front
    <2>2. Len(inbuf) \in Nat /\ Len(inbuf) > 0
      BY <2>1
    <2>3. /\ inbuf' \in Seq(keyboard) /\ terminal' \in Seq(keyboard \union {"*"})
          /\ Len(inbuf') = Len(inbuf) - 1 /\ Len(terminal') = Len(inbuf) - 1
      BY <2>1, <2>2
    <2>4. QED
      BY <2>1, <2>2, <2>3, ConsoleAssumption DEF NoLine
  <1>3. CASE handle_input
    <2> DEFINE s == Scanned(inbuf)
    <2> HIDE DEF s
    <2>1. PICK o \in IF s.ret = 1 THEN Says("syntax") ELSE IF s.argv = <<>> THEN Says("nothing")
                 ELSE Performed(Words(s)) : ran' = [words |-> Words(s), wrote |-> o.wrote, said |-> o.said]
      BY <1>3, Zenon DEF handle_input, s
    <2>2. o.said \subseteq Messages
      <3>1. CASE o \in Says("syntax") \/ o \in Says("nothing")
        BY <3>1 DEF Says, Messages
      <3>2. CASE o \in Performed(Words(s))
        BY <3>2, CommandSays
      <3>3. QED
        BY <2>1, <3>1, <3>2, Zenon
    <2>3. inbuf' = <<>> /\ terminal' = <<>> /\ keyboard' = keyboard
      BY <1>3, Zenon DEF handle_input
    <2>4. ran'.said \subseteq Messages
      BY <2>1, <2>2
    <2>5. QED
      BY <2>3, <2>4, ConsoleAssumption DEF Messages
  <1>4. CASE UNCHANGED consoleVars
    BY <1>4 DEF consoleVars
  <1>5. QED
    BY <1>1, <1>2, <1>3, <1>4 DEF ConsoleNext

\* The line editor of console_cli.cpp stays within its buffer, echoes one character for each
\* it keeps, and says only what a command may say, for every keyboard and every size.
THEOREM ConsoleInvariant == ConsoleSpec => []ConsoleInv
  <1>1. ConsoleInit => ConsoleInv
    BY ConsoleAssumption DEF ConsoleInit, ConsoleInv, ConsoleTypeOK, NoLine
  <1>2. QED
    BY <1>1, ConsoleStepKept, PTL DEF ConsoleSpec

-----------------------------------------------------------------------------
(* The components together.                                                *)

\* A behaviour of MC_Components is, to each component, a behaviour of its own.
LEMMA EachInit ==
    ComponentsInit =>
        /\ RingInit /\ EEPROMInit /\ TickInit /\ TelemetryInit /\ AudioInit /\ WSInit
        /\ UDPInit /\ MulticastInit /\ HTTPInit /\ SerialInit /\ TimeInit /\ WiFiInit
        /\ ConsoleInit /\ DPSInit
  BY Zenon DEF ComponentsInit

\* A step of one component leaves the variables of every other one.
LEMMA EachStep ==
    ASSUME [ComponentsNext]_allVars
    PROVE  /\ [RingNext]_ringVars /\ [EEPROMNext]_eepromVars /\ [TickNext]_tickVars
           /\ [TelemetryNext]_telemetryVars /\ [AudioNext]_audioVars /\ [WSNext]_wsVars
           /\ [UDPNext]_udpVars /\ [MulticastNext]_multicastVars /\ [HTTPNext]_httpVars
           /\ [SerialNext]_serialVars /\ [TimeNext]_timeVars /\ [WiFiNext]_wifiVars
           /\ [ConsoleNext]_consoleVars /\ [DPSNext]_dpsVars
  <1>1. CASE UNCHANGED allVars
    BY <1>1, Zenon DEF allVars
  <1>2. CASE ComponentsNext
    <2>1. PICK name \in {"ring", "eeprom", "tick", "telemetry", "audio", "websocket", "udp",
                         "multicast", "http", "serial", "time", "wifi", "console", "dps"} :
            /\ Others(name)
            /\ name = "ring" => RingNext
            /\ name = "eeprom" => EEPROMNext
            /\ name = "tick" => TickNext
            /\ name = "telemetry" => TelemetryNext
            /\ name = "audio" => AudioNext
            /\ name = "websocket" => WSNext
            /\ name = "udp" => UDPNext
            /\ name = "multicast" => MulticastNext
            /\ name = "http" => HTTPNext
            /\ name = "serial" => SerialNext
            /\ name = "time" => TimeNext
            /\ name = "wifi" => WiFiNext
            /\ name = "console" => ConsoleNext
            /\ name = "dps" => DPSNext
      BY <1>2 DEF ComponentsNext, RingStep, EEPROMStep, TickStep, TelemetryStep, AudioStep,
           WebSocketStep, UDPStep, MulticastStep, HTTPStep, SerialStep, TimeStep, WiFiStep,
           ConsoleStep, DPSStep
    <2>2. QED
      BY <2>1, Zenon DEF Others
  <1>3. QED
    BY <1>1, <1>2, Zenon

\* The components of a behaviour of MC_Components run by their own specifications.
LEMMA ComponentsRun ==
    ComponentsSpec =>
        /\ RingSpec /\ EEPROMSpec /\ TickSpec /\ TelemetrySpec /\ AudioSpec /\ WSSpec
        /\ UDPSpec /\ MulticastSpec /\ HTTPSpec /\ TimeSpec /\ WiFiSpec /\ ConsoleSpec /\ DPSSpec
  BY EachInit, EachStep, PTL DEF ComponentsSpec, RingSpec, EEPROMSpec, TickSpec, TelemetrySpec,
     AudioSpec, WSSpec, UDPSpec, MulticastSpec, HTTPSpec, TimeSpec, WiFiSpec, ConsoleSpec, DPSSpec

\* What the components keep account of is so, for every value of their constants: no telemetry
\* message is lost from sight, the HTTP server closes what it opened and only that, WiFiClass
\* knows its interfaces, the hub given out is the one assigned, and all of them keep their types.
THEOREM ResourcesAreAccounted == ComponentsSpec => []ResourcesAccounted
  <1>1. /\ EEPROMInv /\ TelemetryInv /\ AudioInv /\ WSInv /\ UDPInv /\ MulticastInv /\ HTTPInv
        /\ TimeInv /\ WiFiInv /\ ConsoleInv /\ DPSInv /\ RingTypeOK /\ TickTypeOK
        => ResourcesAccounted
    <2>1. TelemetryInv => MessageAccounted
      BY TelemetryInvAccounts
    <2>2. HTTPInv => StoppedMeansReleased /\ ClosesOwnSockets
      BY HTTPInvReleases
    <2>3. DPSInv => AssignmentKept
      BY DPSInvKeepsHub
    <2>4. QED
      BY <2>1, <2>2, <2>3, Zenon DEF ResourcesAccounted, ComponentsTypeOK, EEPROMInv, TelemetryInv,
           AudioInv, WSInv, UDPInv, MulticastInv, HTTPInv, TimeInv, WiFiInv, ConsoleInv, DPSInv
  <1>2. QED
    BY <1>1, ComponentsRun, EEPROMInvariant, TelemetryInvariant, AudioInvariant, WSInvariant,
       UDPInvariant, MulticastInvariant, HTTPInvariant, TimeInvariant, WiFiInvariant,
       ConsoleInvariant, DPSInvariant, RingTypes, TickTypes, PTL

\* No step writes a setting out of order, lets the time go back, reports a frame as what it is
\* not or a datagram as sent that was not, or overwrites a telemetry message without a race;
\* for every value of the constants.
THEOREM StepsAreHonest == ComponentsSpec => StepsHonest
  BY ComponentsRun, ZonesWrittenInOrder, ReadsGoOn, WSTypeIsReported, UDPHonest, DatagramsWhole,
     OverwritesRaced, PTL DEF StepsHonest

=============================================================================
