--------------------------- MODULE Clients_proofs ---------------------------
(***************************************************************************)
(* Proofs about the clients of the network: the MQTT library, the request  *)
(* the HTTPS client sends, and the parser that reads the response.         *)
(***************************************************************************)
EXTENDS PahoClient, HTTPSRequest, SequenceTheorems, FiniteSetTheorems, TLAPS

(* The packets under way.                                                  *)

\* What a call of sendPacket may leave under way: what was, nothing, or more:
\* the packet or junk, and then junk.
Grew(x) ==
    /\ toBroker' \in Seq(FromClient) /\ (tcpSocket # "up" => toBroker' = <<>>)
    /\ \/ toBroker' = toBroker
       \/ toBroker' = <<>>
       \/ /\ Len(toBroker') > Len(toBroker)
          /\ \A i \in 1 .. Len(toBroker) : toBroker'[i] = toBroker[i]
          /\ toBroker'[Len(toBroker) + 1] \in {x, Junk}
          /\ \A i \in Len(toBroker) + 2 .. Len(toBroker') : toBroker'[i] = Junk

\* A broken packet is one of the packets from the client, and asks for nothing.
LEMMA JunkIsSent == Junk \in FromClient /\ ~IsRequest(Junk) /\ Junk.type # "CONNECT"
  BY DEF Junk, FromClient, IsRequest

\* sendPacket leaves under way what was, or nothing, or more; late, it changes nothing.
LEMMA SendGrows ==
    ASSUME PahoTypeOK, NEW x \in FromClient, NEW late \in BOOLEAN,
           NEW s \in sendPacket(x, late), toBroker' = s.wire
    PROVE  Grew(x) /\ (late => ~s.ok /\ toBroker' = toBroker) /\ s.ok \in BOOLEAN
  <1>1. toBroker \in Seq(FromClient) /\ (tcpSocket # "up" => toBroker = <<>>)
    BY DEF PahoTypeOK, LinkTypeOK, ClientTypeOK, CallTypeOK
  <1>2. Junk \in FromClient
    BY JunkIsSent
  <1>3. s.ok \in BOOLEAN /\ (late => ~s.ok /\ toBroker' = toBroker)
    <2>1. s.ok = TRUE \/ s.ok = FALSE
      BY DEF sendPacket
    <2>2. CASE late
      <3>1. sendPacket(x, late) = {[ok |-> FALSE, wire |-> toBroker, faults |-> faults]}
        BY <2>2, Zenon DEF sendPacket
      <3>2. s = [ok |-> FALSE, wire |-> toBroker, faults |-> faults]
        BY <3>1, Zenon
      <3>3. s.ok = FALSE /\ s.wire = toBroker
        BY <3>2
      <3>4. QED
        BY <3>3, <2>1
    <2>3. QED
      BY <2>1, <2>2
  <1>4. \/ s.wire = toBroker
        \/ tcpSocket = "up" /\ s.wire = Append(toBroker, x)
        \/ s.wire = <<>>
        \/ tcpSocket = "up" /\ \E w \in {<<>>, <<Junk>>, <<x, Junk>>} : s.wire = toBroker \o w
    BY DEF sendPacket
  <1>5. ASSUME s.wire = toBroker
        PROVE  Grew(x)
    BY <1>5, <1>1 DEF Grew
  <1>6. ASSUME tcpSocket = "up" /\ s.wire = Append(toBroker, x)
        PROVE  Grew(x)
    BY <1>6, <1>1 DEF Grew
  <1>7. ASSUME s.wire = <<>>
        PROVE  Grew(x)
    BY <1>7, <1>1 DEF Grew
  <1>8. ASSUME tcpSocket = "up" /\ s.wire = toBroker \o <<>>
        PROVE  Grew(x)
    BY <1>8, <1>1 DEF Grew
  <1>9. ASSUME tcpSocket = "up" /\ s.wire = toBroker \o <<Junk>>
        PROVE  Grew(x)
    <2> DEFINE w == toBroker \o <<Junk>>
    <2>1. <<Junk>> \in Seq(FromClient) /\ Len(<<Junk>>) = 1 /\ <<Junk>>[1] = Junk
      BY <1>2
    <2>2. w \in Seq(FromClient) /\ Len(w) = Len(toBroker) + 1
      BY <2>1, <1>1
    <2>3. \A i \in 1 .. Len(toBroker) : w[i] = toBroker[i]
      BY <2>1, <1>1
    <2>4. w[Len(toBroker) + 1] = Junk
      BY <2>1, <1>1
    <2>5. QED
      BY <2>2, <2>3, <2>4, <1>9, <1>1 DEF Grew
  <1>10. ASSUME tcpSocket = "up" /\ s.wire = toBroker \o <<x, Junk>>
        PROVE  Grew(x)
    <2> DEFINE w == toBroker \o <<x, Junk>>
    <2>1. <<x, Junk>> \in Seq(FromClient) /\ Len(<<x, Junk>>) = 2 /\ <<x, Junk>>[1] = x
              /\ <<x, Junk>>[2] = Junk
      BY <1>2
    <2>2. w \in Seq(FromClient) /\ Len(w) = Len(toBroker) + 2
      BY <2>1, <1>1
    <2>3. \A i \in 1 .. Len(toBroker) : w[i] = toBroker[i]
      BY <2>1, <1>1
    <2>4. w[Len(toBroker) + 1] = x /\ w[Len(toBroker) + 2] = Junk
      BY <2>1, <1>1
    <2>5. QED
      BY <2>2, <2>3, <2>4, <1>10, <1>1 DEF Grew
  <1>11. QED
    BY <1>3, <1>4, <1>5, <1>6, <1>7, <1>8, <1>9, <1>10

(* The types.                                                              *)

\* A call that returned keeps its types.
LEMMA ReturnTypes ==
    ASSUME NEW o, NEW a, NEW rc, Returns_(o, a, rc), isconnected' \in BOOLEAN
    PROVE  CallTypeOK' /\ awaited' = "none" /\ at' = "idle" /\ awaited' \notin Answering
  BY DEF Returns_, CallTypeOK, Answering

\* The client's types do not depend on what it leaves alone.
LEMMA SameClientTypes ==
    ASSUME ClientTypeOK, calls' \in {calls, calls + 1},
           UNCHANGED <<keepAliveInterval, cleansession, torn, packetid, inflight>>
    PROVE  ClientTypeOK'
  BY DEF ClientTypeOK

\* Nor do the types of the call that runs.
LEMMA SameCallTypes ==
    ASSUME CallTypeOK, UNCHANGED <<isconnected, op, awaited, arg>>, expired' \in BOOLEAN,
           \/ UNCHANGED <<at, readbuf>>
           \/ at # "idle" /\ at' \in {"check", "read"}
           \/ at # "idle" /\ at' = "answer" /\ readbuf'.type = awaited /\ awaited # "nothing"
    PROVE  CallTypeOK'
  BY DEF CallTypeOK

\* A packet sent, or not, leaves the link typed.
LEMMA SentTypes ==
    ASSUME LinkTypeOK, UNCHANGED <<tcpSocket, session, toClient>>, UNCHANGED toBroker \/ \E x : Grew(x)
    PROVE  LinkTypeOK'
  BY DEF LinkTypeOK, Grew

\* The requests and the CONNECTs under way after that.
LEMMA GrewSets ==
    ASSUME PahoTypeOK, NEW x \in FromClient, Grew(x)
    PROVE  /\ Requests' \subseteq Requests \cup {Len(toBroker) + 1}
           /\ Connects' \subseteq Connects \cup {Len(toBroker) + 1}
           /\ \A i \in Requests' : i \in Requests => toBroker'[i] = toBroker[i]
           /\ Len(toBroker) + 1 \in Requests' =>
                 IsRequest(x) /\ toBroker'[Len(toBroker) + 1] = x
           /\ Len(toBroker) + 1 \in Connects' => x.type = "CONNECT"
           /\ \A i \in Requests \cup Connects : i \in Nat /\ i < Len(toBroker) + 1
  <1>1. toBroker \in Seq(FromClient) /\ toBroker' \in Seq(FromClient)
    BY DEF PahoTypeOK, LinkTypeOK, ClientTypeOK, CallTypeOK, Grew
  <1>2. \A i \in Requests \cup Connects : i \in Nat /\ i < Len(toBroker) + 1
    BY <1>1 DEF Requests, Connects
  <1>3. ~IsRequest(Junk) /\ Junk.type # "CONNECT"
    BY JunkIsSent
  <1>4. CASE toBroker' = toBroker
    BY <1>4, <1>2, <1>1 DEF Requests, Connects
  <1>5. CASE toBroker' = <<>>
    BY <1>5, <1>2, <1>1 DEF Requests, Connects
  <1>6. CASE /\ Len(toBroker') > Len(toBroker)
             /\ \A i \in 1 .. Len(toBroker) : toBroker'[i] = toBroker[i]
             /\ toBroker'[Len(toBroker) + 1] \in {x, Junk}
             /\ \A i \in Len(toBroker) + 2 .. Len(toBroker') : toBroker'[i] = Junk
    <2>1. \A i \in DOMAIN toBroker' : \/ i \in DOMAIN toBroker /\ toBroker'[i] = toBroker[i]
                                      \/ i = Len(toBroker) + 1 /\ toBroker'[i] = x
                                      \/ toBroker'[i] = Junk
      BY <1>6, <1>1
    <2>2. Len(toBroker) + 1 \notin DOMAIN toBroker
      BY <1>1
    <2>3. QED
      BY <2>1, <2>2, <1>2, <1>3 DEF Requests, Connects
  <1>7. QED
    BY <1>4, <1>5, <1>6 DEF Grew

\* The packets of the calls are packets of the client.
LEMMA PacketsAreSent ==
    ASSUME PahoTypeOK
    PROVE  /\ [type |-> "CONNECT"] \in FromClient /\ [type |-> "DISCONNECT"] \in FromClient
           /\ [type |-> "PINGREQ"] \in FromClient
           /\ \A m \in Message : Publication(m) \in FromClient
           /\ \A t \in {"SUBSCRIBE", "UNSUBSCRIBE"}, n \in Nat, f \in Subscriptions :
                 [type |-> t, id |-> n, filter |-> f] \in FromClient
           /\ \A t \in {"PUBACK", "PUBREC"}, n \in Nat : [type |-> t, id |-> n] \in FromClient
           /\ getNext \in Nat /\ getNext \in 0 .. MAX_PACKET_ID
  BY PahoAssumption DEF PahoTypeOK, ClientTypeOK, FromClient, Message, Publication, getNext

\* Between calls nothing is waited for.
LEMMA BetweenCalls ==
    ASSUME PahoTypeOK, op = "none"
    PROVE  awaited = "none" /\ at = "idle" /\ ~Asking /\ ~Welcomed
  BY DEF PahoTypeOK, LinkTypeOK, ClientTypeOK, CallTypeOK, Asking, Answering, Welcomed

\* What stays as it is: acknowledgements and CONNACKs under way.
LEMMA SameToClient ==
    ASSUME UNCHANGED toClient
    PROVE  Acknowledgements' = Acknowledgements /\ Connacks' = Connacks
  BY DEF Acknowledgements, Connacks


\* A step that takes packets from the front of what is under way and adds none the
\* invariant speaks of, while the call goes on as it was, or ends, or was no
\* request and the client stays connected.
LEMMA Quiet ==
    ASSUME PahoInv, PahoTypeOK', ~torn, NEW d \in Nat, NEW e \in Nat, PacketsWhole',
           \A i \in Requests' : i + d \in Requests /\ toBroker'[i] = toBroker[i + d],
           \A i \in Connects' : i + d \in Connects,
           \A i \in Acknowledgements' : i + e \in Acknowledgements /\ toClient'[i] = toClient[i + e],
           \A i \in Connacks' : i + e \in Connacks /\ toClient'[i] = toClient[i + e],
           UNCHANGED <<session, subscribed, promised, inflight>>, got \subseteq got',
           tcpSocket' = "up" => tcpSocket = "up",
           \/ /\ UNCHANGED <<awaited, arg, isconnected>>
              /\ at' # "answer" \/ (at' = at /\ readbuf' = readbuf)
           \/ /\ awaited' \notin Answering /\ at' # "answer"
              /\ isconnected' => isconnected /\ ~Asking
    PROVE  StreamInv'
  <1>1. PacketsWhole /\ SessionBegins /\ OneAtATime /\ Pending
    BY DEF PahoInv, StreamInv
  <1>2. /\ \A i \in Requests' \cup Connects' \cup Acknowledgements' \cup Connacks' : i \in Nat
        /\ \A i \in Requests \cup Connects \cup Acknowledgements \cup Connacks : i \in Nat
    BY DEF PahoInv, PahoTypeOK, LinkTypeOK, ClientTypeOK, CallTypeOK, Requests, Connects, Acknowledgements, Connacks
  <1>3. /\ Requests = {} => Requests' = {}
        /\ Connects = {} => Connects' = {}
        /\ Acknowledgements = {} => Acknowledgements' = {}
        /\ Connacks = {} => Connacks' = {}
    OBVIOUS
  <1>4. /\ Asking' => Asking /\ UNCHANGED <<awaited, arg, isconnected>>
        /\ at' = "answer" => at = "answer" /\ UNCHANGED <<awaited, arg, isconnected, readbuf>>
        /\ isconnected' => isconnected
        /\ isconnected' /\ ~Asking' => ~Asking
        /\ Welcomed' => Welcomed
    BY DEF Asking, Welcomed
  <1>5. SessionBegins'
    <2>1. (session = "none" /\ tcpSocket = "up")' =>
             /\ \A i \in Connects', j \in Requests' : j < i
             /\ isconnected' \/ Asking' => Connects' = {}
      BY <1>1, <1>2, <1>3, <1>4 DEF SessionBegins
    <2>2. Connacks' # {} \/ Welcomed' =>
             Requests' = {} /\ Acknowledgements' = {} /\ ~isconnected' /\ ~Asking'
      BY <1>1, <1>3, <1>4 DEF SessionBegins
    <2>3. \A i, j \in Connacks' : i = j
      BY <1>1, <1>2 DEF SessionBegins
    <2>4. Welcomed' => Connacks' = {} /\ session' # "none" /\ (readbuf'.rc = 0 => session' = "accepted")
      BY <1>1, <1>3, <1>4 DEF SessionBegins, Welcomed
    <2>5. \A i \in Connacks' : toClient'[i].rc = 0 => session' = "accepted"
      BY <1>1, <1>2 DEF SessionBegins
    <2>6. QED
      BY <2>1, <2>2, <2>3, <2>4, <2>5 DEF SessionBegins
  <1>6. OneAtATime'
    <2>1. isconnected' /\ ~Asking' => Requests' = {} /\ Acknowledgements' = {}
      BY <1>1, <1>3, <1>4 DEF OneAtATime
    <2>2. ASSUME Asking'
          PROVE  /\ isconnected' \/ session' # "none"
                 /\ \A i, j \in Requests' : i = j
                 /\ \A i, j \in Acknowledgements' : i = j
                 /\ Requests' = {} \/ Acknowledgements' = {}
      BY <2>2, <1>1, <1>2, <1>3, <1>4 DEF OneAtATime
    <2>3. \A x : Asking' /\ Done(x) => Done(x)'
      BY <1>4 DEF Done
    <2>4. \A x : Asking' /\ Asked(x) => Asked(x)'
      BY <1>4 DEF Asked, Publication
    <2>5. ASSUME Asking', at' = "answer"
          PROVE  Requests' = {} /\ Acknowledgements' = {} /\ Done(readbuf)'
      BY <2>5, <1>1, <1>3, <1>4, <2>3 DEF OneAtATime, Done
    <2>6. ASSUME Asking', NEW i \in Requests' PROVE Asked(toBroker[i])'
      <3>1. Asked(toBroker[i + d]) /\ toBroker'[i] = toBroker[i + d]
        BY <2>6, <1>1, <1>4 DEF OneAtATime
      <3>2. UNCHANGED <<awaited, arg>>
        BY <2>6, <1>4
      <3>3. QED
        BY <3>1, <3>2 DEF Asked, Publication
    <2>7. ASSUME Asking' PROVE \A i \in Acknowledgements' : Done(toClient[i])'
      BY <2>7, <2>3, <1>1, <1>4 DEF OneAtATime, Done
    <2>8. QED
      BY <2>1, <2>2, <2>5, <2>6, <2>7 DEF OneAtATime
  <1>7. Pending'
    <2>1. NotYetGot' \subseteq NotYetGot
      BY DEF NotYetGot
    <2>2. awaited' = "PUBACK" => awaited = "PUBACK" /\ arg' = arg
      BY <1>4 DEF Answering
    <2>3. isconnected' /\ awaited' # "PUBACK" => isconnected /\ awaited # "PUBACK"
      BY <1>4 DEF Asking, Answering
    <2>4. QED
      BY <2>1, <2>2, <2>3, <1>1 DEF Pending
  <1>8. QED
    BY <1>5, <1>6, <1>7 DEF StreamInv


\* The same for a step that leaves what is under way as it is, or sends what the
\* invariant does not speak of.
LEMMA StaysQuiet ==
    ASSUME PahoInv, PahoTypeOK', UNCHANGED <<toClient, tcpSocket, session, got, subscribed, promised,
                                             inflight, torn>>,
           \/ UNCHANGED toBroker
           \/ \E x \in FromClient : ~IsRequest(x) /\ x.type # "CONNECT" /\ Grew(x),
           \/ /\ UNCHANGED <<awaited, arg, isconnected>>
              /\ at' # "answer" \/ (at' = at /\ readbuf' = readbuf)
           \/ /\ awaited' \notin Answering /\ at' # "answer"
              /\ isconnected' => isconnected /\ ~Asking
    PROVE  PahoInv'
  <1> SUFFICES ASSUME ~torn PROVE StreamInv'
    BY DEF PahoInv, StreamInv
  <1>1. PacketsWhole' /\ PahoTypeOK
    BY DEF PahoInv, StreamInv, PacketsWhole
  <1>2. Acknowledgements' = Acknowledgements /\ Connacks' = Connacks
    BY SameToClient
  <1>3. /\ Requests' \subseteq Requests /\ \A i \in Requests' : toBroker'[i] = toBroker[i]
        /\ Connects' \subseteq Connects
    <2>1. CASE UNCHANGED toBroker
      BY <2>1 DEF Requests, Connects
    <2>2. ASSUME NEW x \in FromClient, ~IsRequest(x), x.type # "CONNECT", Grew(x)
          PROVE  /\ Requests' \subseteq Requests /\ \A i \in Requests' : toBroker'[i] = toBroker[i]
                 /\ Connects' \subseteq Connects
      BY <2>2, <1>1, GrewSets
    <2>3. QED
      BY <2>1, <2>2
  <1>4. /\ \A i \in Requests' \cup Connects' : i + 0 = i
        /\ \A i \in Acknowledgements' \cup Connacks' : i + 0 = i
    BY DEF PahoTypeOK, LinkTypeOK, ClientTypeOK, CallTypeOK, Requests, Connects, Acknowledgements, Connacks
  <1>5. 0 \in Nat /\ got \subseteq got' /\ (tcpSocket' = "up" => tcpSocket = "up")
    OBVIOUS
  <1>6. /\ \A i \in Requests' : i + 0 \in Requests /\ toBroker'[i] = toBroker[i + 0]
        /\ \A i \in Connects' : i + 0 \in Connects
        /\ \A i \in Acknowledgements' : i + 0 \in Acknowledgements /\ toClient'[i] = toClient[i + 0]
        /\ \A i \in Connacks' : i + 0 \in Connacks /\ toClient'[i] = toClient[i + 0]
    BY <1>2, <1>3, <1>4
  <1>7. QED
    BY <1>1, <1>5, <1>6, Quiet

\* MQTT::Client::publish keeps the invariant.
LEMMA PublishKeeps ==
    ASSUME PahoInv, NEW qos \in QoSs, MQTTpublish(qos)
    PROVE  PahoInv'
  <1> DEFINE m == [id |-> IF qos = 0 THEN 0 ELSE getNext, qos |-> qos, message |-> calls + 1]
  <1>0. PahoTypeOK /\ op = "none" /\ qos \in 0 .. 2
    BY PahoAssumption DEF PahoInv, MQTTpublish, Calls
  <1>1. awaited = "none" /\ at = "idle" /\ ~Asking /\ ~Welcomed
    BY <1>0, BetweenCalls
  <1>2. /\ UNCHANGED <<tcpSocket, toClient, session, got, subscribed, torn>>
        /\ calls' = calls + 1 /\ UNCHANGED options
    BY DEF MQTTpublish, broker, Calls
  <1>3. m \in Message /\ m.qos \in QoSs /\ calls + 1 \in Nat
    BY <1>0, PacketsAreSent DEF Message, PahoTypeOK, LinkTypeOK, ClientTypeOK, CallTypeOK
  <1>4. CASE ~isconnected
    <2>1. /\ Returns_("publish", <<m>>, FAILURE)
          /\ UNCHANGED <<isconnected, packetid, inflight, toBroker, promised>>
      BY <1>4 DEF MQTTpublish
    <2>2. PahoTypeOK'
      BY <2>1, <1>0, <1>1, <1>2, <1>3 DEF PahoTypeOK, LinkTypeOK, ClientTypeOK, CallTypeOK, Returns_, options
    <2>3. QED
      <3>1. awaited' \notin Answering /\ at' # "answer" /\ (isconnected' => isconnected /\ ~Asking)
        BY <2>1, <1>4 DEF Returns_, Answering
      <3>2. QED
        BY <3>1, <2>1, <2>2, <1>2, StaysQuiet
  <1>5. CASE isconnected
    <2>1. PICK s \in sendPacket(Publication(m), FALSE) :
            /\ Wrote(s)
            /\ IF s.ok /\ m.qos = 1
               THEN Waits("publish", <<m>>, "PUBACK") /\ UNCHANGED isconnected
               ELSE /\ Returns_("publish", <<m>>, IF s.ok THEN SUCCESS ELSE FAILURE)
                    /\ isconnected' = StillConnected("publish", IF s.ok THEN SUCCESS ELSE FAILURE)
      BY <1>5 DEF MQTTpublish, SendsPublication
    <2>2. /\ packetid' = (IF qos = 0 THEN packetid ELSE getNext)
          /\ inflight' = (IF cleansession THEN inflight ELSE IF qos = 0 THEN NoInflight ELSE m)
          /\ promised' = promised \cup (IF qos = 1 /\ ~cleansession THEN {m.message} ELSE {})
      BY <1>5 DEF MQTTpublish
    <2>3. Publication(m) \in FromClient
      BY <1>0, <1>3, PacketsAreSent
    <2>4. toBroker' = s.wire
      BY <2>1 DEF Wrote
    <2>5. Grew(Publication(m)) /\ s.ok \in BOOLEAN
      BY <1>0, <2>3, <2>4, SendGrows
    <2>6. inflight' \in Message /\ inflight'.qos \in QoSs \cup {0} /\ (inflight' # NoInflight => inflight'.qos # 0)
      BY <2>2, <1>3, <1>0 DEF PahoTypeOK, LinkTypeOK, ClientTypeOK, CallTypeOK, NoInflight, Message
    <2>7. packetid' \in 0 .. MAX_PACKET_ID
      BY <2>2, <1>0, PacketsAreSent DEF PahoTypeOK, LinkTypeOK, ClientTypeOK, CallTypeOK
    <2>8. PahoTypeOK'
      <3>1. toBroker' \in Seq(FromClient) /\ (tcpSocket' # "up" => toBroker' = <<>>)
        BY <2>5, <1>2 DEF Grew
      <3>2. CASE s.ok /\ m.qos = 1
        BY <3>1, <3>2, <2>1, <2>6, <2>7, <1>0, <1>2, <1>3, <1>5 DEF PahoTypeOK, LinkTypeOK, ClientTypeOK, CallTypeOK, Waits, options
      <3>3. CASE ~(s.ok /\ m.qos = 1)
        BY <3>1, <3>3, <2>1, <2>6, <2>7, <1>0, <1>2, <1>3, <1>5 DEF PahoTypeOK, LinkTypeOK, ClientTypeOK, CallTypeOK, Returns_, options, StillConnected, SUCCESS, FAILURE
      <3>4. QED
        BY <3>2, <3>3
    <2>9. QED
      <3> SUFFICES ASSUME ~torn
                   PROVE  SessionBegins' /\ OneAtATime' /\ Pending'
        BY <2>8, <1>2 DEF PahoInv, StreamInv, PacketsWhole
      <3>1. Requests = {} /\ Acknowledgements = {} /\ Connacks = {} /\ NotYetGot = {}
             /\ (session = "none" /\ tcpSocket = "up" => Connects = {})
        BY <1>5, <1>1 DEF PahoInv, StreamInv, SessionBegins, OneAtATime, Pending
      <3>2. Acknowledgements' = {} /\ Connacks' = {}
        BY <3>1, <1>2, SameToClient
      <3>3. /\ Requests' \subseteq {Len(toBroker) + 1}
            /\ Connects' \subseteq Connects
            /\ Len(toBroker) + 1 \in Requests' => m.qos = 1 /\ toBroker'[Len(toBroker) + 1] = Publication(m)
        BY <2>3, <2>5, <3>1, <1>0, GrewSets DEF IsRequest, Publication
      <3>4. NotYetGot' \subseteq {m.message} /\ (m.qos # 1 => NotYetGot' = {})
            /\ NotYetGot' \subseteq {inflight'.message} /\ (NotYetGot' # {} => inflight'.qos = 1)
        BY <2>2, <3>1, <1>2, <1>3 DEF NotYetGot, Message
      <3>5. CASE s.ok /\ m.qos = 1
        <4>1. awaited' = "PUBACK" /\ arg' = <<m>> /\ at' = "check" /\ isconnected' = isconnected
          BY <3>5, <2>1 DEF Waits
        <4>2. SessionBegins'
          BY <4>1, <3>1, <3>2, <3>3, <1>2 DEF SessionBegins, Asking, Answering, Welcomed
        <4>3. OneAtATime'
          BY <4>1, <3>1, <3>2, <3>3, <1>2, <1>5 DEF OneAtATime, Asking, Answering, Asked
        <4>4. Pending'
          BY <4>1, <3>4 DEF Pending
        <4>5. QED
          BY <4>2, <4>3, <4>4
      <3>6. CASE ~(s.ok /\ m.qos = 1)
        <4>1. /\ awaited' = "none" /\ at' = "idle"
              /\ isconnected' = StillConnected("publish", IF s.ok THEN SUCCESS ELSE FAILURE)
          BY <3>6, <2>1 DEF Returns_
        <4>2. isconnected' => isconnected /\ m.qos # 1
          BY <4>1, <3>6, <2>5, <1>5 DEF StillConnected, SUCCESS, FAILURE
        <4>3. SessionBegins'
          BY <4>1, <4>2, <3>1, <3>2, <3>3, <1>2 DEF SessionBegins, Asking, Answering, Welcomed
        <4>4. OneAtATime'
          BY <4>1, <4>2, <3>1, <3>2, <3>3, <1>2, <1>5 DEF OneAtATime, Asking, Answering, Asked
        <4>5. Pending'
          BY <4>1, <4>2, <3>4 DEF Pending
        <4>6. QED
          BY <4>3, <4>4, <4>5
      <3>7. QED
        BY <3>5, <3>6
  <1>6. QED
    BY <1>4, <1>5, <1>0 DEF PahoTypeOK, LinkTypeOK, ClientTypeOK, CallTypeOK


\* MQTT::Client::connect keeps the invariant.
LEMMA ConnectKeeps ==
    ASSUME PahoInv, NEW ka \in BOOLEAN, NEW clean \in BOOLEAN, MQTTconnect(ka, clean)
    PROVE  PahoInv'
  <1> DEFINE x == [type |-> "CONNECT"]
  <1>0. PahoTypeOK /\ op = "none"
    BY DEF PahoInv, MQTTconnect, Calls
  <1>1. awaited = "none" /\ at = "idle" /\ ~Asking /\ ~Welcomed
    BY <1>0, BetweenCalls
  <1>2. /\ UNCHANGED <<tcpSocket, toClient, session, got, subscribed, torn, packetid, inflight, promised,
                        isconnected>>
        /\ calls' = calls + 1
    BY DEF MQTTconnect, broker, Calls
  <1>3. CASE isconnected
    <2>1. Returns_("connect", <<>>, FAILURE) /\ UNCHANGED <<options, toBroker>>
      BY <1>3 DEF MQTTconnect
    <2>2. PahoTypeOK'
      <3>1. isconnected' \in BOOLEAN
        BY <1>0, <1>2 DEF PahoTypeOK, CallTypeOK
      <3>2. CallTypeOK'
        BY <3>1, <2>1, ReturnTypes
      <3>3. LinkTypeOK' /\ ClientTypeOK'
        BY <2>1, <1>0, <1>2, SentTypes, SameClientTypes DEF PahoTypeOK, options
      <3>4. QED
        BY <3>2, <3>3 DEF PahoTypeOK
    <2>3. awaited' \notin Answering /\ at' # "answer" /\ (isconnected' => isconnected /\ ~Asking)
      BY <2>1, <1>1, <1>2 DEF Returns_, Answering
    <2>4. QED
      BY <2>1, <2>2, <2>3, <1>2, StaysQuiet
  <1>4. CASE ~isconnected
    <2>1. PICK s \in sendPacket(x, FALSE) :
            Wrote(s) /\ IF s.ok THEN Waits("connect", <<>>, "CONNACK") ELSE Returns_("connect", <<>>, FAILURE)
      BY <1>4 DEF MQTTconnect
    <2>2. keepAliveInterval' = ka /\ cleansession' = clean
      BY <1>4 DEF MQTTconnect
    <2>3. x \in FromClient /\ ~IsRequest(x)
      BY <1>0, PacketsAreSent DEF IsRequest
    <2>4. Grew(x)
      BY <1>0, <2>1, <2>3, SendGrows DEF Wrote
    <2>5. /\ \/ op' = "connect" /\ awaited' = "CONNACK" /\ at' = "check" /\ expired' = expired
             \/ op' = "none" /\ awaited' = "none" /\ at' = "idle" /\ expired' = FALSE
      BY <2>1 DEF Waits, Returns_
    <2>6. PahoTypeOK'
      <3>1. LinkTypeOK'
        BY <2>4, <1>0, <1>2, SentTypes DEF PahoTypeOK
      <3>2. ClientTypeOK'
        BY <2>2, <1>0, <1>2 DEF PahoTypeOK, ClientTypeOK
      <3>3. CallTypeOK'
        BY <2>5, <1>0, <1>2 DEF PahoTypeOK, CallTypeOK
      <3>4. QED
        BY <3>1, <3>2, <3>3 DEF PahoTypeOK
    <2>7. QED
      <3> SUFFICES ASSUME ~torn
                   PROVE  SessionBegins' /\ OneAtATime' /\ Pending'
        BY <2>6, <1>2 DEF PahoInv, StreamInv, PacketsWhole
      <3>1. ~isconnected' /\ ~Asking' /\ ~Welcomed'
        BY <1>4, <1>2, <2>5 DEF Asking, Answering, Welcomed
      <3>2. /\ Requests' \subseteq Requests
            /\ \A i \in Connects' : i \in Connects \/ \A j \in Requests : j < i
        BY <2>3, <2>4, <1>0, GrewSets
      <3>3. Acknowledgements' = Acknowledgements /\ Connacks' = Connacks
        BY <1>2, SameToClient
      <3>4. SessionBegins'
        BY <3>1, <3>2, <3>3, <1>2 DEF PahoInv, StreamInv, SessionBegins
      <3>5. OneAtATime'
        BY <3>1 DEF OneAtATime
      <3>6. Pending'
        BY <3>1, <2>5, <1>2, <1>4 DEF PahoInv, StreamInv, Pending, NotYetGot
      <3>7. QED
        BY <3>4, <3>5, <3>6
  <1>5. QED
    BY <1>3, <1>4

\* subscribe and unsubscribe keep the invariant.
LEMMA AsksKeeps ==
    ASSUME PahoInv, NEW filter \in Subscriptions, NEW o, NEW t,
           <<o, t>> \in {<<"subscribe", "SUBSCRIBE">>, <<"unsubscribe", "UNSUBSCRIBE">>},
           Asks(o, filter, t)
    PROVE  PahoInv'
  <1> DEFINE x == [type |-> t, id |-> getNext, filter |-> filter]
             ack == IF o = "subscribe" THEN "SUBACK" ELSE "UNSUBACK"
  <1>0. PahoTypeOK /\ op = "none"
    BY DEF PahoInv, Asks, Calls
  <1>1. awaited = "none" /\ at = "idle" /\ ~Asking /\ ~Welcomed
    BY <1>0, BetweenCalls
  <1>2. /\ UNCHANGED <<tcpSocket, toClient, session, got, subscribed, torn, cleansession, inflight, promised,
                        keepAliveInterval>>
        /\ calls' = calls + 1
    BY DEF Asks, broker, Calls
  <1>3. CASE ~isconnected
    <2>1. Returns_(o, <<filter>>, FAILURE) /\ UNCHANGED <<isconnected, packetid, toBroker>>
      BY <1>3 DEF Asks
    <2>2. PahoTypeOK'
      <3>1. isconnected' \in BOOLEAN
        BY <2>1, <1>0 DEF PahoTypeOK, CallTypeOK
      <3>2. CallTypeOK'
        BY <3>1, <2>1, ReturnTypes
      <3>3. LinkTypeOK' /\ ClientTypeOK'
        BY <2>1, <1>0, <1>2, SentTypes, SameClientTypes DEF PahoTypeOK
      <3>4. QED
        BY <3>2, <3>3 DEF PahoTypeOK
    <2>3. awaited' \notin Answering /\ at' # "answer" /\ (isconnected' => isconnected /\ ~Asking)
      BY <2>1, <1>1, <1>2 DEF Returns_, Answering
    <2>4. QED
      BY <2>1, <2>2, <2>3, <1>2, StaysQuiet
  <1>4. CASE isconnected
    <2>1. PICK s \in sendPacket(x, FALSE) :
            /\ Wrote(s)
            /\ IF s.ok THEN Waits(o, <<filter>>, ack) /\ UNCHANGED isconnected
               ELSE Returns_(o, <<filter>>, FAILURE) /\ isconnected' = FALSE
      BY <1>4 DEF Asks
    <2>2. packetid' = getNext
      BY <1>4 DEF Asks
    <2>3. /\ x \in FromClient /\ x.type = t /\ x.filter = filter /\ t # "CONNECT"
          /\ packetid' \in 0 .. MAX_PACKET_ID
      BY <2>2, <1>0, PacketsAreSent
    <2>4. Grew(x)
      BY <1>0, <2>1, <2>3, SendGrows DEF Wrote
    <2>5. \/ op' = o /\ awaited' = ack /\ at' = "check" /\ expired' = expired /\ arg' = <<filter>> /\ isconnected'
          \/ op' = "none" /\ awaited' = "none" /\ at' = "idle" /\ expired' = FALSE /\ isconnected' = FALSE
      BY <2>1, <1>4 DEF Waits, Returns_
    <2>6. PahoTypeOK'
      <3>1. LinkTypeOK'
        BY <2>4, <1>0, <1>2, SentTypes DEF PahoTypeOK
      <3>2. ClientTypeOK'
        BY <2>3, <1>0, <1>2 DEF PahoTypeOK, ClientTypeOK
      <3>3. isconnected' \in BOOLEAN
        BY <2>1, <1>0 DEF PahoTypeOK, CallTypeOK
      <3>4. CallTypeOK'
        BY <3>3, <2>5, <1>0, <1>2 DEF PahoTypeOK, CallTypeOK
      <3>5. QED
        BY <3>1, <3>2, <3>4 DEF PahoTypeOK
    <2>7. QED
      <3> SUFFICES ASSUME ~torn
                   PROVE  SessionBegins' /\ OneAtATime' /\ Pending'
        BY <2>6, <1>2 DEF PahoInv, StreamInv, PacketsWhole
      <3>1. Requests = {} /\ Acknowledgements = {} /\ Connacks = {} /\ NotYetGot = {}
             /\ (session = "none" /\ tcpSocket = "up" => Connects = {})
        BY <1>4, <1>1 DEF PahoInv, StreamInv, SessionBegins, OneAtATime, Pending
      <3>2. Acknowledgements' = {} /\ Connacks' = {} /\ NotYetGot' = {}
        BY <3>1, <1>2, SameToClient DEF NotYetGot
      <3>3. /\ Requests' \subseteq {Len(toBroker) + 1}
            /\ Connects' \subseteq Connects
            /\ Len(toBroker) + 1 \in Requests' => toBroker'[Len(toBroker) + 1] = x
        BY <2>3, <2>4, <3>1, <1>0, GrewSets
      <3>4. SessionBegins'
        BY <2>5, <3>1, <3>2, <3>3, <1>2 DEF SessionBegins, Asking, Answering, Welcomed
      <3>5. OneAtATime'
        <4>1. CASE awaited' = ack /\ at' = "check" /\ arg' = <<filter>> /\ isconnected'
          <5>1. \A i \in Requests' : Asked(toBroker[i])'
            BY <4>1, <3>3, <2>3 DEF Asked
          <5>2. QED
            BY <4>1, <5>1, <3>2, <3>3 DEF OneAtATime, Asking, Answering
        <4>2. CASE awaited' = "none" /\ isconnected' = FALSE
          BY <4>2 DEF OneAtATime, Asking, Answering
        <4>3. QED
          BY <4>1, <4>2, <2>5
      <3>6. Pending'
        BY <3>2, <2>5 DEF Pending
      <3>7. QED
        BY <3>4, <3>5, <3>6
  <1>5. QED
    BY <1>3, <1>4

\* MQTT::Client::yield keeps the invariant.
LEMMA YieldKeeps ==
    ASSUME PahoInv, MQTTyield
    PROVE  PahoInv'
  <1>0. PahoTypeOK /\ op = "none"
    BY DEF PahoInv, MQTTyield, Calls
  <1>1. awaited = "none" /\ at = "idle" /\ ~Asking
    BY <1>0, BetweenCalls
  <1>2. /\ UNCHANGED <<toClient, tcpSocket, session, got, subscribed, promised, inflight, torn, toBroker,
                        isconnected, options, packetid>>
        /\ calls' = calls + 1 /\ Waits("yield", <<>>, "nothing")
    BY DEF MQTTyield, broker, Calls
  <1>3. PahoTypeOK'
    <2>1. LinkTypeOK' /\ ClientTypeOK'
      BY <1>0, <1>2, SentTypes, SameClientTypes DEF PahoTypeOK, options
    <2>2. CallTypeOK'
      BY <1>0, <1>2 DEF PahoTypeOK, CallTypeOK, Waits
    <2>3. QED
      BY <2>1, <2>2 DEF PahoTypeOK
  <1>4. awaited' \notin Answering /\ at' # "answer"
    BY <1>2 DEF Waits, Answering
  <1>5. QED
    BY <1>1, <1>2, <1>3, <1>4, StaysQuiet

\* MQTT::Client::disconnect keeps the invariant.
LEMMA DisconnectKeeps ==
    ASSUME PahoInv, MQTTdisconnect
    PROVE  PahoInv'
  <1> DEFINE x == [type |-> "DISCONNECT"]
  <1>0. PahoTypeOK /\ op = "none"
    BY DEF PahoInv, MQTTdisconnect, Calls
  <1>2. /\ UNCHANGED <<toClient, tcpSocket, session, got, subscribed, promised, inflight, torn,
                        packetid, cleansession>>
        /\ calls' = calls + 1 /\ isconnected' = FALSE
    BY DEF MQTTdisconnect, broker, Calls
  <1>3. PICK s \in sendPacket(x, FALSE) :
           /\ keepAliveInterval' = keepAliveInterval /\ Wrote(s)
           /\ Returns_("disconnect", <<>>, IF s.ok THEN SUCCESS ELSE FAILURE)
    BY DEF MQTTdisconnect
  <1>4. x \in FromClient /\ ~IsRequest(x) /\ x.type # "CONNECT"
    BY <1>0, PacketsAreSent DEF IsRequest
  <1>5. Grew(x)
    BY <1>0, <1>3, <1>4, SendGrows DEF Wrote
  <1>6. PahoTypeOK'
    <2>1. LinkTypeOK' /\ ClientTypeOK'
      BY <1>0, <1>2, <1>3, <1>5, SentTypes, SameClientTypes DEF PahoTypeOK
    <2>2. CallTypeOK'
      BY <1>2, <1>3, ReturnTypes
    <2>3. QED
      BY <2>1, <2>2 DEF PahoTypeOK
  <1>7. awaited' \notin Answering /\ at' # "answer"
    BY <1>3 DEF Returns_, Answering
  <1>8. QED
    BY <1>2, <1>4, <1>5, <1>6, <1>7, StaysQuiet

\* A call under way.
LEMMA DuringCalls ==
    ASSUME PahoTypeOK, at # "idle"
    PROVE  op # "none" /\ awaited # "none" /\ awaited \notin {"PUBLISH", "rest", "junk"}
  BY DEF PahoTypeOK, CallTypeOK

\* The test of the waiting loops, timer and packet, keeps the invariant.
LEMMA LoopTestKeeps ==
    ASSUME PahoInv, LoopTest
    PROVE  PahoInv'
  <1>0. PahoTypeOK /\ at = "check" /\ isconnected \in BOOLEAN
    BY DEF PahoInv, PahoTypeOK, CallTypeOK, LoopTest
  <1>1. /\ UNCHANGED <<toClient, tcpSocket, session, got, subscribed, promised, inflight, torn, options,
                        packetid, calls>>
    BY DEF LoopTest, broker, counters
  <1>2. CASE TimedOut /\ GivesUp
    <2>1. /\ UNCHANGED toBroker
          /\ \E o, a, rc : Returns_(o, a, rc)
          /\ isconnected' = FALSE \/ (op = "yield" /\ isconnected' = isconnected)
      <3>1. CASE op = "connect" /\ awaited = "CONNACK" /\ inflight # NoInflight
        <4>1. PICK s \in sendPacket(Publication(inflight), TRUE) :
                LET rc == IF s.ok THEN SUCCESS ELSE FAILURE
                IN  /\ Wrote(s)
                    /\ IF s.ok /\ inflight.qos = 1
                       THEN Waits("connect", <<inflight>>, "PUBACK") /\ UNCHANGED isconnected
                       ELSE Returns_("connect", <<inflight>>, rc) /\ isconnected' = StillConnected("connect", rc)
          BY <3>1, <1>2 DEF GivesUp, SendsPublication
        <4>2. inflight \in Message
          BY <1>0 DEF PahoTypeOK, ClientTypeOK
        <4>3. Publication(inflight) \in FromClient /\ toBroker' = s.wire
          BY <4>1, <4>2, <1>0, PacketsAreSent DEF Wrote
        <4>4. ~s.ok /\ toBroker' = toBroker
          BY <4>3, <1>0, SendGrows
        <4>5. Returns_("connect", <<inflight>>, FAILURE) /\ isconnected' = StillConnected("connect", FAILURE)
          BY <4>1, <4>4
        <4>6. isconnected' = FALSE
          <5>1. FAILURE # SUCCESS
            BY DEF FAILURE, SUCCESS
          <5>2. QED
            BY <4>5, <5>1, Zenon DEF StillConnected
        <4>7. QED
          BY <4>4, <4>5, <4>6
      <3>2. CASE op = "yield"
        BY <3>2, <1>2 DEF GivesUp
      <3>3. CASE ~(op = "connect" /\ awaited = "CONNACK" /\ inflight # NoInflight) /\ op # "yield"
        BY <3>3, <1>2 DEF GivesUp
      <3>4. QED
        BY <3>1, <3>2, <3>3
    <2>2. isconnected' \in BOOLEAN
      BY <2>1, <1>0
    <2>3. CallTypeOK' /\ awaited' \notin Answering /\ at' # "answer"
      BY <2>1, <2>2, ReturnTypes
    <2>4. LinkTypeOK' /\ ClientTypeOK'
      BY <2>1, <1>0, <1>1, SentTypes, SameClientTypes DEF PahoTypeOK, options
    <2>5. PahoTypeOK'
      BY <2>3, <2>4 DEF PahoTypeOK
    <2>6. isconnected' => isconnected /\ ~Asking
      BY <2>1, <1>0 DEF Asking, Answering, PahoTypeOK, CallTypeOK
    <2>7. QED
      BY <2>1, <2>3, <2>5, <2>6, <1>1, StaysQuiet
  <1>3. CASE at' = "read" /\ UNCHANGED <<op, arg, awaited, isconnected, toBroker>> /\ expired' \in BOOLEAN
    <2>1. LinkTypeOK' /\ ClientTypeOK'
      BY <1>3, <1>0, <1>1, SentTypes, SameClientTypes DEF PahoTypeOK, options
    <2>2. CallTypeOK'
      BY <1>3, <1>0, SameCallTypes DEF PahoTypeOK
    <2>3. PahoTypeOK'
      BY <2>1, <2>2 DEF PahoTypeOK
    <2>4. QED
      BY <2>3, <1>3, <1>1, StaysQuiet
  <1>4. expired \in BOOLEAN
    BY <1>0 DEF PahoTypeOK, CallTypeOK
  <1>5. QED
    BY <1>2, <1>3, <1>4 DEF LoopTest

(* cycle: the packet that was read.                                        *)

\* A step of cycle keeps what the link, the session and the types allow.
LEMMA CycleStep ==
    ASSUME PahoTypeOK, NEW x, NEW late \in BOOLEAN, cycle(x, late), x.type = "PUBLISH" => x.id \in Nat
    PROVE  /\ \/ UNCHANGED toBroker
              \/ \E y \in FromClient : ~IsRequest(y) /\ y.type # "CONNECT" /\ Grew(y)
           /\ UNCHANGED <<tcpSocket, isconnected, options, packetid, inflight, session, got, subscribed, promised, calls>>
           /\ Goes(x, late) \/ (op = "yield" /\ x.type = "PUBLISH" /\ Returns_("yield", <<>>, FAILURE))
  <1>1. UNCHANGED <<tcpSocket, isconnected, options, packetid, inflight, session, got, subscribed, promised, calls>>
    BY DEF cycle, broker, counters
  <1>2. CASE x.type = "PUBLISH" /\ x.qos > 0
    <2> DEFINE y == [type |-> IF x.qos = 1 THEN "PUBACK" ELSE "PUBREC", id |-> x.id]
    <2>1. PICK s \in sendPacket(y, late) :
            Wrote(s) /\ IF s.ok \/ op # "yield" THEN Goes(x, late) ELSE Returns_("yield", <<>>, FAILURE)
      BY <1>2 DEF cycle, Acknowledges
    <2>2. y \in FromClient /\ ~IsRequest(y) /\ y.type # "CONNECT"
      BY <1>2, PacketsAreSent DEF IsRequest
    <2>3. Grew(y)
      BY <2>1, <2>2, SendGrows DEF Wrote
    <2>4. QED
      BY <1>1, <1>2, <2>1, <2>2, <2>3
  <1>3. CASE ~(x.type = "PUBLISH" /\ x.qos > 0)
    <2> DEFINE y == [type |-> "PINGREQ"]
    <2>1. keepalive(x, late)
      BY <1>3 DEF cycle
    <2>2. y \in FromClient /\ ~IsRequest(y) /\ y.type # "CONNECT"
      BY PacketsAreSent DEF IsRequest
    <2>3. Goes(x, late)
      BY <2>1 DEF keepalive
    <2>4. UNCHANGED toBroker \/ \E s \in sendPacket(y, FALSE) : Wrote(s)
      BY <2>1 DEF keepalive
    <2>5. UNCHANGED toBroker \/ Grew(y)
      BY <2>2, <2>4, SendGrows DEF Wrote
    <2>6. QED
      BY <1>1, <2>2, <2>3, <2>5
  <1>4. QED
    BY <1>2, <1>3

\* A step of cycle keeps the types, whatever was read.
LEMMA CycleTypes ==
    ASSUME PahoTypeOK, at = "read", NEW x, NEW late \in BOOLEAN, cycle(x, late), torn' \in BOOLEAN,
           x.type = "PUBLISH" => x.id \in Nat, x.type # "nothing",
           toClient' \in Seq(FromBroker), toClient = <<>> => toClient' = <<>>
    PROVE  PahoTypeOK'
  <1>1. /\ \/ UNCHANGED toBroker
           \/ \E y \in FromClient : ~IsRequest(y) /\ y.type # "CONNECT" /\ Grew(y)
        /\ UNCHANGED <<tcpSocket, isconnected, options, packetid, inflight, session, got, subscribed, promised, calls>>
        /\ Goes(x, late) \/ (op = "yield" /\ x.type = "PUBLISH" /\ Returns_("yield", <<>>, FAILURE))
    BY CycleStep
  <1>2. LinkTypeOK'
    BY <1>1 DEF PahoTypeOK, LinkTypeOK, Grew
  <1>3. ClientTypeOK'
    BY <1>1 DEF PahoTypeOK, ClientTypeOK, options
  <1>4. CASE Goes(x, late)
    <2>1. CallTypeOK'
      BY <1>1, <1>4, SameCallTypes DEF Goes, PahoTypeOK
    <2>2. QED
      BY <2>1, <1>2, <1>3 DEF PahoTypeOK
  <1>5. CASE Returns_("yield", <<>>, FAILURE)
    <2>1. isconnected' \in BOOLEAN
      BY <1>1 DEF PahoTypeOK, CallTypeOK
    <2>2. CallTypeOK'
      BY <2>1, <1>5, ReturnTypes
    <2>3. QED
      BY <2>2, <1>2, <1>3 DEF PahoTypeOK
  <1>6. QED
    BY <1>1, <1>4, <1>5

\* A read that found nothing keeps the invariant.
LEMMA ReadNothingKeeps ==
    ASSUME PahoInv, readNothing
    PROVE  PahoInv'
  <1>0. PahoTypeOK /\ at = "read" /\ UNCHANGED <<toClient, torn>>
    BY DEF PahoInv, readNothing
  <1>1. expired \in BOOLEAN /\ torn \in BOOLEAN /\ toClient \in Seq(FromBroker)
    BY <1>0 DEF PahoTypeOK, LinkTypeOK, ClientTypeOK, CallTypeOK
  <1>2. PICK late \in BOOLEAN : cycle(NoPacket, late)
    BY <1>1 DEF readNothing
  <1>3. NoPacket.type = "none"
    BY DEF NoPacket
  <1>4. PahoTypeOK'
    BY <1>0, <1>1, <1>2, <1>3, CycleTypes
  <1>5. /\ \/ UNCHANGED toBroker
           \/ \E y \in FromClient : ~IsRequest(y) /\ y.type # "CONNECT" /\ Grew(y)
        /\ UNCHANGED <<tcpSocket, isconnected, inflight, session, got, subscribed, promised>>
        /\ Goes(NoPacket, late)
    BY <1>0, <1>2, <1>3, CycleStep
  <1>6. at' = "check" /\ UNCHANGED <<awaited, arg, isconnected>>
    BY <1>0, <1>3, <1>5, DuringCalls DEF Goes
  <1>7. QED
    BY <1>0, <1>4, <1>5, <1>6, StaysQuiet

\* Once a packet was read in part nothing is promised.
LEMMA ReadPartKeeps ==
    ASSUME PahoInv, readPart
    PROVE  PahoInv'
  <1>0. PahoTypeOK /\ at = "read" /\ torn' = TRUE /\ toClient # <<>> /\ toClient' = <<RestOf>> \o Tail(toClient)
         /\ cycle(NoPacket, TRUE)
    BY DEF PahoInv, readPart
  <1>1. toClient \in Seq(FromBroker) /\ RestOf \in FromBroker
    BY <1>0 DEF PahoTypeOK, LinkTypeOK, RestOf, FromBroker
  <1>2. Tail(toClient) \in Seq(FromBroker) /\ <<RestOf>> \in Seq(FromBroker)
    BY <1>0, <1>1
  <1>3. toClient' \in Seq(FromBroker)
    BY <1>0, <1>2
  <1>4. NoPacket.type = "none"
    BY DEF NoPacket
  <1>5. PahoTypeOK'
    BY <1>0, <1>3, <1>4, CycleTypes
  <1>6. QED
    BY <1>0, <1>5 DEF PahoInv, StreamInv

\* The rest of a packet, read or not in time, keeps the invariant.
LEMMA ReadRestKeeps ==
    ASSUME PahoInv, readRest
    PROVE  PahoInv'
  <1>0. PahoTypeOK /\ at = "read" /\ torn' = torn /\ toClient # <<>> /\ Head(toClient) = RestOf
    BY DEF PahoInv, readRest
  <1>1. toClient \in Seq(FromBroker) /\ RestOf \in FromBroker /\ expired \in BOOLEAN /\ torn \in BOOLEAN
    BY <1>0 DEF PahoTypeOK, LinkTypeOK, ClientTypeOK, CallTypeOK, RestOf, FromBroker
  <1>2. torn
    <2>1. 1 \in DOMAIN toClient /\ toClient[1] = RestOf
      BY <1>0, <1>1
    <2>2. QED
      BY <2>1 DEF PahoInv, StreamInv, PacketsWhole
  <1>3. toClient' \in Seq(FromBroker)
    <2>1. Tail(toClient) \in Seq(FromBroker) /\ <<RestOf>> \in Seq(FromBroker)
      BY <1>0, <1>1
    <2>2. CASE toClient' = Tail(toClient)
      BY <2>1, <2>2
    <2>3. CASE Len(toClient) > 1 /\ toClient' = <<RestOf>> \o Tail(Tail(toClient))
      <3>1. Len(Tail(toClient)) = Len(toClient) - 1 /\ Len(toClient) \in Nat
        BY <2>3, <1>0, <1>1
      <3>2. Tail(Tail(toClient)) \in Seq(FromBroker)
        <4>1. Tail(toClient) # <<>>
          <5>1. Len(Tail(toClient)) # 0
            BY <3>1, <2>3
          <5>2. Len(<<>>) = 0
            OBVIOUS
          <5>3. QED
            BY <5>1, <5>2, Zenon
        <4>2. QED
          BY <4>1, <2>1
      <3>3. QED
        BY <3>2, <2>1, <2>3
    <2>4. QED
      BY <2>2, <2>3 DEF readRest
  <1>4. PICK x \in JunkPackets : cycle(x, expired)
    BY DEF readRest
  <1>5. x.id \in Nat /\ x.type # "nothing"
    BY <1>4 DEF JunkPackets
  <1>6. PahoTypeOK'
    BY <1>0, <1>1, <1>3, <1>4, <1>5, CycleTypes
  <1>7. QED
    BY <1>0, <1>2, <1>6 DEF PahoInv, StreamInv

\* What is left when the first packet is taken.
LEMMA TakenFromBroker ==
    ASSUME PahoTypeOK, toClient # <<>>, toClient' = Tail(toClient)
    PROVE  /\ toClient' \in Seq(FromBroker) /\ Head(toClient) \in FromBroker
           /\ 1 \in DOMAIN toClient /\ Head(toClient) = toClient[1]
           /\ \A i \in DOMAIN toClient' : i \in Nat \ {0} /\ i + 1 \in DOMAIN toClient /\ toClient'[i] = toClient[i + 1]
           /\ \A i \in Acknowledgements' : i + 1 \in Acknowledgements /\ toClient'[i] = toClient[i + 1]
           /\ \A i \in Connacks' : i + 1 \in Connacks /\ toClient'[i] = toClient[i + 1]
           /\ Head(toClient).type \in Answering => 1 \in Acknowledgements
           /\ Head(toClient).type = "CONNACK" => 1 \in Connacks
  <1>1. toClient \in Seq(FromBroker)
    BY DEF PahoTypeOK, LinkTypeOK
  <1>2. /\ toClient' \in Seq(FromBroker) /\ Head(toClient) \in FromBroker
        /\ 1 \in DOMAIN toClient /\ Head(toClient) = toClient[1]
    BY <1>1
  <1>3. \A i \in DOMAIN toClient' : i \in Nat \ {0} /\ i + 1 \in DOMAIN toClient /\ toClient'[i] = toClient[i + 1]
    BY <1>1
  <1>4. QED
    BY <1>2, <1>3 DEF Acknowledgements, Connacks

\* What is left of the packets under way when the first is taken.
LEMMA TakenFromClient ==
    ASSUME PahoTypeOK, toBroker # <<>>, toBroker' = Tail(toBroker)
    PROVE  /\ toBroker' \in Seq(FromClient) /\ Head(toBroker) \in FromClient
           /\ 1 \in DOMAIN toBroker /\ Head(toBroker) = toBroker[1]
           /\ \A i \in Requests' : i \in Nat \ {0} /\ i + 1 \in Requests /\ toBroker'[i] = toBroker[i + 1]
           /\ \A i \in Connects' : i \in Nat \ {0} /\ i + 1 \in Connects
           /\ IsRequest(Head(toBroker)) => 1 \in Requests
           /\ Head(toBroker).type = "CONNECT" => 1 \in Connects
  <1>1. toBroker \in Seq(FromClient)
    BY DEF PahoTypeOK, LinkTypeOK
  <1>2. /\ toBroker' \in Seq(FromClient) /\ Head(toBroker) \in FromClient
        /\ 1 \in DOMAIN toBroker /\ Head(toBroker) = toBroker[1]
    BY <1>1
  <1>3. \A i \in DOMAIN toBroker' : i \in Nat \ {0} /\ i + 1 \in DOMAIN toBroker /\ toBroker'[i] = toBroker[i + 1]
    BY <1>1
  <1>4. QED
    BY <1>2, <1>3 DEF Requests, Connects

\* The read of a packet keeps the invariant.
LEMMA ReadPacketKeeps ==
    ASSUME PahoInv, readPacket
    PROVE  PahoInv'
  <1> DEFINE x == Head(toClient)
  <1>0. PahoTypeOK /\ at = "read" /\ torn' = torn /\ toClient # <<>> /\ toClient' = Tail(toClient)
         /\ cycle(x, expired)
    BY DEF PahoInv, readPacket
  <1>1. expired \in BOOLEAN /\ torn \in BOOLEAN /\ session # "none"
    BY <1>0 DEF PahoTypeOK, LinkTypeOK, ClientTypeOK, CallTypeOK
  <1>2. /\ toClient' \in Seq(FromBroker) /\ x \in FromBroker
        /\ 1 \in DOMAIN toClient /\ x = toClient[1]
        /\ \A i \in DOMAIN toClient' : i \in Nat \ {0} /\ i + 1 \in DOMAIN toClient /\ toClient'[i] = toClient[i + 1]
        /\ \A i \in Acknowledgements' : i + 1 \in Acknowledgements /\ toClient'[i] = toClient[i + 1]
        /\ \A i \in Connacks' : i + 1 \in Connacks /\ toClient'[i] = toClient[i + 1]
        /\ x.type \in Answering => 1 \in Acknowledgements
        /\ x.type = "CONNACK" => 1 \in Connacks
    BY <1>0, TakenFromBroker
  <1>3. (x.type = "PUBLISH" => x.id \in Nat) /\ x.type # "nothing"
    BY <1>2 DEF FromBroker
  <1>4. PahoTypeOK'
    <2> HIDE DEF x
    <2>1. QED
      BY <1>0, <1>1, <1>2, <1>3, CycleTypes
  <1>5. /\ \/ UNCHANGED toBroker
           \/ \E y \in FromClient : ~IsRequest(y) /\ y.type # "CONNECT" /\ Grew(y)
        /\ UNCHANGED <<tcpSocket, isconnected, inflight, session, got, subscribed, promised>>
        /\ Goes(x, expired) \/ (op = "yield" /\ x.type = "PUBLISH" /\ Returns_("yield", <<>>, FAILURE))
    <2> HIDE DEF x
    <2>1. QED
      BY <1>0, <1>1, <1>3, CycleStep
  <1> HIDE DEF x
  <1>6. SUFFICES ASSUME ~torn PROVE StreamInv'
    BY <1>0, <1>4 DEF PahoInv, StreamInv
  <1>7. PacketsWhole /\ SessionBegins /\ OneAtATime /\ Pending /\ PacketsWhole'
    BY <1>2, <1>6 DEF PahoInv, StreamInv, PacketsWhole
  <1>8. /\ Requests' \subseteq Requests /\ \A i \in Requests' : toBroker'[i] = toBroker[i]
        /\ Connects' \subseteq Connects
    <2>1. CASE UNCHANGED toBroker
      BY <2>1 DEF Requests, Connects
    <2>2. ASSUME NEW y \in FromClient, ~IsRequest(y), y.type # "CONNECT", Grew(y)
          PROVE  /\ Requests' \subseteq Requests /\ \A i \in Requests' : toBroker'[i] = toBroker[i]
                 /\ Connects' \subseteq Connects
      BY <2>2, <1>0, GrewSets
    <2>3. QED
      BY <2>1, <2>2, <1>5
  <1>9. CASE x.type = awaited /\ awaited = "CONNACK"
    <2>1. Goes(x, expired)
      BY <1>5, <1>9
    <2>2. at' = "answer" /\ readbuf' = x /\ UNCHANGED <<awaited, arg>>
      BY <1>9, <2>1 DEF Goes
    <2>3. 1 \in Connacks
      BY <1>9, <1>2
    <2>4. Connacks' = {}
      BY <2>3, <1>2, <1>7 DEF SessionBegins, Connacks
    <2>5. /\ Requests = {} /\ Acknowledgements = {} /\ ~isconnected /\ ~Asking
          /\ toClient[1].rc = 0 => session = "accepted"
      BY <2>3, <1>7 DEF SessionBegins
    <2>6. Requests' = {} /\ Acknowledgements' = {} /\ ~isconnected' /\ ~Asking'
      BY <2>2, <2>5, <1>8, <1>5, <1>2 DEF Asking
    <2>7. SessionBegins'
      BY <2>2, <2>4, <2>5, <2>6, <1>1, <1>2, <1>5 DEF SessionBegins
    <2>8. OneAtATime'
      BY <2>6 DEF OneAtATime
    <2>9. Pending'
      BY <2>2, <1>5, <1>7 DEF Pending, NotYetGot
    <2>10. QED
      BY <2>7, <2>8, <2>9, <1>7 DEF StreamInv
  <1>10. CASE x.type = awaited /\ awaited \in Answering
    <2>1. Goes(x, expired)
      BY <1>5, <1>10 DEF Answering
    <2>2. at' = "answer" /\ readbuf' = x /\ UNCHANGED <<awaited, arg>> /\ Asking /\ Asking'
      BY <1>10, <2>1 DEF Goes, Asking
    <2>3. 1 \in Acknowledgements
      BY <1>10, <1>2
    <2>4. Acknowledgements' = {}
      BY <2>2, <2>3, <1>2, <1>7 DEF OneAtATime, Acknowledgements
    <2>5. Requests = {} /\ Done(x) /\ Connacks = {} /\ (isconnected \/ session # "none")
      BY <2>2, <2>3, <1>2, <1>7 DEF OneAtATime, SessionBegins
    <2>6. Requests' = {} /\ Connacks' = {} /\ ~Welcomed'
      BY <2>2, <2>5, <1>8, <1>2 DEF Asking, Answering, Welcomed
    <2>7. SessionBegins'
      BY <2>2, <2>6, <1>1, <1>5 DEF SessionBegins
    <2>8. Done(readbuf)'
      BY <2>2, <2>5, <1>5 DEF Done
    <2>9. OneAtATime'
      BY <2>2, <2>4, <2>5, <2>6, <2>8, <1>5 DEF OneAtATime
    <2>10. Pending'
      BY <2>2, <1>5, <1>7 DEF Pending, NotYetGot
    <2>11. QED
      BY <2>7, <2>9, <2>10, <1>7 DEF StreamInv
  <1>11. CASE x.type # awaited
    <2>1. \/ /\ UNCHANGED <<awaited, arg, isconnected>> /\ at' # "answer"
          \/ /\ awaited' \notin Answering /\ at' # "answer"
             /\ isconnected' => isconnected /\ ~Asking
      <3>1. CASE Goes(x, expired)
        BY <3>1, <1>11, <1>5 DEF Goes
      <3>2. CASE op = "yield" /\ Returns_("yield", <<>>, FAILURE)
        BY <3>2, <1>0, <1>5 DEF Returns_, Asking, Answering, PahoTypeOK, CallTypeOK
      <3>3. QED
        BY <3>1, <3>2, <1>5
    <2>2. \A i \in Requests' \cup Connects' : i + 0 = i
      BY <1>4 DEF PahoTypeOK, LinkTypeOK, Requests, Connects
    <2>3. /\ \A i \in Requests' : i + 0 \in Requests /\ toBroker'[i] = toBroker[i + 0]
          /\ \A i \in Connects' : i + 0 \in Connects
      BY <2>2, <1>8
    <2>4. 0 \in Nat /\ 1 \in Nat /\ got \subseteq got' /\ (tcpSocket' = "up" => tcpSocket = "up")
      BY <1>5
    <2>5. QED
      BY <2>1, <2>3, <2>4, <1>2, <1>4, <1>5, <1>6, <1>7, Quiet
  <1>12. QED
    <2>1. awaited \in Answering \cup {"CONNACK", "nothing"}
      BY <1>0, DuringCalls DEF PahoTypeOK, CallTypeOK, Answering
    <2>2. QED
      BY <2>1, <1>3, <1>9, <1>10, <1>11

\* The answer that cycle sends to a packet keeps the invariant.
LEMMA AnswerKeeps ==
    ASSUME PahoInv, Answer
    PROVE  PahoInv'
  <1>0. /\ PahoTypeOK /\ at = "answer" /\ isconnected \in BOOLEAN /\ inflight \in Message
        /\ inflight.qos \in QoSs \cup {0} /\ expired \in BOOLEAN
    BY DEF PahoInv, PahoTypeOK, ClientTypeOK, CallTypeOK, Answer
  <1>1. /\ UNCHANGED <<toClient, tcpSocket, session, got, subscribed, promised, torn, options, packetid, calls>>
        /\ Answered(readbuf)
    BY DEF Answer, broker, counters
  <1>2. awaited \in Answering \cup {"CONNACK"}
    BY <1>0, DuringCalls DEF PahoTypeOK, CallTypeOK, Answering
  <1>3. inflight' \in {inflight, NoInflight} /\ (inflight' # inflight => awaited = "PUBACK")
    BY <1>1, <1>2 DEF Answered, Subscribed, Answering
  <1>4. ClientTypeOK'
    BY <1>0, <1>1, <1>3 DEF PahoTypeOK, ClientTypeOK, options, NoInflight, Message
  <1>5. ~torn =>
          /\ awaited = "CONNACK" => /\ Requests = {} /\ Acknowledgements = {} /\ ~isconnected /\ Connacks = {}
                                    /\ session # "none"
          /\ awaited \in Answering => /\ Requests = {} /\ Acknowledgements = {} /\ Connacks = {}
                                      /\ Done(readbuf)
    BY <1>0 DEF PahoInv, StreamInv, SessionBegins, OneAtATime, Asking, Welcomed
  <1>6. CASE awaited = "CONNACK" /\ inflight # NoInflight
    <2>1. PICK s \in sendPacket(Publication(inflight), expired) :
            LET rc == IF s.ok THEN SUCCESS ELSE FAILURE
            IN  /\ Wrote(s)
                /\ IF s.ok /\ inflight.qos = 1
                   THEN Waits("connect", <<inflight>>, "PUBACK") /\ UNCHANGED isconnected
                   ELSE Returns_("connect", <<inflight>>, rc) /\ isconnected' = StillConnected("connect", rc)
      BY <1>6, <1>1 DEF Answered, SendsPublication
    <2>2. Publication(inflight) \in FromClient /\ inflight' = inflight
      BY <1>0, <1>3, <1>6, PacketsAreSent
    <2>3. Grew(Publication(inflight)) /\ s.ok \in BOOLEAN
      BY <2>1, <2>2, <1>0, SendGrows DEF Wrote
    <2>4. LinkTypeOK'
      BY <2>3, <1>0, <1>1, SentTypes DEF PahoTypeOK
    <2>5. ~torn => /\ Requests' \subseteq {Len(toBroker) + 1}
                   /\ Connects' \subseteq Connects
                   /\ Len(toBroker) + 1 \in Requests' =>
                        inflight.qos = 1 /\ toBroker'[Len(toBroker) + 1] = Publication(inflight)
      BY <2>2, <2>3, <1>0, <1>5, <1>6, GrewSets DEF IsRequest, Publication
    <2>6. ~torn => Acknowledgements' = {} /\ Connacks' = {} /\ NotYetGot' = NotYetGot
      BY <1>1, <1>5, <1>6, SameToClient DEF NotYetGot
    <2>7. ~torn => PacketsWhole'
      BY <1>1 DEF PahoInv, StreamInv, PacketsWhole
    <2>8. CASE s.ok /\ inflight.qos = 1
      <3>1. /\ op' = "connect" /\ arg' = <<inflight>> /\ awaited' = "PUBACK" /\ at' = "check"
            /\ expired' = expired /\ isconnected' = isconnected
        BY <2>8, <2>1 DEF Waits
      <3>2. CallTypeOK'
        BY <3>1, <2>8, <1>0 DEF CallTypeOK
      <3>3. ASSUME ~torn PROVE SessionBegins' /\ OneAtATime' /\ Pending'
        <4>1. SessionBegins'
          BY <3>1, <3>3, <2>5, <2>6, <1>1, <1>5, <1>6 DEF SessionBegins, Asking, Answering, Welcomed
        <4>2. \A i \in Requests' : Asked(toBroker[i])'
          BY <3>1, <3>3, <2>5 DEF Asked, Publication
        <4>3. OneAtATime'
          BY <4>2, <3>1, <3>3, <2>5, <2>6, <1>1, <1>5, <1>6 DEF OneAtATime, Asking, Answering
        <4>4. Pending'
          BY <3>1, <3>3, <2>2, <2>6 DEF PahoInv, StreamInv, Pending
        <4>5. QED
          BY <4>1, <4>3, <4>4
      <3>4. QED
        BY <3>2, <3>3, <2>4, <2>7, <1>1, <1>4 DEF PahoInv, PahoTypeOK, StreamInv
    <2>9. CASE ~(s.ok /\ inflight.qos = 1)
      <3>1. PICK rc : Returns_("connect", <<inflight>>, rc) /\ isconnected' \in BOOLEAN /\ (isconnected' => s.ok)
        <4>1. FAILURE # SUCCESS
          BY DEF FAILURE, SUCCESS
        <4>2. /\ Returns_("connect", <<inflight>>, IF s.ok THEN SUCCESS ELSE FAILURE)
              /\ isconnected' = StillConnected("connect", IF s.ok THEN SUCCESS ELSE FAILURE)
          BY <2>9, <2>1
        <4>3. StillConnected("connect", FAILURE) = FALSE /\ StillConnected("connect", SUCCESS) = TRUE
          BY <4>1, Zenon DEF StillConnected
        <4>4. QED
          BY <4>2, <4>3, <2>3
      <3>2. CallTypeOK' /\ awaited' = "none" /\ at' = "idle"
        BY <3>1, ReturnTypes
      <3>3. ASSUME ~torn PROVE SessionBegins' /\ OneAtATime' /\ Pending'
        <4>1. isconnected' => Requests' = {} /\ inflight.qos # 1
          BY <3>1, <3>3, <2>5, <2>9
        <4>2. SessionBegins'
          BY <3>2, <3>3, <2>5, <2>6, <1>1, <1>5, <1>6 DEF SessionBegins, Asking, Answering, Welcomed
        <4>3. OneAtATime'
          BY <4>1, <3>2, <3>3, <2>6 DEF OneAtATime, Asking, Answering
        <4>4. Pending'
          BY <4>1, <3>2, <3>3, <2>2, <2>6 DEF PahoInv, StreamInv, Pending
        <4>5. QED
          BY <4>2, <4>3, <4>4
      <3>4. QED
        BY <3>2, <3>3, <2>4, <2>7, <1>1, <1>4 DEF PahoInv, PahoTypeOK, StreamInv
    <2>10. QED
      BY <2>8, <2>9
  <1>7. CASE ~(awaited = "CONNACK" /\ inflight # NoInflight)
    <2>1. /\ UNCHANGED toBroker
          /\ \E o, a, rc : Returns_(o, a, rc)
          /\ isconnected' \in BOOLEAN
          /\ awaited \in {"SUBACK", "UNSUBACK"} => (isconnected' => isconnected)
      <3>1. CASE awaited = "CONNACK" /\ inflight = NoInflight
        BY <3>1, <1>1 DEF Answered
      <3>2. CASE awaited = "PUBACK"
        BY <3>2, <1>0, <1>1 DEF Answered, StillConnected
      <3>3. CASE awaited = "SUBACK"
        BY <3>3, <1>0, <1>1 DEF Answered, Subscribed
      <3>4. CASE awaited = "UNSUBACK"
        BY <3>4, <1>0, <1>1 DEF Answered
      <3>5. QED
        BY <3>1, <3>2, <3>3, <3>4, <1>2, <1>7 DEF Answering
    <2>2. CallTypeOK' /\ awaited' = "none" /\ at' = "idle"
      BY <2>1, ReturnTypes
    <2>3. LinkTypeOK'
      BY <2>1, <1>0, <1>1, SentTypes DEF PahoTypeOK
    <2>4. ASSUME ~torn PROVE PacketsWhole' /\ SessionBegins' /\ OneAtATime' /\ Pending'
      <3>1. Requests' = {} /\ Connects' = Connects
        BY <2>1, <2>4, <1>2, <1>5 DEF Requests, Connects
      <3>2. Acknowledgements' = {} /\ Connacks' = {} /\ NotYetGot' = NotYetGot
        BY <2>4, <1>1, <1>2, <1>5, SameToClient DEF NotYetGot
      <3>3. NotYetGot = {} \/ (~isconnected' /\ awaited = "CONNACK") \/ awaited \in {"SUBACK", "UNSUBACK"}
        BY <2>4, <1>2, <1>5, <1>7 DEF Answering, Done, PahoInv, StreamInv, Pending, NotYetGot, NoInflight
      <3>4. PacketsWhole'
        BY <2>4, <1>1 DEF PahoInv, StreamInv, PacketsWhole
      <3>5. SessionBegins'
        <4>1. session = "none" /\ tcpSocket = "up" /\ isconnected' => Connects = {}
          BY <2>1, <2>4, <1>2, <1>5 DEF Done, Answering, PahoInv, StreamInv, SessionBegins
        <4>2. QED
          BY <4>1, <3>1, <3>2, <2>2, <1>1 DEF SessionBegins, Asking, Answering, Welcomed
      <3>6. OneAtATime'
        BY <3>1, <3>2, <2>2 DEF OneAtATime, Asking, Answering
      <3>7. Pending'
        BY <3>2, <3>3, <2>1, <2>2, <2>4, <1>3 DEF PahoInv, StreamInv, Pending
      <3>8. QED
        BY <3>4, <3>5, <3>6, <3>7
    <2>5. QED
      BY <2>2, <2>3, <2>4, <1>1, <1>4 DEF PahoInv, PahoTypeOK, StreamInv
  <1>8. QED
    BY <1>6, <1>7

\* A new TCP connection keeps the invariant.
LEMMA NetConnectKeeps ==
    ASSUME PahoInv, netConnect
    PROVE  PahoInv'
  <1>0. PahoTypeOK /\ op = "none"
    BY DEF PahoInv, netConnect
  <1>1. awaited = "none" /\ at = "idle" /\ ~Asking /\ ~Welcomed
    BY <1>0, BetweenCalls
  <1>2. /\ UNCHANGED <<got, subscribed, torn, isconnected, options, packetid, inflight, promised, calls>>
        /\ UNCHANGED <<op, arg, awaited, at, readbuf, expired>>
    BY DEF netConnect, client, waiting
  <1>3. ClientTypeOK' /\ CallTypeOK'
    BY <1>0, <1>2, SameClientTypes, SameCallTypes DEF PahoTypeOK, CallTypeOK, options
  <1>4. CASE UNCHANGED <<tcpSocket, toBroker, toClient, session>>
    <2>1. PahoTypeOK'
      BY <1>0, <1>3, <1>4, SentTypes DEF PahoTypeOK
    <2>2. QED
      BY <2>1, <1>2, <1>4, StaysQuiet
  <1>5. CASE tcpSocket' = "up" /\ toBroker' = <<>> /\ toClient' = <<>> /\ session' = "none"
    <2>1. LinkTypeOK'
      BY <1>5 DEF LinkTypeOK
    <2>2. Requests' = {} /\ Connects' = {} /\ Acknowledgements' = {} /\ Connacks' = {} /\ PacketsWhole'
      BY <1>5 DEF Requests, Connects, Acknowledgements, Connacks, PacketsWhole
    <2>3. ~Asking' /\ ~Welcomed'
      BY <1>1, <1>2 DEF Asking, Answering, Welcomed
    <2>4. SessionBegins' /\ OneAtATime'
      BY <2>2, <2>3 DEF SessionBegins, OneAtATime
    <2>5. ~torn => Pending'
      BY <1>2 DEF PahoInv, StreamInv, Pending, NotYetGot
    <2>6. QED
      BY <2>1, <2>2, <2>4, <2>5, <1>2, <1>3 DEF PahoInv, PahoTypeOK, StreamInv
  <1>6. QED
    BY <1>4, <1>5 DEF netConnect

\* The connection ends: nothing is under way to the broker any more.
LEMMA CutKeeps ==
    ASSUME PahoInv, tcpSocket' \in {"none", "closed"}, toBroker' = <<>>, toClient' \in {toClient, <<>>},
           tcpSocket' = "none" => toClient' = <<>>,
           UNCHANGED <<session, got, subscribed, torn, isconnected, options, packetid, inflight, promised, calls>>,
           UNCHANGED <<op, arg, awaited, at, readbuf, expired>>
    PROVE  PahoInv'
  <1>0. PahoTypeOK
    BY DEF PahoInv
  <1>1. LinkTypeOK'
    <2>1. <<>> \in Seq(FromClient) /\ <<>> \in Seq(FromBroker)
      OBVIOUS
    <2>2. QED
      BY <2>1, <1>0 DEF PahoTypeOK, LinkTypeOK
  <1>2. ClientTypeOK'
    BY <1>0, SameClientTypes DEF PahoTypeOK, options
  <1>3. CallTypeOK'
    BY <1>0 DEF PahoTypeOK, CallTypeOK
  <1>4. PahoTypeOK'
    BY <1>1, <1>2, <1>3 DEF PahoTypeOK
  <1>5. SUFFICES ASSUME ~torn PROVE StreamInv'
    BY <1>4 DEF PahoInv, StreamInv
  <1>6. Requests' = {} /\ Connects' = {}
    BY DEF Requests, Connects
  <1>7. PacketsWhole'
    BY <1>5 DEF PahoInv, StreamInv, PacketsWhole
  <1>8. /\ \A i \in Acknowledgements' : i \in Acknowledgements /\ toClient'[i] = toClient[i]
        /\ \A i \in Connacks' : i \in Connacks /\ toClient'[i] = toClient[i]
        /\ \A i \in Acknowledgements' \cup Connacks' : i + 0 = i
    <2>1. CASE toClient' = toClient
      BY <2>1, <1>0 DEF Acknowledgements, Connacks, PahoTypeOK, LinkTypeOK
    <2>2. CASE toClient' = <<>>
      BY <2>2 DEF Acknowledgements, Connacks
    <2>3. QED
      BY <2>1, <2>2
  <1>9. /\ \A i \in Requests' : i + 0 \in Requests /\ toBroker'[i] = toBroker[i + 0]
        /\ \A i \in Connects' : i + 0 \in Connects
        /\ \A i \in Acknowledgements' : i + 0 \in Acknowledgements /\ toClient'[i] = toClient[i + 0]
        /\ \A i \in Connacks' : i + 0 \in Connacks /\ toClient'[i] = toClient[i + 0]
    BY <1>6, <1>8
  <1>10. 0 \in Nat /\ got \subseteq got' /\ (tcpSocket' = "up" => tcpSocket = "up")
    OBVIOUS
  <1>11. QED
    BY <1>4, <1>5, <1>7, <1>9, <1>10, Quiet

\* The closed socket keeps the invariant.
LEMMA NetDisconnectKeeps ==
    ASSUME PahoInv, netDisconnect
    PROVE  PahoInv'
  BY CutKeeps DEF netDisconnect, client, waiting, broker

\* The lost connection keeps the invariant.
LEMMA ConnectionLostKeeps ==
    ASSUME PahoInv, ConnectionLost
    PROVE  PahoInv'
  BY CutKeeps DEF ConnectionLost, client, waiting, broker

\* The passing of time keeps the invariant.
LEMMA TimeKeeps ==
    ASSUME PahoInv, Expires \/ KeepAliveDue \/ UNCHANGED pahoVars
    PROVE  PahoInv'
  <1>0. PahoTypeOK
    BY DEF PahoInv
  <1>1. /\ UNCHANGED <<tcpSocket, toBroker, toClient, session, got, subscribed, torn, isconnected, options,
                        packetid, inflight, promised, calls, op, arg, awaited, at, readbuf>>
        /\ expired' \in {expired, TRUE}
    BY DEF Expires, KeepAliveDue, pahoVars, client, waiting, broker, counters
  <1>2. LinkTypeOK' /\ ClientTypeOK'
    BY <1>0, <1>1, SentTypes, SameClientTypes DEF PahoTypeOK, options
  <1>3. CallTypeOK'
    BY <1>0, <1>1 DEF PahoTypeOK, CallTypeOK
  <1>4. PahoTypeOK'
    BY <1>2, <1>3 DEF PahoTypeOK
  <1>5. QED
    BY <1>1, <1>4, StaysQuiet

(* The broker.                                                             *)

\* What the broker's answers under way are after it took a packet and answered it.
LEMMA Replied ==
    ASSUME PahoTypeOK, NEW y \in FromBroker, toClient' = Append(toClient, y)
    PROVE  /\ toClient' \in Seq(FromBroker)
           /\ Acknowledgements' \subseteq Acknowledgements \cup {Len(toClient) + 1}
           /\ Connacks' \subseteq Connacks \cup {Len(toClient) + 1}
           /\ \A i \in Acknowledgements \cup Connacks : toClient'[i] = toClient[i] /\ i + 0 = i
           /\ toClient'[Len(toClient) + 1] = y
           /\ Len(toClient) + 1 \in Acknowledgements' => y.type \in Answering
           /\ Len(toClient) + 1 \in Connacks' => y.type = "CONNACK"
           /\ y # RestOf /\ PacketsWhole => PacketsWhole'
  <1>1. toClient \in Seq(FromBroker)
    BY DEF PahoTypeOK, LinkTypeOK
  <1>2. /\ toClient' \in Seq(FromBroker) /\ DOMAIN toClient' = DOMAIN toClient \cup {Len(toClient) + 1}
        /\ \A i \in DOMAIN toClient : toClient'[i] = toClient[i] /\ i + 0 = i
        /\ toClient'[Len(toClient) + 1] = y
    BY <1>1
  <1>3. QED
    BY <1>2 DEF Acknowledgements, Connacks, PacketsWhole

\* The broker takes the first packet, which is no request.
LEMMA TakesQuietly ==
    ASSUME PahoInv, PahoTypeOK', toBroker # <<>>, toBroker' = Tail(toBroker),
           \/ UNCHANGED toClient
           \/ \E y \in FromBroker : /\ toClient' = Append(toClient, y) /\ y.type \notin Answering
                                     /\ y.type # "CONNACK" /\ y # RestOf,
           UNCHANGED <<tcpSocket, session, subscribed, torn, isconnected, inflight, promised>>,
           got \subseteq got', UNCHANGED <<arg, awaited, at, readbuf>>
    PROVE  PahoInv'
  <1>0. PahoTypeOK
    BY DEF PahoInv
  <1>1. SUFFICES ASSUME ~torn PROVE StreamInv'
    BY DEF PahoInv, StreamInv
  <1>2. /\ \A i \in Requests' : i + 1 \in Requests /\ toBroker'[i] = toBroker[i + 1]
        /\ \A i \in Connects' : i + 1 \in Connects
    BY <1>0, TakenFromClient
  <1>3. /\ PacketsWhole'
        /\ \A i \in Acknowledgements' : i + 0 \in Acknowledgements /\ toClient'[i] = toClient[i + 0]
        /\ \A i \in Connacks' : i + 0 \in Connacks /\ toClient'[i] = toClient[i + 0]
    <2>1. PacketsWhole
      BY <1>1 DEF PahoInv, StreamInv
    <2>2. CASE UNCHANGED toClient
      <3>1. \A i \in DOMAIN toClient : i + 0 = i
        BY <1>0 DEF PahoTypeOK, LinkTypeOK
      <3>2. QED
        BY <2>1, <2>2, <3>1 DEF PacketsWhole, Acknowledgements, Connacks
    <2>3. ASSUME NEW y \in FromBroker, toClient' = Append(toClient, y), y.type \notin Answering,
                 y.type # "CONNACK", y # RestOf
          PROVE  /\ PacketsWhole'
                 /\ \A i \in Acknowledgements' : i + 0 \in Acknowledgements /\ toClient'[i] = toClient[i + 0]
                 /\ \A i \in Connacks' : i + 0 \in Connacks /\ toClient'[i] = toClient[i + 0]
      BY <2>1, <2>3, <1>0, Replied
    <2>4. QED
      BY <2>2, <2>3
  <1>4. 0 \in Nat /\ 1 \in Nat
    OBVIOUS
  <1>5. QED
    BY <1>1, <1>2, <1>3, <1>4, Quiet

\* The broker takes a request and acknowledges it.
LEMMA TakesRequest ==
    ASSUME PahoInv, PahoTypeOK', toBroker # <<>>, toBroker' = Tail(toBroker), IsRequest(Head(toBroker)),
           NEW y \in FromBroker, toClient' = Append(toClient, y), y.type # "CONNACK", y # RestOf,
           session = "accepted", UNCHANGED <<tcpSocket, session, torn, isconnected, inflight, promised>>,
           UNCHANGED <<arg, awaited, at, readbuf>>, got \subseteq got',
           Asking /\ Asked(Head(toBroker)) => Done(y)'
    PROVE  PahoInv'
  <1>0. PahoTypeOK
    BY DEF PahoInv
  <1>1. SUFFICES ASSUME ~torn PROVE StreamInv'
    BY DEF PahoInv, StreamInv
  <1>2. PacketsWhole /\ SessionBegins /\ OneAtATime /\ Pending
    BY <1>1 DEF PahoInv, StreamInv
  <1>3. /\ Head(toBroker) = toBroker[1] /\ 1 \in Requests
        /\ \A i \in Requests' : i \in Nat \ {0} /\ i + 1 \in Requests /\ toBroker'[i] = toBroker[i + 1]
    BY <1>0, TakenFromClient
  <1>4. /\ PacketsWhole'
        /\ Acknowledgements' \subseteq Acknowledgements \cup {Len(toClient) + 1}
        /\ Connacks' \subseteq Connacks
        /\ toClient'[Len(toClient) + 1] = y
    BY <1>0, <1>2, Replied
  <1>5. Connacks = {} /\ ~Welcomed /\ (isconnected => Asking)
    BY <1>2, <1>3 DEF SessionBegins, OneAtATime
  <1>6. SessionBegins'
    BY <1>4, <1>5 DEF SessionBegins, Welcomed
  <1>7. OneAtATime'
    <2>1. CASE ~Asking
      BY <2>1, <1>5 DEF OneAtATime, Asking
    <2>2. CASE Asking
      <3>1. /\ \A i \in Requests : i = 1
            /\ Acknowledgements = {} /\ at # "answer" /\ Asked(Head(toBroker))
        BY <2>2, <1>2, <1>3 DEF OneAtATime
      <3>2. Requests' = {}
        BY <3>1, <1>3
      <3>3. Acknowledgements' \subseteq {Len(toClient) + 1} /\ Done(y)' /\ Asking'
        BY <3>1, <2>2, <1>4 DEF Asking
      <3>4. \A i \in Acknowledgements' : Done(toClient[i])'
        BY <3>3, <1>4 DEF Done
      <3>5. QED
        BY <3>1, <3>2, <3>3, <3>4 DEF OneAtATime
    <2>3. QED
      BY <2>1, <2>2
  <1>8. Pending'
    BY <1>2 DEF Pending, NotYetGot
  <1>9. QED
    BY <1>4, <1>6, <1>7, <1>8 DEF StreamInv

\* The broker takes a CONNECT, the first packet of the session.
LEMMA TakesConnect ==
    ASSUME PahoInv, PahoTypeOK', tcpSocket = "up", toBroker # <<>>, toBroker' \in {Tail(toBroker), <<>>},
           Head(toBroker).type = "CONNECT", session = "none",
           NEW rc \in {0, 5}, toClient' = Append(toClient, [type |-> "CONNACK", rc |-> rc]),
           session' \in {"accepted", "refused"}, rc = 0 => session' = "accepted",
           UNCHANGED <<got, subscribed, torn, isconnected, inflight, promised, arg, awaited, at, readbuf>>
    PROVE  PahoInv'
  <1> DEFINE y == [type |-> "CONNACK", rc |-> rc]
  <1>0. PahoTypeOK
    BY DEF PahoInv
  <1>1. SUFFICES ASSUME ~torn PROVE StreamInv'
    BY DEF PahoInv, StreamInv
  <1>2. PacketsWhole /\ SessionBegins /\ OneAtATime /\ Pending
    BY <1>1 DEF PahoInv, StreamInv
  <1>3. toClient = <<>> /\ toBroker \in Seq(FromClient)
    BY <1>0 DEF PahoTypeOK, LinkTypeOK
  <1>4. 1 \in Connects /\ \A i \in Requests : i \in Nat \ {0}
    BY <1>3 DEF Connects, Requests
  <1>5. Requests = {} /\ ~isconnected /\ ~Asking /\ ~Welcomed
    BY <1>2, <1>4 DEF SessionBegins
  <1>6. Requests' = {}
    <2>1. CASE toBroker' = <<>>
      BY <2>1 DEF Requests
    <2>2. CASE toBroker' = Tail(toBroker)
      BY <2>2, <1>0, <1>5, TakenFromClient
    <2>3. QED
      BY <2>1, <2>2
  <1>7. toClient' = <<y>>
    BY <1>3
  <1>8. /\ Acknowledgements' = {} /\ Connacks' = {1} /\ toClient'[1].rc = rc
        /\ PacketsWhole'
    <2>1. y.type = "CONNACK" /\ y.rc = rc /\ RestOf.type = "rest"
      BY DEF RestOf
    <2>2. PICK z : z = y
      OBVIOUS
    <2>3. DOMAIN <<z>> = {1} /\ <<z>>[1] = z
      OBVIOUS
    <2>4. DOMAIN toClient' = {1} /\ toClient'[1] = y
      BY <1>7, <2>2, <2>3
    <2> HIDE DEF y
    <2>5. QED
      BY <2>1, <2>4 DEF Acknowledgements, Connacks, Answering, PacketsWhole
  <1>9. ~isconnected' /\ ~Asking' /\ ~Welcomed'
    BY <1>5 DEF Asking, Welcomed
  <1>10. SessionBegins'
    BY <1>6, <1>8, <1>9 DEF SessionBegins
  <1>11. OneAtATime'
    BY <1>9 DEF OneAtATime
  <1>12. Pending'
    BY <1>2 DEF Pending, NotYetGot
  <1>13. QED
    BY <1>8, <1>10, <1>11, <1>12 DEF StreamInv

\* A message from the broker keeps the invariant.
LEMMA BrokerPublishesKeeps ==
    ASSUME PahoInv, NEW topic \in { m[1] : m \in Incoming }, NEW qos \in { m[2] : m \in Incoming },
           BrokerPublishes(topic, qos)
    PROVE  PahoInv'
  <1> DEFINE y == [type |-> "PUBLISH", id |-> 1, qos |-> qos, topic |-> topic]
  <1>0. PahoTypeOK
    BY DEF PahoInv
  <1>1. /\ UNCHANGED <<tcpSocket, toBroker, session, got, subscribed, torn, isconnected, options, packetid,
                        inflight, promised, calls, op, arg, awaited, at, readbuf, expired>>
        /\ toClient' = Append(toClient, y) /\ tcpSocket = "up" /\ session = "accepted"
    BY DEF BrokerPublishes, Replies, client, waiting, broker
  <1>2. y \in FromBroker /\ y.type = "PUBLISH" /\ y # RestOf
    BY DEF FromBroker, RestOf
  <1> HIDE DEF y
  <1>3. /\ toClient' \in Seq(FromBroker)
        /\ Acknowledgements' \subseteq Acknowledgements /\ Connacks' \subseteq Connacks
        /\ \A i \in Acknowledgements \cup Connacks : toClient'[i] = toClient[i] /\ i + 0 = i
        /\ PacketsWhole => PacketsWhole'
    BY <1>0, <1>1, <1>2, Replied DEF Answering
  <1>4. PahoTypeOK'
    <2>1. LinkTypeOK'
      BY <1>0, <1>1, <1>3 DEF PahoTypeOK, LinkTypeOK
    <2>2. ClientTypeOK'
      BY <1>0, <1>1, SameClientTypes DEF PahoTypeOK, options
    <2>3. CallTypeOK'
      BY <1>0, <1>1 DEF PahoTypeOK, CallTypeOK
    <2>4. QED
      BY <2>1, <2>2, <2>3 DEF PahoTypeOK
  <1>5. SUFFICES ASSUME ~torn PROVE StreamInv'
    BY <1>1, <1>4 DEF PahoInv, StreamInv
  <1>6. PacketsWhole'
    BY <1>3, <1>5 DEF PahoInv, StreamInv
  <1>7. /\ \A i \in Requests' : i + 0 \in Requests /\ toBroker'[i] = toBroker[i + 0]
        /\ \A i \in Connects' : i + 0 \in Connects
        /\ \A i \in Acknowledgements' : i + 0 \in Acknowledgements /\ toClient'[i] = toClient[i + 0]
        /\ \A i \in Connacks' : i + 0 \in Connacks /\ toClient'[i] = toClient[i + 0]
    <2>1. \A i \in DOMAIN toBroker : i + 0 = i
      BY <1>0 DEF PahoTypeOK, LinkTypeOK
    <2>2. QED
      BY <2>1, <1>1, <1>3 DEF Requests, Connects
  <1>8. 0 \in Nat /\ got \subseteq got'
    BY <1>1
  <1>9. QED
    BY <1>1, <1>4, <1>5, <1>6, <1>7, <1>8, Quiet

\* The broker that takes a packet keeps the invariant.
LEMMA BrokerTakesKeeps ==
    ASSUME PahoInv, BrokerTakes
    PROVE  PahoInv'
  <1>00. PICK x : x = Head(toBroker)
    OBVIOUS
  <1> USE <1>00
  <1>0. /\ PahoTypeOK /\ tcpSocket = "up" /\ toBroker # <<>> /\ toBroker \in Seq(FromClient)
        /\ toClient \in Seq(FromBroker)
    BY DEF PahoInv, BrokerTakes, PahoTypeOK, LinkTypeOK
  <1>1. /\ UNCHANGED <<torn, isconnected, options, packetid, inflight, promised, calls, op, arg, awaited, at,
                        readbuf, expired>>
        /\ toBroker' = IF tcpSocket' = "up" THEN Tail(toBroker) ELSE <<>>
    BY DEF BrokerTakes, client, waiting
  <1>2. x \in FromClient /\ Tail(toBroker) \in Seq(FromClient) /\ <<>> \in Seq(FromClient)
    BY <1>0
  <1>3. ASSUME tcpSocket' \in {"up", "closed"}, session' \in {"accepted", "refused"},
               toClient' \in Seq(FromBroker)
        PROVE  PahoTypeOK'
    <2>1. LinkTypeOK'
      BY <1>1, <1>2, <1>3 DEF LinkTypeOK
    <2>2. ClientTypeOK'
      BY <1>0, <1>1, SameClientTypes DEF PahoTypeOK, options
    <2>3. CallTypeOK'
      BY <1>0, <1>1 DEF PahoTypeOK, CallTypeOK
    <2>4. QED
      BY <2>1, <2>2, <2>3 DEF PahoTypeOK
  <1>4. CASE x.type = "CONNECT" /\ session = "none"
    <2>1. PICK rc \in {0, 5} :
            /\ toClient' = Append(toClient, [type |-> "CONNACK", rc |-> rc])
            /\ session' \in {"accepted", "refused"} /\ (rc = 0 => session' = "accepted")
            /\ tcpSocket' \in {"up", "closed"} /\ UNCHANGED <<got, subscribed>>
      BY <1>4, <1>0 DEF BrokerTakes, Replies
    <2>2. [type |-> "CONNACK", rc |-> rc] \in FromBroker
      BY DEF FromBroker
    <2>3. PahoTypeOK'
      BY <2>1, <2>2, <1>0, <1>3
    <2>4. QED
      BY <2>1, <2>3, <1>0, <1>1, <1>4, TakesConnect
  <1>5. CASE x.type = "PUBLISH" /\ session = "accepted"
    <2>0. x.qos \in 0 .. 2 /\ x.id \in Nat
      BY <1>2, <1>5 DEF FromClient
    <2>1. /\ got' = got \cup {x.message} /\ UNCHANGED <<session, subscribed>>
          /\ IF x.qos = 0 THEN UNCHANGED <<tcpSocket, toClient>>
             ELSE Replies([type |-> IF x.qos = 1 THEN "PUBACK" ELSE "PUBREC", id |-> x.id])
      BY <1>5 DEF BrokerTakes
    <2>2. CASE x.qos = 1
      <3>y. PICK y : y = [type |-> "PUBACK", id |-> x.id]
        BY Zenon
      <3>1. y \in FromBroker /\ y.type = "PUBACK" /\ y # RestOf
        BY <3>y, <2>0 DEF FromBroker, RestOf
      <3>2. toClient' = Append(toClient, y) /\ tcpSocket' = tcpSocket /\ toBroker' = Tail(toBroker)
        BY <2>1, <2>2, <1>0, <1>1, <3>y DEF Replies
      <3>3. PahoTypeOK'
        BY <3>1, <3>2, <2>1, <1>0, <1>3, <1>5
      <3>4. ASSUME Asking, Asked(x) PROVE Done(y)'
        <4>1. awaited = "PUBACK"
          BY <3>4, <1>5 DEF Asking, Answering, Asked
        <4>2. x.message = arg[1].message
          BY <4>1, <3>4 DEF Asked, Publication
        <4>3. QED
          BY <4>1, <4>2, <3>1, <2>1, <1>1, <1>5 DEF Done
      <3>5. IsRequest(x)
        BY <2>2, <1>5 DEF IsRequest
      <3>6. QED
        BY <3>1, <3>2, <3>3, <3>4, <3>5, <2>1, <1>0, <1>1, <1>5, TakesRequest
    <2>3. CASE x.qos # 1
      <3> DEFINE y == [type |-> "PUBREC", id |-> x.id]
      <3>1. y \in FromBroker /\ y.type = "PUBREC" /\ y # RestOf
        BY <2>0 DEF FromBroker, RestOf
      <3>2. /\ UNCHANGED toClient \/ toClient' = Append(toClient, y)
            /\ tcpSocket' = tcpSocket /\ toBroker' = Tail(toBroker)
        BY <2>1, <2>3, <1>0, <1>1 DEF Replies
      <3> HIDE DEF y
      <3>3. PahoTypeOK'
        <4>1. toClient' \in Seq(FromBroker)
          <5>1. toClient \in Seq(FromBroker) /\ Append(toClient, y) \in Seq(FromBroker)
            BY <3>1, <1>0
          <5>2. QED
            BY <5>1, <3>2, Zenon
        <4>2. QED
          BY <4>1, <3>2, <2>1, <1>0, <1>3, <1>5
      <3>4. QED
        BY <3>1, <3>2, <3>3, <2>1, <1>0, <1>1, TakesQuietly DEF Answering
    <2>4. QED
      BY <2>2, <2>3
  <1>6. CASE x.type = "SUBSCRIBE" /\ session = "accepted"
    <2>0. x.id \in Nat
      BY <1>2, <1>6 DEF FromClient
    <2>1. UNCHANGED <<session, got>>
      BY <1>6 DEF BrokerTakes
    <2>2. PICK g \in {0, 1, 128} :
            /\ Replies([type |-> "SUBACK", id |-> x.id, granted |-> g])
            /\ subscribed' = IF g = 128 THEN subscribed ELSE subscribed \cup {x.filter}
      BY <1>6 DEF BrokerTakes
    <2>y. PICK y : y = [type |-> "SUBACK", id |-> x.id, granted |-> g]
      BY ZenonT(60)
    <2>3. y \in FromBroker /\ y.type = "SUBACK" /\ y.granted = g /\ y # RestOf
      BY <2>y, <2>0 DEF FromBroker, RestOf
    <2>4. toClient' = Append(toClient, y) /\ tcpSocket' = tcpSocket /\ toBroker' = Tail(toBroker)
      BY <2>2, <1>0, <1>1, <2>y DEF Replies
    <2>5. PahoTypeOK'
      BY <2>1, <2>3, <2>4, <1>0, <1>3, <1>6
    <2>6. ASSUME Asking, Asked(x) PROVE Done(y)'
      <3>1. Publication(arg[1]).type = "PUBLISH"
        BY DEF Publication
      <3>2. awaited = "SUBACK" /\ x.filter = arg[1]
        BY <2>6, <1>6, <3>1 DEF Asking, Answering, Asked
      <3>3. QED
        BY <3>2, <2>1, <2>2, <2>3, <1>1, <1>6 DEF Done
    <2>7. IsRequest(x)
      BY <1>6 DEF IsRequest
    <2>8. QED
      BY <2>1, <2>3, <2>4, <2>5, <2>6, <2>7, <1>0, <1>1, <1>6, TakesRequest
  <1>7. CASE x.type = "UNSUBSCRIBE" /\ session = "accepted"
    <2>0. x.id \in Nat
      BY <1>2, <1>7 DEF FromClient
    <2>1. /\ UNCHANGED <<session, got>> /\ Replies([type |-> "UNSUBACK", id |-> x.id])
          /\ subscribed' = subscribed \ {x.filter}
      BY <1>7 DEF BrokerTakes
    <2>y. PICK y : y = [type |-> "UNSUBACK", id |-> x.id]
      OBVIOUS
    <2>3. y \in FromBroker /\ y.type = "UNSUBACK" /\ y # RestOf
      BY <2>y, <2>0 DEF FromBroker, RestOf
    <2>4. toClient' = Append(toClient, y) /\ tcpSocket' = tcpSocket /\ toBroker' = Tail(toBroker)
      BY <2>1, <1>0, <1>1, <2>y DEF Replies
    <2>5. PahoTypeOK'
      BY <2>1, <2>3, <2>4, <1>0, <1>3, <1>7
    <2>6. ASSUME Asking, Asked(x) PROVE Done(y)'
      <3>1. Publication(arg[1]).type = "PUBLISH"
        BY DEF Publication
      <3>2. awaited = "UNSUBACK" /\ x.filter = arg[1]
        BY <2>6, <1>7, <3>1 DEF Asking, Answering, Asked
      <3>3. QED
        BY <3>2, <2>1, <2>3, <1>1, <1>7 DEF Done
    <2>7. IsRequest(x)
      BY <1>7 DEF IsRequest
    <2>8. QED
      BY <2>1, <2>3, <2>4, <2>5, <2>6, <2>7, <1>0, <1>1, <1>7, TakesRequest
  <1>8. CASE x.type \in {"PINGREQ", "PUBACK", "PUBREC"} /\ session = "accepted"
    <2> DEFINE y == [type |-> "PINGRESP"]
    <2>1. y \in FromBroker /\ y.type = "PINGRESP" /\ y # RestOf
      BY DEF FromBroker, RestOf
    <2>2. /\ UNCHANGED toClient \/ toClient' = Append(toClient, y)
          /\ UNCHANGED <<tcpSocket, session, got, subscribed>>
      BY <1>8 DEF BrokerTakes, Replies
    <2>3. toBroker' = Tail(toBroker)
      BY <2>2, <1>0, <1>1
    <2> HIDE DEF y
    <2>4. PahoTypeOK'
      BY <2>1, <2>2, <1>0, <1>3, <1>8
    <2>5. QED
      BY <2>1, <2>2, <2>3, <2>4, <1>0, <1>1, TakesQuietly DEF Answering
  <1>9. CASE Closes
    BY <1>9, <1>1, CutKeeps DEF Closes
  <1>10. QED
    BY <1>4, <1>5, <1>6, <1>7, <1>8, <1>9 DEF BrokerTakes

\* PahoInv holds in every state: the types, and what is under way between the client
\* and the broker at every point of a call.
THEOREM PahoInvariant == PahoSpec => []PahoInv
  <1>1. PahoInit => PahoInv
    <2> SUFFICES ASSUME PahoInit PROVE PahoInv
      OBVIOUS
    <2>1. PahoTypeOK
      <3>1. LinkTypeOK
        BY DEF PahoInit, LinkTypeOK
      <3>2. ClientTypeOK
        <4>1. NoInflight \in Message /\ NoInflight.qos = 0
          BY DEF NoInflight, Message
        <4>2. {keepAliveInterval, cleansession, torn} \subseteq BOOLEAN
          BY DEF PahoInit
        <4>3. packetid \in 0 .. MAX_PACKET_ID /\ calls \in Nat /\ inflight = NoInflight
          BY PahoAssumption DEF PahoInit
        <4>4. QED
          BY <4>1, <4>2, <4>3 DEF ClientTypeOK
      <3>3. CallTypeOK
        BY DEF PahoInit, CallTypeOK
      <3>4. QED
        BY <3>1, <3>2, <3>3 DEF PahoTypeOK
    <2>2. Requests = {} /\ Connects = {} /\ Acknowledgements = {} /\ Connacks = {} /\ PacketsWhole
      BY DEF PahoInit, Requests, Connects, Acknowledgements, Connacks, PacketsWhole
    <2>3. ~Asking /\ ~Welcomed /\ NotYetGot = {} /\ awaited = "none"
      BY DEF PahoInit, Asking, Answering, Welcomed, NotYetGot
    <2>4. SessionBegins /\ OneAtATime /\ Pending
      BY <2>2, <2>3 DEF SessionBegins, OneAtATime, Pending
    <2>5. QED
      BY <2>1, <2>2, <2>4 DEF PahoInv, StreamInv
  <1>2. PahoInv /\ [PahoNext]_pahoVars => PahoInv'
    <2> SUFFICES ASSUME PahoInv, [PahoNext]_pahoVars PROVE PahoInv'
      OBVIOUS
    <2>1. ASSUME NEW o \in Options, MQTTconnect(o[1], o[2]) PROVE PahoInv'
      <3>1. o[1] \in BOOLEAN /\ o[2] \in BOOLEAN
        BY PahoAssumption
      <3>2. QED
        BY <3>1, <2>1, ConnectKeeps
    <2>2. ASSUME NEW q \in QoSs, MQTTpublish(q) PROVE PahoInv'
      BY <2>2, PublishKeeps
    <2>3. ASSUME NEW f \in Subscriptions, MQTTsubscribe(f) \/ MQTTunsubscribe(f) PROVE PahoInv'
      BY <2>3, AsksKeeps DEF MQTTsubscribe, MQTTunsubscribe
    <2>4. CASE MQTTyield \/ MQTTdisconnect
      BY <2>4, YieldKeeps, DisconnectKeeps
    <2>5. CASE MQTTThread
      BY <2>5, LoopTestKeeps, ReadPacketKeeps, ReadNothingKeeps, ReadPartKeeps, ReadRestKeeps, AnswerKeeps
         DEF MQTTThread
    <2>6. CASE netConnect \/ netDisconnect
      BY <2>6, NetConnectKeeps, NetDisconnectKeeps
    <2>7. CASE Expires \/ KeepAliveDue \/ UNCHANGED pahoVars
      BY <2>7, TimeKeeps
    <2>8. CASE BrokerTakes
      BY <2>8, BrokerTakesKeeps
    <2>9. ASSUME NEW m \in Incoming, BrokerPublishes(m[1], m[2]) PROVE PahoInv'
      BY <2>9, BrokerPublishesKeeps
    <2>10. CASE ConnectionLost
      BY <2>10, ConnectionLostKeeps
    <2>11. QED
      BY <2>1, <2>2, <2>3, <2>4, <2>5, <2>6, <2>7, <2>8, <2>9, <2>10 DEF PahoNext
  <1>3. QED
    BY <1>1, <1>2, PTL DEF PahoSpec

\* A message published at QoS 1 without a clean session is with the broker or kept
\* for the next connect, whatever is published, refused or broken in between.
THEOREM InflightIsKept == PahoSpec => []InflightKept
  <1>1. PahoInv => InflightKept
    BY DEF PahoInv, StreamInv, Pending, NotYetGot, InflightKept
  <1>2. QED
    BY <1>1, PahoInvariant, PTL

(* What a call reports.                                                    *)

Silent ==
    \/ op # "none"
    \/ last.rc # SUCCESS
    \/ last.op \notin {"connect", "publish", "subscribe", "unsubscribe"}

\* A step that records no result reports nothing wrong.
LEMMA SilentReports == ASSUME Silent' PROVE Reported'
  BY DEF Silent, Reported, SuccessMeansDone

\* A call that returns a failure reports no success.
LEMMA ReturnsFailure ==
    ASSUME NEW o, NEW a, NEW rc, Returns_(o, a, rc), rc # SUCCESS \/ o \in {"yield", "disconnect"}
    PROVE  Silent'
  BY DEF Returns_, Silent

\* The two results differ.
LEMMA FailureIsFailure == FAILURE # SUCCESS
  BY DEF FAILURE, SUCCESS

\* A result that is not disturbed is still the truth.
LEMMA StillReported ==
    ASSUME Reported, UNCHANGED <<torn, op, last, isconnected>>, got \subseteq got',
           session = "accepted" => session' = "accepted",
           op = "none" /\ isconnected => UNCHANGED subscribed
    PROVE  Reported'
  <1>1. CASE Silent
    BY <1>1, SilentReports DEF Silent
  <1>2. CASE ~Silent
    <2>1. op = "none" /\ last.rc = SUCCESS
      BY <1>2 DEF Silent
    <2>2. CASE last.op = "connect" \/ last.op = "publish"
      BY <2>1, <2>2 DEF Reported, SuccessMeansDone
    <2>3. CASE last.op \in {"subscribe", "unsubscribe"}
      <3>1. isconnected /\ UNCHANGED subscribed
        BY <2>1, <2>3 DEF Reported
      <3>2. QED
        BY <2>1, <2>3, <3>1 DEF Reported, SuccessMeansDone
    <2>4. QED
      BY <1>2, <2>2, <2>3 DEF Silent
  <1>3. QED
    BY <1>1, <1>2

\* The calls report the truth when they return at once.
LEMMA CallsReport ==
    ASSUME PahoTypeOK,
           \/ \E ka, clean \in BOOLEAN : MQTTconnect(ka, clean)
           \/ \E q \in QoSs : MQTTpublish(q)
           \/ \E f \in Subscriptions : MQTTsubscribe(f) \/ MQTTunsubscribe(f)
           \/ MQTTyield \/ MQTTdisconnect
    PROVE  Reported'
  <1>1. ASSUME NEW o, NEW a, NEW t, o # "none", Waits(o, a, t) PROVE Reported'
    BY <1>1, SilentReports DEF Waits, Silent
  <1>2. ASSUME NEW o, NEW a, Returns_(o, a, FAILURE) PROVE Reported'
    BY <1>2, ReturnsFailure, SilentReports, FailureIsFailure
  <1>3. ASSUME NEW ka, NEW clean, MQTTconnect(ka, clean) PROVE Reported'
    BY <1>1, <1>2, <1>3 DEF MQTTconnect
  <1>4. ASSUME NEW f, MQTTsubscribe(f) \/ MQTTunsubscribe(f) PROVE Reported'
    BY <1>1, <1>2, <1>4 DEF MQTTsubscribe, MQTTunsubscribe, Asks
  <1>5. CASE MQTTyield
    BY <1>1, <1>5 DEF MQTTyield
  <1>6. CASE MQTTdisconnect
    BY <1>6, ReturnsFailure, SilentReports DEF MQTTdisconnect
  <1>7. ASSUME NEW q \in QoSs, MQTTpublish(q) PROVE Reported'
    <2> DEFINE m == [id |-> IF q = 0 THEN 0 ELSE getNext, qos |-> q, message |-> calls + 1]
    <2>1. m.qos = q
      OBVIOUS
    <2> HIDE DEF m
    <2>2. CASE ~isconnected
      <3>1. Returns_("publish", <<m>>, FAILURE)
        BY <2>2, <1>7 DEF MQTTpublish, m
      <3>2. QED
        BY <3>1, <1>2
    <2>3. CASE isconnected
      <3>1. SendsPublication("publish", m, FALSE)
        BY <2>3, <1>7 DEF MQTTpublish, m
      <3>2. PICK s \in sendPacket(Publication(m), FALSE) :
               IF s.ok /\ m.qos = 1 THEN Waits("publish", <<m>>, "PUBACK")
               ELSE Returns_("publish", <<m>>, IF s.ok THEN SUCCESS ELSE FAILURE)
        BY <3>1 DEF SendsPublication
      <3>3. CASE s.ok /\ m.qos = 1
        BY <3>2, <3>3, <1>1
      <3>4. CASE ~s.ok
        BY <3>2, <3>4, <1>2
      <3>5. CASE s.ok /\ m.qos # 1
        <4>1. last'.op = "publish" /\ last'.arg[1] = m
          BY <3>2, <3>5 DEF Returns_
        <4>2. QED
          BY <4>1, <3>5 DEF Reported, SuccessMeansDone
      <3>6. QED
        BY <3>3, <3>4, <3>5
    <2>4. QED
      BY <2>2, <2>3, <1>7
  <1>8. QED
    BY <1>3, <1>4, <1>5, <1>6, <1>7

\* The waiting loops report the truth.
LEMMA WaitReports ==
    ASSUME PahoTypeOK, LoopTest \/ readPacket \/ readNothing \/ readPart \/ readRest
    PROVE  Reported'
  <1>1. op # "none"
    BY DuringCalls DEF LoopTest, readPacket, readNothing, readPart, readRest
  <1>2. CASE op' = op
    BY <1>1, <1>2, SilentReports DEF Silent
  <1>3. ASSUME NEW o, NEW a, NEW rc, Returns_(o, a, rc), rc # SUCCESS \/ o = "yield" PROVE Reported'
    BY <1>3, ReturnsFailure, SilentReports
  <1>4. ASSUME NEW x, NEW late, cycle(x, late) PROVE Reported'
    BY <1>2, <1>3, <1>4 DEF cycle, Acknowledges, keepalive, Goes
  <1>5. CASE LoopTest
    <2>1. CASE ~TimedOut
      BY <2>1, <1>2, <1>5 DEF LoopTest
    <2>2. CASE TimedOut /\ GivesUp
      <3>1. CASE op = "connect" /\ awaited = "CONNACK" /\ inflight # NoInflight
        <4>1. PICK s \in sendPacket(Publication(inflight), TRUE) :
                /\ toBroker' = s.wire
                /\ IF s.ok /\ inflight.qos = 1 THEN Waits("connect", <<inflight>>, "PUBACK")
                   ELSE Returns_("connect", <<inflight>>, IF s.ok THEN SUCCESS ELSE FAILURE)
          BY <3>1, <2>2 DEF GivesUp, SendsPublication, Wrote
        <4>2. Publication(inflight) \in FromClient
          BY PacketsAreSent DEF PahoTypeOK, ClientTypeOK
        <4>3. ~s.ok
          BY <4>1, <4>2, SendGrows
        <4>4. QED
          BY <4>1, <4>3, <1>3, FailureIsFailure
      <3>2. CASE op = "yield"
        BY <3>2, <2>2, <1>3 DEF GivesUp
      <3>3. CASE ~(op = "connect" /\ awaited = "CONNACK" /\ inflight # NoInflight) /\ op # "yield"
        BY <3>3, <2>2, <1>3, FailureIsFailure DEF GivesUp
      <3>4. QED
        BY <3>1, <3>2, <3>3
    <2>3. QED
      BY <2>1, <2>2, <1>5 DEF LoopTest
  <1>6. QED
    BY <1>4, <1>5 DEF readPacket, readNothing, readPart, readRest

\* cycle reports the truth of the packet it answered.
LEMMA AnswerReports ==
    ASSUME PahoInv, 2 \notin QoSs, Answer, ~torn
    PROVE  Reported'
  <1>0. /\ PahoTypeOK /\ at = "answer" /\ Answered(readbuf) /\ UNCHANGED <<session, got, subscribed>>
        /\ SessionBegins /\ OneAtATime
    BY DEF PahoInv, Answer, broker, StreamInv
  <1>1. awaited \in Answering \cup {"CONNACK"} /\ op # "none"
    BY <1>0, DuringCalls DEF PahoTypeOK, CallTypeOK, Answering
  <1>2. CASE awaited = "CONNACK" /\ inflight = NoInflight
    <2>1. last'.op = "connect" /\ last'.rc = readbuf.rc
      BY <1>0, <1>2 DEF Answered, Returns_, ConnackCode
    <2>2. readbuf.rc = 0 => session = "accepted"
      BY <1>0, <1>2 DEF SessionBegins, Welcomed
    <2>3. QED
      BY <2>1, <2>2, <1>0 DEF Reported, SuccessMeansDone, SUCCESS
  <1>3. CASE awaited = "CONNACK" /\ inflight # NoInflight
    <2>1. PICK s \in sendPacket(Publication(inflight), expired) :
             IF s.ok /\ inflight.qos = 1 THEN Waits("connect", <<inflight>>, "PUBACK")
             ELSE Returns_("connect", <<inflight>>, IF s.ok THEN SUCCESS ELSE FAILURE)
      BY <1>0, <1>3 DEF Answered, SendsPublication
    <2>2. inflight.qos = 1
      <3>1. inflight.qos # 0 /\ inflight.qos \in QoSs \cup {0}
        BY <1>0, <1>3 DEF PahoTypeOK, ClientTypeOK
      <3>2. inflight.qos \in QoSs /\ inflight.qos # 2
        BY <3>1
      <3>3. inflight.qos \in 0 .. 2
        BY <3>2, PahoAssumption
      <3>4. QED
        BY <3>1, <3>2, <3>3
    <2>3. CASE s.ok
      BY <2>1, <2>2, <2>3, SilentReports DEF Waits, Silent
    <2>4. CASE ~s.ok
      BY <2>1, <2>4, ReturnsFailure, SilentReports, FailureIsFailure
    <2>5. QED
      BY <2>3, <2>4
  <1>4. awaited \in Answering => Done(readbuf) /\ Asking
    BY <1>0 DEF OneAtATime, Asking
  <1>5. CASE awaited = "PUBACK"
    <2>1. last' = [op |-> op, arg |-> arg, rc |-> SUCCESS] /\ op \in {"connect", "publish"}
      BY <1>0, <1>5 DEF Answered, Returns_, PahoTypeOK, CallTypeOK
    <2>2. session = "accepted" /\ arg[1].message \in got
      BY <1>4, <1>5 DEF Done, Answering
    <2>3. QED
      BY <2>1, <2>2, <1>0 DEF Reported, SuccessMeansDone
  <1>6. CASE awaited = "SUBACK"
    <2>1. op = "subscribe" /\ isconnected
      BY <1>0, <1>6 DEF PahoTypeOK, CallTypeOK
    <2>2. readbuf.granted = 128 \/ arg[1] \in subscribed
      BY <1>4, <1>6 DEF Done, Answering
    <2>3. PICK rc : /\ Returns_(op, arg, rc) /\ isconnected' = (isconnected /\ last'.rc = SUCCESS)
                    /\ readbuf.granted = 128 => rc = 128
      BY <1>0, <1>6 DEF Answered, Subscribed
    <2>4. last' = [op |-> op, arg |-> arg, rc |-> rc]
      BY <2>3 DEF Returns_
    <2>5. last'.op = "subscribe" /\ last'.arg = arg /\ last'.rc = rc
      BY <2>4, <2>1
    <2>6. rc = SUCCESS => arg[1] \in subscribed' /\ isconnected'
      <3>1. 128 # SUCCESS
        BY DEF SUCCESS
      <3>2. QED
        BY <3>1, <2>1, <2>2, <2>3, <2>5, <1>0, Zenon
    <2>7. QED
      BY <2>5, <2>6 DEF Reported, SuccessMeansDone
  <1>7. CASE awaited = "UNSUBACK"
    <2>1. op = "unsubscribe" /\ isconnected
      BY <1>0, <1>7 DEF PahoTypeOK, CallTypeOK
    <2>2. arg[1] \notin subscribed
      BY <1>4, <1>7 DEF Done, Answering
    <2>3. last' = [op |-> op, arg |-> arg, rc |-> SUCCESS] /\ isconnected' = isconnected
      BY <1>0, <1>7 DEF Answered, Returns_
    <2>4. last'.op = "unsubscribe" /\ last'.arg = arg
      BY <2>1, <2>3
    <2>5. QED
      BY <2>1, <2>2, <2>3, <2>4, <1>0 DEF Reported, SuccessMeansDone
  <1>8. QED
    BY <1>1, <1>2, <1>3, <1>5, <1>6, <1>7 DEF Answering

\* The broker and the link leave the reports alone.
LEMMA BrokerReports ==
    ASSUME PahoInv, BrokerTakes, ~torn, Reported
    PROVE  Reported'
  <1>1. PICK x : x = Head(toBroker)
    OBVIOUS
  <1>2. UNCHANGED <<torn, op, last, isconnected>>
    BY DEF BrokerTakes, client, waiting
  <1>3. got \subseteq got' /\ (session = "accepted" => session' = "accepted")
    BY <1>1 DEF BrokerTakes, Closes, Replies
  <1>4. subscribed' # subscribed => x.type \in {"SUBSCRIBE", "UNSUBSCRIBE"}
    BY <1>1 DEF BrokerTakes, Closes, Replies
  <1>5. ASSUME op = "none", isconnected PROVE UNCHANGED subscribed
    <2>1. Requests = {}
      BY <1>5, BetweenCalls DEF PahoInv, StreamInv, OneAtATime
    <2>2. toBroker # <<>> /\ toBroker \in Seq(FromClient)
      BY DEF BrokerTakes, PahoInv, PahoTypeOK, LinkTypeOK
    <2>3. 1 \in DOMAIN toBroker /\ x = toBroker[1]
      BY <2>2, <1>1
    <2>4. ~IsRequest(x)
      BY <2>1, <2>3 DEF Requests
    <2>5. QED
      BY <2>4, <1>4 DEF IsRequest
  <1>6. QED
    BY <1>2, <1>3, <1>5, StillReported

\* What a client that publishes at QoS 0 and 1 is told is true: a call that reports
\* success has had its effect at the broker, and no late answer passes for another's.
THEOREM SuccessIsTrue == ASSUME 2 \notin QoSs PROVE PahoSpec => []SuccessMeansDone
  <1>1. PahoInit => (~torn => Reported)
    BY DEF PahoInit, Reported, SuccessMeansDone, NoCall
  <1>2. PahoInv /\ (~torn => Reported) /\ [PahoNext]_pahoVars => (~torn => Reported)'
    <2> SUFFICES ASSUME PahoInv, ~torn => Reported, [PahoNext]_pahoVars, ~torn' PROVE Reported'
      OBVIOUS
    <2>1. PahoTypeOK
      BY DEF PahoInv
    <2>2. CASE \/ \E o \in Options : MQTTconnect(o[1], o[2])
               \/ \E q \in QoSs : MQTTpublish(q)
               \/ \E f \in Subscriptions : MQTTsubscribe(f) \/ MQTTunsubscribe(f)
               \/ MQTTyield \/ MQTTdisconnect
      <3>1. \A o \in Options : o[1] \in BOOLEAN /\ o[2] \in BOOLEAN
        BY PahoAssumption
      <3>2. QED
        BY <3>1, <2>1, <2>2, CallsReport
    <2>3. CASE MQTTThread
      <3>1. Answer => ~torn
        BY DEF Answer
      <3>2. QED
        BY <3>1, <2>1, <2>3, WaitReports, AnswerReports DEF MQTTThread
    <2>4. CASE netConnect \/ netDisconnect
      BY <2>4, SilentReports DEF netConnect, netDisconnect, Silent
    <2>5. CASE Expires \/ KeepAliveDue \/ ConnectionLost \/ UNCHANGED pahoVars
      <3>1. UNCHANGED <<torn, op, last, isconnected, session, got, subscribed>>
        BY <2>5 DEF Expires, KeepAliveDue, ConnectionLost, pahoVars, client, waiting, broker
      <3>2. QED
        BY <3>1, StillReported
    <2>6. ASSUME NEW m \in Incoming, BrokerPublishes(m[1], m[2]) PROVE Reported'
      <3>1. UNCHANGED <<torn, op, last, isconnected, session, got, subscribed>>
        BY <2>6 DEF BrokerPublishes, client, waiting, broker
      <3>2. QED
        BY <3>1, StillReported
    <2>7. CASE BrokerTakes
      <3>1. ~torn
        BY <2>7 DEF BrokerTakes
      <3>2. QED
        BY <3>1, <2>7, BrokerReports
    <2>8. QED
      BY <2>2, <2>3, <2>4, <2>5, <2>6, <2>7 DEF PahoNext
  <1>3. (~torn => Reported) => SuccessMeansDone
    BY DEF Reported, SuccessMeansDone
  <1>4. QED
    BY <1>1, <1>2, <1>3, PahoInvariant, PTL DEF PahoSpec

(* The request of the HTTP client.                                         *)

\* What a request is made of: its line, headers with a name and a value, the
\* marks of their end and of the request's, and the bytes of a body.
HeaderNames == { h[1] : h \in HeaderPairs } \cup {"Host", "Content-Length"}
HeaderValues ==
    { h[2] : h \in HeaderPairs } \cup { ParsedUrl(u).host : u \in Urls } \cup { <<n>> : n \in Nat }
Pairs == HeaderNames \X HeaderValues
Pieces ==
    { <<"line", m, ParsedUrl(u).path, ParsedUrl(u).query>> : m \in Methods, u \in Urls }
        \cup { <<"header", h[1], h[2]>> : h \in Pairs }
        \cup { <<"end">>, <<"ending">> } \cup UNION { { b[i] : i \in DOMAIN b } : b \in Bodies }
RequestTypeOK ==
    /\ url \in Urls /\ parsed_url = ParsedUrl(url) /\ method \in Methods
    /\ headers \in Seq(Pairs)
    /\ asked \in Seq(Pieces) /\ left \in Seq(Pieces) /\ pending \in Seq(Pieces) /\ out \in Seq(Pieces)

\* What is typed and what is said of it, together.
RequestIInv == RequestTypeOK /\ RequestInv

\* A body is a sequence of pieces.
LEMMA BodiesArePieces ==
    ASSUME NEW b \in Bodies
    PROVE  b \in Seq(Pieces)
  <1>1. b \in Seq({ b[i] : i \in DOMAIN b })
    BY RequestAssumption
  <1>2. { b[i] : i \in DOMAIN b } \subseteq Pieces
    BY DEF Pieces
  <1>3. QED
    BY <1>1, <1>2, SeqMonotonic

\* Setting a header keeps the names apart, and the header is among them.
LEMMA WithHeaderSets ==
    ASSUME NEW list \in Seq(Pairs), NEW key \in HeaderNames, NEW value \in HeaderValues,
           \A i, j \in DOMAIN list : list[i][1] = list[j][1] => i = j
    PROVE  LET l == WithHeader(list, key, value)
           IN  /\ l \in Seq(Pairs)
               /\ \A i, j \in DOMAIN l : l[i][1] = l[j][1] => i = j
               /\ \E i \in DOMAIN l : l[i] = <<key, value>>
  <1> DEFINE l == WithHeader(list, key, value)
  <1> DEFINE e == <<key, value>>
  <1>1. e \in Pairs /\ e[1] = key
    BY DEF Pairs
  <1>2. \A i \in DOMAIN list : list[i] \in Pairs
    OBVIOUS
  <1>a. DOMAIN list = 1 .. Len(list) /\ Len(list) \in Nat
    OBVIOUS
  <1>3. CASE \E i \in DOMAIN list : list[i][1] = key
    <2>1. PICK k \in DOMAIN list : list[k][1] = key
      BY <1>3
    <2>2. l = [i \in DOMAIN list |-> IF list[i][1] = key THEN e ELSE list[i]]
      BY <1>3 DEF WithHeader
    <2>3. DOMAIN l = DOMAIN list /\ \A i \in DOMAIN list : l[i] = IF list[i][1] = key THEN e ELSE list[i]
      BY <2>2
    <2> HIDE DEF l, e
    <2>4. \A i \in DOMAIN list : l[i] \in Pairs /\ l[i][1] = list[i][1]
      BY <1>1, <1>2, <2>3
    <2>5. l \in Seq(Pairs)
      <3>1. l = [i \in 1 .. Len(list) |-> IF list[i][1] = key THEN e ELSE list[i]]
        BY <2>2, <1>a
      <3>2. \A i \in 1 .. Len(list) : (IF list[i][1] = key THEN e ELSE list[i]) \in Pairs
        BY <1>1, <1>2, <1>a
      <3>3. QED
        BY <3>1, <3>2, <1>a
    <2>6. \A i, j \in DOMAIN l : l[i][1] = l[j][1] => i = j
      BY <2>3, <2>4
    <2>7. l[k] = <<key, value>>
      BY <2>1, <2>3 DEF e
    <2>8. QED
      BY <2>1, <2>3, <2>5, <2>6, <2>7 DEF l
  <1>4. CASE ~ \E i \in DOMAIN list : list[i][1] = key
    <2>1. l = <<e>> \o list
      BY <1>4 DEF WithHeader
    <2>2. <<e>> \in Seq(Pairs) /\ Len(<<e>>) = 1 /\ <<e>>[1] = e
      BY <1>1
    <2> HIDE DEF l, e
    <2>3. l \in Seq(Pairs) /\ Len(l) = Len(list) + 1
      BY <2>1, <2>2, ConcatProperties
    <2>4. l[1] = e /\ \A i \in 2 .. Len(list) + 1 : l[i] = list[i - 1]
      BY <2>1, <2>2, <1>a, ConcatProperties
    <2>5. DOMAIN l = 1 .. Len(list) + 1
      BY <2>3
    <2>6. \A i, j \in DOMAIN l : l[i][1] = l[j][1] => i = j
      <3> SUFFICES ASSUME NEW i \in 1 .. Len(list) + 1, NEW j \in 1 .. Len(list) + 1,
                          l[i][1] = l[j][1]
                   PROVE  i = j
        BY <2>5
      <3>0. \A k \in 2 .. Len(list) + 1 : k - 1 \in DOMAIN list /\ l[k][1] # key
        BY <1>4, <1>a, <2>4
      <3>1. CASE i = 1 \/ j = 1
        BY <3>1, <3>0, <2>4, <1>1, <1>a
      <3>2. CASE i # 1 /\ j # 1
        <4>1. i - 1 \in DOMAIN list /\ j - 1 \in DOMAIN list /\ list[i - 1][1] = list[j - 1][1]
          BY <3>2, <3>0, <2>4, <1>a
        <4>2. i - 1 = j - 1
          BY <4>1
        <4>3. QED
          BY <4>2, <1>a
      <3>3. QED
        BY <3>1, <3>2
    <2>7. QED
      BY <2>3, <2>4, <2>5, <2>6, <1>a DEF l, e
  <1>5. QED
    BY <1>3, <1>4

\* The head of a request: its line, one piece for each header, and the end.
LEMMA HeadOfRequest ==
    ASSUME method \in Methods, url \in Urls, parsed_url = ParsedUrl(url), NEW list \in Seq(Pairs)
    PROVE  /\ build(list) \in Seq(Pieces) /\ Len(build(list)) = Len(list) + 2
           /\ build(list)[1] = <<"line", method, parsed_url.path, parsed_url.query>>
           /\ \A i \in 1 .. Len(list) : build(list)[i + 1] = <<"header", list[i][1], list[i][2]>>
           /\ build(list)[Len(list) + 2] = <<"end">>
  <1> DEFINE line == <<"line", method, parsed_url.path, parsed_url.query>>
  <1> DEFINE hs == [i \in DOMAIN list |-> <<"header", list[i][1], list[i][2]>>]
  <1>1. line \in Pieces /\ <<"end">> \in Pieces
    BY DEF Pieces
  <1>2. \A i \in 1 .. Len(list) : <<"header", list[i][1], list[i][2]>> \in Pieces
    <2>1. \A i \in 1 .. Len(list) : list[i] \in Pairs
      OBVIOUS
    <2>2. QED
      BY <2>1 DEF Pieces
  <1>3. hs = [i \in 1 .. Len(list) |-> <<"header", list[i][1], list[i][2]>>] /\ Len(list) \in Nat
    OBVIOUS
  <1>4. hs \in Seq(Pieces) /\ Len(hs) = Len(list)
        /\ \A i \in 1 .. Len(list) : hs[i] = <<"header", list[i][1], list[i][2]>>
    BY <1>2, <1>3
  <1>5. build(list) = (<<line>> \o hs) \o << <<"end">> >>
    BY DEF build
  <1>e. PICK e : e = <<"end">>
    OBVIOUS
  <1> HIDE DEF line, hs
  <1>6. <<line>> \in Seq(Pieces) /\ <<e>> \in Seq(Pieces) /\ Len(<<line>>) = 1 /\ Len(<<e>>) = 1
        /\ <<line>>[1] = line /\ <<e>>[1] = e
    BY <1>1, <1>e
  <1>7. PICK a : a = <<line>> \o hs
    OBVIOUS
  <1>8. a \in Seq(Pieces) /\ Len(a) = Len(list) + 1
        /\ a[1] = line /\ \A i \in 1 .. Len(list) : a[i + 1] = hs[i]
    BY <1>3, <1>4, <1>6, <1>7, ConcatProperties
  <1>9. PICK b : b = a \o <<e>>
    OBVIOUS
  <1>10. b \in Seq(Pieces) /\ Len(b) = Len(list) + 2
         /\ (\A i \in 1 .. Len(list) + 1 : b[i] = a[i]) /\ b[Len(list) + 2] = e
    BY <1>3, <1>6, <1>8, <1>9, ConcatProperties
  <1>11. b = build(list)
    BY <1>5, <1>7, <1>9, <1>e
  <1>12. b[1] = line /\ \A i \in 1 .. Len(list) : b[i + 1] = hs[i]
    <2>1. b[1] = a[1]
      BY <1>3, <1>10
    <2>2. \A i \in 1 .. Len(list) : i + 1 \in 1 .. Len(list) + 1
      BY <1>3
    <2>3. \A i \in 1 .. Len(list) : b[i + 1] = a[i + 1]
      BY <2>2, <1>10
    <2>4. QED
      BY <2>1, <2>3, <1>8
  <1>13. QED
    BY <1>4, <1>10, <1>11, <1>12, <1>e DEF line

\* Two parts of a sequence, cut after k, are the sequence.
LEMMA CutAndJoined ==
    ASSUME NEW S, NEW s \in Seq(S), NEW k \in 0 .. Len(s)
    PROVE  /\ SubSeq(s, 1, k) \in Seq(S) /\ SubSeq(s, k + 1, Len(s)) \in Seq(S)
           /\ SubSeq(s, 1, k) \o SubSeq(s, k + 1, Len(s)) = s
  <1>1. Len(s) \in Nat /\ \A i \in 1 .. Len(s) : s[i] \in S
    OBVIOUS
  <1>2. SubSeq(s, 1, k) \in Seq(S) /\ Len(SubSeq(s, 1, k)) = k
        /\ \A i \in 1 .. k : SubSeq(s, 1, k)[i] = s[i]
    BY <1>1, SubSeqProperties
  <1>3. SubSeq(s, k + 1, Len(s)) \in Seq(S) /\ Len(SubSeq(s, k + 1, Len(s))) = Len(s) - k
        /\ \A i \in 1 .. Len(s) - k : SubSeq(s, k + 1, Len(s))[i] = s[k + i]
    BY <1>1, SubSeqProperties
  <1>4. PICK a, b : a = SubSeq(s, 1, k) /\ b = SubSeq(s, k + 1, Len(s))
    OBVIOUS
  <1>5. a \o b \in Seq(S) /\ Len(a \o b) = Len(s) /\ \A i \in 1 .. Len(s) : (a \o b)[i] = s[i]
    <2>1. a \in Seq(S) /\ Len(a) = k /\ \A i \in 1 .. k : a[i] = s[i]
      BY <1>2, <1>4
    <2>2. b \in Seq(S) /\ Len(b) = Len(s) - k /\ \A i \in 1 .. Len(s) - k : b[i] = s[k + i]
      BY <1>3, <1>4
    <2>3. a \o b \in Seq(S) /\ Len(a \o b) = Len(s)
      BY <2>1, <2>2, <1>1, ConcatProperties
    <2>4. \A i \in 1 .. Len(s) : (a \o b)[i] = IF i <= k THEN a[i] ELSE b[i - k]
      BY <2>1, <2>2, <1>1, ConcatProperties
    <2>5. \A i \in 1 .. Len(s) : i > k => i - k \in 1 .. Len(s) - k /\ k + (i - k) = i
      BY <1>1
    <2>6. \A i \in 1 .. Len(s) : (a \o b)[i] = s[i]
      BY <2>1, <2>2, <2>4, <2>5, <1>1
    <2>7. QED
      BY <2>3, <2>6
  <1>6. a \o b = s
    BY <1>5, SeqEqual
  <1>7. QED
    BY <1>2, <1>3, <1>4, <1>6


\* What was sent before, and a sequence of which a part more is sent.
LEMMA JoinedAgain ==
    ASSUME NEW S, NEW o \in Seq(S), NEW a \in Seq(S), NEW b \in Seq(S)
    PROVE  (o \o a) \o b = o \o (a \o b) /\ o \o a \in Seq(S)
  <1>1. (o \o a) \o b = o \o (a \o b)
    BY ConcatAssociative
  <1>2. o \o a \in Seq(S)
    BY ConcatProperties
  <1>3. QED
    BY <1>1, <1>2

\* What was written of the pending bytes, and what is left of them, together are the request.
LEMMA SentAndLeft ==
    ASSUME NEW S, NEW o \in Seq(S), NEW s \in Seq(S), NEW k \in 0 .. Len(s)
    PROVE  /\ SubSeq(s, 1, k) \in Seq(S) /\ SubSeq(s, k + 1, Len(s)) \in Seq(S)
           /\ o \o SubSeq(s, 1, k) \in Seq(S)
           /\ (o \o SubSeq(s, 1, k)) \o SubSeq(s, k + 1, Len(s)) = o \o s
  <1>1. PICK a, b : a = SubSeq(s, 1, k) /\ b = SubSeq(s, k + 1, Len(s))
    OBVIOUS
  <1>2. a \in Seq(S) /\ b \in Seq(S) /\ a \o b = s
    BY <1>1, CutAndJoined
  <1>3. ASSUME NEW x \in Seq(S), NEW y \in Seq(S)
        PROVE  (o \o x) \o y = o \o (x \o y) /\ o \o x \in Seq(S)
    BY JoinedAgain
  <1>4. (o \o a) \o b = o \o (a \o b) /\ o \o a \in Seq(S)
    BY <1>2, <1>3
  <1>5. QED
    BY <1>1, <1>2, <1>4

\* The request is whole before it is begun.
LEMMA RequestBegins == RequestInit => RequestIInv
  <1> SUFFICES ASSUME RequestInit PROVE RequestIInv
    OBVIOUS
  <1> USE DEF RequestInit
  <1>1. <<"Host", parsed_url.host>> \in Pairs
    BY DEF Pairs, HeaderNames, HeaderValues
  <1>2. headers \in Seq(Pairs) /\ Len(headers) = 1
    BY <1>1
  <1>3. RequestTypeOK
    BY <1>2, EmptySeq DEF RequestTypeOK
  <1>4. HeadersDiffer /\ LengthTold /\ SentSoFar
    BY <1>2 DEF HeadersDiffer, LengthTold, SentSoFar
  <1>5. QED
    BY <1>3, <1>4 DEF RequestIInv, RequestInv

\* set_header keeps the invariant.
LEMMA SetHeaderKeeps ==
    ASSUME RequestIInv, NEW h \in HeaderPairs, set_header(h[1], h[2])
    PROVE  RequestIInv'
  <1> USE DEF RequestIInv, RequestInv
  <1>0. stage = "idle" /\ stage' = "idle" /\ headers' = WithHeader(headers, h[1], h[2])
        /\ url' = url /\ parsed_url' = parsed_url /\ method' = method /\ opened' = opened
        /\ asked' = asked /\ left' = left /\ pending' = pending /\ out' = out
    BY DEF set_header, target
  <1>1. h[1] \in HeaderNames /\ h[2] \in HeaderValues
    BY DEF HeaderNames, HeaderValues
  <1>2. headers' \in Seq(Pairs) /\ \A i, j \in DOMAIN headers' : headers'[i][1] = headers'[j][1] => i = j
    BY <1>0, <1>1, WithHeaderSets DEF RequestTypeOK, HeadersDiffer
  <1>3. RequestTypeOK' /\ HeadersDiffer'
    BY <1>0, <1>2 DEF RequestTypeOK, HeadersDiffer
  <1>4. LengthTold' /\ SentSoFar'
    BY <1>0 DEF LengthTold, SentSoFar
  <1>5. QED
    BY <1>3, <1>4

\* The begin of send keeps the invariant.
LEMMA SendKeeps ==
    ASSUME RequestIInv, NEW b \in Bodies, send(b)
    PROVE  RequestIInv'
  <1> USE DEF RequestIInv, RequestInv
  <1>0. /\ url' = url /\ parsed_url' = parsed_url /\ method' = method /\ opened' = opened
        /\ headers' = headers /\ left' = left /\ pending' = pending /\ out' = out
        /\ stage \in {"idle", "done"} /\ asked' \in {b, asked}
        /\ (stage' = "connect" /\ opened) \/ stage' = "done"
    BY DEF send, target, Returns
  <1>1. asked' \in Seq(Pieces)
    BY <1>0, BodiesArePieces DEF RequestTypeOK
  <1>2. RequestTypeOK' /\ HeadersDiffer'
    BY <1>0, <1>1 DEF RequestTypeOK, HeadersDiffer
  <1>3. LengthTold'
    BY <1>0 DEF LengthTold
  <1>4. SentSoFar'
    BY <1>0 DEF SentSoFar
  <1>5. QED
    BY <1>2, <1>3, <1>4

\* The connected socket keeps the invariant.
LEMMA ConnectedKeeps ==
    ASSUME RequestIInv, connect
    PROVE  RequestIInv'
  <1> USE DEF RequestIInv, RequestInv
  <1>0. /\ url' = url /\ parsed_url' = parsed_url /\ method' = method /\ opened' = opened
        /\ asked' = asked /\ out' = out /\ stage = "connect" /\ out = <<>>
    BY DEF connect, target, SentSoFar
  <1>1. CASE stage' = "done" /\ headers' = headers /\ left' = left /\ pending' = pending
    <2>1. RequestTypeOK' /\ HeadersDiffer'
      BY <1>0, <1>1 DEF RequestTypeOK, HeadersDiffer
    <2>2. LengthTold' /\ SentSoFar'
      BY <1>0, <1>1 DEF LengthTold, SentSoFar
    <2>3. QED
      BY <2>1, <2>2
  <1>2. CASE /\ stage' = "header" /\ left' = asked
             /\ headers' = BuildHeaders(Len(asked)) /\ pending' = build(headers')
    <2>1. "Content-Length" \in HeaderNames /\ <<Len(asked)>> \in HeaderValues
      BY DEF HeaderNames, HeaderValues, RequestTypeOK
    <2>2. headers \in Seq(Pairs) /\ \A i, j \in DOMAIN headers : headers[i][1] = headers[j][1] => i = j
      BY DEF RequestTypeOK, HeadersDiffer
    <2>3. headers' \in Seq(Pairs) /\ \A i, j \in DOMAIN headers' : headers'[i][1] = headers'[j][1] => i = j
      BY <1>2, <2>1, <2>2, WithHeaderSets DEF BuildHeaders
    <2>4. method \in {"POST", "PUT"} => \E i \in DOMAIN headers' : headers'[i] = <<"Content-Length", <<Len(asked)>> >>
      BY <1>2, <2>1, <2>2, WithHeaderSets DEF BuildHeaders
    <2>5. method' \in Methods /\ url' \in Urls /\ parsed_url' = ParsedUrl(url')
      BY <1>0 DEF RequestTypeOK
    <2>6. build(headers') \in Seq(Pieces)
      BY <2>3, HeadOfRequest DEF RequestTypeOK
    <2>6a. build(headers)' = build(headers')
      BY <1>0 DEF build
    <2>7. RequestTypeOK' /\ HeadersDiffer' /\ LengthTold'
      BY <1>0, <1>2, <2>3, <2>4, <2>5, <2>6 DEF RequestTypeOK, HeadersDiffer, LengthTold
    <2>8. <<>> \o build(headers') = build(headers')
      BY <2>6, ConcatEmptySeq
    <2>9. (out' \o pending') \o left' = build(headers') \o asked
      BY <1>0, <1>2, <2>8
    <2>10. SentSoFar'
      BY <1>0, <1>2, <2>6a, <2>9 DEF SentSoFar
    <2>11. QED
      BY <2>7, <2>10
  <1>3. QED
    BY <1>1, <1>2 DEF connect, Returns

\* What the socket has taken and what it is still to send stay the same whole.
LEMMA TakesKeeps ==
    ASSUME RequestIInv, NEW k \in 1 .. Len(pending), SocketTakes(k)
    PROVE  RequestIInv'
  <1> USE DEF RequestIInv, RequestInv
  <1>0. /\ url' = url /\ parsed_url' = parsed_url /\ method' = method /\ opened' = opened
        /\ headers' = headers /\ asked' = asked /\ left' = left /\ stage' = stage
        /\ stage \in {"header", "body", "ending"}
        /\ out' = out \o SubSeq(pending, 1, k) /\ pending' = SubSeq(pending, k + 1, Len(pending))
    BY DEF SocketTakes, target
  <1>1. pending \in Seq(Pieces) /\ out \in Seq(Pieces)
    BY DEF RequestTypeOK
  <1>2. PICK a, b, o, q : a = SubSeq(pending, 1, k) /\ b = SubSeq(pending, k + 1, Len(pending))
                           /\ o = out /\ q = pending
    OBVIOUS
  <1>3. q \in Seq(Pieces) /\ o \in Seq(Pieces) /\ k \in 0 .. Len(q)
        /\ a = SubSeq(q, 1, k) /\ b = SubSeq(q, k + 1, Len(q))
    BY <1>1, <1>2
  <1>4. a \in Seq(Pieces) /\ b \in Seq(Pieces) /\ (o \o a) \o b = o \o q /\ o \o a \in Seq(Pieces)
    <2>1. /\ SubSeq(q, 1, k) \in Seq(Pieces) /\ SubSeq(q, k + 1, Len(q)) \in Seq(Pieces)
          /\ o \o SubSeq(q, 1, k) \in Seq(Pieces)
          /\ (o \o SubSeq(q, 1, k)) \o SubSeq(q, k + 1, Len(q)) = o \o q
      <3>1. q \in Seq(Pieces) /\ o \in Seq(Pieces) /\ k \in 0 .. Len(q)
        BY <1>3, Zenon
      <3>2. QED
        BY ONLY <3>1, SentAndLeft, ZenonT(120)
    <2>2. QED
      BY <1>3, <2>1, Zenon
  <1>5. out' \o pending' = out \o pending /\ out' \in Seq(Pieces) /\ pending' \in Seq(Pieces)
    BY <1>0, <1>2, <1>3, <1>4
  <1>6. RequestTypeOK' /\ HeadersDiffer' /\ LengthTold'
    BY <1>0, <1>5 DEF RequestTypeOK, HeadersDiffer, LengthTold
  <1>7. build(headers)' = build(headers)
    BY <1>0 DEF build
  <1>8. SentSoFar'
    BY <1>0, <1>5, <1>7 DEF SentSoFar
  <1>9. QED
    BY <1>6, <1>8

\* The next piece of the body, the end of the request, or its answer.
LEMMA SentKeeps ==
    ASSUME RequestIInv, Sent
    PROVE  RequestIInv'
  <1> USE DEF RequestIInv, RequestInv
  <1>0. /\ url' = url /\ parsed_url' = parsed_url /\ method' = method /\ opened' = opened
        /\ headers' = headers /\ asked' = asked /\ out' = out
        /\ stage \in {"header", "body", "ending"} /\ pending = <<>>
    BY DEF Sent, target
  <1>1. left \in Seq(Pieces) /\ out \in Seq(Pieces) /\ asked \in Seq(Pieces) /\ headers \in Seq(Pairs)
    BY DEF RequestTypeOK
  <1>2. out \o pending = out
    BY <1>0, <1>1, ConcatEmptySeq
  <1>3. build(headers)' = build(headers) /\ build(headers) \in Seq(Pieces)
    BY <1>0, <1>1, HeadOfRequest DEF build, RequestTypeOK
  <1>4. CASE stage # "ending" /\ left # <<>>
    <2> DEFINE n == MinOf(Len(left), BodyPiece)
    <2>1. BodyLoop
      BY <1>4, <1>0 DEF Sent
    <2>2. n \in 0 .. Len(left)
      BY <1>1, RequestAssumption DEF MinOf
    <2>3. stage' = "body" /\ pending' = SubSeq(left, 1, n) /\ left' = SubSeq(left, n + 1, Len(left))
      BY <2>1 DEF BodyLoop
    <2> HIDE DEF n
    <2>4. PICK a, b, o, l : a = pending' /\ b = left' /\ o = out /\ l = left
      OBVIOUS
    <2>4a. l \in Seq(Pieces) /\ o \in Seq(Pieces) /\ n \in 0 .. Len(l)
           /\ a = SubSeq(l, 1, n) /\ b = SubSeq(l, n + 1, Len(l))
      BY <1>1, <2>2, <2>3, <2>4
    <2>4b. a \in Seq(Pieces) /\ b \in Seq(Pieces) /\ (o \o a) \o b = o \o l
      <3>1. /\ SubSeq(l, 1, n) \in Seq(Pieces) /\ SubSeq(l, n + 1, Len(l)) \in Seq(Pieces)
            /\ (o \o SubSeq(l, 1, n)) \o SubSeq(l, n + 1, Len(l)) = o \o l
        <4>1. l \in Seq(Pieces) /\ o \in Seq(Pieces) /\ n \in 0 .. Len(l)
          BY <2>4a, Zenon
        <4>2. QED
          BY ONLY <4>1, SentAndLeft, ZenonT(120)
      <3>2. QED
        BY <2>4a, <3>1, Zenon
    <2>5. pending' \in Seq(Pieces) /\ left' \in Seq(Pieces) /\ (out \o pending') \o left' = out \o left
      BY <2>4, <2>4b
    <2>6. out \o left = build(headers) \o asked
      BY <1>0, <1>2, <1>4 DEF SentSoFar
    <2>7. RequestTypeOK' /\ HeadersDiffer' /\ LengthTold'
      BY <1>0, <2>3, <2>5, <1>4 DEF RequestTypeOK, HeadersDiffer, LengthTold
    <2>8. SentSoFar'
      BY <1>0, <1>3, <2>3, <2>5, <2>6 DEF SentSoFar
    <2>9. QED
      BY <2>7, <2>8
  <1>5. CASE stage # "ending" /\ left = <<>>
    <2>1. SendsEnding
      BY <1>5, <1>0 DEF Sent
    <2>2. stage' = "ending" /\ pending' = Ending /\ left' = left
      BY <2>1 DEF SendsEnding
    <2>3. <<"ending">> \in Pieces
      BY DEF Pieces
    <2>3a. Ending \in Seq(Pieces)
      BY <2>3 DEF Ending
    <2>4. out \o left = out
      BY <1>1, <1>5, ConcatEmptySeq
    <2>5. out = build(headers) \o asked
      BY <1>0, <1>2, <1>5, <2>4 DEF SentSoFar
    <2>6. RequestTypeOK' /\ HeadersDiffer' /\ LengthTold'
      BY <1>0, <2>2, <2>3a, <1>5 DEF RequestTypeOK, HeadersDiffer, LengthTold
    <2>7. SentSoFar'
      BY <1>0, <1>3, <1>5, <2>2, <2>5 DEF SentSoFar
    <2>8. QED
      BY <2>6, <2>7
  <1>6. CASE stage = "ending"
    <2>1. CreatesResponse
      BY <1>6, <1>0 DEF Sent
    <2>2. stage' = "recv" /\ pending' = pending /\ left' = left
      BY <2>1 DEF CreatesResponse
    <2>3. RequestTypeOK' /\ HeadersDiffer' /\ LengthTold'
      BY <1>0, <2>2, <1>6 DEF RequestTypeOK, HeadersDiffer, LengthTold
    <2>4. SentSoFar'
      BY <1>0, <1>2, <1>3, <1>6, <2>2 DEF SentSoFar
    <2>5. QED
      BY <2>3, <2>4
  <1>7. QED
    BY <1>4, <1>5, <1>6

\* A step that neither sends nor sets a header, and that uses the socket again
\* only where it may.
LEMMA QuietKeeps ==
    ASSUME RequestIInv,
           UNCHANGED <<url, parsed_url, method, headers, asked, left, pending, out>>,
           \/ stage' = stage /\ opened' = opened
           \/ stage' = "done" /\ opened' = FALSE
           \/ stage \in {"recv", "parse"} /\ stage' \in {"parse", "finish"}
           \/ stage = "parse" /\ stage' = "recv"
    PROVE  RequestIInv'
  <1> USE DEF RequestIInv, RequestInv
  <1>1. RequestTypeOK' /\ HeadersDiffer'
    BY DEF RequestTypeOK, HeadersDiffer
  <1>2. build(headers)' = build(headers)
    BY DEF build
  <1>3. LengthTold'
    BY DEF LengthTold
  <1>4. SentSoFar'
    <2>1. out' = out /\ pending' = pending /\ left' = left /\ asked' = asked
      OBVIOUS
    <2>2. stage' \in {"recv", "parse", "finish"} => stage \in {"recv", "parse", "finish"}
      OBVIOUS
    <2>3. stage' \notin {"recv", "parse", "finish"} =>
              (stage' = stage /\ opened' = opened) \/ (stage' = "done" /\ opened' = FALSE)
      OBVIOUS
    <2>4. CASE stage' \in {"recv", "parse", "finish"}
      BY <1>2, <2>1, <2>2, <2>4 DEF SentSoFar
    <2>5. CASE stage' = stage /\ opened' = opened
      BY <1>2, <2>1, <2>5 DEF SentSoFar
    <2>6. CASE stage' = "done" /\ opened' = FALSE
      BY <2>6 DEF SentSoFar
    <2>7. QED
      BY <2>3, <2>4, <2>5, <2>6
  <1>5. QED
    BY <1>1, <1>3, <1>4

\* Every step of the client keeps the invariant.
LEMMA RequestStep ==
    ASSUME RequestIInv, [RequestNext]_requestVars
    PROVE  RequestIInv'
  <1>1. CASE \E h \in HeaderPairs : set_header(h[1], h[2])
    BY <1>1, SetHeaderKeeps
  <1>2. CASE \E b \in Bodies : send(b)
    BY <1>2, SendKeeps
  <1>3. CASE connect
    BY <1>3, ConnectedKeeps
  <1>4. CASE Sent
    BY <1>4, SentKeeps
  <1>5. CASE \E k \in 1 .. Len(pending) : SocketTakes(k)
    BY <1>5, TakesKeeps
  <1>6. CASE SocketTakesNothing
    BY <1>6, QuietKeeps DEF SocketTakesNothing, target
  <1>7. CASE SocketFails
    BY <1>7, QuietKeeps DEF SocketFails, Returns, close, target
  <1>8. CASE Parses
    BY <1>8, QuietKeeps DEF Parses, clientVars, target
  <1>9. CASE Parsed
    <2>1. UNCHANGED <<url, parsed_url, method, headers, asked, left, pending, out>> /\ stage = "parse"
      BY <1>9 DEF Parsed, target
    <2>2. \/ stage' = "done" /\ opened' = FALSE
          \/ stage' \in {"finish", "recv"}
      BY <1>9 DEF Parsed, Returns, close
    <2>3. QED
      BY <2>1, <2>2, QuietKeeps
  <1>10. CASE Finish
    BY <1>10, QuietKeeps DEF Finish, Returns, close, target
  <1>11. CASE Arrives
    BY <1>11, QuietKeeps DEF Arrives, recv, target
  <1>12. CASE \E r \in {0, -1} : recvEnds(r)
    BY <1>12, QuietKeeps DEF recvEnds, target
  <1>13. CASE UNCHANGED requestVars
    BY <1>13, QuietKeeps DEF requestVars, clientVars, target
  <1>14. QED
    BY <1>1, <1>2, <1>3, <1>4, <1>5, <1>6, <1>7, <1>8, <1>9, <1>10, <1>11, <1>12, <1>13
       DEF RequestNext, HTTPSClient, Network

\* The invariant implies the property.
LEMMA WholeWhenRead == RequestIInv => RequestWhole
  <1> SUFFICES ASSUME RequestIInv, stage = "recv" PROVE RequestWhole
    BY DEF RequestWhole
  <1> USE DEF RequestIInv, RequestInv
  <1> DEFINE n == Len(headers)
  <1> DEFINE sent == { out[i] : i \in 2 .. n + 1 }
  <1> DEFINE tail == << <<"end">> >> \o asked \o Ending
  <1>1. headers \in Seq(Pairs) /\ asked \in Seq(Pieces) /\ out \in Seq(Pieces) /\ n \in Nat
        /\ DOMAIN headers = 1 .. n
    BY DEF RequestTypeOK
  <1>2. out = (build(headers) \o asked) \o Ending
    BY DEF SentSoFar
  <1>3. PICK e, f, b : e = <<"end">> /\ f = <<"ending">> /\ b = build(headers)
    OBVIOUS
  <1>4. e \in Pieces /\ f \in Pieces /\ Ending = <<f>>
    BY <1>3 DEF Pieces, Ending
  <1>5. b \in Seq(Pieces) /\ Len(b) = n + 2
        /\ b[1] = <<"line", method, parsed_url.path, parsed_url.query>>
        /\ (\A i \in 1 .. n : b[i + 1] = <<"header", headers[i][1], headers[i][2]>>)
        /\ b[n + 2] = e
    BY <1>1, <1>3, HeadOfRequest DEF RequestTypeOK
  <1>6. PICK m : m = Len(asked)
    OBVIOUS
  <1>7. m \in Nat /\ <<f>> \in Seq(Pieces) /\ Len(<<f>>) = 1 /\ <<f>>[1] = f
        /\ <<e>> \in Seq(Pieces) /\ Len(<<e>>) = 1 /\ <<e>>[1] = e
    BY <1>1, <1>4, <1>6
  <1>8. PICK c : c = b \o asked
    OBVIOUS
  <1>9. c \in Seq(Pieces) /\ Len(c) = n + 2 + m
        /\ \A i \in 1 .. n + 2 + m : c[i] = IF i <= n + 2 THEN b[i] ELSE asked[i - (n + 2)]
    <2> HIDE DEF n
    <2>1. Len(c) = (n + 2) + m /\ c \in Seq(Pieces)
      BY <1>1, <1>5, <1>6, <1>8, ConcatProperties
    <2>2. \A i \in 1 .. (n + 2) + m : c[i] = IF i <= n + 2 THEN b[i] ELSE asked[i - (n + 2)]
      BY <1>1, <1>5, <1>6, <1>8, ConcatProperties
    <2>3. QED
      BY <2>1, <2>2
  <1>10. out = c \o <<f>>
    BY <1>2, <1>3, <1>4, <1>8
  <1>11. Len(out) = n + 3 + m
         /\ \A i \in 1 .. n + 3 + m : out[i] = IF i <= n + 2 + m THEN c[i] ELSE f
    <2> HIDE DEF n
    <2>0. PICK o : o = out
      OBVIOUS
    <2>1. Len(o) = Len(c) + Len(<<f>>)
      <3>1. o = c \o <<f>> /\ c \in Seq(Pieces) /\ <<f>> \in Seq(Pieces)
        BY <2>0, <1>7, <1>9, <1>10
      <3>2. QED
        BY <3>1, ConcatProperties
    <2>1a. Len(out) = n + 2 + m + 1
      BY <2>0, <2>1, <1>7, <1>9
    <2>2. \A i \in 1 .. n + 2 + m + 1 : out[i] = IF i <= n + 2 + m THEN c[i] ELSE <<f>>[i - (n + 2 + m)]
      BY <1>1, <1>7, <1>9, <1>10, ConcatProperties
    <2>3. \A i \in 1 .. n + 3 + m : ~(i <= n + 2 + m) => i - (n + 2 + m) = 1
      BY <1>1, <1>7
    <2>4. ASSUME NEW i \in 1 .. n + 3 + m
          PROVE  out[i] = IF i <= n + 2 + m THEN c[i] ELSE f
      <3>1. i \in 1 .. n + 2 + m + 1
        BY <1>1, <1>7
      <3>2. out[i] = IF i <= n + 2 + m THEN c[i] ELSE <<f>>[i - (n + 2 + m)]
        BY <2>2, <3>1, Zenon
      <3>3. CASE i <= n + 2 + m
        BY <3>2, <3>3, Zenon
      <3>4. CASE ~(i <= n + 2 + m)
        <4>1. i - (n + 2 + m) = 1
          BY <2>3, <3>4, Zenon
        <4>2. QED
          BY <4>1, <3>2, <3>4, <1>7, Zenon
      <3>5. QED
        BY <3>3, <3>4, Zenon
    <2>5. Len(out) = n + 3 + m
      BY <2>1a, <1>1, <1>7
    <2>6. QED
      BY <2>4, <2>5, Zenon
  <1>12. out[1] = <<"line", method, parsed_url.path, parsed_url.query>>
    BY <1>1, <1>5, <1>7, <1>9, <1>11
  <1>13. \A i \in 1 .. n : out[i + 1] = <<"header", headers[i][1], headers[i][2]>>
    <2> SUFFICES ASSUME NEW i \in 1 .. n PROVE out[i + 1] = <<"header", headers[i][1], headers[i][2]>>
      OBVIOUS
    <2>1. out[i + 1] = c[i + 1]
      BY <1>1, <1>7, <1>11
    <2>2. c[i + 1] = b[i + 1]
      BY <1>1, <1>7, <1>9
    <2>3. QED
      BY <2>1, <2>2, <1>5
  <1>14. sent = { <<"header", headers[i][1], headers[i][2]>> : i \in 1 .. n }
    <2>1. \A i \in 2 .. n + 1 : i - 1 \in 1 .. n /\ (i - 1) + 1 = i
      BY <1>1
    <2>2. \A i \in 1 .. n : i + 1 \in 2 .. n + 1
      BY <1>1
    <2> HIDE DEF n
    <2>3. QED
      BY <2>1, <2>2, <1>13
  <1>15. \A x, y \in sent : x[2] = y[2] => x = y
    <2> SUFFICES ASSUME NEW x \in sent, NEW y \in sent, x[2] = y[2] PROVE x = y
      OBVIOUS
    <2> HIDE DEF sent
    <2>1. PICK i \in 1 .. n : x = <<"header", headers[i][1], headers[i][2]>>
      BY <1>14
    <2>2. PICK j \in 1 .. n : y = <<"header", headers[j][1], headers[j][2]>>
      BY <1>14
    <2>3. headers[i][1] = headers[j][1]
      BY <2>1, <2>2
    <2>4. i = j
      BY <2>3, <1>1 DEF HeadersDiffer
    <2>5. QED
      BY <2>1, <2>2, <2>4
  <1>16. SubSeq(out, n + 2, Len(out)) = tail
    <2>1. PICK d : d = <<e>> \o asked
      OBVIOUS
    <2>2. d \in Seq(Pieces) /\ Len(d) = m + 1 /\ \A i \in 1 .. m + 1 : d[i] = IF i <= 1 THEN e ELSE asked[i - 1]
      BY <1>1, <1>6, <1>7, <2>1, ConcatProperties
    <2>3. tail = d \o <<f>>
      BY <1>3, <1>4, <2>1
    <2> HIDE DEF tail, n
    <2>4. tail \in Seq(Pieces) /\ Len(tail) = m + 2
      BY <1>7, <2>2, <2>3, ConcatProperties
    <2>5. \A i \in 1 .. m + 2 : tail[i] = IF i <= m + 1 THEN d[i] ELSE <<f>>[i - (m + 1)]
      BY <1>7, <2>2, <2>3, ConcatProperties
    <2>6. \A i \in 1 .. m + 2 : ~(i <= m + 1) => i - (m + 1) = 1
      BY <1>7
    <2>7. \A i \in n + 2 .. Len(out) : out[i] \in Pieces
      BY <1>1
    <2>8. PICK r : r = SubSeq(out, n + 2, Len(out))
      OBVIOUS
    <2>9. r \in Seq(Pieces) /\ Len(r) = m + 2 /\ \A i \in 1 .. m + 2 : r[i] = out[n + 2 + i - 1]
      BY <1>1, <1>7, <1>11, <2>7, <2>8, SubSeqProperties
    <2>10. ASSUME NEW i \in 1 .. m + 2 PROVE r[i] = tail[i]
      <3>1. r[i] = out[n + 1 + i] /\ n + 1 + i \in 1 .. n + 3 + m
        BY <1>1, <1>7, <2>9
      <3>2. CASE i = 1
        <4>1. out[n + 2] = c[n + 2] /\ c[n + 2] = b[n + 2]
          BY <1>1, <1>7, <1>9, <1>11
        <4>2. tail[1] = e
          BY <1>7, <2>2, <2>5
        <4>3. QED
          BY <3>1, <3>2, <4>1, <4>2, <1>5, <1>1
      <3>3. CASE i \in 2 .. m + 1
        <4>1. out[n + 1 + i] = c[n + 1 + i] /\ c[n + 1 + i] = asked[(n + 1 + i) - (n + 2)]
          BY <1>1, <1>7, <1>9, <1>11, <3>1, <3>3
        <4>2. (n + 1 + i) - (n + 2) = i - 1
          BY <1>1
        <4>3. tail[i] = asked[i - 1]
          BY <1>7, <2>2, <2>5, <3>3
        <4>4. QED
          BY <3>1, <4>1, <4>2, <4>3
      <3>4. CASE i = m + 2
        <4>1. out[n + 1 + i] = f
          BY <1>1, <1>7, <1>11, <3>1, <3>4
        <4>2. tail[i] = f
          BY <1>7, <2>5, <2>6, <3>4
        <4>3. QED
          BY <3>1, <4>1, <4>2
      <3>5. QED
        BY <3>2, <3>3, <3>4, <1>7
    <2>11. r = tail
      BY <2>4, <2>9, <2>10, SeqEqual
    <2>12. QED
      BY <2>8, <2>11
  <1>17. method \in {"POST", "PUT"} => <<"header", "Content-Length", <<Len(asked)>> >> \in sent
    <2> SUFFICES ASSUME method \in {"POST", "PUT"}
                 PROVE  <<"header", "Content-Length", <<Len(asked)>> >> \in sent
      OBVIOUS
    <2> HIDE DEF sent
    <2>1. PICK i \in DOMAIN headers : headers[i] = <<"Content-Length", <<Len(asked)>> >>
      BY DEF LengthTold
    <2>2. headers[i][1] = "Content-Length" /\ headers[i][2] = <<Len(asked)>>
      BY <2>1
    <2>3. QED
      BY <2>1, <2>2, <1>1, <1>14
  <1>18. QED
    BY <1>12, <1>14, <1>15, <1>16, <1>17 DEF RequestWhole

\* In every behaviour of the HTTP client, what the server has received, what
\* the socket has still to send and what is still to be handed to it are
\* together the request, and no two of its headers have the same name.
THEOREM RequestInvariant == RequestSpec => []RequestIInv
  <1>1. RequestInit => RequestIInv
    BY RequestBegins
  <1>2. RequestIInv /\ [RequestNext]_requestVars => RequestIInv'
    BY RequestStep
  <1>3. QED
    BY <1>1, <1>2, PTL DEF RequestSpec

\* HttpsRequest::send hands the server the whole request: however few bytes the
\* socket takes at a time, and whatever earlier calls left behind, when the
\* client starts to read the server has the line, every header once with the
\* value set last, the length that belongs to the body, and the body's bytes.
THEOREM RequestIsWhole == RequestSpec => []RequestWhole
  BY RequestInvariant, WholeWhenRead, PTL

(* The parser's assertions.                                                *)

\* What the fields of a parser are, and that an assignment to one leaves the
\* others alone.
LEMMA FieldsOfParser ==
    ParserFields = {"state", "header_state", "flags", "content_length", "nread", "status_code",
                    "http_major", "http_minor", "http_errno", "upgrade"}
  BY DEF ParserFields, http_parser_init

\* The states in which nothing is said of the parser's fields and no mark is set.
Plain(s) ==
    s \notin ChunkStates \cup {"s_body_identity", "s_body_identity_eof", "s_header_value",
                               "s_header_field", "s_res_status"}

\* A pass of the loop that goes on with the buffer.
GoesOn ==
    /\ UNCHANGED buffer /\ nparsed' = Running
    /\ p' \in p .. end + 1 /\ (p' = end + 1 => fresh')
    /\ DOMAIN mark' = DOMAIN NoMarks /\ mark' = [f \in DOMAIN NoMarks |-> mark'[f]]
    /\ MarksFit'

\* A pass of the parser's loop that goes on with the buffer keeps the invariant.
LEMMA PassKeeps ==
    ASSUME ParserInv, nparsed = Running, GoesOn, IsParser(hp'),
           hp'.content_length \in 0 .. MaxLength, hp'.http_errno = "HPE_OK", StateFits'
    PROVE  ParserInv'
  <1>1. BufferFits /\ end \in Nat
    BY DEF ParserInv
  <1>2. data' = data /\ end' = end
    BY DEF GoesOn, buffer
  <1>3. BufferFits'
    BY <1>1, <1>2 DEF BufferFits, GoesOn
  <1>4. end' \in Nat
    BY <1>1, <1>2
  <1>5. QED
    BY <1>3, <1>4 DEF ParserInv, GoesOn

\* A pass that ends the call.
LEMMA ReturnKeeps ==
    ASSUME ParserInv, nparsed = Running, UNCHANGED buffer, nparsed' # Running, IsParser(hp'),
           hp'.content_length \in 0 .. MaxLength, hp'.http_errno = "HPE_OK" => StateFits',
           DOMAIN mark' = DOMAIN NoMarks, mark' = [f \in DOMAIN NoMarks |-> mark'[f]]
    PROVE  ParserInv'
  <1>1. end' \in Nat
    BY DEF ParserInv, buffer
  <1>2. QED
    BY <1>1 DEF ParserInv

\* An error.
LEMMA FailsKeeps ==
    ASSUME ParserInv, nparsed = Running, UNCHANGED buffer, NEW e, e # "HPE_OK", NEW q \in p .. end + 1,
           NEW h, IsParser(h), h.content_length \in 0 .. MaxLength,
           hp' = [h EXCEPT !.http_errno = e], nparsed' = q - data, mark' = mark
    PROVE  ParserInv'
  <1>1. IsParser(hp') /\ hp'.content_length = h.content_length /\ hp'.http_errno = e
    BY FieldsOfParser DEF IsParser
  <1>2. nparsed' # Running
    BY DEF ParserInv, BufferFits, Running
  <1>3. QED
    BY <1>1, <1>2, ReturnKeeps DEF ParserInv

\* A pass that ends in an error keeps it.
LEMMA ErrorKeeps ==
    ASSUME ParserInv, nparsed = Running, UNCHANGED buffer, NEW e, e # "HPE_OK", Fails(e)
    PROVE  ParserInv'
  <1>1. p \in p .. end + 1
    BY DEF ParserInv, BufferFits
  <1>2. QED
    BY <1>1, FailsKeeps DEF Fails, RETURN, ParserInv

\* No mark is set in a state that reads nothing that is marked.
LEMMA NothingMarked ==
    ASSUME ParserInv, nparsed = Running, \A f \in DOMAIN NoMarks : hp.state \notin MarkingStates[f]
    PROVE  \A f \in DOMAIN NoMarks : mark[f] = 0
  BY DEF ParserInv, MarksFit

\* The names of the marks.
LEMMA MarkNames ==
    /\ DOMAIN NoMarks = {"status", "header_field", "header_value", "body"}
    /\ DOMAIN MarkingStates = DOMAIN NoMarks
    /\ MarkingStates["status"] = {"s_res_status"}
    /\ MarkingStates["header_field"] = {"s_header_field"}
    /\ MarkingStates["header_value"] = {"s_header_value"}
    /\ MarkingStates["body"] = {"s_body_identity", "s_body_identity_eof", "s_chunk_data",
                                "s_chunk_data_almost_done"}
  BY DEF NoMarks, MarkingStates

\* A step of the loop to a plain state, from one in which nothing is marked.
LEMMA ToPlainKeeps ==
    ASSUME ParserInv, nparsed = Running, UNCHANGED buffer, nparsed' = Running, mark' = mark,
           \A f \in DOMAIN NoMarks : mark[f] = 0,
           p' \in p .. end + 1, p' = end + 1 => fresh',
           IsParser(hp'), hp'.http_errno = "HPE_OK", hp'.content_length \in 0 .. MaxLength,
           Plain(hp'.state)
    PROVE  ParserInv'
  <1>1. MarksFit'
    BY DEF MarksFit
  <1>2. GoesOn
    BY <1>1 DEF GoesOn, ParserInv
  <1>3. StateFits'
    BY DEF StateFits, Plain, ChunkStates, SizeStates
  <1>4. QED
    BY <1>2, <1>3, PassKeeps

\* What a pass of the loop starts from.
LEMMA AtFacts ==
    ASSUME ParserInv, NEW s, At(s)
    PROVE  /\ nparsed = Running /\ ~fresh /\ hp.state = s /\ UNCHANGED buffer
           /\ p \in Nat /\ end \in Nat /\ p <= end /\ p + 1 \in p .. end + 1 /\ p \in p .. end + 1
           /\ p # end + 1
           /\ IsParser(hp) /\ hp.http_errno = "HPE_OK" /\ hp.content_length \in 0 .. MaxLength
           /\ StateFits /\ MarksFit
           /\ (Plain(s) => \A f \in DOMAIN NoMarks : mark[f] = 0)
  <1>1. nparsed = Running /\ ~fresh /\ hp.state = s /\ UNCHANGED buffer /\ p <= end
    BY DEF At
  <1>2. p \in Nat /\ end \in Nat /\ MarksFit /\ StateFits /\ hp.http_errno = "HPE_OK"
    BY <1>1 DEF ParserInv, BufferFits
  <1>3. Plain(s) => \A f \in DOMAIN NoMarks : s \notin MarkingStates[f]
    BY MarkNames DEF Plain, ChunkStates
  <1>4. QED
    BY <1>1, <1>2, <1>3 DEF ParserInv, MarksFit

\* An assignment to the state alone.
LEMMA StateUpdated ==
    ASSUME NEW h, IsParser(h), NEW s, NEW g, g = [h EXCEPT !.state = s]
    PROVE  /\ IsParser(g) /\ g.state = s /\ g.content_length = h.content_length
           /\ g.http_errno = h.http_errno /\ g.flags = h.flags /\ g.nread = h.nread
           /\ g.header_state = h.header_state
  BY FieldsOfParser DEF IsParser

\* A pass that only goes to another state keeps it.
LEMMA GotoKeeps ==
    ASSUME ParserInv, At(hp.state), NEW s, Goto(s),
           \/ Plain(s) /\ Plain(hp.state)
           \/ s = hp.state /\ s # "s_chunk_size_start"
           \/ s \in SizeStates /\ hp.state \in SizeStates
    PROVE  ParserInv'
  <1>0. /\ nparsed = Running /\ p' = p + 1 /\ fresh' /\ nparsed' = nparsed /\ mark' = mark
        /\ UNCHANGED buffer /\ hp' = [hp EXCEPT !.state = s]
    BY AtFacts DEF Goto, Next1, UPDATE_STATE
  <1>1. /\ IsParser(hp') /\ hp'.state = s /\ hp'.content_length = hp.content_length
        /\ hp'.http_errno = "HPE_OK" /\ hp'.flags = hp.flags /\ hp'.header_state = hp.header_state
    BY <1>0, AtFacts, StateUpdated
  <1>2. p + 1 \in p .. end + 1 /\ StateFits /\ MarksFit /\ hp.content_length \in 0 .. MaxLength
    BY AtFacts
  <1>3. CASE Plain(s) /\ Plain(hp.state)
    BY <1>0, <1>1, <1>2, <1>3, AtFacts, ToPlainKeeps
  <1>4. CASE ~(Plain(s) /\ Plain(hp.state))
    <2>1. MarksFit'
      <3>1. CASE s = hp.state
        BY <3>1, <1>0, <1>1, <1>2 DEF MarksFit
      <3>2. CASE s \in SizeStates /\ hp.state \in SizeStates
        <4>1. \A f \in DOMAIN NoMarks : hp.state \notin MarkingStates[f]
          BY <3>2, MarkNames DEF SizeStates
        <4>2. QED
          BY <4>1, <1>0, <1>2 DEF MarksFit
      <3>3. QED
        BY <3>1, <3>2, <1>4
    <2>2. GoesOn
      BY <1>0, <1>2, <2>1 DEF GoesOn, ParserInv
    <2>3. StateFits'
      <3>1. CASE s = hp.state /\ s # "s_chunk_size_start"
        BY <3>1, <1>1, <1>2 DEF StateFits
      <3>2. CASE s \in SizeStates /\ hp.state \in SizeStates
        BY <3>2, <1>1, <1>2 DEF StateFits, SizeStates, ChunkStates
      <3>3. QED
        BY <3>1, <3>2, <1>4
    <2>4. QED
      BY <1>0, <1>1, <1>2, <2>2, <2>3, PassKeeps
  <1>5. QED
    BY <1>3, <1>4

\* The head of the loop and its end.
LEMMA NextCharacterKeeps ==
    ASSUME ParserInv, NextCharacter
    PROVE  ParserInv'
  <1>0. nparsed = Running /\ fresh /\ p <= end /\ UNCHANGED buffer
    BY DEF NextCharacter
  <1>1. /\ p \in Nat /\ end \in Nat /\ p \in p .. end + 1 /\ p # end + 1 /\ IsParser(hp)
        /\ hp.http_errno = "HPE_OK" /\ hp.content_length \in 0 .. MaxLength /\ StateFits /\ MarksFit
    BY <1>0 DEF ParserInv, BufferFits
  <1>2. CASE ~PARSING_HEADER(hp.state)
    <2>1. fresh' = FALSE /\ p' = p /\ hp' = hp /\ mark' = mark /\ nparsed' = nparsed
      BY <1>2 DEF NextCharacter
    <2>2. MarksFit'
      BY <1>1, <2>1 DEF MarksFit
    <2>3. GoesOn
      BY <1>0, <1>1, <2>1, <2>2 DEF GoesOn, ParserInv
    <2>4. hp.state # "s_chunk_size_start"
      BY <1>2 DEF PARSING_HEADER, BodyStates
    <2>5. StateFits'
      BY <1>1, <2>1, <2>4 DEF StateFits
    <2>6. QED
      BY <1>0, <1>1, <2>1, <2>3, <2>5, PassKeeps
  <1>3. CASE PARSING_HEADER(hp.state) /\ Overflows(1)
    BY <1>0, <1>3, ErrorKeeps DEF NextCharacter
  <1>4. CASE PARSING_HEADER(hp.state) /\ ~Overflows(1)
    <2>1. fresh' = FALSE /\ p' = p /\ hp' = [hp EXCEPT !.nread = @ + 1] /\ mark' = mark /\ nparsed' = nparsed
      BY <1>4 DEF NextCharacter
    <2>2. /\ IsParser(hp') /\ hp'.state = hp.state /\ hp'.content_length = hp.content_length
          /\ hp'.http_errno = "HPE_OK" /\ hp'.flags = hp.flags /\ hp'.header_state = hp.header_state
          /\ hp'.nread = hp.nread + 1
      BY <2>1, <1>1, FieldsOfParser DEF IsParser
    <2>3. MarksFit'
      BY <1>1, <2>1, <2>2 DEF MarksFit
    <2>4. GoesOn
      BY <1>0, <1>1, <2>1, <2>3 DEF GoesOn, ParserInv
    <2>5. hp.state = "s_chunk_size_start" => hp'.nread = 1
      BY <1>0, <1>1, <2>2 DEF StateFits
    <2>6. StateFits'
      BY <1>0, <1>1, <2>1, <2>2, <2>5 DEF StateFits
    <2>7. QED
      BY <1>0, <1>1, <2>2, <2>4, <2>6, PassKeeps
  <1>5. QED
    BY <1>2, <1>3, <1>4

\* The end of the buffer, its open marks reported, keeps it.
LEMMA EndOfBufferKeeps ==
    ASSUME ParserInv, EndOfBuffer
    PROVE  ParserInv'
  <1>0. /\ nparsed = Running /\ p = end + 1 /\ UNCHANGED buffer /\ mark' = NoMarks
        /\ nparsed' = end - data + 1 /\ hp' = hp /\ fresh' = fresh
    BY DEF EndOfBuffer
  <1>1. fresh /\ StateFits /\ data \in 1 .. p /\ end \in Nat /\ hp.http_errno = "HPE_OK"
    BY <1>0 DEF ParserInv, BufferFits
  <1>2. nparsed' # Running
    BY <1>0, <1>1 DEF Running
  <1>3. StateFits'
    BY <1>0, <1>1 DEF StateFits
  <1>4. DOMAIN NoMarks = DOMAIN NoMarks /\ NoMarks = [f \in DOMAIN NoMarks |-> NoMarks[f]]
    BY DEF NoMarks
  <1>5. QED
    BY <1>0, <1>2, <1>3, <1>4, ReturnKeeps DEF ParserInv

(* The status line.                                                        *)

\* A step to a plain state that may set any field but the length and the error.
LEMMA FieldKeeps ==
    ASSUME ParserInv, At(hp.state), Plain(hp.state), Next1, mark' = mark,
           IsParser(hp'), Plain(hp'.state), hp'.http_errno = hp.http_errno,
           hp'.content_length \in 0 .. MaxLength
    PROVE  ParserInv'
  <1>1. p' \in p .. end + 1 /\ fresh' /\ nparsed' = Running
    BY AtFacts DEF Next1
  <1>2. QED
    BY <1>1, AtFacts, ToPlainKeeps

\* The states before and in the status line keep it.
LEMMA StatusLineKeeps ==
    ASSUME ParserInv, s_dead \/ s_start_res \/ STRICT_CHECK
    PROVE  ParserInv'
  <1>1. CASE s_dead
    <2>1. At("s_dead") /\ At(hp.state) /\ hp.state = "s_dead" /\ Plain("s_dead")
      BY <1>1 DEF s_dead, At, Plain, ChunkStates, SizeStates
    <2>2. CASE Goto("s_dead")
      BY <2>1, <2>2, GotoKeeps
    <2>3. CASE Fails("HPE_CLOSED_CONNECTION")
      BY <2>1, <2>3, AtFacts, ErrorKeeps
    <2>4. QED
      BY <1>1, <2>2, <2>3 DEF s_dead
  <1>2. CASE s_start_res
    <2>1. At("s_start_res") /\ At(hp.state) /\ hp.state = "s_start_res" /\ Plain("s_start_res") /\ Plain("s_res_H")
      BY <1>2 DEF s_start_res, At, Plain, ChunkStates, SizeStates
    <2>2. CASE Fails("HPE_INVALID_CONSTANT")
      BY <2>1, <2>2, AtFacts, ErrorKeeps
    <2>3. CASE /\ hp' = [hp EXCEPT !.state = IF ch = "H" THEN "s_res_H" ELSE @,
                                !.flags = {}, !.content_length = MaxLength]
               /\ Next1 /\ UNCHANGED <<mark, response>>
      <3>1. IsParser(hp)
        BY <2>1, AtFacts
      <3>2. PICK s : s = IF ch = "H" THEN "s_res_H" ELSE hp.state
        OBVIOUS
      <3>3. hp' = [hp EXCEPT !.state = s, !.flags = {}, !.content_length = MaxLength]
        BY <2>3, <3>2
      <3>4. /\ IsParser(hp') /\ hp'.state = s /\ hp'.content_length = MaxLength
            /\ hp'.http_errno = hp.http_errno
        BY <3>1, <3>3, FieldsOfParser DEF IsParser
      <3>5. Plain(s) /\ MaxLength \in 0 .. MaxLength
        BY <2>1, <3>2, HTTPAssumption
      <3>6. QED
        BY <2>1, <2>3, <3>4, <3>5, FieldKeeps
    <2>4. QED
      BY <1>2, <2>2, <2>3 DEF s_start_res
  <1>3. CASE STRICT_CHECK
    <2>1. PICK s \in DOMAIN Strictly :
            /\ At(s)
            /\ IF ch = Strictly[s][1] THEN Goto(Strictly[s][2]) ELSE Fails("HPE_STRICT")
      BY <1>3 DEF STRICT_CHECK
    <2>2. Plain(s) /\ Plain(Strictly[s][2])
      BY DEF Strictly, Plain, ChunkStates, SizeStates
    <2>3. At(hp.state) /\ hp.state = s
      BY <2>1 DEF At
    <2>4. CASE Goto(Strictly[s][2])
      BY <2>2, <2>3, <2>4, GotoKeeps
    <2>5. CASE Fails("HPE_STRICT")
      BY <2>1, <2>5, AtFacts, ErrorKeeps
    <2>6. QED
      BY <2>1, <2>4, <2>5
  <1>4. QED
    BY <1>1, <1>2, <1>3

\* The digits of a number.
NumberFields == {"http_major", "http_minor", "status_code"}
\* A digit of a number of the status line keeps it.
LEMMA DigitsKeep ==
    ASSUME ParserInv, At(hp.state), Plain(hp.state), NEW field \in NumberFields, NEW s, Plain(s),
           NEW wrong, wrong # "HPE_OK", First(field, s, wrong) \/ More(field, wrong)
    PROVE  ParserInv'
  <1>0. IsParser(hp) /\ hp.content_length \in 0 .. MaxLength /\ nparsed = Running /\ UNCHANGED buffer
    BY AtFacts
  <1>1. CASE Fails(wrong)
    BY <1>0, <1>1, ErrorKeeps
  <1>2. CASE \E v : /\ hp' = [hp EXCEPT ![field] = v, !.state = s]
                    /\ Next1 /\ UNCHANGED <<mark, response>>
    <2>1. PICK v : hp' = [hp EXCEPT ![field] = v, !.state = s]
      BY <1>2
    <2>2. /\ IsParser(hp') /\ hp'.state = s /\ hp'.content_length = hp.content_length
          /\ hp'.http_errno = hp.http_errno
      BY <1>0, <2>1, FieldsOfParser DEF IsParser, NumberFields
    <2>3. QED
      BY <1>0, <1>2, <2>2, FieldKeeps
  <1>3. CASE \E v : hp' = [hp EXCEPT ![field] = v] /\ Next1 /\ UNCHANGED <<mark, response>>
    <2>1. PICK v : hp' = [hp EXCEPT ![field] = v]
      BY <1>3
    <2>2. /\ IsParser(hp') /\ hp'.state = hp.state /\ hp'.content_length = hp.content_length
          /\ hp'.http_errno = hp.http_errno
      BY <1>0, <2>1, FieldsOfParser DEF IsParser, NumberFields
    <2>3. QED
      BY <1>0, <1>3, <2>2, FieldKeeps
  <1>4. CASE First(field, s, wrong)
    BY <1>4, <1>1, <1>2 DEF First
  <1>5. CASE More(field, wrong)
    BY <1>5, <1>1, <1>3 DEF More
  <1>6. QED
    BY <1>4, <1>5

\* The version keeps it.
LEMMA VersionKeeps ==
    ASSUME ParserInv, s_res_http_version
    PROVE  ParserInv'
  <1> DEFINE States == {"s_res_first_http_major", "s_res_http_major", "s_res_first_http_minor",
                        "s_res_http_minor", "s_res_first_status_code"}
  <1>0. \A s \in States : Plain(s)
    BY DEF Plain, ChunkStates, SizeStates
  <1>1. At(hp.state) /\ hp.state \in States
    BY DEF s_res_http_version, At
  <1>2. \/ First("http_major", "s_res_http_major", "HPE_INVALID_VERSION")
        \/ Goto("s_res_first_http_minor") \/ More("http_major", "HPE_INVALID_VERSION")
        \/ First("http_minor", "s_res_http_minor", "HPE_INVALID_VERSION")
        \/ Goto("s_res_first_status_code") \/ More("http_minor", "HPE_INVALID_VERSION")
    BY DEF s_res_http_version
  <1>3. "http_major" \in NumberFields /\ "http_minor" \in NumberFields
    BY DEF NumberFields
  <1> HIDE DEF States
  <1>3a. Plain("s_res_http_major") /\ Plain("s_res_http_minor") /\ Plain("s_res_first_http_minor")
         /\ Plain("s_res_first_status_code")
    BY <1>0 DEF States
  <1>4. CASE Goto("s_res_first_http_minor") \/ Goto("s_res_first_status_code")
    BY <1>0, <1>1, <1>3a, <1>4, GotoKeeps
  <1>5. CASE \/ First("http_major", "s_res_http_major", "HPE_INVALID_VERSION")
             \/ More("http_major", "HPE_INVALID_VERSION")
    BY <1>0, <1>1, <1>3, <1>3a, <1>5, DigitsKeep
  <1>6. CASE \/ First("http_minor", "s_res_http_minor", "HPE_INVALID_VERSION")
             \/ More("http_minor", "HPE_INVALID_VERSION")
    BY <1>0, <1>1, <1>3, <1>3a, <1>6, DigitsKeep
  <1>7. QED
    BY <1>2, <1>4, <1>5, <1>6

\* The status code keeps it.
LEMMA StatusCodeKeeps ==
    ASSUME ParserInv, s_res_status_code
    PROVE  ParserInv'
  <1>0. /\ Plain("s_res_first_status_code") /\ Plain("s_res_status_code") /\ Plain("s_res_status_start")
        /\ Plain("s_res_line_almost_done") /\ Plain("s_header_field_start")
    BY DEF Plain, ChunkStates, SizeStates
  <1>1. At(hp.state) /\ Plain(hp.state)
    BY <1>0 DEF s_res_status_code, At
  <1>2. \/ \E s : Plain(s) /\ Goto(s)
        \/ First("status_code", "s_res_status_code", "HPE_INVALID_STATUS")
        \/ More("status_code", "HPE_INVALID_STATUS")
    <2>1. Plain(LineEnd)
      BY <1>0 DEF LineEnd
    <2>2. QED
      BY <1>0, <2>1 DEF s_res_status_code
  <1>3. CASE \E s : Plain(s) /\ Goto(s)
    BY <1>1, <1>3, GotoKeeps
  <1>4. CASE First("status_code", "s_res_status_code", "HPE_INVALID_STATUS") \/ More("status_code", "HPE_INVALID_STATUS")
    <2>1. "status_code" \in NumberFields
      BY DEF NumberFields
    <2>2. QED
      BY <2>1, <1>0, <1>1, <1>4, DigitsKeep
  <1>5. QED
    BY <1>2, <1>3, <1>4

\* A mark is set in a state that reads what it marks, and taken back with the
\* state.
LEMMA MarkSet ==
    ASSUME ParserInv, NEW f \in DOMAIN NoMarks
    PROVE  /\ DOMAIN MARK(f) = DOMAIN NoMarks /\ MARK(f) = [g \in DOMAIN NoMarks |-> MARK(f)[g]]
           /\ \A g \in DOMAIN NoMarks \ {f} : MARK(f)[g] = mark[g]
  BY DEF ParserInv, MARK

\* A mark that is set where there was none, or taken back, fits.
LEMMA MarkTaken ==
    ASSUME ParserInv, NEW f \in DOMAIN NoMarks, NEW m, m = [mark EXCEPT ![f] = 0]
    PROVE  /\ DOMAIN m = DOMAIN NoMarks /\ m = [g \in DOMAIN NoMarks |-> m[g]]
           /\ m[f] = 0 /\ \A g \in DOMAIN NoMarks \ {f} : m[g] = mark[g]
  BY DEF ParserInv

\* A mark is reported, on the way from the state that reads it to a plain one.
LEMMA ReportedKeeps ==
    ASSUME ParserInv, At(hp.state), NEW f \in DOMAIN NoMarks, hp.state \in MarkingStates[f],
           mark' = [mark EXCEPT ![f] = 0], nparsed' = nparsed,
           p' \in p .. end + 1, p' = end + 1 => fresh',
           IsParser(hp'), hp'.http_errno = "HPE_OK", hp'.content_length \in 0 .. MaxLength,
           Plain(hp'.state) \/ (StateFits' /\ \A g \in DOMAIN NoMarks : hp'.state \notin MarkingStates[g])
    PROVE  ParserInv'
  <1>1. \A g \in DOMAIN NoMarks \ {f} : hp.state \notin MarkingStates[g]
    BY MarkNames
  <1>2. \A g \in DOMAIN NoMarks \ {f} : mark[g] = 0
    BY <1>1, AtFacts DEF MarksFit
  <1>3. /\ \A g \in DOMAIN NoMarks : mark'[g] = 0
        /\ DOMAIN mark' = DOMAIN NoMarks /\ mark' = [g \in DOMAIN NoMarks |-> mark'[g]]
    BY <1>2, MarkTaken, ZenonT(60)
  <1>4. MarksFit'
    BY <1>3 DEF MarksFit
  <1>5. nparsed = Running /\ UNCHANGED buffer
    BY AtFacts
  <1>6. GoesOn
    BY <1>3, <1>4, <1>5 DEF GoesOn
  <1>7. StateFits'
    BY DEF StateFits, Plain, ChunkStates, SizeStates
  <1>8. QED
    BY <1>5, <1>6, <1>7, PassKeeps

\* A mark is set, on the way to the state that reads it.
LEMMA MarkedKeeps ==
    ASSUME ParserInv, At(hp.state), NEW f \in DOMAIN NoMarks, hp'.state \in MarkingStates[f],
           \A g \in DOMAIN NoMarks \ {f} : hp.state \notin MarkingStates[g],
           mark' = MARK(f), nparsed' = nparsed, p' \in p .. end + 1, p' = end + 1 => fresh',
           IsParser(hp'), hp'.http_errno = "HPE_OK", hp'.content_length \in 0 .. MaxLength, StateFits'
    PROVE  ParserInv'
  <1>1. \A g \in DOMAIN NoMarks \ {f} : mark'[g] = 0
    BY AtFacts, MarkSet DEF MarksFit
  <1>2. DOMAIN mark' = DOMAIN NoMarks /\ mark' = [g \in DOMAIN NoMarks |-> mark'[g]]
    BY MarkSet
  <1>3. MarksFit'
    BY <1>1 DEF MarksFit
  <1>4. nparsed = Running /\ UNCHANGED buffer
    BY AtFacts
  <1>5. GoesOn
    BY <1>2, <1>3, <1>4 DEF GoesOn
  <1>6. QED
    BY <1>4, <1>5, PassKeeps

\* The reason phrase keeps it.
LEMMA StatusKeeps ==
    ASSUME ParserInv, s_res_status
    PROVE  ParserInv'
  <1>0. Plain("s_res_status_start") /\ Plain("s_res_line_almost_done") /\ Plain("s_header_field_start")
    BY DEF Plain, ChunkStates, SizeStates
  <1>1. Plain(LineEnd)
    BY <1>0 DEF LineEnd
  <1>2. CASE At("s_res_status_start")
    <2>1. At(hp.state) /\ hp.state = "s_res_status_start"
      BY <1>2 DEF At
    <2>2. CASE Goto(LineEnd)
      BY <1>0, <1>1, <2>1, <2>2, GotoKeeps
    <2>3. CASE UPDATE_STATE("s_res_status") /\ Next1 /\ mark' = MARK("status") /\ UNCHANGED response
      <3>1. /\ IsParser(hp') /\ hp'.state = "s_res_status" /\ hp'.http_errno = "HPE_OK"
            /\ hp'.content_length = hp.content_length
        <4>1. IsParser(hp) /\ hp.http_errno = "HPE_OK" /\ hp' = [hp EXCEPT !.state = "s_res_status"]
          BY <2>1, <2>3, AtFacts DEF UPDATE_STATE
        <4>2. QED
          BY <4>1, StateUpdated
      <3>2. StateFits'
        BY <3>1 DEF StateFits, ChunkStates, SizeStates
      <3>3. p' = p + 1 /\ fresh' /\ nparsed' = nparsed
        BY <2>3 DEF Next1
      <3>4. "status" \in DOMAIN NoMarks /\ hp'.state \in MarkingStates["status"]
            /\ \A g \in DOMAIN NoMarks : hp.state \notin MarkingStates[g]
        BY <2>1, <3>1, MarkNames
      <3>5. p' \in p .. end + 1 /\ hp'.content_length \in 0 .. MaxLength
        BY <2>1, <3>1, <3>3, AtFacts
      <3>6. QED
        BY <2>1, <2>3, <3>1, <3>2, <3>3, <3>4, <3>5, MarkedKeeps
    <2>4. QED
      BY <1>2, <2>1, <2>2, <2>3 DEF s_res_status, At
  <1>3. CASE At("s_res_status")
    <2>1. At(hp.state) /\ hp.state = "s_res_status"
      BY <1>3 DEF At
    <2>2. CASE Goto("s_res_status")
      BY <2>1, <2>2, GotoKeeps
    <2>3. CASE Report("status", LineEnd)
      <3>1. /\ IsParser(hp') /\ hp'.state = LineEnd /\ hp'.http_errno = "HPE_OK"
            /\ hp'.content_length = hp.content_length
        BY <2>1, <2>3, AtFacts, StateUpdated DEF Report, UPDATE_STATE
      <3>2. p' = p + 1 /\ fresh' /\ nparsed' = nparsed /\ mark' = [mark EXCEPT !["status"] = 0]
        BY <2>3 DEF Report, Next1
      <3>3. "status" \in DOMAIN NoMarks /\ hp.state \in MarkingStates["status"]
        BY <2>1, MarkNames
      <3>4. p' \in p .. end + 1 /\ hp'.content_length \in 0 .. MaxLength
        BY <2>1, <3>1, <3>2, AtFacts
      <3>5. QED
        BY <1>1, <2>1, <3>1, <3>2, <3>3, <3>4, ReportedKeeps
    <2>4. QED
      BY <1>3, <2>1, <2>2, <2>3 DEF s_res_status, At
  <1>4. QED
    BY <1>2, <1>3 DEF s_res_status

(* The headers.                                                            *)

\* The start of a header field keeps it.
LEMMA FieldStartKeeps ==
    ASSUME ParserInv, s_header_field_start
    PROVE  ParserInv'
  <1>0. Plain("s_header_field_start") /\ Plain("s_headers_almost_done")
    BY DEF Plain, ChunkStates, SizeStates
  <1>1. At(hp.state) /\ hp.state = "s_header_field_start"
    BY DEF s_header_field_start, At
  <1>2. /\ IsParser(hp) /\ hp.http_errno = "HPE_OK" /\ hp.content_length \in 0 .. MaxLength
        /\ nparsed = Running /\ UNCHANGED buffer /\ p \in p .. end + 1 /\ p # end + 1
        /\ p + 1 \in p .. end + 1
    BY <1>1, AtFacts
  <1>3. CASE Goto("s_headers_almost_done")
    BY <1>0, <1>1, <1>3, GotoKeeps
  <1>4. CASE Fails("HPE_INVALID_HEADER_TOKEN")
    BY <1>2, <1>4, ErrorKeeps
  <1>5. CASE UPDATE_STATE("s_headers_almost_done") /\ REEXECUTE /\ UNCHANGED <<mark, response>>
    <2>1. hp' = [hp EXCEPT !.state = "s_headers_almost_done"] /\ p' = p /\ nparsed' = nparsed /\ mark' = mark
      BY <1>5 DEF UPDATE_STATE, REEXECUTE
    <2>2. /\ IsParser(hp') /\ hp'.state = "s_headers_almost_done" /\ hp'.http_errno = "HPE_OK"
          /\ hp'.content_length = hp.content_length
      BY <1>2, <2>1, StateUpdated
    <2>3. \A f \in DOMAIN NoMarks : mark[f] = 0
      BY <1>0, <1>1, AtFacts
    <2>4. QED
      BY <1>0, <1>2, <2>1, <2>2, <2>3, ToPlainKeeps
  <1>6. CASE \E v : /\ hp' = [hp EXCEPT !.state = "s_header_field", !.header_state = v]
                    /\ mark' = MARK("header_field") /\ Next1 /\ UNCHANGED response
    <2>1. PICK v : hp' = [hp EXCEPT !.state = "s_header_field", !.header_state = v]
      BY <1>6
    <2>2. /\ IsParser(hp') /\ hp'.state = "s_header_field" /\ hp'.http_errno = "HPE_OK"
          /\ hp'.content_length = hp.content_length
      BY <1>2, <2>1, FieldsOfParser DEF IsParser
    <2>3. StateFits'
      BY <2>2 DEF StateFits, ChunkStates, SizeStates
    <2>4. p' = p + 1 /\ fresh' /\ nparsed' = nparsed /\ mark' = MARK("header_field")
      BY <1>6 DEF Next1
    <2>5. "header_field" \in DOMAIN NoMarks /\ hp'.state \in MarkingStates["header_field"]
          /\ \A g \in DOMAIN NoMarks : hp.state \notin MarkingStates[g]
      BY <1>1, <2>2, MarkNames
    <2>6. QED
      BY <1>1, <1>2, <2>2, <2>3, <2>4, <2>5, MarkedKeeps
  <1>7. QED
    BY <1>3, <1>4, <1>5, <1>6 DEF s_header_field_start

\* The name goes on to a token of the buffer, or behind it.
LEMMA NameEndsInBuffer ==
    ASSUME p \in Nat, end \in Nat, p <= end
    PROVE  NameEnd \in p .. end + 1
  <1>1. CASE \E q \in p .. end : ~TOKEN(wire[q])
    <2> DEFINE B == { q \in Nat : q \in p .. end /\ ~TOKEN(wire[q]) }
    <2>1. B # {} /\ B \subseteq Nat
      BY <1>1
    <2>2. \E x \in B : \A y \in B : ~(<<y, x>> \in OpToRel(<, Nat))
      BY <2>1, WFMin, NatLessThanWellFounded, Zenon
    <2>3. PICK x \in B : \A y \in B : ~(y < x)
      BY <2>2 DEF OpToRel
    <2>4. x \in p .. end /\ ~TOKEN(wire[x]) /\ \A k \in p .. x - 1 : TOKEN(wire[k])
      BY <2>3
    <2>5. NameEnd = CHOOSE q \in p .. end : ~TOKEN(wire[q]) /\ \A k \in p .. q - 1 : TOKEN(wire[k])
      BY <1>1 DEF NameEnd
    <2>6. NameEnd \in p .. end
      BY <2>4, <2>5
    <2>7. QED
      BY <2>6
  <1>2. CASE ~ \E q \in p .. end : ~TOKEN(wire[q])
    BY <1>2 DEF NameEnd
  <1>3. QED
    BY <1>1, <1>2

\* The name of a header keeps it.
LEMMA FieldNameKeeps ==
    ASSUME ParserInv, s_header_field
    PROVE  ParserInv'
  <1> DEFINE q == NameEnd
  <1> DEFINE h == [hp EXCEPT !.header_state = NameState, !.nread = @ + (q - p)]
  <1>0. Plain("s_header_value_discard_ws")
    BY DEF Plain, ChunkStates, SizeStates
  <1>1. At(hp.state) /\ hp.state = "s_header_field"
    BY DEF s_header_field, At
  <1>2. /\ IsParser(hp) /\ hp.http_errno = "HPE_OK" /\ hp.content_length \in 0 .. MaxLength
        /\ nparsed = Running /\ UNCHANGED buffer /\ p \in Nat /\ end \in Nat /\ p <= end /\ MarksFit
    BY <1>1, AtFacts
  <1>3. q \in p .. end + 1
    BY <1>2, NameEndsInBuffer
  <1>4. IsParser(h) /\ h.state = hp.state /\ h.http_errno = "HPE_OK" /\ h.content_length = hp.content_length
    BY <1>2, FieldsOfParser DEF IsParser
  <1>5. \/ \E e : e # "HPE_OK" /\ hp' = [h EXCEPT !.http_errno = e] /\ nparsed' = q - data /\ mark' = mark
        \/ hp' = h /\ p' = q /\ fresh' = TRUE /\ UNCHANGED <<mark, nparsed, response>>
        \/ /\ hp' = [h EXCEPT !.state = "s_header_value_discard_ws"] /\ q <= end
           /\ mark' = [mark EXCEPT !.header_field = 0]
           /\ p' = q + 1 /\ fresh' = TRUE /\ UNCHANGED nparsed
    BY DEF s_header_field
  <1> HIDE DEF q, h
  <1>6. CASE \E e : e # "HPE_OK" /\ hp' = [h EXCEPT !.http_errno = e] /\ nparsed' = q - data /\ mark' = mark
    BY <1>2, <1>3, <1>4, <1>6, FailsKeeps
  <1>7. CASE hp' = h /\ p' = q /\ fresh' = TRUE /\ UNCHANGED <<mark, nparsed, response>>
    <2>1. StateFits'
      BY <1>1, <1>4, <1>7 DEF StateFits, ChunkStates, SizeStates
    <2>2. MarksFit'
      BY <1>2, <1>4, <1>7 DEF MarksFit
    <2>3. GoesOn
      BY <1>2, <1>3, <1>7, <2>2 DEF GoesOn, ParserInv
    <2>4. QED
      BY <1>2, <1>4, <1>7, <2>1, <2>3, PassKeeps
  <1>8. CASE /\ hp' = [h EXCEPT !.state = "s_header_value_discard_ws"] /\ q <= end
             /\ mark' = [mark EXCEPT !.header_field = 0]
             /\ p' = q + 1 /\ fresh' = TRUE /\ UNCHANGED nparsed
    <2>1. /\ IsParser(hp') /\ hp'.state = "s_header_value_discard_ws" /\ hp'.http_errno = "HPE_OK"
          /\ hp'.content_length = hp.content_length
      BY <1>4, <1>8, FieldsOfParser DEF IsParser
    <2>2. "header_field" \in DOMAIN NoMarks /\ hp.state \in MarkingStates["header_field"]
      BY <1>1, MarkNames
    <2>3. p' \in p .. end + 1 /\ mark' = [mark EXCEPT !["header_field"] = 0]
      BY <1>2, <1>3, <1>8
    <2>4. QED
      BY <1>0, <1>1, <1>2, <1>8, <2>1, <2>2, <2>3, ReportedKeeps
  <1>9. QED
    BY <1>5, <1>6, <1>7, <1>8

\* The hexadecimal digits.
LEMMA DigitValue ==
    ASSUME NEW t
    PROVE  unhex(t) \in -1 .. 15 /\ (IS_NUM(t) => unhex(t) \in 0 .. 9)
  <1>1. CASE \E i \in 1 .. 16 : Digits[i] = t
    <2>1. (CHOOSE i \in 1 .. 16 : Digits[i] = t) \in 1 .. 16
      BY <1>1
    <2>2. unhex(t) = (CHOOSE i \in 1 .. 16 : Digits[i] = t) - 1
      BY <1>1 DEF unhex
    <2>3. QED
      BY <2>1, <2>2 DEF IS_NUM
  <1>2. CASE ~ \E i \in 1 .. 16 : Digits[i] = t
    BY <1>2 DEF unhex, IS_NUM
  <1>3. QED
    BY <1>1, <1>2

\* The parser inside a value.
ValueFits(h) ==
    /\ IsParser(h) /\ h.state = "s_header_value" /\ h.content_length \in 0 .. MaxLength
    /\ h.header_state \notin {"h_connection", "h_transfer_encoding"}

\* What the parser of a value fits, its state fits.
LEMMA ValueStarts ==
    ASSUME ParserInv, At(hp.state), Plain(hp.state), Next1, mark' = MARK("header_value"),
           ValueFits(hp'), hp'.http_errno = "HPE_OK"
    PROVE  ParserInv'
  <1>1. StateFits'
    BY DEF ValueFits, StateFits, ChunkStates, SizeStates
  <1>2. p' = p + 1 /\ fresh' /\ nparsed' = nparsed
    BY DEF Next1
  <1>3. "header_value" \in DOMAIN NoMarks /\ hp'.state \in MarkingStates["header_value"]
        /\ \A g \in DOMAIN NoMarks : hp.state \notin MarkingStates[g]
    BY MarkNames DEF Plain, ValueFits, ChunkStates
  <1>4. p' \in p .. end + 1
    BY <1>2, AtFacts
  <1>5. QED
    BY <1>1, <1>2, <1>3, <1>4, MarkedKeeps DEF ValueFits

\* The start of the value of a header keeps it.
LEMMA ValueStartKeeps ==
    ASSUME ParserInv, At(hp.state), Plain(hp.state), ValueStart
    PROVE  ParserInv'
  <1>0. /\ IsParser(hp) /\ hp.http_errno = "HPE_OK" /\ hp.content_length \in 0 .. MaxLength
        /\ nparsed = Running /\ UNCHANGED buffer
    BY AtFacts
  <1>1. CASE \E e : e # "HPE_OK" /\ Fails(e)
    BY <1>0, <1>1, ErrorKeeps
  <1>2. CASE \E hs : /\ hp' = [hp EXCEPT !.state = "s_header_value", !.header_state = hs]
                     /\ hs \notin {"h_connection", "h_transfer_encoding"}
                     /\ mark' = MARK("header_value") /\ Next1 /\ UNCHANGED response
    <2>1. PICK hs : /\ hp' = [hp EXCEPT !.state = "s_header_value", !.header_state = hs]
                    /\ hs \notin {"h_connection", "h_transfer_encoding"}
      BY <1>2
    <2>2. /\ IsParser(hp') /\ hp'.state = "s_header_value" /\ hp'.header_state = hs
          /\ hp'.content_length = hp.content_length /\ hp'.http_errno = hp.http_errno
      BY <1>0, <2>1, FieldsOfParser DEF IsParser
    <2>3. QED
      BY <1>0, <1>2, <2>1, <2>2, ValueStarts DEF ValueFits
  <1>3. CASE \E fl : /\ hp' = [hp EXCEPT !.state = "s_header_value", !.header_state = "h_general",
                                          !.flags = fl]
                     /\ mark' = MARK("header_value") /\ Next1 /\ UNCHANGED response
    <2>1. PICK fl : hp' = [hp EXCEPT !.state = "s_header_value", !.header_state = "h_general", !.flags = fl]
      BY <1>3
    <2>2. /\ IsParser(hp') /\ hp'.state = "s_header_value" /\ hp'.header_state = "h_general"
          /\ hp'.content_length = hp.content_length /\ hp'.http_errno = hp.http_errno
      BY <1>0, <2>1, FieldsOfParser DEF IsParser
    <2>3. QED
      BY <1>0, <1>3, <2>2, ValueStarts DEF ValueFits
  <1>4. CASE /\ hp.header_state = "h_content_length" /\ IS_NUM(ch)
             /\ \E fl : hp' = [hp EXCEPT !.state = "s_header_value", !.flags = fl, !.content_length = unhex(ch)]
             /\ mark' = MARK("header_value") /\ Next1 /\ UNCHANGED response
    <2>1. PICK fl : hp' = [hp EXCEPT !.state = "s_header_value", !.flags = fl, !.content_length = unhex(ch)]
      BY <1>4
    <2>2. /\ IsParser(hp') /\ hp'.state = "s_header_value" /\ hp'.header_state = hp.header_state
          /\ hp'.content_length = unhex(ch) /\ hp'.http_errno = hp.http_errno
      BY <1>0, <2>1, FieldsOfParser DEF IsParser
    <2>3. unhex(ch) \in 0 .. MaxLength
      BY <1>4, DigitValue, HTTPAssumption
    <2>4. QED
      BY <1>0, <1>4, <2>2, <2>3, ValueStarts DEF ValueFits
  <1>5. \A t : Connection(t) \notin {"h_connection", "h_transfer_encoding"}
    BY DEF Connection
  <1>6. CASE hp.header_state = "h_upgrade"
    BY <1>6, <1>3 DEF ValueStart
  <1>7. CASE hp.header_state = "h_transfer_encoding"
    <2>1. PICK hs : hs = IF ch = "chun" THEN "h_matching_transfer_encoding_chunked" ELSE "h_general"
      OBVIOUS
    <2>2. /\ hp' = [hp EXCEPT !.state = "s_header_value", !.header_state = hs]
          /\ mark' = MARK("header_value") /\ Next1 /\ UNCHANGED response
      BY <1>7, <2>1 DEF ValueStart
    <2>3. hs \notin {"h_connection", "h_transfer_encoding"}
      BY <2>1
    <2>4. QED
      BY <1>2, <2>2, <2>3, Zenon
  <1>8. CASE hp.header_state = "h_content_length"
    BY <1>8, <1>1, <1>4 DEF ValueStart
  <1>9. CASE hp.header_state = "h_connection"
    <2>1. /\ hp' = [hp EXCEPT !.state = "s_header_value", !.header_state = Connection(ch)]
          /\ mark' = MARK("header_value") /\ Next1 /\ UNCHANGED response
      BY <1>9 DEF ValueStart
    <2>2. QED
      BY <1>2, <1>5, <2>1
  <1>10. CASE hp.header_state = "h_matching_connection_token_start"
    <2>1. /\ hp' = [hp EXCEPT !.state = "s_header_value", !.header_state = "h_matching_connection_token_start"]
          /\ mark' = MARK("header_value") /\ Next1 /\ UNCHANGED response
      BY <1>10 DEF ValueStart
    <2>2. "h_general" \notin {"h_connection", "h_transfer_encoding"}
          /\ "h_matching_connection_token_start" \notin {"h_connection", "h_transfer_encoding"}
      OBVIOUS
    <2>3. QED
      BY <1>2, <2>1, <2>2, Zenon
  <1>11. CASE hp.header_state \notin {"h_upgrade", "h_transfer_encoding", "h_content_length", "h_connection",
                                      "h_matching_connection_token_start"}
    <2>1. /\ hp' = [hp EXCEPT !.state = "s_header_value", !.header_state = "h_general"]
          /\ mark' = MARK("header_value") /\ Next1 /\ UNCHANGED response
      BY <1>11 DEF ValueStart
    <2>2. "h_general" \notin {"h_connection", "h_transfer_encoding"}
          /\ "h_matching_connection_token_start" \notin {"h_connection", "h_transfer_encoding"}
      OBVIOUS
    <2>3. QED
      BY <1>2, <2>1, <2>2, Zenon
  <1>12. QED
    BY <1>6, <1>7, <1>8, <1>9, <1>10, <1>11

\* The white space around a value keeps it.
LEMMA DiscardKeeps ==
    ASSUME ParserInv, s_header_value_discard_ws \/ s_header_value_start
    PROVE  ParserInv'
  <1>0. /\ Plain("s_header_value_discard_ws") /\ Plain("s_header_value_start")
        /\ Plain("s_header_value_discard_ws_almost_done") /\ Plain("s_header_value_discard_lws")
    BY DEF Plain, ChunkStates, SizeStates
  <1>1. At(hp.state) /\ Plain(hp.state)
    BY <1>0 DEF s_header_value_discard_ws, s_header_value_start, At
  <1>2. (\E s : Plain(s) /\ Goto(s)) \/ ValueStart
    BY <1>0 DEF s_header_value_discard_ws, s_header_value_start
  <1>3. QED
    BY <1>1, <1>2, GotoKeeps, ValueStartKeeps

\* A token more of a value: the parser stays inside it, and a length stays below
\* the largest number.
LEMMA ValuePartKeeps ==
    ASSUME NEW v, ValueFits(v), NEW t
    PROVE  ValueFits(ValuePart(v, t))
  <1> DEFINE h == v.header_state
  <1>0. IsParser(v) /\ v.state = "s_header_value" /\ v.content_length \in 0 .. MaxLength
        /\ h \notin {"h_connection", "h_transfer_encoding"}
    BY DEF ValueFits
  <1>1. \A hs : hs \notin {"h_connection", "h_transfer_encoding"} => ValueFits([v EXCEPT !.header_state = hs])
    <2> SUFFICES ASSUME NEW hs, hs \notin {"h_connection", "h_transfer_encoding"}
                 PROVE  ValueFits([v EXCEPT !.header_state = hs])
      OBVIOUS
    <2>1. PICK g : g = [v EXCEPT !.header_state = hs]
      OBVIOUS
    <2>2. IsParser(g) /\ g.state = v.state /\ g.header_state = hs /\ g.content_length = v.content_length
      BY <1>0, <2>1, FieldsOfParser DEF IsParser
    <2>3. QED
      BY <1>0, <2>1, <2>2 DEF ValueFits
  <1>2. \A hs, fl : hs \notin {"h_connection", "h_transfer_encoding"} =>
            ValueFits([v EXCEPT !.header_state = hs, !.flags = fl])
    <2> SUFFICES ASSUME NEW hs, NEW fl, hs \notin {"h_connection", "h_transfer_encoding"}
                 PROVE  ValueFits([v EXCEPT !.header_state = hs, !.flags = fl])
      OBVIOUS
    <2>1. PICK g : g = [v EXCEPT !.header_state = hs, !.flags = fl]
      OBVIOUS
    <2>2. IsParser(g) /\ g.state = v.state /\ g.header_state = hs /\ g.content_length = v.content_length
      BY <1>0, <2>1, FieldsOfParser DEF IsParser
    <2>3. QED
      BY <1>0, <2>1, <2>2 DEF ValueFits
  <1>3. \A e : ValueFits([v EXCEPT !.http_errno = e])
    <2> SUFFICES ASSUME NEW e PROVE ValueFits([v EXCEPT !.http_errno = e])
      OBVIOUS
    <2>1. PICK g : g = [v EXCEPT !.http_errno = e]
      OBVIOUS
    <2>2. IsParser(g) /\ g.state = v.state /\ g.header_state = h /\ g.content_length = v.content_length
      BY <1>0, <2>1, FieldsOfParser DEF IsParser
    <2>3. QED
      BY <1>0, <2>1, <2>2 DEF ValueFits
  <1>4. \A c \in 0 .. MaxLength : ValueFits([v EXCEPT !.content_length = c])
    <2> SUFFICES ASSUME NEW c \in 0 .. MaxLength PROVE ValueFits([v EXCEPT !.content_length = c])
      OBVIOUS
    <2>1. PICK g : g = [v EXCEPT !.content_length = c]
      OBVIOUS
    <2>2. IsParser(g) /\ g.state = v.state /\ g.header_state = h /\ g.content_length = c
      BY <1>0, <2>1, FieldsOfParser DEF IsParser
    <2>3. QED
      BY <1>0, <2>1, <2>2 DEF ValueFits
  <1>5. CASE h = "h_content_length" /\ t # " "
    <2>1. CASE ~IS_NUM(t) \/ (MaxLength - 10) \div 10 < v.content_length
      BY <1>3, <1>5, <2>1 DEF ValuePart, FlagOf
    <2>2. CASE IS_NUM(t) /\ ~((MaxLength - 10) \div 10 < v.content_length)
      <3>1. ValuePart(v, t) = [v EXCEPT !.content_length = v.content_length * 10 + unhex(t)]
        BY <1>5, <2>2 DEF ValuePart, FlagOf
      <3>2. unhex(t) \in 0 .. 9
        BY <2>2, DigitValue
      <3>3. v.content_length * 10 + unhex(t) \in 0 .. MaxLength
        BY <1>0, <2>2, <3>2, HTTPAssumption
      <3>4. QED
        BY <1>4, <3>1, <3>3
    <2>3. QED
      BY <2>1, <2>2
  <1>6. CASE ~(h = "h_content_length" /\ t # " ")
    <2> DEFINE Good(x) == x \notin {"h_connection", "h_transfer_encoding"}
    <2>0. Good(Connection(t))
      BY DEF Connection
    <2>1. \/ \E hs : Good(hs) /\ ValuePart(v, t) = [v EXCEPT !.header_state = hs]
          \/ \E hs, fl : Good(hs) /\ ValuePart(v, t) = [v EXCEPT !.header_state = hs, !.flags = fl]
          \/ ValuePart(v, t) = v
      <3>1. CASE h = "h_matching_transfer_encoding_chunked"
        <4>1. PICK hs : hs = IF t = "ked" THEN "h_transfer_encoding_chunked" ELSE "h_general"
          OBVIOUS
        <4>2. QED
          BY <3>1, <4>1 DEF ValuePart, FlagOf
      <3>2. CASE h = "h_matching_connection_token_start" /\ t # " "
        <4>1. PICK hs : hs = IF TOKEN(t) THEN Connection(t) ELSE "h_general"
          OBVIOUS
        <4>2. ValuePart(v, t) = [v EXCEPT !.header_state = hs]
          BY <3>2, <4>1 DEF ValuePart, FlagOf
        <4>3. Good(hs)
          BY <2>0, <4>1
        <4>4. QED
          BY <4>2, <4>3
      <3>3. CASE h = "h_matching_connection_keep_alive"
        <4>1. PICK hs : hs = IF t = "alive" THEN "h_connection_keep_alive" ELSE "h_matching_connection_token"
          OBVIOUS
        <4>2. QED
          BY <3>3, <4>1 DEF ValuePart, FlagOf
      <3>4. CASE h = "h_matching_connection_close"
        <4>1. PICK hs : hs = IF t = "ose" THEN "h_connection_close" ELSE "h_matching_connection_token"
          OBVIOUS
        <4>2. QED
          BY <3>4, <4>1 DEF ValuePart, FlagOf
      <3>5. CASE h = "h_matching_connection_upgrade"
        <4>1. PICK hs : hs = IF t = "grade" THEN "h_connection_upgrade" ELSE "h_matching_connection_token"
          OBVIOUS
        <4>2. QED
          BY <3>5, <4>1 DEF ValuePart, FlagOf
      <3>6. CASE h \notin {"h_matching_transfer_encoding_chunked", "h_matching_connection_keep_alive",
                           "h_matching_connection_close", "h_matching_connection_upgrade"}
                 /\ ~(h = "h_matching_connection_token_start" /\ t # " ")
        BY <1>6, <3>6 DEF ValuePart, FlagOf
      <3>7. QED
        BY <3>1, <3>2, <3>3, <3>4, <3>5, <3>6
    <2>2. CASE \E hs : Good(hs) /\ ValuePart(v, t) = [v EXCEPT !.header_state = hs]
      BY <1>1, <2>2
    <2>3. CASE \E hs, fl : Good(hs) /\ ValuePart(v, t) = [v EXCEPT !.header_state = hs, !.flags = fl]
      <3>1. PICK hs, fl : Good(hs) /\ ValuePart(v, t) = [v EXCEPT !.header_state = hs, !.flags = fl]
        BY <2>3
      <3>2. ValueFits([v EXCEPT !.header_state = hs, !.flags = fl])
        BY <1>2, <3>1
      <3>3. QED
        BY <3>1, <3>2, Zenon
    <2>4. QED
      BY <2>1, <2>2, <2>3
  <1>7. QED
    BY <1>5, <1>6

\* What ValueAt is to satisfy, up to token m.
ValueChain(f, m) ==
    f = [q \in p - 1 .. m |-> IF q = p - 1 THEN [hp |-> hp, stop |-> 0]
                              ELSE ValueOf({ ValueStep(before, q) : before \in {f[q - 1]} })]

\* The chain of the values read begins with the first byte.
LEMMA ChainBegins ==
    ASSUME p \in Nat
    PROVE  \E f : ValueChain(f, p - 1)
  <1> DEFINE f == [q \in p - 1 .. p - 1 |-> [hp |-> hp, stop |-> 0]]
  <1>1. \A q \in p - 1 .. p - 1 : q = p - 1
    OBVIOUS
  <1>2. ValueChain(f, p - 1)
    BY <1>1 DEF ValueChain
  <1>3. QED
    BY <1>2

\* A chain is as long as the buffer, by the least place at which it would not be.
LEMMA ChainGoesOn ==
    ASSUME p \in Nat, NEW m \in Nat, m >= p, NEW f, ValueChain(f, m - 1)
    PROVE  \E g : ValueChain(g, m)
  <1> DEFINE Next(x, q) == ValueOf({ ValueStep(before, q) : before \in {x} })
  <1> DEFINE start == [hp |-> hp, stop |-> 0]
  <1> DEFINE g == [q \in p - 1 .. m |-> IF q = m THEN Next(f[m - 1], m) ELSE f[q]]
  <1>1. \A q \in p - 1 .. m - 1 : f[q] = IF q = p - 1 THEN start ELSE Next(f[q - 1], q)
    <2>1. f = [q \in p - 1 .. m - 1 |-> IF q = p - 1 THEN start ELSE Next(f[q - 1], q)]
      BY Zenon DEF ValueChain
    <2> HIDE DEF Next, start
    <2>2. QED
      BY <2>1
  <1> HIDE DEF Next, start
  <1>2. \A q \in p - 1 .. m : g[q] = IF q = m THEN Next(f[m - 1], m) ELSE f[q]
    OBVIOUS
  <1>3. DOMAIN g = p - 1 .. m /\ g = [q \in p - 1 .. m |-> g[q]]
    OBVIOUS
  <1> HIDE DEF g
  <1>4. \A q \in p - 1 .. m : g[q] = IF q = p - 1 THEN start ELSE Next(g[q - 1], q)
    <2> SUFFICES ASSUME NEW q \in p - 1 .. m
                 PROVE  g[q] = IF q = p - 1 THEN start ELSE Next(g[q - 1], q)
      OBVIOUS
    <2>1. CASE q = m
      <3>1. m # p - 1 /\ m - 1 \in p - 1 .. m /\ m - 1 # m
        OBVIOUS
      <3>2. g[m - 1] = f[m - 1]
        BY <3>1, <1>2
      <3>3. QED
        BY <2>1, <3>1, <3>2, <1>2
    <2>2. CASE q = p - 1
      <3>1. q # m /\ q \in p - 1 .. m - 1
        BY <2>2
      <3>2. QED
        BY <2>2, <3>1, <1>1, <1>2
    <2>3. CASE q # m /\ q # p - 1
      <3>1. q \in p - 1 .. m - 1 /\ q - 1 \in p - 1 .. m /\ q - 1 # m
        BY <2>3
      <3>2. g[q] = f[q] /\ g[q - 1] = f[q - 1]
        BY <2>3, <3>1, <1>2
      <3>3. QED
        BY <2>3, <3>1, <3>2, <1>1
    <2>4. QED
      BY <2>1, <2>2, <2>3
  <1>5. g = [q \in p - 1 .. m |-> IF q = p - 1 THEN start ELSE Next(g[q - 1], q)]
    BY <1>3, <1>4
  <1>6. ValueChain(g, m)
    BY <1>5, Zenon DEF ValueChain, Next, start
  <1>7. QED
    BY <1>6

\* There is such a function, so that ValueAt is one.
LEMMA ValueAtDefined ==
    ASSUME p \in Nat \ {0}, end \in Nat, p <= end
    PROVE  ValueChain(ValueAt, end)
  <1> DEFINE B == { m \in Nat : m \in p - 1 .. end /\ ~ \E f : ValueChain(f, m) }
  <1>1. B = {}
    <2> SUFFICES ASSUME B # {} PROVE FALSE
      OBVIOUS
    <2>1. \E x \in B : \A y \in B : ~(<<y, x>> \in OpToRel(<, Nat))
      <3>1. B \subseteq Nat
        OBVIOUS
      <3> HIDE DEF B
      <3>2. QED
        BY <3>1, WFMin, NatLessThanWellFounded, Zenon
    <2>2. PICK x \in B : \A y \in B : ~(y < x)
      BY <2>1 DEF OpToRel
    <2>3. x \in Nat /\ x \in p - 1 .. end /\ ~ \E f : ValueChain(f, x)
      OBVIOUS
    <2>4. x # p - 1
      BY <2>3, ChainBegins
    <2>5. x - 1 \in Nat /\ x - 1 \in p - 1 .. end /\ x - 1 < x /\ x >= p
      BY <2>3, <2>4
    <2>6. x - 1 \notin B
      BY <2>2, <2>5
    <2>7. PICK f : ValueChain(f, x - 1)
      BY <2>5, <2>6
    <2>8. QED
      BY <2>3, <2>5, <2>7, ChainGoesOn
  <1>2. end \in p - 1 .. end
    OBVIOUS
  <1>3. PICK f : ValueChain(f, end)
    BY <1>1, <1>2
  <1>4. ValueAt = CHOOSE g : ValueChain(g, end)
    BY Zenon DEF ValueAt, ValueChain
  <1>5. QED
    BY <1>3, <1>4

\* The one element of a set that has one.
LEMMA OnlyValue ==
    ASSUME NEW x
    PROVE  ValueOf({x}) = x
  BY DEF ValueOf

\* A pass over a value, as far as it has come.
RestFits(x) ==
    /\ x = [hp |-> x.hp, stop |-> x.stop]
    /\ ValueFits(x.hp) /\ x.stop \in {0} \cup p .. end

\* One byte of a value keeps the fields of the parser what they are.
LEMMA ValueStepKeeps ==
    ASSUME NEW x, RestFits(x), NEW q \in p .. end
    PROVE  RestFits(ValueStep(x, q))
  <1>1. CASE x.stop # 0
    BY <1>1 DEF ValueStep
  <1>2. CASE x.stop = 0 /\ wire[q] \in {CR, LF}
    <2>1. PICK h : h = x.hp
      OBVIOUS
    <2>2. ValueStep(x, q) = [hp |-> h, stop |-> q]
      <3>1. x = [hp |-> h, stop |-> 0]
        BY <1>2, <2>1 DEF RestFits
      <3>2. ValueStep(x, q) = [x EXCEPT !.stop = q]
        BY <1>2 DEF ValueStep
      <3>3. QED
        BY <3>1, <3>2
    <2>3. QED
      BY <2>1, <2>2 DEF RestFits
  <1>3. CASE x.stop = 0 /\ wire[q] \notin {CR, LF}
    <2>1. PICK v : v = ValuePart(x.hp, wire[q])
      OBVIOUS
    <2>2. PICK k : k = IF v.http_errno # "HPE_OK" THEN q ELSE 0
      OBVIOUS
    <2>3. ValueStep(x, q) = [hp |-> v, stop |-> k]
      BY <1>3, <2>1, <2>2 DEF ValueStep
    <2>4. ValueFits(v)
      BY <2>1, ValuePartKeeps DEF RestFits
    <2>5. QED
      BY <2>2, <2>3, <2>4 DEF RestFits
  <1>4. QED
    BY <1>1, <1>2, <1>3

\* So do all the bytes up to any place of the buffer.
LEMMA ValueAtFits ==
    ASSUME p \in Nat \ {0}, end \in Nat, p <= end, ValueFits(hp)
    PROVE  RestFits(ValueAt[end])
  <1>0. /\ ValueAt[p - 1] = [hp |-> hp, stop |-> 0]
        /\ \A q \in p .. end : ValueAt[q] = ValueStep(ValueAt[q - 1], q)
    <2> DEFINE Next(x, q) == ValueOf({ ValueStep(before, q) : before \in {x} })
    <2> DEFINE start == [hp |-> hp, stop |-> 0]
    <2>1. \A x, q : Next(x, q) = ValueStep(x, q)
      <3> SUFFICES ASSUME NEW x, NEW q PROVE Next(x, q) = ValueStep(x, q)
        OBVIOUS
      <3>1. { ValueStep(before, q) : before \in {x} } = {ValueStep(x, q)}
        OBVIOUS
      <3>2. QED
        BY <3>1, OnlyValue
    <2>2. ValueAt = [q \in p - 1 .. end |-> IF q = p - 1 THEN start ELSE Next(ValueAt[q - 1], q)]
      BY ValueAtDefined, Zenon DEF ValueChain
    <2> HIDE DEF Next, start
    <2>3. PICK f : f = ValueAt
      OBVIOUS
    <2>4. f = [q \in p - 1 .. end |-> IF q = p - 1 THEN start ELSE Next(f[q - 1], q)]
      BY <2>2, <2>3, Zenon
    <2>5. \A q \in p - 1 .. end : f[q] = IF q = p - 1 THEN start ELSE Next(f[q - 1], q)
      BY <2>4
    <2>6. f[p - 1] = start /\ \A q \in p .. end : f[q] = Next(f[q - 1], q)
      BY <2>5
    <2>7. QED
      BY <2>1, <2>3, <2>6 DEF start
  <1> DEFINE B == { q \in Nat : q \in p - 1 .. end /\ ~RestFits(ValueAt[q]) }
  <1>1. B = {}
    <2> SUFFICES ASSUME B # {} PROVE FALSE
      OBVIOUS
    <2>1. \E x \in B : \A y \in B : ~(<<y, x>> \in OpToRel(<, Nat))
      <3>1. B \subseteq Nat
        OBVIOUS
      <3> HIDE DEF B
      <3>2. QED
        BY <3>1, WFMin, NatLessThanWellFounded, Zenon
    <2>2. PICK x \in B : \A y \in B : ~(y < x)
      BY <2>1 DEF OpToRel
    <2>3. x \in Nat /\ x \in p - 1 .. end /\ ~RestFits(ValueAt[x])
      OBVIOUS
    <2>4. x # p - 1
      <3>1. RestFits([hp |-> hp, stop |-> 0])
        BY DEF RestFits
      <3>2. RestFits(ValueAt[p - 1])
        BY <1>0, <3>1
      <3>3. QED
        BY <2>3, <3>2
    <2>5. x - 1 \in Nat /\ x - 1 \in p - 1 .. end /\ x - 1 < x /\ x \in p .. end
      BY <2>3, <2>4
    <2>6. x - 1 \notin B
      BY <2>2, <2>5
    <2>7. RestFits(ValueAt[x - 1])
      BY <2>5, <2>6
    <2>8. QED
      BY <1>0, <2>3, <2>5, <2>7, ValueStepKeeps
  <1>2. end \in p - 1 .. end
    OBVIOUS
  <1>3. QED
    BY <1>1, <1>2

\* So does the rest of the value.
LEMMA ValueRestFits ==
    ASSUME p \in Nat \ {0}, end \in Nat, p <= end, ValueFits(hp)
    PROVE  ValueFits(ValueRest.hp) /\ ValueRest.stop \in p .. end + 1
  <1>1. PICK final : final = ValueAt[end]
    OBVIOUS
  <1>2. RestFits(final)
    BY <1>1, ValueAtFits
  <1>3. PICK r : r = IF final.stop = 0 THEN [final EXCEPT !.stop = end + 1] ELSE final
    OBVIOUS
  <1>4. ValueRest = r
    <2>1. { IF l.stop = 0 THEN [l EXCEPT !.stop = end + 1] ELSE l : l \in {ValueAt[end]} } = {r}
      BY <1>1, <1>3
    <2>2. QED
      BY <2>1, OnlyValue DEF ValueRest
  <1>5. CASE final.stop = 0
    <2>1. PICK h : h = final.hp
      OBVIOUS
    <2>2. final = [hp |-> h, stop |-> 0]
      BY <1>2, <1>5, <2>1 DEF RestFits
    <2>3. r = [final EXCEPT !.stop = end + 1]
      BY <1>3, <1>5
    <2>4. r.hp = h /\ r.stop = end + 1
      BY <2>2, <2>3
    <2>5. QED
      BY <1>2, <1>4, <2>1, <2>4 DEF RestFits
  <1>6. CASE final.stop # 0
    <2>1. r = final /\ final.stop \in p .. end
      BY <1>2, <1>3, <1>6 DEF RestFits
    <2>2. QED
      BY <1>2, <1>4, <2>1 DEF RestFits
  <1>7. QED
    BY <1>5, <1>6

\* The value of a header keeps the invariant.
LEMMA ValueKeeps ==
    ASSUME ParserInv, s_header_value
    PROVE  ParserInv'
  <1>0. Plain("s_header_almost_done")
    BY DEF Plain, ChunkStates, SizeStates
  <1>1. At(hp.state) /\ hp.state = "s_header_value"
    BY DEF s_header_value, At
  <1>2. /\ IsParser(hp) /\ hp.http_errno = "HPE_OK" /\ hp.content_length \in 0 .. MaxLength
        /\ nparsed = Running /\ UNCHANGED buffer /\ p \in Nat /\ end \in Nat /\ p <= end
        /\ MarksFit /\ StateFits
    BY <1>1, AtFacts
  <1>3. ValueFits(hp)
    BY <1>1, <1>2 DEF ValueFits, StateFits
  <1>3a. p \in Nat \ {0} /\ data \in 1 .. p
    BY <1>2 DEF ParserInv, BufferFits
  <1>4. PICK v, q : v = ValueRest.hp /\ q = ValueRest.stop
    OBVIOUS
  <1>5. ValueFits(v) /\ q \in p .. end + 1
    BY <1>2, <1>3, <1>3a, <1>4, ValueRestFits
  <1>6. PICK h : h = [v EXCEPT !.nread = @ + (q - p)]
    OBVIOUS
  <1>7. ValueFits(h) /\ h.http_errno = v.http_errno
    <2>1. IsParser(v)
      BY <1>5 DEF ValueFits
    <2>2. /\ IsParser(h) /\ h.state = v.state /\ h.content_length = v.content_length
          /\ h.header_state = v.header_state /\ h.http_errno = v.http_errno
      BY <1>6, <2>1, FieldsOfParser DEF IsParser
    <2>3. QED
      BY <1>5, <2>2 DEF ValueFits
  <1>8. \/ /\ v.http_errno # "HPE_OK" /\ hp' = v /\ nparsed' = q - data /\ mark' = mark
        \/ /\ v.http_errno = "HPE_OK" /\ q = end + 1
           /\ hp' = h /\ p' = q /\ fresh' = TRUE /\ mark' = mark /\ nparsed' = nparsed
        \/ /\ v.http_errno = "HPE_OK" /\ q <= end
           /\ hp' = [h EXCEPT !.state = "s_header_almost_done"]
           /\ mark' = [mark EXCEPT !.header_value = 0]
           /\ (p' = q + 1 /\ fresh' = TRUE) \/ (p' = q /\ fresh' = FALSE)
           /\ nparsed' = nparsed
        \/ hp' = [h EXCEPT !.http_errno = "HPE_HEADER_OVERFLOW"] /\ nparsed' = q - data /\ mark' = mark
    <2>1. CASE v.http_errno # "HPE_OK"
      BY <1>4, <1>6, <2>1 DEF s_header_value
    <2>2. CASE v.http_errno = "HPE_OK" /\ q = end + 1 /\ ~Overflows(q - p)
      BY <1>2, <1>4, <1>6, <2>2 DEF s_header_value
    <2>3. CASE v.http_errno = "HPE_OK" /\ q <= end /\ ~Overflows(q - p)
      BY <1>2, <1>4, <1>6, <2>3 DEF s_header_value
    <2>4. CASE v.http_errno = "HPE_OK" /\ Overflows(q - p)
      BY <1>2, <1>4, <1>6, <2>4 DEF s_header_value
    <2>5. q = end + 1 \/ q <= end
      BY <1>2, <1>5
    <2>6. QED
      BY <2>1, <2>2, <2>3, <2>4, <2>5
  <1>9. CASE v.http_errno # "HPE_OK" /\ hp' = v /\ nparsed' = q - data /\ mark' = mark
    <2>1. nparsed' # Running
      BY <1>2, <1>3a, <1>5, <1>9 DEF Running
    <2>2. QED
      BY <1>2, <1>5, <1>9, <2>1, ReturnKeeps DEF ValueFits, ParserInv
  <1>10. CASE hp' = [h EXCEPT !.http_errno = "HPE_HEADER_OVERFLOW"] /\ nparsed' = q - data /\ mark' = mark
    BY <1>2, <1>5, <1>7, <1>10, FailsKeeps DEF ValueFits
  <1>11. CASE /\ v.http_errno = "HPE_OK" /\ q = end + 1
              /\ hp' = h /\ p' = q /\ fresh' = TRUE /\ mark' = mark /\ nparsed' = nparsed
    <2>1. StateFits'
      BY <1>7, <1>11 DEF StateFits, ValueFits, ChunkStates, SizeStates
    <2>2. MarksFit'
      BY <1>1, <1>2, <1>7, <1>11 DEF MarksFit, ValueFits
    <2>3. GoesOn
      BY <1>2, <1>5, <1>11, <2>2 DEF GoesOn, ParserInv
    <2>4. QED
      BY <1>2, <1>7, <1>11, <2>1, <2>3, PassKeeps DEF ValueFits
  <1>12. CASE /\ v.http_errno = "HPE_OK" /\ q <= end
              /\ hp' = [h EXCEPT !.state = "s_header_almost_done"]
              /\ mark' = [mark EXCEPT !.header_value = 0]
              /\ (p' = q + 1 /\ fresh' = TRUE) \/ (p' = q /\ fresh' = FALSE)
              /\ nparsed' = nparsed
    <2>1. /\ IsParser(hp') /\ hp'.state = "s_header_almost_done" /\ hp'.http_errno = "HPE_OK"
          /\ hp'.content_length = h.content_length
      BY <1>7, <1>12, FieldsOfParser DEF ValueFits, IsParser
    <2>2. "header_value" \in DOMAIN NoMarks /\ hp.state \in MarkingStates["header_value"]
      BY <1>1, MarkNames
    <2>3. p' \in p .. end + 1 /\ (p' = end + 1 => fresh') /\ mark' = [mark EXCEPT !["header_value"] = 0]
      BY <1>2, <1>5, <1>12
    <2>4. QED
      BY <1>0, <1>1, <1>2, <1>7, <1>12, <2>1, <2>2, <2>3, ReportedKeeps DEF ValueFits
  <1>13. QED
    BY <1>8, <1>9, <1>10, <1>11, <1>12

\* A step to a plain state at the same token.
LEMMA AgainKeeps ==
    ASSUME ParserInv, At(hp.state), Plain(hp.state), REEXECUTE, mark' = mark,
           IsParser(hp'), Plain(hp'.state), hp'.http_errno = hp.http_errno,
           hp'.content_length = hp.content_length
    PROVE  ParserInv'
  <1>1. p' = p /\ nparsed' = nparsed
    BY DEF REEXECUTE
  <1>2. /\ nparsed = Running /\ UNCHANGED buffer /\ p \in p .. end + 1 /\ p # end + 1
        /\ hp.http_errno = "HPE_OK" /\ hp.content_length \in 0 .. MaxLength
        /\ \A f \in DOMAIN NoMarks : mark[f] = 0
    BY AtFacts
  <1>3. QED
    BY <1>1, <1>2, ToPlainKeeps

\* The end of a header line keeps it.
LEMMA LineEndKeeps ==
    ASSUME ParserInv, s_header_almost_done \/ s_header_value_lws \/ s_header_value_discard_lws
    PROVE  ParserInv'
  <1>0. /\ Plain("s_header_almost_done") /\ Plain("s_header_value_lws") /\ Plain("s_header_value_discard_lws")
        /\ Plain("s_header_value_start") /\ Plain("s_header_field_start") /\ Plain("s_header_value_discard_ws")
    BY DEF Plain, ChunkStates, SizeStates
  <1>1. At(hp.state) /\ Plain(hp.state)
    BY <1>0 DEF s_header_almost_done, s_header_value_lws, s_header_value_discard_lws, At
  <1>2. IsParser(hp) /\ nparsed = Running /\ UNCHANGED buffer
    BY <1>1, AtFacts
  <1>3. \/ \E s : Plain(s) /\ Goto(s)
        \/ Fails("HPE_LF_EXPECTED")
        \/ UPDATE_STATE("s_header_value_start") /\ REEXECUTE /\ mark' = mark
        \/ hp' = Finished /\ REEXECUTE /\ mark' = mark
    BY <1>0 DEF s_header_almost_done, s_header_value_lws, s_header_value_discard_lws
  <1>4. CASE \E s : Plain(s) /\ Goto(s)
    BY <1>1, <1>4, GotoKeeps
  <1>5. CASE Fails("HPE_LF_EXPECTED")
    BY <1>2, <1>5, ErrorKeeps
  <1>6. CASE UPDATE_STATE("s_header_value_start") /\ REEXECUTE /\ mark' = mark
    <2>1. /\ IsParser(hp') /\ hp'.state = "s_header_value_start" /\ hp'.http_errno = hp.http_errno
          /\ hp'.content_length = hp.content_length
      BY <1>2, <1>6, FieldsOfParser DEF UPDATE_STATE, IsParser
    <2>2. QED
      BY <1>0, <1>1, <1>6, <2>1, AgainKeeps
  <1>7. CASE hp' = Finished /\ REEXECUTE /\ mark' = mark
    <2>0. PICK fl : fl = IF hp.header_state \in DOMAIN FlagOf
                         THEN hp.flags \cup {FlagOf[hp.header_state]} ELSE hp.flags
      OBVIOUS
    <2>1. hp' = [hp EXCEPT !.state = "s_header_field_start", !.flags = fl]
      BY <1>7, <2>0 DEF Finished
    <2>2. /\ IsParser(hp') /\ hp'.state = "s_header_field_start" /\ hp'.http_errno = hp.http_errno
          /\ hp'.content_length = hp.content_length
      BY <1>2, <2>1, FieldsOfParser DEF IsParser
    <2>3. QED
      BY <1>0, <1>1, <1>7, <2>2, AgainKeeps
  <1>8. QED
    BY <1>3, <1>4, <1>5, <1>6, <1>7

(* The end of the headers.                                                 *)

\* The empty line keeps it.
LEMMA HeadersEndKeeps ==
    ASSUME ParserInv, s_headers_almost_done
    PROVE  ParserInv'
  <1>0. Plain("s_headers_almost_done") /\ Plain("s_message_done") /\ Plain("s_headers_done")
    BY DEF Plain, ChunkStates, SizeStates
  <1>1. At(hp.state) /\ Plain(hp.state)
    BY <1>0 DEF s_headers_almost_done, At
  <1>2. IsParser(hp) /\ nparsed = Running /\ UNCHANGED buffer
    BY <1>1, AtFacts
  <1>3. \/ \E e : e # "HPE_OK" /\ Fails(e)
        \/ UPDATE_STATE("s_message_done") /\ REEXECUTE /\ mark' = mark
        \/ \E u : hp' = [hp EXCEPT !.state = "s_headers_done", !.upgrade = u] /\ REEXECUTE /\ mark' = mark
    BY DEF s_headers_almost_done
  <1>4. CASE \E e : e # "HPE_OK" /\ Fails(e)
    BY <1>2, <1>4, ErrorKeeps
  <1>5. CASE UPDATE_STATE("s_message_done") /\ REEXECUTE /\ mark' = mark
    <2>1. /\ IsParser(hp') /\ hp'.state = "s_message_done" /\ hp'.http_errno = hp.http_errno
          /\ hp'.content_length = hp.content_length
      BY <1>2, <1>5, FieldsOfParser DEF UPDATE_STATE, IsParser
    <2>2. QED
      BY <1>0, <1>1, <1>5, <2>1, AgainKeeps
  <1>6. CASE \E u : hp' = [hp EXCEPT !.state = "s_headers_done", !.upgrade = u] /\ REEXECUTE /\ mark' = mark
    <2>0. PICK u : hp' = [hp EXCEPT !.state = "s_headers_done", !.upgrade = u]
      BY <1>6
    <2>1. /\ IsParser(hp') /\ hp'.state = "s_headers_done" /\ hp'.http_errno = hp.http_errno
          /\ hp'.content_length = hp.content_length
      BY <1>2, <2>0, FieldsOfParser DEF IsParser
    <2>2. QED
      BY <1>0, <1>1, <1>6, <2>1, AgainKeeps
  <1>7. QED
    BY <1>3, <1>4, <1>5, <1>6

\* The message is complete.
LEMMA CompleteKeeps ==
    ASSUME ParserInv, At(hp.state), Plain(hp.state), NEW h, IsParser(h), h.http_errno = "HPE_OK",
           h.content_length \in 0 .. MaxLength, NEW upgrade, MessageComplete(h, upgrade)
    PROVE  ParserInv'
  <1>0. NEW_MESSAGE \in {"s_start_res", "s_dead"}
    BY DEF NEW_MESSAGE
  <1>1. Plain(NEW_MESSAGE)
    BY <1>0 DEF Plain, ChunkStates, SizeStates
  <1>2. hp' = [h EXCEPT !.state = NEW_MESSAGE] /\ mark' = mark
    BY DEF MessageComplete
  <1>3. PICK s : s = NEW_MESSAGE
    OBVIOUS
  <1>4. /\ IsParser(hp') /\ hp'.state = s /\ hp'.http_errno = "HPE_OK" /\ hp'.content_length = h.content_length
    BY <1>2, <1>3, FieldsOfParser DEF IsParser
  <1>5. CASE Next1
    <2>1. p' \in p .. end + 1 /\ fresh' /\ nparsed' = Running
      BY <1>5, AtFacts DEF Next1
    <2>2. QED
      BY <1>1, <1>2, <1>3, <1>4, <2>1, AtFacts, ToPlainKeeps
  <1>6. CASE RETURN(p - data + 1)
    <2>1. nparsed = Running /\ data \in 1 .. p /\ p \in Nat
      BY AtFacts DEF ParserInv, BufferFits
    <2>2. nparsed' # Running
      BY <1>6, <2>1 DEF RETURN, Running
    <2>3. StateFits'
      BY <1>1, <1>3, <1>4 DEF StateFits, Plain, ChunkStates, SizeStates
    <2>4. QED
      BY <1>2, <1>4, <2>1, <2>2, <2>3, AtFacts, ReturnKeeps DEF ParserInv
  <1>7. QED
    BY <1>5, <1>6 DEF MessageComplete

\* headers_done keeps it.
LEMMA HeadersDoneKeeps ==
    ASSUME ParserInv, s_headers_done
    PROVE  ParserInv'
  <1>0. Plain("s_headers_done")
    BY DEF Plain, ChunkStates, SizeStates
  <1>1. At(hp.state) /\ Plain(hp.state)
    BY <1>0 DEF s_headers_done, At
  <1>2. /\ IsParser(hp) /\ hp.http_errno = "HPE_OK" /\ hp.content_length \in 0 .. MaxLength
        /\ nparsed = Running /\ UNCHANGED buffer /\ p + 1 \in p .. end + 1
        /\ \A f \in DOMAIN NoMarks : mark[f] = 0
    BY <1>1, AtFacts
  <1>3. PICK h : h = HeaderCounted
    OBVIOUS
  <1>4. /\ IsParser(h) /\ h.http_errno = "HPE_OK" /\ h.content_length = hp.content_length
        /\ h.flags = hp.flags /\ h.nread = 0
    BY <1>2, <1>3, FieldsOfParser DEF HeaderCounted, IsParser
  <1> DEFINE to(s) == hp' = [h EXCEPT !.state = s] /\ Next1 /\ UNCHANGED <<mark, response>>
  <1>5. \/ \E u : MessageComplete(h, u)
        \/ to("s_chunk_size_start") /\ "F_CHUNKED" \in hp.flags
        \/ to("s_body_identity") /\ hp.content_length \notin {0, MaxLength}
        \/ to("s_body_identity_eof")
    <2>1. CASE hp.upgrade /\ ~HasBody
      BY <1>3, <2>1 DEF s_headers_done, HasBody
    <2>2. CASE ~(hp.upgrade /\ ~HasBody) /\ "F_CHUNKED" \in hp.flags
      BY <1>3, <2>2 DEF s_headers_done, HasBody
    <2>3. CASE HasBody /\ "F_CHUNKED" \notin hp.flags
      BY <1>3, <2>3 DEF s_headers_done, HasBody
    <2>4. CASE ~hp.upgrade /\ ~HasBody /\ http_message_needs_eof
      BY <1>3, <2>4 DEF s_headers_done, HasBody
    <2>5. CASE ~hp.upgrade /\ ~HasBody /\ ~http_message_needs_eof
      BY <1>3, <2>5 DEF s_headers_done, HasBody
    <2>6. QED
      BY <2>1, <2>2, <2>3, <2>4, <2>5
  <1>6. CASE \E u : MessageComplete(h, u)
    BY <1>1, <1>2, <1>4, <1>6, CompleteKeeps
  <1>7. ASSUME NEW s, to(s),
               \/ s = "s_chunk_size_start" /\ "F_CHUNKED" \in hp.flags
               \/ s = "s_body_identity" /\ hp.content_length \notin {0, MaxLength}
               \/ s = "s_body_identity_eof"
        PROVE  ParserInv'
    <2>1. /\ IsParser(hp') /\ hp'.state = s /\ hp'.http_errno = "HPE_OK" /\ hp'.nread = 0
          /\ hp'.content_length = hp.content_length /\ hp'.flags = hp.flags
      BY <1>4, <1>7, FieldsOfParser DEF IsParser
    <2>2. p' = p + 1 /\ fresh' /\ nparsed' = nparsed /\ mark' = mark
      BY <1>7 DEF Next1
    <2>3. StateFits'
      BY <1>7, <2>1, <2>2 DEF StateFits, ChunkStates, SizeStates
    <2>4. MarksFit'
      BY <1>2, <2>2 DEF MarksFit
    <2>5. GoesOn
      BY <1>2, <2>2, <2>4 DEF GoesOn, ParserInv
    <2>6. QED
      BY <1>2, <2>1, <2>3, <2>5, PassKeeps
  <1>8. QED
    BY <1>5, <1>6, <1>7

(* The body.                                                               *)

\* What is read of a body is in the buffer and no more than is left of it.
LEMMA ReadsInBuffer ==
    ASSUME ParserInv, At(hp.state), hp.content_length # 0
    PROVE  /\ ToRead \in 1 .. hp.content_length /\ p + ToRead \in p .. end + 1
           /\ p + ToRead - 1 \in p .. end /\ hp.content_length - ToRead \in 0 .. MaxLength - 1
  <1>1. p \in Nat /\ end \in Nat /\ p <= end /\ hp.content_length \in 0 .. MaxLength /\ MaxLength \in Nat
    BY AtFacts, HTTPAssumption
  <1>2. QED
    BY <1>1 DEF ToRead

\* The body, of a known length or up to the end of the connection, keeps it.
LEMMA BodyKeeps ==
    ASSUME ParserInv, s_body_identity
    PROVE  ParserInv'
  <1>0. Plain("s_message_done")
    BY DEF Plain, ChunkStates, SizeStates
  <1>1. At(hp.state) /\ hp.state = "s_body_identity"
    BY DEF s_body_identity, At
  <1>2. /\ IsParser(hp) /\ hp.http_errno = "HPE_OK" /\ hp.content_length \in 0 .. MaxLength
        /\ nparsed = Running /\ UNCHANGED buffer /\ p \in Nat /\ end \in Nat /\ StateFits /\ ~fresh
    BY <1>1, AtFacts
  <1>3. hp.content_length # 0
    BY <1>1, <1>2 DEF StateFits
  <1>4. PICK remains, n : remains = hp.content_length - ToRead /\ n = ToRead
    OBVIOUS
  <1>5. remains \in 0 .. MaxLength - 1 /\ p + n \in p .. end + 1 /\ p + n - 1 \in p .. end
    BY <1>1, <1>3, <1>4, ReadsInBuffer
  <1>6. "body" \in DOMAIN NoMarks /\ hp.state \in MarkingStates["body"]
        /\ \A g \in DOMAIN NoMarks \ {"body"} : hp.state \notin MarkingStates[g]
    BY <1>1, MarkNames
  <1>7. CASE remains = 0
    <2>1. /\ hp' = [hp EXCEPT !.content_length = 0, !.state = "s_message_done"]
          /\ p' = p + n - 1 /\ fresh' = fresh /\ nparsed' = nparsed /\ mark' = [mark EXCEPT !["body"] = 0]
      BY <1>4, <1>7 DEF s_body_identity
    <2>2. /\ IsParser(hp') /\ hp'.state = "s_message_done" /\ hp'.http_errno = "HPE_OK"
          /\ hp'.content_length = 0
      BY <1>2, <2>1, FieldsOfParser DEF IsParser
    <2>3. p' \in p .. end + 1 /\ p' # end + 1 /\ 0 \in 0 .. MaxLength
      BY <1>2, <1>5, <2>1, HTTPAssumption
    <2>4. QED
      BY <1>0, <1>1, <1>6, <2>1, <2>2, <2>3, ReportedKeeps
  <1>8. CASE remains # 0
    <2>1. /\ hp' = [hp EXCEPT !.content_length = remains]
          /\ p' = p + n /\ fresh' = TRUE /\ mark' = MARK("body") /\ nparsed' = nparsed
      BY <1>4, <1>8 DEF s_body_identity
    <2>2. /\ IsParser(hp') /\ hp'.state = hp.state /\ hp'.http_errno = "HPE_OK"
          /\ hp'.content_length = remains
      BY <1>2, <2>1, FieldsOfParser DEF IsParser
    <2>3. remains \in 0 .. MaxLength /\ remains \notin {0, MaxLength}
      BY <1>5, <1>8, HTTPAssumption
    <2>4. StateFits'
      BY <1>1, <2>2, <2>3 DEF StateFits, ChunkStates, SizeStates
    <2>5. QED
      BY <1>1, <1>5, <1>6, <2>1, <2>2, <2>3, <2>4, MarkedKeeps
  <1>9. QED
    BY <1>7, <1>8

\* The end of the body keeps it.
LEMMA BodyEndKeeps ==
    ASSUME ParserInv, s_body_identity_eof \/ s_message_done
    PROVE  ParserInv'
  <1>1. CASE s_body_identity_eof
    <2>1. At(hp.state) /\ hp.state = "s_body_identity_eof"
      BY <1>1 DEF s_body_identity_eof, At
    <2>2. /\ IsParser(hp) /\ hp.http_errno = "HPE_OK" /\ hp.content_length \in 0 .. MaxLength
          /\ p \in Nat /\ end \in Nat /\ p <= end
      BY <2>1, AtFacts
    <2>3. hp' = hp /\ p' = end + 1 /\ fresh' = TRUE /\ mark' = MARK("body") /\ nparsed' = nparsed
      BY <1>1 DEF s_body_identity_eof
    <2>4. "body" \in DOMAIN NoMarks /\ hp.state \in MarkingStates["body"]
          /\ \A g \in DOMAIN NoMarks \ {"body"} : hp.state \notin MarkingStates[g]
      BY <2>1, MarkNames
    <2>5. StateFits'
      BY <2>1, <2>3 DEF StateFits, ChunkStates, SizeStates
    <2>6. p' \in p .. end + 1
      BY <2>2, <2>3
    <2>7. QED
      BY <2>1, <2>2, <2>3, <2>4, <2>5, <2>6, MarkedKeeps
  <1>2. CASE s_message_done
    <2>1. At(hp.state) /\ hp.state = "s_message_done" /\ Plain("s_message_done")
      BY <1>2 DEF s_message_done, At, Plain, ChunkStates, SizeStates
    <2>2. QED
      BY <1>2, <2>1, AtFacts, CompleteKeeps DEF s_message_done
  <1>3. QED
    BY <1>1, <1>2

\* A step between states of a chunked body in which nothing is marked.
LEMMA ChunkStepKeeps ==
    ASSUME ParserInv, At(hp.state), \A f \in DOMAIN NoMarks : hp.state \notin MarkingStates[f],
           Next1, mark' = mark, IsParser(hp'), hp'.http_errno = "HPE_OK",
           hp'.content_length \in 0 .. MaxLength, StateFits'
    PROVE  ParserInv'
  <1>1. nparsed = Running /\ UNCHANGED buffer /\ p + 1 \in p .. end + 1 /\ MarksFit
    BY AtFacts
  <1>2. p' = p + 1 /\ fresh' /\ nparsed' = nparsed
    BY DEF Next1
  <1>3. \A f \in DOMAIN NoMarks : mark'[f] = 0
    BY <1>1 DEF MarksFit
  <1>4. MarksFit'
    BY <1>3 DEF MarksFit
  <1>5. GoesOn
    BY <1>1, <1>2, <1>4 DEF GoesOn, ParserInv
  <1>6. QED
    BY <1>1, <1>5, PassKeeps

\* The size of a chunk keeps it.
LEMMA ChunkSizeKeeps ==
    ASSUME ParserInv, s_chunk_size
    PROVE  ParserInv'
  <1>1. CASE At("s_chunk_size_start")
    <2>1. At(hp.state) /\ hp.state = "s_chunk_size_start"
      BY <1>1 DEF At
    <2>2. /\ IsParser(hp) /\ hp.http_errno = "HPE_OK" /\ nparsed = Running /\ UNCHANGED buffer /\ StateFits
      BY <2>1, AtFacts
    <2>3. CASE Fails("HPE_INVALID_CHUNK_SIZE")
      BY <2>2, <2>3, ErrorKeeps
    <2>4. CASE /\ unhex(ch) # -1
               /\ hp' = [hp EXCEPT !.content_length = unhex(ch), !.state = "s_chunk_size"]
               /\ Next1 /\ UNCHANGED <<mark, response>>
      <3>1. PICK n : n = unhex(ch)
        OBVIOUS
      <3>2. n \in 0 .. MaxLength /\ n # MaxLength
        BY <2>4, <3>1, DigitValue, HTTPAssumption
      <3>3. /\ IsParser(hp') /\ hp'.state = "s_chunk_size" /\ hp'.http_errno = "HPE_OK"
            /\ hp'.content_length = n /\ hp'.flags = hp.flags
        BY <2>2, <2>4, <3>1, FieldsOfParser DEF IsParser
      <3>4. "F_CHUNKED" \in hp.flags
        BY <2>1, <2>2 DEF StateFits, ChunkStates
      <3>5. StateFits'
        BY <3>2, <3>3, <3>4 DEF StateFits, SizeStates
      <3>6. \A f \in DOMAIN NoMarks : hp.state \notin MarkingStates[f]
        BY <2>1, MarkNames
      <3>7. QED
        BY <2>1, <2>4, <3>2, <3>3, <3>5, <3>6, ChunkStepKeeps
    <2>5. QED
      BY <1>1, <2>1, <2>3, <2>4 DEF s_chunk_size, At
  <1>2. CASE At("s_chunk_size")
    <2>1. At(hp.state) /\ hp.state = "s_chunk_size"
      BY <1>2 DEF At
    <2>2. /\ IsParser(hp) /\ hp.http_errno = "HPE_OK" /\ nparsed = Running /\ UNCHANGED buffer /\ StateFits
          /\ hp.content_length \in 0 .. MaxLength
      BY <2>1, AtFacts
    <2>3. CASE \E e : e # "HPE_OK" /\ Fails(e)
      BY <2>2, <2>3, ErrorKeeps
    <2>4. CASE Goto("s_chunk_size_almost_done") \/ Goto("s_chunk_parameters")
      BY <2>1, <2>4, GotoKeeps DEF SizeStates
    <2>5. CASE /\ unhex(ch) # -1 /\ ~((MaxLength - 16) \div 16 < hp.content_length)
               /\ hp' = [hp EXCEPT !.content_length = @ * 16 + unhex(ch)]
               /\ Next1 /\ UNCHANGED <<mark, response>>
      <3>1. PICK n : n = hp.content_length * 16 + unhex(ch)
        OBVIOUS
      <3>2. unhex(ch) \in 0 .. 15
        BY <2>5, DigitValue
      <3>3. n \in 0 .. MaxLength /\ n # MaxLength
        BY <2>2, <2>5, <3>1, <3>2, HTTPAssumption
      <3>4. /\ IsParser(hp') /\ hp'.state = "s_chunk_size" /\ hp'.http_errno = "HPE_OK"
            /\ hp'.content_length = n /\ hp'.flags = hp.flags
        <4>1. hp' = [hp EXCEPT !.content_length = n]
          BY <2>5, <3>1
        <4>2. QED
          BY <2>1, <2>2, <4>1, FieldsOfParser DEF IsParser
      <3>5. "F_CHUNKED" \in hp.flags
        BY <2>1, <2>2 DEF StateFits, ChunkStates, SizeStates
      <3>6. StateFits'
        BY <3>3, <3>4, <3>5 DEF StateFits, SizeStates
      <3>7. \A f \in DOMAIN NoMarks : hp.state \notin MarkingStates[f]
        BY <2>1, MarkNames
      <3>8. QED
        BY <2>1, <2>5, <3>3, <3>4, <3>6, <3>7, ChunkStepKeeps
    <2>6. \/ \E e : e # "HPE_OK" /\ Fails(e)
          \/ Goto("s_chunk_size_almost_done") \/ Goto("s_chunk_parameters")
          \/ /\ unhex(ch) # -1 /\ ~((MaxLength - 16) \div 16 < hp.content_length)
             /\ hp' = [hp EXCEPT !.content_length = @ * 16 + unhex(ch)]
             /\ Next1 /\ UNCHANGED <<mark, response>>
      <3>1. unhex(CR) = -1 /\ unhex(";") = -1 /\ unhex(" ") = -1
        BY DEF unhex, Digits, CR
      <3>2. /\ ~At("s_chunk_size_start")
        BY <2>1 DEF At
      <3>3. QED
        BY <2>1, <3>1, <3>2 DEF s_chunk_size, CR
    <2>7. QED
      BY <2>3, <2>4, <2>5, <2>6
  <1>3. QED
    BY <1>1, <1>2 DEF s_chunk_size

\* The rest of a chunk's first line keeps it.
LEMMA ChunkHeadKeeps ==
    ASSUME ParserInv, s_chunk_parameters \/ s_chunk_size_almost_done
    PROVE  ParserInv'
  <1>1. CASE s_chunk_parameters
    <2>1. At(hp.state) /\ hp.state = "s_chunk_parameters"
      BY <1>1 DEF s_chunk_parameters, At
    <2>2. Goto("s_chunk_size_almost_done") \/ Goto("s_chunk_parameters")
      BY <1>1 DEF s_chunk_parameters
    <2>3. QED
      BY <2>1, <2>2, GotoKeeps DEF SizeStates
  <1>2. CASE s_chunk_size_almost_done
    <2>1. At(hp.state) /\ hp.state = "s_chunk_size_almost_done"
      BY <1>2 DEF s_chunk_size_almost_done, At
    <2>2. /\ IsParser(hp) /\ hp.http_errno = "HPE_OK" /\ nparsed = Running /\ UNCHANGED buffer /\ StateFits
          /\ hp.content_length \in 0 .. MaxLength
      BY <2>1, AtFacts
    <2>3. CASE Fails("HPE_STRICT")
      BY <2>2, <2>3, ErrorKeeps
    <2>4. CASE /\ hp' = [hp EXCEPT !.nread = 0,
                        !.state = IF hp.content_length = 0 THEN "s_header_field_start" ELSE "s_chunk_data",
                        !.flags = IF hp.content_length = 0 THEN @ \cup {"F_TRAILING"} ELSE @]
               /\ Next1 /\ UNCHANGED <<mark, response>>
      <3>1. PICK s, fl : /\ s = IF hp.content_length = 0 THEN "s_header_field_start" ELSE "s_chunk_data"
                         /\ fl = IF hp.content_length = 0 THEN hp.flags \cup {"F_TRAILING"} ELSE hp.flags
        OBVIOUS
      <3>2. hp' = [hp EXCEPT !.nread = 0, !.state = s, !.flags = fl]
        BY <2>4, <3>1
      <3>3. /\ IsParser(hp') /\ hp'.state = s /\ hp'.http_errno = "HPE_OK"
            /\ hp'.content_length = hp.content_length /\ hp'.flags = fl
        BY <2>2, <3>2, FieldsOfParser DEF IsParser
      <3>4. "F_CHUNKED" \in hp.flags /\ hp.content_length # MaxLength
        BY <2>1, <2>2 DEF StateFits, ChunkStates, SizeStates
      <3>5. StateFits'
        BY <3>1, <3>3, <3>4 DEF StateFits, SizeStates, ChunkStates
      <3>6. \A f \in DOMAIN NoMarks : hp.state \notin MarkingStates[f]
        BY <2>1, MarkNames
      <3>7. QED
        BY <2>1, <2>2, <2>4, <3>3, <3>5, <3>6, ChunkStepKeeps
    <2>5. QED
      BY <1>2, <2>3, <2>4 DEF s_chunk_size_almost_done
  <1>3. QED
    BY <1>1, <1>2

\* The data of a chunk keep it.
LEMMA ChunkDataKeeps ==
    ASSUME ParserInv, s_chunk_data
    PROVE  ParserInv'
  <1>1. At(hp.state) /\ hp.state = "s_chunk_data"
    BY DEF s_chunk_data, At
  <1>2. /\ IsParser(hp) /\ hp.http_errno = "HPE_OK" /\ hp.content_length \in 0 .. MaxLength /\ StateFits
    BY <1>1, AtFacts
  <1>3. hp.content_length # 0 /\ "F_CHUNKED" \in hp.flags
    BY <1>1, <1>2 DEF StateFits, ChunkStates
  <1>4. PICK remains, n, s : /\ remains = hp.content_length - ToRead /\ n = ToRead
                          /\ s = IF hp.content_length = ToRead THEN "s_chunk_data_almost_done" ELSE hp.state
    OBVIOUS
  <1>5. remains \in 0 .. MaxLength - 1 /\ p + n \in p .. end + 1 /\ n \in 1 .. hp.content_length
    BY <1>1, <1>3, <1>4, ReadsInBuffer
  <1>6. s = IF remains = 0 THEN "s_chunk_data_almost_done" ELSE "s_chunk_data"
    BY <1>1, <1>2, <1>4, <1>5
  <1>7. /\ hp' = [hp EXCEPT !.content_length = remains, !.state = s]
        /\ p' = p + n /\ fresh' = TRUE /\ mark' = MARK("body") /\ nparsed' = nparsed
    BY <1>4 DEF s_chunk_data
  <1>8. /\ IsParser(hp') /\ hp'.state = s /\ hp'.http_errno = "HPE_OK"
        /\ hp'.content_length = remains /\ hp'.flags = hp.flags
    BY <1>2, <1>7, FieldsOfParser DEF IsParser
  <1>9. remains \in 0 .. MaxLength /\ remains # MaxLength
    BY <1>5, HTTPAssumption
  <1>10. StateFits'
    BY <1>3, <1>6, <1>8, <1>9 DEF StateFits, SizeStates
  <1>11. "body" \in DOMAIN NoMarks /\ hp'.state \in MarkingStates["body"]
         /\ \A g \in DOMAIN NoMarks \ {"body"} : hp.state \notin MarkingStates[g]
    BY <1>1, <1>6, <1>8, MarkNames
  <1>12. QED
    BY <1>1, <1>5, <1>7, <1>8, <1>9, <1>10, <1>11, MarkedKeeps

\* The end of a chunk keeps it.
LEMMA ChunkEndKeeps ==
    ASSUME ParserInv, s_chunk_data_almost_done \/ s_chunk_data_done
    PROVE  ParserInv'
  <1>1. CASE s_chunk_data_almost_done
    <2>1. At(hp.state) /\ hp.state = "s_chunk_data_almost_done"
      BY <1>1 DEF s_chunk_data_almost_done, At
    <2>2. /\ IsParser(hp) /\ hp.http_errno = "HPE_OK" /\ nparsed = Running /\ UNCHANGED buffer /\ StateFits
          /\ hp.content_length \in 0 .. MaxLength /\ p + 1 \in p .. end + 1
      BY <2>1, AtFacts
    <2>3. CASE Fails("HPE_STRICT")
      BY <2>2, <2>3, ErrorKeeps
    <2>4. CASE Report("body", "s_chunk_data_done")
      <3>1. /\ hp' = [hp EXCEPT !.state = "s_chunk_data_done"] /\ p' = p + 1 /\ fresh' /\ nparsed' = nparsed
            /\ mark' = [mark EXCEPT !["body"] = 0]
        BY <2>4 DEF Report, UPDATE_STATE, Next1
      <3>2. /\ IsParser(hp') /\ hp'.state = "s_chunk_data_done" /\ hp'.http_errno = "HPE_OK"
            /\ hp'.content_length = hp.content_length /\ hp'.flags = hp.flags
        BY <2>2, <3>1, FieldsOfParser DEF IsParser
      <3>3. "F_CHUNKED" \in hp.flags
        BY <2>1, <2>2 DEF StateFits, ChunkStates
      <3>4. StateFits' /\ \A g \in DOMAIN NoMarks : hp'.state \notin MarkingStates[g]
        <4>1. StateFits'
          BY <3>2, <3>3 DEF StateFits, SizeStates
        <4>2. QED
          BY <4>1, <3>2, MarkNames
      <3>5. "body" \in DOMAIN NoMarks /\ hp.state \in MarkingStates["body"]
        BY <2>1, MarkNames
      <3>6. QED
        BY <2>1, <2>2, <3>1, <3>2, <3>4, <3>5, ReportedKeeps
    <2>5. QED
      BY <1>1, <2>3, <2>4 DEF s_chunk_data_almost_done
  <1>2. CASE s_chunk_data_done
    <2>1. At(hp.state) /\ hp.state = "s_chunk_data_done"
      BY <1>2 DEF s_chunk_data_done, At
    <2>2. /\ IsParser(hp) /\ hp.http_errno = "HPE_OK" /\ nparsed = Running /\ UNCHANGED buffer /\ StateFits
          /\ hp.content_length \in 0 .. MaxLength
      BY <2>1, AtFacts
    <2>3. CASE Fails("HPE_STRICT")
      BY <2>2, <2>3, ErrorKeeps
    <2>4. CASE /\ hp' = [hp EXCEPT !.nread = 0, !.state = "s_chunk_size_start"]
               /\ Next1 /\ UNCHANGED <<mark, response>>
      <3>1. /\ IsParser(hp') /\ hp'.state = "s_chunk_size_start" /\ hp'.http_errno = "HPE_OK"
            /\ hp'.content_length = hp.content_length /\ hp'.flags = hp.flags /\ hp'.nread = 0
        BY <2>2, <2>4, FieldsOfParser DEF IsParser
      <3>2. "F_CHUNKED" \in hp.flags /\ fresh'
        BY <2>1, <2>2, <2>4 DEF StateFits, ChunkStates, Next1
      <3>3. StateFits'
        BY <3>1, <3>2 DEF StateFits, SizeStates
      <3>4. \A f \in DOMAIN NoMarks : hp.state \notin MarkingStates[f]
        BY <2>1, MarkNames
      <3>5. QED
        BY <2>1, <2>2, <2>4, <3>1, <3>3, <3>4, ChunkStepKeeps
    <2>5. QED
      BY <1>2, <2>3, <2>4 DEF s_chunk_data_done
  <1>3. QED
    BY <1>1, <1>2

(* All of it.                                                              *)

\* Every pass of the loop keeps it.
LEMMA ParseKeeps ==
    ASSUME ParserInv, Parse
    PROVE  ParserInv'
  BY NextCharacterKeeps, EndOfBufferKeeps, StatusLineKeeps, VersionKeeps, StatusCodeKeeps, StatusKeeps,
     FieldStartKeeps, FieldNameKeeps, DiscardKeeps, ValueKeeps, LineEndKeeps, HeadersEndKeeps,
     HeadersDoneKeeps, BodyKeeps, BodyEndKeeps, ChunkSizeKeeps, ChunkHeadKeeps, ChunkDataKeeps,
     ChunkEndKeeps
     DEF Parse

\* A new parser fits.
LEMMA NewParserFits ==
    ASSUME hp' = http_parser_init, mark' = NoMarks, nparsed' = 0, end' = 0
    PROVE  ParserInv'
  <1>1. IsParser(http_parser_init)
    BY DEF IsParser, ParserFields, http_parser_init
  <1>2. hp'.content_length \in 0 .. MaxLength /\ StateFits'
    BY HTTPAssumption DEF StateFits, http_parser_init, ChunkStates, SizeStates
  <1>3. NoMarks = [f \in DOMAIN NoMarks |-> NoMarks[f]]
    BY DEF NoMarks
  <1>4. QED
    BY <1>1, <1>2, <1>3 DEF ParserInv, Running

\* A call of http_parser_execute keeps it.
LEMMA ExecuteKeeps ==
    ASSUME ParserInv, NEW n \in Nat, execute(n)
    PROVE  ParserInv'
  <1>1. nparsed # Running /\ end \in Nat /\ IsParser(hp) /\ hp.content_length \in 0 .. MaxLength
    BY DEF execute, ParserInv
  <1>2. data' = end + 1 /\ end' = end + n /\ p' = end + 1 /\ fresh' = TRUE /\ hp' = hp
    BY DEF execute
  <1>3. CASE hp.http_errno # "HPE_OK"
    <2>1. nparsed' # Running /\ mark' = mark
      BY <1>3 DEF execute, Running
    <2>2. QED
      BY <1>1, <1>2, <1>3, <2>1 DEF ParserInv
  <1>4. CASE hp.http_errno = "HPE_OK"
    <2>1. /\ nparsed' = Running
          /\ mark' = IF hp.state \in DOMAIN MarkedState
                     THEN [NoMarks EXCEPT ![MarkedState[hp.state]] = end + 1] ELSE NoMarks
      BY <1>4 DEF execute
    <2>2. BufferFits'
      BY <1>1, <1>2 DEF BufferFits
    <2>3. StateFits'
      BY <1>1, <1>2, <1>4, <2>1 DEF ParserInv, StateFits
    <2>4. /\ \A f \in DOMAIN NoMarks : NoMarks[f] = 0
          /\ NoMarks = [f \in DOMAIN NoMarks |-> NoMarks[f]]
      BY DEF NoMarks
    <2>5. CASE hp.state \notin DOMAIN MarkedState
      <3>1. MarksFit'
        BY <2>1, <2>4, <2>5 DEF MarksFit
      <3>2. QED
        BY <1>1, <1>2, <1>4, <2>1, <2>2, <2>3, <2>4, <2>5, <3>1 DEF ParserInv
    <2>6. CASE hp.state \in DOMAIN MarkedState
      <3>1. PICK f : f = MarkedState[hp.state]
        OBVIOUS
      <3>2. f \in DOMAIN NoMarks /\ hp.state \in MarkingStates[f]
        BY <2>6, <3>1, MarkNames DEF MarkedState
      <3>3. mark' = [NoMarks EXCEPT ![f] = end + 1]
        BY <2>1, <2>6, <3>1
      <3>4. /\ DOMAIN mark' = DOMAIN NoMarks /\ mark' = [g \in DOMAIN NoMarks |-> mark'[g]]
            /\ \A g \in DOMAIN NoMarks \ {f} : mark'[g] = 0
        BY <2>4, <3>2, <3>3
      <3>5. MarksFit'
        BY <1>2, <3>2, <3>4 DEF MarksFit
      <3>6. QED
        BY <1>1, <1>2, <1>4, <2>1, <2>2, <2>3, <3>4, <3>5 DEF ParserInv
    <2>7. QED
      BY <2>5, <2>6
  <1>5. QED
    BY <1>3, <1>4

\* The end of a response keeps it.
LEMMA FinishKeeps ==
    ASSUME ParserInv, finish
    PROVE  ParserInv'
  <1>1. /\ nparsed # Running /\ end' = end /\ mark' = mark /\ nparsed' = nparsed /\ fresh' = fresh
        /\ hp' = hp \/ hp' = [hp EXCEPT !.http_errno = "HPE_INVALID_EOF_STATE"]
    BY DEF finish, buffer
  <1>2. CASE hp' = hp
    BY <1>1, <1>2 DEF ParserInv, StateFits
  <1>3. CASE hp' = [hp EXCEPT !.http_errno = "HPE_INVALID_EOF_STATE"]
    <2>1. /\ IsParser(hp') /\ hp'.http_errno = "HPE_INVALID_EOF_STATE"
          /\ hp'.content_length = hp.content_length
      BY <1>3, FieldsOfParser DEF ParserInv, IsParser
    <2>2. QED
      BY <1>1, <2>1 DEF ParserInv
  <1>4. QED
    BY <1>1, <1>2, <1>3

\* A step that leaves the parser alone keeps it.
LEMMA ParserRests ==
    ASSUME ParserInv, UNCHANGED parserVars
    PROVE  ParserInv'
  <1>1. hp' = hp /\ mark' = mark /\ nparsed' = nparsed /\ fresh' = fresh /\ end' = end /\ data' = data /\ p' = p
    BY DEF parserVars, buffer
  <1>2. StateFits' = StateFits /\ BufferFits' = BufferFits /\ MarksFit' = MarksFit
    BY <1>1 DEF StateFits, BufferFits, MarksFit
  <1>3. QED
    BY <1>1, <1>2 DEF ParserInv

\* Every step of the client keeps the invariant.
LEMMA ParserStep ==
    ASSUME ParserInv, [RequestNext]_requestVars
    PROVE  ParserInv'
  <1>1. CASE \E h \in HeaderPairs : set_header(h[1], h[2])
    BY <1>1, ParserRests DEF set_header
  <1>2. CASE \E b \in Bodies : send(b)
    BY <1>2, ParserRests DEF send
  <1>3. CASE connect
    BY <1>3, ParserRests DEF connect
  <1>4. CASE Sent
    <2>1. CASE BodyLoop
      BY <2>1, ParserRests DEF BodyLoop
    <2>2. CASE SendsEnding
      BY <2>2, ParserRests DEF SendsEnding
    <2>3. CASE CreatesResponse
      BY <2>3, NewParserFits DEF CreatesResponse
    <2>4. QED
      BY <1>4, <2>1, <2>2, <2>3 DEF Sent
  <1>5. CASE \E k \in 1 .. Len(pending) : SocketTakes(k)
    BY <1>5, ParserRests DEF SocketTakes
  <1>6. CASE SocketTakesNothing \/ SocketFails
    BY <1>6, ParserRests DEF SocketTakesNothing, SocketFails
  <1>7. CASE Parses
    BY <1>7, ParseKeeps DEF Parses
  <1>8. CASE Parsed
    BY <1>8, ParserRests DEF Parsed
  <1>9. CASE Finish
    BY <1>9, FinishKeeps DEF Finish
  <1>10. CASE Arrives
    <2>1. PICK n \in 1 .. HTTP_RECEIVE_BUFFER_SIZE : recv(n)
      BY <1>10 DEF Arrives
    <2>2. n \in Nat /\ execute(n)
      BY <2>1, RequestAssumption DEF recv
    <2>3. QED
      BY <2>2, ExecuteKeeps
  <1>11. CASE \E r \in {0, -1} : recvEnds(r)
    BY <1>11, ParserRests DEF recvEnds
  <1>12. CASE UNCHANGED requestVars
    BY <1>12, ParserRests DEF requestVars
  <1>13. QED
    BY <1>1, <1>2, <1>3, <1>4, <1>5, <1>6, <1>7, <1>8, <1>9, <1>10, <1>11, <1>12
       DEF RequestNext, HTTPSClient, Network

\* At most one mark is set, since no state reads what two of them mark.
LEMMA OneMark ==
    ASSUME ParserInv, nparsed = Running
    PROVE  Cardinality(Marked) <= 1
  <1>1. \A f, g \in Marked : f = g
    <2> SUFFICES ASSUME NEW f \in Marked, NEW g \in Marked PROVE f = g
      OBVIOUS
    <2>1. f \in DOMAIN NoMarks /\ g \in DOMAIN NoMarks /\ mark[f] # 0 /\ mark[g] # 0
      BY DEF Marked, ParserInv
    <2>2. hp.state \in MarkingStates[f] /\ hp.state \in MarkingStates[g]
      BY <2>1 DEF ParserInv, MarksFit
    <2>3. QED
      BY <2>1, <2>2, MarkNames
  <1>2. CASE Marked = {}
    BY <1>2, FS_EmptySet
  <1>3. CASE Marked # {}
    <2>1. PICK f : f \in Marked
      BY <1>3
    <2>2. Marked = {f}
      BY <1>1, <2>1
    <2>3. Cardinality({f}) = 1
      BY FS_Singleton, Zenon
    <2>4. QED
      BY <2>2, <2>3
  <1>4. QED
    BY <1>2, <1>3

\* The invariant implies every assertion.
LEMMA AssertsHold == ParserInv => ParserAsserts
  <1> SUFFICES ASSUME ParserInv, nparsed = Running PROVE ParserAsserts
    BY DEF ParserAsserts
  <1>1. hp.http_errno = "HPE_OK" /\ StateFits
    BY DEF ParserInv
  <1>2. Cardinality(Marked) <= 1
    BY OneMark
  <1>3. QED
    BY <1>1, <1>2 DEF ParserAsserts, StateFits, ChunkStates, SizeStates

\* Whatever the server sends, however it is cut into buffers and wherever the
\* connection ends, each state of http_parser_execute finds what it relies on:
\* lengths below the largest number, marks of its own only, flags that fit.
THEOREM ParserInvariant == RequestSpec => []ParserInv
  <1>1. RequestInit => ParserInv
    <2> SUFFICES ASSUME RequestInit PROVE ParserInv
      OBVIOUS
    <2>1. hp = http_parser_init /\ mark = NoMarks /\ nparsed = 0 /\ end = 0
      BY DEF RequestInit, ParserInit
    <2>2. IsParser(http_parser_init)
      BY DEF IsParser, ParserFields, http_parser_init
    <2>3. hp.content_length \in 0 .. MaxLength /\ StateFits
      BY <2>1, HTTPAssumption DEF StateFits, http_parser_init, ChunkStates, SizeStates
    <2>4. NoMarks = [f \in DOMAIN NoMarks |-> NoMarks[f]]
      BY DEF NoMarks
    <2>5. QED
      BY <2>1, <2>2, <2>3, <2>4 DEF ParserInv, Running
  <1>2. ParserInv /\ [RequestNext]_requestVars => ParserInv'
    BY ParserStep
  <1>3. QED
    BY <1>1, <1>2, PTL DEF RequestSpec

\* No assertion in http_parser_execute fails, for any answer, any cuts, any
\* limits of the header and of the numbers.
THEOREM ParserAssertsHold == RequestSpec => []ParserAsserts
  BY ParserInvariant, AssertsHold, PTL

=============================================================================
