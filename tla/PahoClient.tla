----------------------------- MODULE PahoClient -----------------------------
(***************************************************************************)
(* MQTT::Client over MQTTNetwork, with a broker that keeps to MQTT: calls  *)
(* that send a packet and wait for the answer until their timer ends, the  *)
(* keep-alive between them, and a connection that may break, take half a   *)
(* packet or deliver half a packet.  Packets are records; MQTTPacket has   *)
(* their bytes.  The client is compiled with QoS 1 and without QoS 2.      *)
(***************************************************************************)
EXTENDS Integers, FiniteSets, SequencesExt

CONSTANTS MAX_MESSAGE_HANDLERS,
          MAX_PACKET_ID,
          Options,                  \* keepAliveInterval > 0 and cleansession, as a sketch asks for them
          QoSs,                     \* the QoS of the messages a sketch publishes
          Subscriptions,            \* the filters it subscribes to
          Incoming,                 \* the topics and QoS of the messages the broker publishes
          Probes,                   \* filters and names that isTopicMatched is asked about
          MaxCalls, MaxConnections, \* the calls of the client and of MQTTNetwork::connect
          MaxIncoming,              \* the messages the broker publishes
          MaxDue,                   \* how often a keep-alive timer ends
          MaxFaults                 \* broken connections and failed writes

ASSUME PahoAssumption ==
    /\ MAX_PACKET_ID \in Nat \ {0} /\ {MAX_MESSAGE_HANDLERS, MaxCalls, MaxConnections, MaxIncoming, MaxDue,
                                       MaxFaults} \subseteq Nat
    /\ QoSs \subseteq 0 .. 2 /\ Options \subseteq BOOLEAN \X BOOLEAN

VARIABLES tcpSocket,                    \* "none", "up", or "closed" by the other side
          toBroker, toClient,           \* packets under way
          isconnected, keepAliveInterval, cleansession, ping_outstanding, packetid,
          inflight,                     \* inflightMsgid, inflightQoS and pubbuf
          messageHandlers,              \* the filters of the handlers
          last_sent, last_received,     \* whether these timers have expired
          op, arg, awaited,             \* the call, and the packet that waitfor waits for
          at,                           \* "check": the loop's test, "read": in readPacket,
                                        \* "answer": the packet has come
          readbuf,
          expired,                      \* the call's timer
          unbounded,                    \* this read was given a negative timeout
          last,                         \* the call that has just returned, and its code
          delivered,                    \* the topic of a message just read, and the handlers called
          session, got, subscribed,     \* the broker's side
          torn, promised, calls, connections, incoming, dues, faults,
          probe                         \* one of Probes, which never changes

options == <<keepAliveInterval, cleansession>>
waiting == <<op, arg, awaited, at, readbuf, expired, unbounded>>
broker == <<session, got, subscribed>>
counters == <<calls, connections, incoming, dues, probe>>
pahoVars == <<tcpSocket, toBroker, toClient, isconnected, options, ping_outstanding, packetid, inflight,
              messageHandlers, last_sent, last_received, waiting, last, delivered, broker, torn,
              promised, counters, faults>>

SUCCESS == 0
FAILURE == -1
NoInflight == [id |-> 0, qos |-> 0, message |-> 0]
Junk == [type |-> "junk"]       \* bytes that are no packet
RestOf == [type |-> "rest"]     \* what is left of a packet that was read in part
NoCall == [op |-> "none", arg |-> <<>>, rc |-> 0]
NoMessage == [topic |-> <<>>, handlers |-> {}]
NoPacket == [type |-> "none"]   \* readPacket's -1, which cycle makes 65535

\* The constructor sets neither keepAliveInterval, which a yield before the first
\* connect reads, nor cleansession, which nothing reads before.
PahoInit ==
    /\ tcpSocket = "none" /\ toBroker = <<>> /\ toClient = <<>>
    /\ isconnected = FALSE /\ keepAliveInterval \in BOOLEAN /\ cleansession = FALSE
    /\ ping_outstanding = FALSE /\ packetid = 0 /\ inflight = NoInflight /\ messageHandlers = <<>>
    /\ last_sent = FALSE /\ last_received = FALSE
    /\ op = "none" /\ arg = <<>> /\ awaited = "none" /\ at = "idle"
    /\ readbuf = NoPacket /\ expired = FALSE /\ unbounded = FALSE
    /\ last = NoCall /\ delivered = NoMessage
    /\ session = "none" /\ got = {} /\ subscribed = {}
    /\ torn = FALSE /\ promised = {} /\ calls = 0 /\ connections = 0 /\ incoming = 0 /\ dues = 0 /\ faults = 0
    /\ probe \in Probes

getNext == IF packetid = MAX_PACKET_ID THEN 1 ELSE packetid + 1

(* isTopicMatched, token by token, and deliverMessage: the handlers that   *)
(* are called for a topic.                                                 *)

\* Mutation: the rest of the filter is not looked at.
BothEnd_NameOnly(filter, f, name, n) == n > Len(name)
BothEnd(filter, f, name, n) == f > Len(filter) /\ n > Len(name)
\* The end of the level at n, and the characters that cannot be passed.
LevelEnd(name, n) ==
    CHOOSE k \in n .. Len(name) :
        (\A j \in n + 1 .. k : name[j] # "/") /\ (k = Len(name) \/ name[k + 1] = "/")
Differ(x, y) == (y = "/" /\ x # "/") \/ x \notin {"+", "#", y}
isTopicMatched(filter, name) ==
    LET walk[f \in 1 .. Len(filter) + 1, n \in 1 .. Len(name) + 1] ==
            IF f > Len(filter) \/ n > Len(name) THEN BothEnd(filter, f, name, n)
            ELSE /\ ~Differ(filter[f], name[n])
                 /\ walk[f + 1, CASE filter[f] = "+" -> LevelEnd(name, n) + 1
                                  [] filter[f] = "#" -> Len(name) + 1
                                  [] OTHER -> n + 1]
    IN  walk[1, 1]
deliverMessage(handlers, name) ==
    { i \in DOMAIN handlers : handlers[i] = name \/ isTopicMatched(handlers[i], name) }

(* sendPacket.  After a short write it offers the whole length again, so   *)
(* that the broker may get too much and the call too high a count; with    *)
(* its timer expired it writes nothing.  What is written to a connection   *)
(* that is closed is lost.                                                 *)

sendPacket(p, late) ==
    (IF late \/ tcpSocket = "none" THEN {}
     ELSE {[ok |-> TRUE, wire |-> IF tcpSocket = "up" THEN Append(toBroker, p) ELSE <<>>, faults |-> faults]})
    \cup (IF late \/ tcpSocket # "up" THEN {[ok |-> FALSE, wire |-> toBroker, faults |-> faults]}
          ELSE IF faults = MaxFaults THEN {}
          ELSE { [ok |-> FALSE, wire |-> toBroker \o w, faults |-> faults + 1] :
                    w \in {<<>>, <<Junk>>, <<p, Junk>>} })
Wrote(s) ==
    /\ toBroker' = s.wire /\ faults' = s.faults
    /\ last_sent' = (last_sent /\ ~(s.ok /\ keepAliveInterval'))

(* How a call waits and how it returns.                                    *)

Calls == op = "none" /\ calls < MaxCalls /\ calls' = calls + 1
Waits(o, a, packet_type) ==
    /\ op' = o /\ arg' = a /\ awaited' = packet_type /\ at' = "check"
    /\ readbuf' = NoPacket /\ last' = NoCall /\ UNCHANGED <<expired, unbounded>>
Returns_(o, a, rc) ==
    /\ op' = "none" /\ arg' = <<>> /\ awaited' = "none" /\ at' = "idle" /\ readbuf' = NoPacket
    /\ expired' = FALSE /\ unbounded' = FALSE /\ last' = [op |-> o, arg |-> a, rc |-> rc]

(* The calls.                                                              *)

MQTTconnect(ka, clean) ==
    /\ Calls
    /\ IF isconnected
       THEN /\ Returns_("connect", <<>>, FAILURE)
            /\ UNCHANGED <<options, toBroker, faults, last_sent, last_received>>
       ELSE /\ keepAliveInterval' = ka /\ cleansession' = clean
            /\ \E s \in sendPacket([type |-> "CONNECT"], FALSE) :
                  /\ Wrote(s)
                  /\ IF s.ok THEN /\ Waits("connect", <<>>, "CONNACK")
                                  /\ last_received' = (last_received /\ ~ka)
                     ELSE Returns_("connect", <<>>, FAILURE) /\ UNCHANGED last_received
    /\ UNCHANGED <<tcpSocket, toClient, isconnected, ping_outstanding, packetid, inflight,
                   messageHandlers, delivered, broker, torn, promised, connections, incoming, dues, probe>>

\* publish(len, timer, qos): a message that fails ends the connection.
Publication(m) == [type |-> "PUBLISH", id |-> m.id, qos |-> m.qos, message |-> m.message]

\* Mutation: a failed publication keeps the connection.
StillConnected_Kept(o, rc) == isconnected \/ (o = "connect" /\ rc = SUCCESS)
StillConnected(o, rc) == rc = SUCCESS /\ (isconnected \/ o = "connect")
SendsPublication(o, m, late) ==
    \E s \in sendPacket(Publication(m), late) :
        LET rc == IF s.ok THEN SUCCESS ELSE FAILURE
        IN  /\ Wrote(s)
            /\ IF s.ok /\ m.qos = 1
               THEN Waits(o, <<m>>, "PUBACK") /\ UNCHANGED isconnected
               ELSE Returns_(o, <<m>>, rc) /\ isconnected' = StillConnected(o, rc)
MQTTpublish(qos) ==
    LET m == [id |-> IF qos = 0 THEN 0 ELSE getNext, qos |-> qos, message |-> calls + 1]
    IN  /\ Calls
        /\ IF isconnected
           THEN /\ packetid' = (IF qos = 0 THEN packetid ELSE getNext)
                /\ inflight' = (IF cleansession THEN inflight ELSE IF qos = 0 THEN NoInflight ELSE m)
                /\ UNCHANGED options /\ SendsPublication("publish", m, FALSE)
                /\ promised' = promised \cup (IF qos = 1 /\ ~cleansession THEN {m.message} ELSE {})
           ELSE /\ Returns_("publish", <<m>>, FAILURE)
                /\ UNCHANGED <<isconnected, packetid, inflight, toBroker, faults, last_sent, promised,
                               options>>
        /\ UNCHANGED <<tcpSocket, toClient, ping_outstanding, messageHandlers, last_received,
                       delivered, broker, torn, connections, incoming, dues, probe>>

\* subscribe and unsubscribe, as far as the wait.
Asks(o, filter, packet_type) ==
    /\ Calls
    /\ \/ /\ ~isconnected /\ Returns_(o, <<filter>>, FAILURE)
          /\ UNCHANGED <<isconnected, packetid, toBroker, faults, last_sent, keepAliveInterval>>
       \/ /\ isconnected /\ packetid' = getNext /\ keepAliveInterval' = keepAliveInterval
          /\ \E s \in sendPacket([type |-> packet_type, id |-> getNext, filter |-> filter], FALSE) :
                /\ Wrote(s)
                /\ IF s.ok
                   THEN /\ Waits(o, <<filter>>, IF o = "subscribe" THEN "SUBACK" ELSE "UNSUBACK")
                        /\ UNCHANGED isconnected
                   ELSE Returns_(o, <<filter>>, FAILURE) /\ isconnected' = FALSE
    /\ UNCHANGED <<tcpSocket, toClient, cleansession, ping_outstanding, inflight, messageHandlers,
                   last_received, delivered, broker, torn, promised, connections, incoming, dues, probe>>
MQTTsubscribe(filter) == Asks("subscribe", filter, "SUBSCRIBE")
MQTTunsubscribe(filter) == Asks("unsubscribe", filter, "UNSUBSCRIBE")

MQTTyield ==
    /\ Calls /\ Waits("yield", <<>>, "nothing")
    /\ UNCHANGED <<tcpSocket, toBroker, toClient, isconnected, options, ping_outstanding, packetid,
                   inflight, messageHandlers, last_sent, last_received, delivered, broker, torn,
                   promised, connections, incoming, dues, probe, faults>>

MQTTdisconnect ==
    /\ Calls
    /\ \E s \in sendPacket([type |-> "DISCONNECT"], FALSE) :
          /\ keepAliveInterval' = keepAliveInterval /\ Wrote(s)
          /\ Returns_("disconnect", <<>>, IF s.ok THEN SUCCESS ELSE FAILURE)
    /\ isconnected' = FALSE
    /\ UNCHANGED <<tcpSocket, toClient, cleansession, ping_outstanding, packetid, inflight,
                   messageHandlers, last_received, delivered, broker, torn, promised, connections,
                   incoming, dues, probe>>

(* The wait: waitfor and yield test their timer, cycle reads a packet.     *)

\* The timer has ended: what was waited for has not come.
GivesUp ==
    CASE op = "connect" /\ awaited = "CONNACK" /\ inflight # NoInflight ->
           SendsPublication("connect", inflight, TRUE)
      [] op = "yield" ->
           Returns_("yield", <<>>, SUCCESS) /\ UNCHANGED <<isconnected, toBroker, faults, last_sent>>
      [] OTHER ->
           /\ Returns_(op, arg, FAILURE) /\ isconnected' = FALSE
           /\ UNCHANGED <<toBroker, faults, last_sent>>

\* Mutation: the timer is not tested.
TimedOut_Never == FALSE
TimedOut == expired
LoopTest ==
    /\ at = "check" /\ delivered' = NoMessage /\ UNCHANGED options
    /\ \/ TimedOut /\ GivesUp
       \/ /\ ~TimedOut /\ at' = "read"
          /\ \/ unbounded' = FALSE /\ expired' = expired
             \/ unbounded' = TRUE /\ expired' = TRUE  \* it ended before left_ms() was called
          /\ UNCHANGED <<op, arg, awaited, readbuf, last, isconnected, toBroker, faults, last_sent>>
    /\ UNCHANGED <<tcpSocket, toClient, inflight, ping_outstanding, packetid, messageHandlers,
                   last_received, broker, torn, promised, counters>>

\* The rest of cycle, with the packet that was read: a message is delivered and
\* acknowledged; then keepalive, whose ping has a timer of its own; then the loop.
Goes(p, late) ==
    /\ IF p.type = awaited THEN at' = "answer" /\ readbuf' = p ELSE at' = "check" /\ readbuf' = NoPacket
    /\ expired' = late /\ unbounded' = FALSE /\ UNCHANGED <<op, arg, awaited, last>>
Acknowledges(p, late) ==
    \E s \in sendPacket([type |-> IF p.qos = 1 THEN "PUBACK" ELSE "PUBREC", id |-> p.id], late) :
        /\ Wrote(s) /\ UNCHANGED ping_outstanding
        /\ IF s.ok \/ op # "yield" THEN Goes(p, late) ELSE Returns_("yield", <<>>, FAILURE)
keepalive(p, late) ==
    LET pinged == ping_outstanding /\ p.type # "PINGRESP"
    IN  /\ Goes(p, late)
        /\ IF keepAliveInterval /\ (last_sent \/ last_received') /\ ~pinged
           THEN \E s \in sendPacket([type |-> "PINGREQ"], FALSE) : Wrote(s) /\ ping_outstanding' = s.ok
           ELSE ping_outstanding' = pinged /\ UNCHANGED <<toBroker, last_sent, faults>>
cycle(p, late) ==
    /\ UNCHANGED options
    /\ delivered' = (IF p.type # "PUBLISH" THEN NoMessage
                     ELSE [topic |-> p.topic, handlers |-> deliverMessage(messageHandlers, p.topic)])
    /\ IF p.type = "PUBLISH" /\ p.qos > 0 THEN Acknowledges(p, late) ELSE keepalive(p, late)
    /\ UNCHANGED <<tcpSocket, isconnected, packetid, inflight, messageHandlers, broker, promised,
                   counters>>
Received == last_received' = (last_received /\ ~keepAliveInterval)

\* readPacket: a packet; nothing, because the connection is closed or the time is
\* up; a part of one, when the time is up; or, from then on, whatever the bytes
\* that follow look like.
JunkPackets ==
    [type : {"CONNACK", "PUBLISH", "PUBACK", "SUBACK", "UNSUBACK", "PINGRESP", "none"}, id : {1},
     qos : {1}, rc : {0}, granted : {0}, topic : { m[1] : m \in Incoming }]
readPacket ==
    /\ at = "read" /\ toClient # <<>> /\ Head(toClient) # RestOf
    /\ toClient' = Tail(toClient) /\ Received /\ torn' = torn
    /\ cycle(Head(toClient), expired)
readNothing ==
    /\ at = "read" /\ toClient = <<>>
    /\ UNCHANGED <<toClient, last_received, torn>>
    /\ \/ tcpSocket # "up" /\ cycle(NoPacket, expired)
       \/ tcpSocket = "up" /\ ~unbounded /\ cycle(NoPacket, TRUE)
readPart ==
    /\ at = "read" /\ toClient # <<>> /\ Head(toClient) # RestOf /\ ~unbounded /\ ~torn
    /\ toClient' = <<RestOf>> \o Tail(toClient) /\ torn' = TRUE
    /\ last_received' = last_received /\ cycle(NoPacket, TRUE)
readRest ==
    /\ at = "read" /\ toClient # <<>> /\ Head(toClient) = RestOf
    /\ torn' = torn
    /\ \/ toClient' = Tail(toClient)
       \/ Len(toClient) > 1 /\ toClient' = <<RestOf>> \o Tail(Tail(toClient))
    /\ \E p \in JunkPackets :
          (IF p.type = "none" THEN UNCHANGED last_received ELSE Received) /\ cycle(p, expired)

\* Mutation: a refusal counts as a connection.
ConnackCode_Ignored(p) == SUCCESS

\* The call goes on with the packet it waited for.
ConnackCode(p) == p.rc
Subscribed(p) ==
    LET granted == p.granted # 128
        room == Len(messageHandlers) < MAX_MESSAGE_HANDLERS
    IN  /\ messageHandlers' = (IF granted /\ room THEN Append(messageHandlers, arg[1]) ELSE messageHandlers)
        /\ Returns_(op, arg, IF granted /\ room THEN SUCCESS ELSE p.granted)
        /\ isconnected' = (isconnected /\ last'.rc = SUCCESS)
        /\ UNCHANGED <<inflight, toBroker, faults, last_sent>>
Answered(p) ==
    CASE awaited = "CONNACK" /\ inflight = NoInflight ->
           /\ Returns_("connect", <<>>, ConnackCode(p)) /\ isconnected' = (ConnackCode(p) = SUCCESS)
           /\ UNCHANGED <<inflight, messageHandlers, toBroker, faults, last_sent>>
      [] awaited = "CONNACK" /\ inflight # NoInflight ->
           SendsPublication("connect", inflight, expired) /\ UNCHANGED <<inflight, messageHandlers>>
      [] awaited = "PUBACK" ->
           /\ inflight' = (IF inflight.id = p.id THEN NoInflight ELSE inflight)
           /\ Returns_(op, arg, SUCCESS) /\ isconnected' = StillConnected(op, SUCCESS)
           /\ UNCHANGED <<messageHandlers, toBroker, faults, last_sent>>
      [] awaited = "SUBACK" -> Subscribed(p)
      [] awaited = "UNSUBACK" ->
           /\ Returns_(op, arg, SUCCESS)
           /\ UNCHANGED <<isconnected, inflight, messageHandlers, toBroker, faults, last_sent>>
Answer ==
    /\ at = "answer" /\ UNCHANGED options /\ Answered(readbuf)
    /\ UNCHANGED <<tcpSocket, toClient, ping_outstanding, packetid, last_received, delivered, broker,
                   torn, promised, counters>>

(* MQTTNetwork: a connection is opened when there is no socket; a socket   *)
(* whose connection is closed counts as one.                               *)

client == <<isconnected, options, ping_outstanding, packetid, inflight, messageHandlers, last_sent,
            last_received, delivered, promised, calls>>
netConnect ==
    /\ op = "none" /\ tcpSocket = "none" /\ connections < MaxConnections /\ connections' = connections + 1
    /\ \/ tcpSocket' = "up" /\ toBroker' = <<>> /\ toClient' = <<>> /\ session' = "none"
       \/ UNCHANGED <<tcpSocket, toBroker, toClient, session>>
    /\ last' = [op |-> "network", arg |-> <<>>, rc |-> 0]
    /\ UNCHANGED <<client, waiting, got, subscribed, torn, incoming, dues, probe, faults>>
netDisconnect ==
    /\ op = "none" /\ tcpSocket # "none" /\ tcpSocket' = "none" /\ toBroker' = <<>> /\ toClient' = <<>>
    /\ last' = [op |-> "network", arg |-> <<>>, rc |-> 0]
    /\ UNCHANGED <<client, waiting, broker, torn, connections, incoming, dues, probe, faults>>

(* Time, and the broker.                                                   *)

Expires ==
    /\ op # "none" /\ ~expired /\ expired' = TRUE
    /\ UNCHANGED <<tcpSocket, toBroker, toClient, client, op, arg, awaited, at, readbuf, unbounded, last,
                   broker, torn, connections, incoming, dues, probe, faults>>
\* These timers are looked at after a read only.
KeepAliveDue ==
    /\ at = "read" /\ keepAliveInterval /\ dues < MaxDue /\ dues' = dues + 1
    /\ \/ ~last_sent /\ last_sent' = TRUE /\ last_received' = last_received
       \/ ~last_received /\ last_received' = TRUE /\ last_sent' = last_sent
    /\ UNCHANGED <<tcpSocket, toBroker, toClient, isconnected, options, ping_outstanding, packetid,
                   inflight, messageHandlers, delivered, promised, waiting, last, broker, torn,
                   calls, connections, incoming, probe, faults>>

Closes == tcpSocket' = "closed" /\ UNCHANGED <<toClient, session, got, subscribed>>
Replies(p) == tcpSocket' = tcpSocket /\ toClient' = Append(toClient, p)
BrokerTakes ==
    LET p == Head(toBroker)
    IN  /\ tcpSocket = "up" /\ toBroker # <<>>
        /\ CASE p.type = "CONNECT" /\ session = "none" ->
                  /\ \/ Replies([type |-> "CONNACK", rc |-> 0]) /\ session' = "accepted"
                     \/ /\ tcpSocket' = "closed" /\ toClient' = Append(toClient, [type |-> "CONNACK", rc |-> 5])
                        /\ session' = "refused"
                  /\ UNCHANGED <<got, subscribed>>
             [] p.type = "PUBLISH" /\ session = "accepted" ->
                  /\ got' = got \cup {p.message} /\ UNCHANGED <<session, subscribed>>
                  /\ IF p.qos = 0 THEN UNCHANGED <<tcpSocket, toClient>>
                     ELSE Replies([type |-> IF p.qos = 1 THEN "PUBACK" ELSE "PUBREC", id |-> p.id])
             [] p.type = "SUBSCRIBE" /\ session = "accepted" ->
                  /\ UNCHANGED <<session, got>>
                  /\ \E g \in {0, 1, 128} :
                        /\ Replies([type |-> "SUBACK", id |-> p.id, granted |-> g])
                        /\ subscribed' = IF g = 128 THEN subscribed ELSE subscribed \cup {p.filter}
             [] p.type = "UNSUBSCRIBE" /\ session = "accepted" ->
                  /\ Replies([type |-> "UNSUBACK", id |-> p.id]) /\ UNCHANGED <<session, got>>
                  /\ subscribed' = subscribed \ {p.filter}
             [] p.type = "PINGREQ" /\ session = "accepted" ->
                  Replies([type |-> "PINGRESP"]) /\ UNCHANGED <<session, got, subscribed>>
             [] p.type \in {"PUBACK", "PUBREC"} /\ session = "accepted" ->
                  UNCHANGED <<tcpSocket, toClient, session, got, subscribed>>
             [] OTHER -> Closes
        /\ toBroker' = IF tcpSocket' = "up" THEN Tail(toBroker) ELSE <<>>
        /\ UNCHANGED <<client, waiting, last, torn, connections, incoming, dues, probe, faults>>
BrokerPublishes(topic, qos) ==
    /\ tcpSocket = "up" /\ session = "accepted" /\ subscribed # {} /\ incoming < MaxIncoming
    /\ incoming' = incoming + 1
    /\ Replies([type |-> "PUBLISH", id |-> 1, qos |-> qos, topic |-> topic])
    /\ UNCHANGED <<toBroker, client, waiting, last, broker, torn, connections, dues, probe, faults>>
ConnectionLost ==
    /\ tcpSocket = "up" /\ faults < MaxFaults /\ faults' = faults + 1
    /\ tcpSocket' = "closed" /\ toBroker' = <<>> /\ toClient' \in {toClient, <<>>}
    /\ UNCHANGED <<client, waiting, last, broker, torn, connections, incoming, dues, probe>>

MQTTThread == LoopTest \/ readPacket \/ readNothing \/ readPart \/ readRest \/ Answer
PahoNext ==
    \/ \E o \in Options : MQTTconnect(o[1], o[2])
    \/ \E q \in QoSs : MQTTpublish(q)
    \/ \E f \in Subscriptions : MQTTsubscribe(f) \/ MQTTunsubscribe(f)
    \/ MQTTyield \/ MQTTdisconnect \/ MQTTThread
    \/ netConnect \/ netDisconnect \/ Expires \/ KeepAliveDue
    \/ BrokerTakes \/ (\E m \in Incoming : BrokerPublishes(m[1], m[2])) \/ ConnectionLost

\* The calling thread runs and time passes; the broker may do nothing.
PahoFair == WF_pahoVars(MQTTThread) /\ WF_pahoVars(Expires)
PahoSpec == PahoInit /\ [][PahoNext]_pahoVars /\ PahoFair

-----------------------------------------------------------------------------

(* A call that reports success has had its effect: after connect the       *)
(* broker has accepted the session, after publish at QoS 1 it has the      *)
(* message, after subscribe and unsubscribe it knows the filter or has     *)
(* forgotten it; an answer that comes late, after the call that asked for  *)
(* it gave up, is never taken for the answer to a later call.  (As long as *)
(* no packet was read in part: from then on any bytes pass for an answer.) *)
SuccessMeansDone ==
    op = "none" /\ last.rc = SUCCESS /\ ~torn =>
        /\ last.op = "connect" => session = "accepted"
        /\ last.op = "publish" /\ last.arg[1].qos = 1 => last.arg[1].message \in got
        /\ last.op = "subscribe" => last.arg[1] \in subscribed
        /\ last.op = "unsubscribe" => last.arg[1] \notin subscribed

(* A message published at QoS 1 without a clean session is never given up: *)
(* until the broker has it, it is the one kept for the next connect,       *)
(* whatever else is published, refused or broken in between.               *)
InflightKept == ~torn => \A m \in promised : m \in got \/ inflight.message = m

(* Why SuccessMeansDone and InflightKept hold.  What is under way between  *)
(* client and broker, at every point of a call:                            *)

\* What the client may ask in a packet, and what the broker may answer.
FromClient ==
    [type : {"CONNECT", "DISCONNECT", "PINGREQ", "junk"}]
        \cup [type : {"PUBLISH"}, id : Nat, qos : 0 .. 2, message : Nat]
        \cup [type : {"SUBSCRIBE", "UNSUBSCRIBE"}, id : Nat, filter : Subscriptions]
        \cup [type : {"PUBACK", "PUBREC"}, id : Nat]
FromBroker ==
    [type : {"PINGRESP", "rest"}] \cup [type : {"CONNACK"}, rc : {0, 5}]
        \cup [type : {"PUBACK", "PUBREC", "UNSUBACK"}, id : Nat]
        \cup [type : {"SUBACK"}, id : Nat, granted : {0, 1, 128}]
        \cup [type : {"PUBLISH"}, id : Nat, qos : { m[2] : m \in Incoming },
              topic : { m[1] : m \in Incoming }]
Message == [id : Nat, qos : 0 .. 2, message : Nat]
Answering == {"PUBACK", "SUBACK", "UNSUBACK"}
LinkTypeOK ==
    /\ tcpSocket \in {"none", "up", "closed"} /\ session \in {"none", "accepted", "refused"}
    /\ toBroker \in Seq(FromClient) /\ (tcpSocket # "up" => toBroker = <<>>)
    /\ toClient \in Seq(FromBroker) /\ (tcpSocket = "none" \/ session = "none" => toClient = <<>>)
ClientTypeOK ==
    /\ {keepAliveInterval, cleansession, torn} \subseteq BOOLEAN
    /\ packetid \in 0 .. MAX_PACKET_ID /\ calls \in Nat /\ inflight \in Message
    /\ inflight.qos \in QoSs \cup {0} /\ (inflight # NoInflight => inflight.qos # 0)
CallTypeOK ==
    /\ {isconnected, expired} \subseteq BOOLEAN
    /\ <<op, awaited>> \in {<<"none", "none">>, <<"yield", "nothing">>, <<"connect", "CONNACK">>,
                            <<"connect", "PUBACK">>, <<"publish", "PUBACK">>,
                            <<"subscribe", "SUBACK">>, <<"unsubscribe", "UNSUBACK">>}
    /\ awaited = "PUBACK" => Len(arg) = 1 /\ arg[1] \in Message /\ arg[1].qos = 1
    /\ awaited \in {"SUBACK", "UNSUBACK"} => isconnected /\ \E f \in Subscriptions : arg = <<f>>
    /\ at \in {"idle", "check", "read", "answer"} /\ (at = "idle" <=> op = "none")
    /\ at = "answer" => readbuf.type = awaited /\ awaited # "nothing"
PahoTypeOK == LinkTypeOK /\ ClientTypeOK /\ CallTypeOK

\* The packets the broker acknowledges, and the acknowledgements a call waits for.
IsRequest(p) == p.type \in {"SUBSCRIBE", "UNSUBSCRIBE"} \/ (p.type = "PUBLISH" /\ p.qos = 1)
Requests == { i \in DOMAIN toBroker : IsRequest(toBroker[i]) }
Acknowledgements == { i \in DOMAIN toClient : toClient[i].type \in Answering }
Connects == { i \in DOMAIN toBroker : toBroker[i].type = "CONNECT" }
Connacks == { i \in DOMAIN toClient : toClient[i].type = "CONNACK" }
Asking == awaited \in Answering
Welcomed == at = "answer" /\ awaited = "CONNACK"

\* A session begins once in a connection, before anything is asked: whatever is
\* sent before CONNECT ends the connection, and while its answer is on the way
\* the client asks for nothing.
SessionBegins ==
    /\ session = "none" /\ tcpSocket = "up" =>
         /\ \A i \in Connects, j \in Requests : j < i
         /\ isconnected \/ Asking => Connects = {}
    /\ Connacks # {} \/ Welcomed => Requests = {} /\ Acknowledgements = {} /\ ~isconnected /\ ~Asking
    /\ \A i, j \in Connacks : i = j
    /\ Welcomed => Connacks = {} /\ session # "none" /\ (readbuf.rc = 0 => session = "accepted")
    /\ \A i \in Connacks : toClient[i].rc = 0 => session = "accepted"

\* What the call in progress asks the broker, and what is true once it has answered.
Asked(p) ==
    CASE awaited = "PUBACK" -> p = Publication(arg[1])
      [] awaited = "SUBACK" -> p.type = "SUBSCRIBE" /\ p.filter = arg[1]
      [] awaited = "UNSUBACK" -> p.type = "UNSUBSCRIBE" /\ p.filter = arg[1]
Done(p) ==
    /\ p.type = awaited /\ session = "accepted"
    /\ awaited = "PUBACK" => arg[1].message \in got
    /\ awaited = "SUBACK" => (p.granted = 128 \/ arg[1] \in subscribed)
    /\ awaited = "UNSUBACK" => arg[1] \notin subscribed

\* Between calls of a client that is connected nothing asked for and no answer is
\* under way; during a call, only what it has asked for, once, or the answer.
OneAtATime ==
    /\ isconnected /\ ~Asking => Requests = {} /\ Acknowledgements = {}
    /\ Asking =>
         /\ isconnected \/ session # "none"
         /\ \A i, j \in Requests : i = j
         /\ \A i, j \in Acknowledgements : i = j
         /\ Requests = {} \/ Acknowledgements = {}
         /\ at = "answer" => Requests = {} /\ Acknowledgements = {} /\ Done(readbuf)
         /\ \A i \in Requests : Asked(toBroker[i])
         /\ \A i \in Acknowledgements : Done(toClient[i])

\* A message the broker may not have is the one being published, or the client is
\* not connected.
NotYetGot == promised \ got
Pending ==
    /\ NotYetGot \subseteq {inflight.message} /\ (NotYetGot # {} => inflight.qos = 1)
    /\ isconnected /\ awaited # "PUBACK" => NotYetGot = {}
    /\ awaited = "PUBACK" => NotYetGot \subseteq {arg[1].message}

\* What a call has just reported stays true.
Reported ==
    /\ op = "none" /\ last.rc = SUCCESS /\ last.op \in {"subscribe", "unsubscribe"} => isconnected
    /\ SuccessMeansDone

PacketsWhole == \A i \in DOMAIN toClient : toClient[i] # RestOf
StreamInv == ~torn => PacketsWhole /\ SessionBegins /\ OneAtATime /\ Pending
PahoInv == PahoTypeOK /\ StreamInv
PahoReportInv == PahoInv /\ (~torn => Reported)

(* A call returns when its time is up, whatever the broker does, unless    *)
(* its timer ended between the test and left_ms(): a negative timeout      *)
(* makes the read wait for ever.                                           *)
PahoCallsReturn == (op # "none") ~> (op = "none" \/ unbounded)

\* The levels of a topic, and the match as MQTT means it, a # being one level or more.
Levels(s) ==
    FoldLeft(LAMBDA levels, x : IF x = "/" THEN Append(levels, <<>>)
                                ELSE [levels EXCEPT ![Len(levels)] = Append(@, x)], << <<>> >>, s)
Matches(filter, name) ==
    LET f == Levels(filter)
        n == Levels(name)
        any == f[Len(f)] = <<"#">>
    IN  /\ IF any THEN Len(n) >= Len(f) ELSE Len(n) = Len(f)
        /\ \A i \in DOMAIN f : (any /\ i = Len(f)) \/ f[i] = <<"+">> \/ f[i] = n[i]
(* A filter matches the names that MQTT says it does, as long as no level  *)
(* of the name is empty and # need not stand for no level; and a message   *)
(* goes to those handlers and to no other.                                 *)
TopicMatched ==
    /\ isTopicMatched(probe[1], probe[2]) = Matches(probe[1], probe[2])
    /\ delivered # NoMessage =>
         delivered.handlers \subseteq
             { i \in DOMAIN messageHandlers : Matches(messageHandlers[i], delivered.topic) }

=============================================================================
