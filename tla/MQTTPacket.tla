----------------------------- MODULE MQTTPacket -----------------------------
(***************************************************************************)
(* The packets of MQTT, written into a buffer of bytes and read back from  *)
(* it: the operators of MQTTPacket.c and of the (De)Serialize files, and a *)
(* writer and a reader that meet in one buffer.                            *)
(***************************************************************************)
EXTENDS Integers, Sequences, FiniteSets

CONSTANTS Lengths,      \* remaining lengths
          Packets,      \* packets
          BufferLengths \* the sizes of the buffer

VARIABLES packet,       \* a packet that is serialized
          buflen,       \* the size of the buffer
          written,      \* what was written, or TOO_SHORT
          read          \* what was read back

packetVars == <<packet, buflen, written, read>>

MAX_NO_OF_REMAINING_LENGTH_BYTES == 4
TOO_SHORT == <<-2>>
Nothing == [type |-> "none"]
Unread == [type |-> "unread"]

msgTypes == <<"CONNECT", "CONNACK", "PUBLISH", "PUBACK", "PUBREC", "PUBREL", "PUBCOMP", "SUBSCRIBE",
              "SUBACK", "UNSUBSCRIBE", "UNSUBACK", "PINGREQ", "PINGRESP", "DISCONNECT">>
TypeNumber(t) == CHOOSE i \in DOMAIN msgTypes : msgTypes[i] = t

(* The remaining length, seven bits to a byte, the lowest first.           *)

\* Mutation: the continuation bit is not set.
MQTTPacket_encode_NoContinuation(n) ==
    LET digits[m \in Nat] == IF m < 128 THEN <<m>> ELSE <<m % 128>> \o digits[m \div 128]
    IN  digits[n]
MQTTPacket_encode(n) ==
    LET digits[m \in Nat] == IF m < 128 THEN <<m>> ELSE <<(m % 128) + 128>> \o digits[m \div 128]
    IN  digits[n]

\* The byte at i; behind what was written lies what was there before.
Byte(b, i) == IF i \in DOMAIN b THEN b[i] ELSE 0

\* From the byte at i on: the value and the number of bytes, which is one more
\* than there may be when the last of them goes on.
MQTTPacket_decode(b, i) ==
    LET ends == { k \in 1 .. MAX_NO_OF_REMAINING_LENGTH_BYTES : Byte(b, i + k - 1) < 128 }
        n == IF ends = {} THEN MAX_NO_OF_REMAINING_LENGTH_BYTES
             ELSE CHOOSE k \in ends : \A j \in ends : k <= j
        sum[k \in 0 .. n] == IF k = 0 THEN 0
                             ELSE sum[k - 1] + (Byte(b, i + k - 1) % 128) * 128 ^ (k - 1)
    IN  [value |-> sum[n], len |-> IF ends = {} THEN n + 1 ELSE n]

MQTTPacket_len(rem_len) ==
    LET n == rem_len + 1
    IN  n + (IF n < 128 THEN 1 ELSE IF n < 16384 THEN 2 ELSE IF n < 2097151 THEN 3 ELSE 4)

(* Integers and strings.  A string is a sequence of bytes.                 *)

writeInt(n) == <<(n \div 256) % 256, n % 256>>
readInt(b, i) == 256 * Byte(b, i) + Byte(b, i + 1)
writeMQTTString(s) == writeInt(Len(s)) \o s
\* The string at i, in data that ends before enddata, and the byte behind it.
readMQTTLenString(b, i, enddata) ==
    LET n == readInt(b, i)
    IN  IF enddata - i > 1 /\ i + 2 + n <= enddata
        THEN [ok |-> TRUE, string |-> [k \in 1 .. n |-> Byte(b, i + 1 + k)], next |-> i + 2 + n]
        ELSE [ok |-> FALSE, string |-> <<>>, next |-> IF enddata - i > 1 THEN i + 2 ELSE i]

\* The header byte.
Flag(x) == IF x THEN 1 ELSE 0
Header(t, dup, qos, retain) == <<Flag(retain) + 2 * qos + 8 * Flag(dup) + 16 * TypeNumber(t)>>
HeaderOf(b) ==
    [type |-> IF b[1] \div 16 \in DOMAIN msgTypes THEN msgTypes[b[1] \div 16] ELSE "none",
     dup |-> (b[1] \div 8) % 2 = 1, qos |-> (b[1] \div 2) % 4, retain |-> b[1] % 2 = 1]

(* What the serializers write behind the header and the remaining length.  *)

ConnectFlags(d) ==
    2 * Flag(d.cleansession)
        + (IF d.will = <<>> THEN 0 ELSE 4 + 8 * d.will[1].qos + 32 * Flag(d.will[1].retained))
        + 64 * Flag(d.password # <<>>) + 128 * Flag(d.username # <<>>)
\* "MQTT" and 4 for version 4, "MQIsdp" and 3 otherwise.
Protocol(version) ==
    IF version = 4 THEN writeMQTTString(<<77, 81, 84, 84>>) \o <<4>>
    ELSE writeMQTTString(<<77, 81, 73, 115, 100, 112>>) \o <<3>>
MQTTSerialize_connect(d) ==
    Protocol(d.version) \o <<ConnectFlags(d)>> \o writeInt(d.keepAlive)
        \o writeMQTTString(d.clientID)
        \o (IF d.will = <<>> THEN <<>>
            ELSE writeMQTTString(d.will[1].topic) \o writeMQTTString(d.will[1].message))
        \o (IF d.username = <<>> THEN <<>> ELSE writeMQTTString(d.username[1]))
        \o (IF d.password = <<>> THEN <<>> ELSE writeMQTTString(d.password[1]))
MQTTSerialize_connectLength(d) ==
    (CASE d.version = 3 -> 12 [] d.version = 4 -> 10 [] OTHER -> 0) + Len(d.clientID) + 2
        + (IF d.will = <<>> THEN 0 ELSE Len(d.will[1].topic) + 2 + Len(d.will[1].message) + 2)
        + (IF d.username = <<>> THEN 0 ELSE Len(d.username[1]) + 2)
        + (IF d.password = <<>> THEN 0 ELSE Len(d.password[1]) + 2)
MQTTSerialize_connack(d) == <<128 * Flag(d.sessionPresent), d.rc>>
MQTTSerialize_publish(d) ==
    writeMQTTString(d.topic) \o (IF d.qos > 0 THEN writeInt(d.id) ELSE <<>>) \o d.payload
MQTTSerialize_publishLength(d) == 2 + Len(d.topic) + Len(d.payload) + (IF d.qos > 0 THEN 2 ELSE 0)
MQTTSerialize_ack(d) == writeInt(d.id)

\* The filters and, for a subscription, the QoS of each.
Concat(s) == LET all[k \in 0 .. Len(s)] == IF k = 0 THEN <<>> ELSE all[k - 1] \o s[k] IN all[Len(s)]
MQTTSerialize_subscribe(d) ==
    writeInt(d.id) \o Concat([k \in DOMAIN d.filters |-> writeMQTTString(d.filters[k]) \o <<d.qoss[k]>>])
MQTTSerialize_unsubscribe(d) ==
    writeInt(d.id) \o Concat([k \in DOMAIN d.filters |-> writeMQTTString(d.filters[k])])
FilterBytes(d) == LET sum[k \in 0 .. Len(d.filters)] ==
                          IF k = 0 THEN 0 ELSE sum[k - 1] + 2 + Len(d.filters[k])
                  IN  sum[Len(d.filters)]
MQTTSerialize_subscribeLength(d) == 2 + FilterBytes(d) + Len(d.filters)
MQTTSerialize_unsubscribeLength(d) == 2 + FilterBytes(d)
MQTTSerialize_suback(d) == writeInt(d.id) \o d.granted

(* A packet in the buffer: the check of its size, which differs, and then  *)
(* the header, the remaining length and the rest.                          *)

Acks == {"PUBACK", "PUBREC", "PUBREL", "PUBCOMP", "UNSUBACK"}
Zeros == {"PINGREQ", "PINGRESP", "DISCONNECT"}
RemainingLength(d) ==
    CASE d.type = "CONNECT" -> MQTTSerialize_connectLength(d)
      [] d.type = "PUBLISH" -> MQTTSerialize_publishLength(d)
      [] d.type = "SUBSCRIBE" -> MQTTSerialize_subscribeLength(d)
      [] d.type = "UNSUBSCRIBE" -> MQTTSerialize_unsubscribeLength(d)
      [] d.type = "SUBACK" -> 2 + Len(d.granted)
      [] d.type \in Acks \cup {"CONNACK"} -> 2
      [] d.type \in Zeros -> 0
Needed(d) ==
    CASE d.type \in {"CONNECT", "PUBLISH", "SUBSCRIBE", "UNSUBSCRIBE"} -> MQTTPacket_len(RemainingLength(d))
      [] d.type \in Acks \ {"UNSUBACK"} -> 4
      [] d.type \in Zeros \cup {"CONNACK", "UNSUBACK"} -> 2
      [] d.type = "SUBACK" -> 2 + Len(d.granted)
Rest(d) ==
    CASE d.type = "CONNECT" -> MQTTSerialize_connect(d) [] d.type = "CONNACK" -> MQTTSerialize_connack(d)
      [] d.type = "PUBLISH" -> MQTTSerialize_publish(d) [] d.type \in Acks -> MQTTSerialize_ack(d)
      [] d.type = "SUBSCRIBE" -> MQTTSerialize_subscribe(d) [] d.type = "SUBACK" -> MQTTSerialize_suback(d)
      [] d.type = "UNSUBSCRIBE" -> MQTTSerialize_unsubscribe(d) [] d.type \in Zeros -> <<>>
HeaderQoS(d) == IF d.type = "PUBLISH" THEN d.qos ELSE IF d.type \in {"SUBSCRIBE", "UNSUBSCRIBE"} THEN 1 ELSE 0
Serialize(d, size) ==
    IF Needed(d) > size THEN TOO_SHORT
    ELSE Header(d.type, d.dup, HeaderQoS(d), d.type = "PUBLISH" /\ d.retained)
             \o MQTTPacket_encode(RemainingLength(d)) \o Rest(d)

(* The packet that is read back.                                           *)

\* Where the rest begins and where it ends.
From(b) == 2 + MQTTPacket_decode(b, 2).len
To(b) == From(b) + MQTTPacket_decode(b, 2).value

\* The protocol's name is compared with "MQIdsp", as far as it goes.
MQTTPacket_checkVersion(name, version) ==
    LET compared == IF version = 3 THEN <<77, 81, 73, 100, 115, 112>> ELSE <<77, 81, 84, 84>>
        n == IF Len(name) < Len(compared) THEN Len(name) ELSE Len(compared)
    IN  version \in {3, 4} /\ SubSeq(name, 1, n) = SubSeq(compared, 1, n)
MQTTDeserialize_connect(b) ==
    LET enddata == Len(b) + 1
        name == readMQTTLenString(b, From(b), enddata)
        v == name.next
        flags == Byte(b, v + 1)
        bit(k) == (flags \div 2 ^ k) % 2 = 1
        client == readMQTTLenString(b, v + 4, enddata)
        topic == readMQTTLenString(b, client.next, enddata)
        message == readMQTTLenString(b, topic.next, enddata)
        afterWill == IF bit(2) THEN message.next ELSE client.next
        user == readMQTTLenString(b, afterWill, enddata)
        pass == readMQTTLenString(b, user.next, enddata)
    IN  IF /\ name.ok /\ MQTTPacket_checkVersion(name.string, Byte(b, v)) /\ client.ok
           /\ bit(2) => topic.ok /\ message.ok
           /\ bit(7) => enddata - afterWill >= 3 /\ user.ok /\ (bit(6) => enddata - user.next >= 3 /\ pass.ok)
           /\ bit(6) => bit(7)
        THEN [type |-> "CONNECT", dup |-> HeaderOf(b).dup, version |-> Byte(b, v), cleansession |-> bit(1),
              keepAlive |-> readInt(b, v + 2), clientID |-> client.string,
              will |-> IF bit(2) THEN << [topic |-> topic.string, message |-> message.string,
                                          qos |-> (flags \div 8) % 4, retained |-> bit(5)] >> ELSE <<>>,
              username |-> IF bit(7) THEN <<user.string>> ELSE <<>>,
              password |-> IF bit(6) THEN <<pass.string>> ELSE <<>>]
        ELSE Nothing
MQTTDeserialize_connack(b) ==
    [type |-> "CONNACK", dup |-> HeaderOf(b).dup, sessionPresent |-> Byte(b, From(b)) >= 128,
     rc |-> Byte(b, From(b) + 1)]
MQTTDeserialize_publish(b) ==
    LET topic == readMQTTLenString(b, From(b), To(b))
        h == HeaderOf(b)
        from == IF h.qos > 0 THEN topic.next + 2 ELSE topic.next
    IN  [type |-> "PUBLISH", dup |-> h.dup, qos |-> h.qos, retained |-> h.retain, topic |-> topic.string,
         id |-> IF h.qos > 0 THEN readInt(b, topic.next) ELSE 0, payload |-> SubSeq(b, from, To(b) - 1)]
MQTTDeserialize_ack(b) == [type |-> HeaderOf(b).type, dup |-> HeaderOf(b).dup, id |-> readInt(b, From(b))]
\* One code more than maxcount is accepted.
MQTTDeserialize_suback(b, maxcount) ==
    IF To(b) - From(b) - 2 > maxcount + 1 THEN Nothing ELSE
    [type |-> "SUBACK", dup |-> HeaderOf(b).dup, id |-> readInt(b, From(b)),
     granted |-> SubSeq(b, From(b) + 2, To(b) - 1)]
\* The filters from the byte at i on; width is 1 when a QoS follows each.
Filters(b, i, width) ==
    LET at[k \in 0 .. Len(b)] ==
            IF k = 0 THEN i ELSE LET f == readMQTTLenString(b, at[k - 1], To(b)) IN f.next + width
        n == CHOOSE k \in 0 .. Len(b) : at[k] >= To(b) /\ \A j \in 0 .. k - 1 : at[j] < To(b)
    IN  [filters |-> [k \in 1 .. n |-> readMQTTLenString(b, at[k - 1], To(b)).string],
         qoss |-> [k \in 1 .. n |-> Byte(b, at[k] - 1)]]
MQTTDeserialize_subscribe(b) ==
    LET f == Filters(b, From(b) + 2, 1)
    IN  [type |-> "SUBSCRIBE", dup |-> HeaderOf(b).dup, id |-> readInt(b, From(b)), filters |-> f.filters,
         qoss |-> f.qoss]
MQTTDeserialize_unsubscribe(b) ==
    [type |-> "UNSUBSCRIBE", dup |-> HeaderOf(b).dup, id |-> readInt(b, From(b)),
     filters |-> Filters(b, From(b) + 2, 0).filters]
Deserialize(b) ==
    LET t == HeaderOf(b).type
    IN  CASE t = "CONNECT" -> MQTTDeserialize_connect(b) [] t = "CONNACK" -> MQTTDeserialize_connack(b)
          [] t = "PUBLISH" -> MQTTDeserialize_publish(b) [] t \in Acks -> MQTTDeserialize_ack(b)
          [] t = "SUBSCRIBE" -> MQTTDeserialize_subscribe(b) [] t = "SUBACK" -> MQTTDeserialize_suback(b, 1)
          [] t = "UNSUBSCRIBE" -> MQTTDeserialize_unsubscribe(b)
          [] t \in Zeros -> [type |-> t, dup |-> HeaderOf(b).dup]
          [] t = "none" -> Nothing

(* A packet is written, and read back.                                     *)

PacketInit ==
    /\ packet = Nothing /\ buflen = 0 /\ written = <<>> /\ read = Unread
Write ==
    /\ written = <<>>
    /\ packet' \in Packets /\ buflen' \in BufferLengths /\ written' = Serialize(packet', buflen')
    /\ read' = read
Read ==
    /\ written \notin {<<>>, TOO_SHORT} /\ read = Unread
    /\ read' = Deserialize(written)
    /\ UNCHANGED <<packet, buflen, written>>
PacketNext == Write \/ Read

\* What the readers refuse: a CONNECT of version 3, whose name they compare with
\* another word, or with a password and no user, and more codes than they hold.
Refused(d) ==
    \/ d.type = "CONNECT" /\ (d.version = 3 \/ (d.password # <<>> /\ d.username = <<>>))
    \/ d.type = "SUBACK" /\ Len(d.granted) > 2

LengthsDecoded ==
    \A n \in Lengths :
        LET e == MQTTPacket_encode(n)
            d == MQTTPacket_decode(e, 1)
        IN  d.value = n /\ d.len = Len(e) /\ 1 + Len(e) + n <= MQTTPacket_len(n)

(* A length that is encoded is decoded to itself, in as many bytes, and    *)
(* never needs more room than MQTTPacket_len allows for.  A packet that    *)
(* was written is as long as its remaining length says, fits the buffer    *)
(* when a client wrote it (the size checks of CONNACK, SUBACK and UNSUBACK *)
(* ask for too little), and reads back as the packet it was, unless the    *)
(* reader refuses it.                                                      *)
PacketRoundTrip ==
    /\ LengthsDecoded
    /\ written \notin {<<>>, TOO_SHORT} =>
         /\ To(written) = Len(written) + 1
         /\ packet.type \notin {"CONNACK", "UNSUBACK", "SUBACK"} => Len(written) <= buflen
         /\ read # Unread => read = (IF Refused(packet) THEN Nothing ELSE packet)

=============================================================================
