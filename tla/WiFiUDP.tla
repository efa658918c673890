------------------------------ MODULE WiFiUDP ------------------------------
(***************************************************************************)
(* libraries/WiFi/src/AZ3166WiFiUdp.cpp: the Arduino interface for sending *)
(* and receiving UDP packets.  Every write() is a datagram of its own;     *)
(* beginPacket and endPacket bracket them and collect their failures.  The *)
(* one _address is the destination of the packet being sent and the sender *)
(* of the packet received last.                                            *)
(***************************************************************************)
EXTENDS Integers

CONSTANTS
    Addresses,          \* hosts and ports
    MaxUDPBytes         \* bound: bytes written to one packet

ASSUME UDPAssumption == MaxUDPBytes \in Nat

VARIABLES
    is_initialized,     \* the socket is open
    address,            \* _address
    packetActive, packetSendFailed,
    endResult,          \* what endPacket returned last
    \* history: the destination asked for; the bytes passed to write and those the
    \* network took since; where they went; whether a read came in between
    destination, asked, sent, sentTo, readSince

udpVars == <<is_initialized, address, packetActive, packetSendFailed, endResult,
             destination, asked, sent, sentTo, readSince>>
packetVars == <<destination, asked, sent, sentTo, readSince>>

NoAddress == "NULL"
EmptyAddress == "unset"

UDPInit ==
    /\ is_initialized = FALSE /\ address = NoAddress
    /\ packetActive = FALSE /\ packetSendFailed = FALSE /\ endResult = 0
    /\ destination = NoAddress /\ asked = 0 /\ sent = 0 /\ sentTo = {} /\ readSince = FALSE

NoPacket == packetActive' = FALSE /\ packetSendFailed' = FALSE

\* begin: an open socket is stopped first; open or bind may fail.  (Without an
\* open socket no packet is active.)
UDPBegin ==
    /\ NoPacket
    /\ is_initialized' \in BOOLEAN
    /\ UNCHANGED <<address, endResult, packetVars>>

UDPStop ==
    /\ NoPacket
    /\ is_initialized' = FALSE
    /\ UNCHANGED <<address, endResult, packetVars>>

\* The name cannot be resolved, or the socket not opened.
beginPacketFails ==
    /\ NoPacket
    /\ UNCHANGED <<is_initialized, address, endResult, packetVars>>

\* A socket that is not open yet is opened.
beginPacket(a) ==
    /\ packetActive' = TRUE /\ packetSendFailed' = FALSE
    /\ is_initialized' = TRUE
    /\ address' = a
    /\ destination' = a /\ asked' = 0 /\ sent' = 0 /\ sentTo' = {} /\ readSince' = FALSE
    /\ UNCHANGED endResult

UDPWrite(size) ==
    /\ is_initialized /\ address # NoAddress /\ packetActive
    /\ asked + size <= MaxUDPBytes
    /\ \E result \in -1..size :
         /\ packetSendFailed' = (packetSendFailed \/ result # size)
         /\ sent' = IF result > 0 THEN sent + result ELSE sent
    /\ asked' = asked + size
    /\ sentTo' = sentTo \cup {address}
    /\ UNCHANGED <<is_initialized, address, packetActive, endResult, destination, readSince>>

endPacket ==
    /\ endResult' = IF packetActive /\ ~packetSendFailed THEN 1 ELSE 0
    /\ IF packetActive THEN NoPacket ELSE UNCHANGED <<packetActive, packetSendFailed>>
    /\ UNCHANGED <<is_initialized, address, packetVars>>

\* A packet, or none within the time.
UDPRead ==
    /\ is_initialized
    /\ address' \in Addresses \cup {IF address = NoAddress THEN EmptyAddress ELSE address}
    /\ readSince' = TRUE
    /\ UNCHANGED <<is_initialized, packetActive, packetSendFailed, endResult,
                   destination, asked, sent, sentTo>>

UDPNext ==
    \/ UDPBegin \/ UDPStop \/ beginPacketFails
    \/ \E a \in Addresses : beginPacket(a)
    \/ \E size \in 0..MaxUDPBytes : UDPWrite(size)
    \/ endPacket \/ UDPRead

UDPSpec == UDPInit /\ [][UDPNext]_udpVars

-----------------------------------------------------------------------------
(* Types.                                                                  *)
UDPTypeOK ==
    /\ is_initialized \in BOOLEAN /\ packetActive \in BOOLEAN /\ packetSendFailed \in BOOLEAN
    /\ address \in Addresses \cup {NoAddress, EmptyAddress}
    /\ destination \in Addresses \cup {NoAddress}
    /\ endResult \in {0, 1}
    /\ asked \in 0..MaxUDPBytes /\ sent \in 0..MaxUDPBytes
    /\ packetSendFailed => packetActive
    /\ packetActive => is_initialized

(* endPacket says 1 only for a packet all of whose bytes the network took, *)
(* whatever was sent short, stopped or begun again in between; and, unless *)
(* a packet was read meanwhile, all of them went to where beginPacket said.*)
EndPacketHonest ==
    [][endPacket /\ endResult' = 1
         => sent = asked /\ (~readSince => sentTo \subseteq {destination})]_udpVars

-----------------------------------------------------------------------------
(* The inductive invariant: while a packet is open, its bytes and its      *)
(* address are accounted for.                                              *)
PacketKnown ==
    /\ sent <= asked
    /\ packetActive /\ ~packetSendFailed => sent = asked
    /\ packetActive /\ ~readSince => address = destination /\ sentTo \subseteq {destination}

UDPInv == UDPTypeOK /\ PacketKnown

=============================================================================
