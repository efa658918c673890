---------------------------- MODULE MulticastUDP ----------------------------
(***************************************************************************)
(* libraries/WiFi/src/AZ3166MulticastUdp.cpp: a datagram is gathered in    *)
(* sendBuffer_ and sent by endPacket; a received one is held in            *)
(* receiveBuffer_ until the next parsePacket.  A failure is remembered     *)
(* until stop.                                                             *)
(***************************************************************************)
EXTENDS Naturals

CONSTANTS
    TxCapacity, RxCapacity,     \* sizes of sendBuffer_ and receiveBuffer_
    MaxAsked                    \* bound: bytes passed to write for one packet

ASSUME MulticastAssumption ==
    TxCapacity \in Nat /\ RxCapacity \in Nat /\ MaxAsked \in Nat

VARIABLES
    socket_,                    \* is it open
    sendLength_, packetActive_, overflow_, failed_,
    receiveLength_, receiveOffset_,
    datagram,                   \* the length of the datagram the last endPacket sent, or 0
    askedFor                    \* history: bytes passed to write since beginPacket

sendVars == <<sendLength_, packetActive_, overflow_, askedFor>>
receiveVars == <<receiveLength_, receiveOffset_>>
multicastVars == <<socket_, sendVars, failed_, receiveVars, datagram>>

Stopped ==
    /\ sendLength_' = 0 /\ packetActive_' = FALSE /\ overflow_' = FALSE /\ failed_' = FALSE
    /\ receiveLength_' = 0 /\ receiveOffset_' = 0
    /\ UNCHANGED <<datagram, askedFor>>

MulticastInit ==
    /\ socket_ = FALSE
    /\ sendLength_ = 0 /\ packetActive_ = FALSE /\ overflow_ = FALSE /\ failed_ = FALSE
    /\ receiveLength_ = 0 /\ receiveOffset_ = 0 /\ datagram = 0 /\ askedFor = 0

\* stop first; then the socket and its options, any of which may fail.
beginMulticast == Stopped /\ socket_' \in BOOLEAN
MulticastStop == Stopped /\ socket_' = FALSE

BeginMulticastPacket(portGiven) ==
    /\ sendLength_' = 0 /\ askedFor' = 0
    /\ packetActive_' = (socket_ /\ portGiven)
    /\ overflow_' = FALSE
    /\ UNCHANGED <<socket_, failed_, receiveVars, datagram>>

\* After a write that did not fit no other is taken.
MulticastWrite(size) ==
    /\ askedFor + size <= MaxAsked
    /\ askedFor' = askedFor + size
    /\ IF ~packetActive_ \/ overflow_ \/ size > TxCapacity - sendLength_
         THEN overflow_' = TRUE /\ failed_' = TRUE /\ UNCHANGED sendLength_
         ELSE sendLength_' = sendLength_ + size /\ UNCHANGED <<overflow_, failed_>>
    /\ UNCHANGED <<socket_, packetActive_, receiveVars, datagram>>

\* Mutation: a packet that overflowed is sent as far as it goes.
Sendable_Cut == packetActive_ /\ socket_ /\ sendLength_ > 0

Sendable == packetActive_ /\ socket_ /\ ~overflow_ /\ sendLength_ > 0

EndMulticastPacket ==
    /\ \/ Sendable /\ datagram' = sendLength_ /\ UNCHANGED failed_
       \/ datagram' = 0 /\ failed_' = TRUE     \* it was not sendable, or the send failed
    /\ packetActive_' = FALSE /\ sendLength_' = 0
    /\ UNCHANGED <<socket_, overflow_, receiveVars, askedFor>>

\* What was left of the packet before is dropped.  One that does not fit, and an
\* error of the socket, are failures.
parsePacket ==
    /\ receiveOffset_' = 0
    /\ \/ receiveLength_' \in (IF socket_ THEN 0..RxCapacity ELSE {0}) /\ UNCHANGED failed_
       \/ socket_ /\ receiveLength_' = 0 /\ failed_' = TRUE
    /\ UNCHANGED <<socket_, sendVars, datagram>>

MulticastRead(size) ==
    /\ receiveOffset_' = receiveOffset_ + (IF size > receiveLength_ - receiveOffset_
                                             THEN receiveLength_ - receiveOffset_ ELSE size)
    /\ UNCHANGED <<socket_, sendVars, failed_, receiveLength_, datagram>>

MulticastFlush ==
    /\ receiveLength_' = 0 /\ receiveOffset_' = 0
    /\ UNCHANGED <<socket_, sendVars, failed_, datagram>>

MulticastNext ==
    \/ beginMulticast \/ MulticastStop
    \/ \E portGiven \in BOOLEAN : BeginMulticastPacket(portGiven)
    \/ \E size \in 0..MaxAsked : MulticastWrite(size) \/ MulticastRead(size)
    \/ EndMulticastPacket \/ parsePacket \/ MulticastFlush

MulticastSpec == MulticastInit /\ [][MulticastNext]_multicastVars

-----------------------------------------------------------------------------
(* Types.                                                                  *)
MulticastTypeOK ==
    /\ socket_ \in BOOLEAN /\ packetActive_ \in BOOLEAN /\ overflow_ \in BOOLEAN /\ failed_ \in BOOLEAN
    /\ sendLength_ \in 0..TxCapacity /\ datagram \in 0..TxCapacity
    /\ receiveLength_ \in 0..RxCapacity /\ receiveOffset_ \in 0..receiveLength_
    /\ askedFor \in 0..MaxAsked

(* A datagram goes out whole or not at all: endPacket sends exactly the    *)
(* bytes of all the writes since beginPacket, none of them refused, even   *)
(* when a write that did not fit is followed by one that would; and what   *)
(* is not sent is remembered as a failure.                                 *)
DatagramWhole ==
    [][EndMulticastPacket =>
         IF datagram' > 0 THEN datagram' = askedFor ELSE failed_']_multicastVars

-----------------------------------------------------------------------------
(* The inductive invariant: until a write is refused the buffer holds      *)
(* every byte asked for.                                                   *)
MulticastInv ==
    /\ MulticastTypeOK
    /\ packetActive_ /\ ~overflow_ => sendLength_ = askedFor

=============================================================================
