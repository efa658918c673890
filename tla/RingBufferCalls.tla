-------------------------- MODULE RingBufferCalls --------------------------
(***************************************************************************)
(* Every method of core/arduino/RingBuffer.cpp, called by one caller: a    *)
(* call is one step.  (BufferedSerial splits putc and getc into memory     *)
(* accesses, for the interrupt handlers.)                                  *)
(***************************************************************************)
EXTENDS RingBuffer

CONSTANTS
    p_size,         \* the constructor's parameter
    Bytes,          \* values of a byte
    MaxChunk        \* the longest put or get

size == RingSize(p_size)

ASSUME RingAssumption == p_size \in Nat \ {0} /\ MaxChunk \in Nat \ {0} /\ 0 \in Bytes

VARIABLES
    ring,       \* buf, addr_w, addr_r
    given,      \* the bytes passed to the last call
    out,        \* the bytes the last call copied out
    count       \* how many bytes the last call moved or counted

ringVars == <<ring, given, out, count>>

RingInit == ring = NewRing(size) /\ given = <<>> /\ out = <<>> /\ count = 0

\* A full ring drops the byte.
putc(data) ==
    /\ ring' = IF Full(ring, size) THEN ring ELSE PutC(ring, size, data)
    /\ given' = <<data>>
    /\ count' = IF Full(ring, size) THEN 0 ELSE 1
    /\ out' = <<>>

getc ==
    /\ ring' = IF Empty(ring) THEN ring ELSE GetC(ring, size)
    /\ given' = <<>>
    /\ out' = IF Empty(ring) THEN <<>> ELSE <<Peek(ring)>>
    /\ count' = IF Empty(ring) THEN 0 ELSE 1

put(data) ==
    /\ ring' = Put(ring, size, data)
    /\ given' = data
    /\ count' = PutLength(ring, size, Len(data))
    /\ out' = <<>>

get(len) ==
    /\ ring' = Get(ring, size, len)
    /\ given' = <<>>
    /\ out' = Got(ring, size, len)
    /\ count' = GetLength(ring, size, len)

available ==
    /\ count' = Available(ring, size, Wrapped(ring))
    /\ given' = <<>> /\ out' = <<>>
    /\ UNCHANGED ring
use ==
    /\ count' = Use(ring, size, Wrapped(ring))
    /\ given' = <<>> /\ out' = <<>>
    /\ UNCHANGED ring

clear ==
    /\ ring' = [ring EXCEPT !.addr_w = 0, !.addr_r = 0]
    /\ given' = <<>> /\ out' = <<>> /\ count' = 0

RingNext ==
    \/ \E data \in Bytes : putc(data)
    \/ getc
    \/ \E n \in 0..MaxChunk : get(n) \/ \E data \in [1..n -> Bytes] : put(data)
    \/ available
    \/ use
    \/ clear

RingSpec == RingInit /\ [][RingNext]_ringVars

-----------------------------------------------------------------------------
(* Types: no index leaves the ring.                                        *)
RingTypeOK ==
    /\ ring \in Rings(size, Bytes) /\ count \in 0..p_size
    /\ out \in Seq(Bytes) /\ given \in Seq(Bytes)

(* The ring is a queue of p_size bytes: put and get split at the end of    *)
(* the array, the cell that stays free and the two counts never lose,      *)
(* repeat or reorder a byte, and what does not fit is exactly what is      *)
(* refused.                                                                *)
Queue == INSTANCE ByteQueue WITH Capacity <- p_size, Values <- Bytes, queue <- Contents(ring, size)
ImplementsQueue == Queue!Spec
=============================================================================
