-------------------------- MODULE BufferedSerial --------------------------
(***************************************************************************)
(* bsp/az3166/arduino/BufferedSerial.cpp under UARTClass.cpp: one thread   *)
(* reads and writes two ring buffers; the UART's interrupt handlers rxIrq  *)
(* and txIrq fill the one and drain the other.  A handler runs to its end  *)
(* between any two memory accesses of the thread; the handlers share one   *)
(* interrupt and do not interrupt each other.                              *)
(*                                                                         *)
(* `pc' says where the thread stands.  The n-th byte received, and the n-th *)
(* byte written, have the value n.                                         *)
(***************************************************************************)
EXTENDS RingBuffer

CONSTANTS
    BufSize, TxMultiple,    \* buf_size, tx_multiple
    MaxReceived, MaxWritten, \* bytes that arrive, bytes the thread writes
    MaxFlushes              \* calls of flush

RxSize == RingSize(BufSize)
TxSize == RingSize(TxMultiple * BufSize)

ASSUME SerialAssumption ==
    /\ BufSize \in Nat \ {0}
    /\ TxMultiple \in Nat \ {0}
    /\ MaxReceived \in Nat
    /\ MaxWritten \in Nat
    /\ MaxFlushes \in Nat

VARIABLES
    _rxbuf, _txbuf,
    attached,           \* txIrq is attached to the transmit interrupt
    busy,               \* the transmit register is full: ~serial_writable
    \* the thread: bytes a write has left, the byte in its hand, the outcome of
    \* the test in use or available
    pc, left, data, wrapped,
    \* history: bytes rxIrq stored, read, put by the thread, sent on the wire
    stored, got, accepted, transmitted,
    received, written, flushes,
    answer              \* what readable or writable returned last

threadVars == <<left, data, wrapped>>
historyVars == <<stored, got, accepted, transmitted, received, written, flushes>>
serialVars == <<_rxbuf, _txbuf, attached, busy, pc, threadVars, historyVars, answer>>

SerialInit ==
    /\ _rxbuf = NewRing(RxSize) /\ _txbuf = NewRing(TxSize)
    /\ attached = FALSE /\ busy = FALSE
    /\ pc = "idle" /\ left = 0 /\ data = 0 /\ wrapped = FALSE
    /\ stored = <<>> /\ got = <<>> /\ accepted = <<>> /\ transmitted = <<>>
    /\ received = 0 /\ written = 0 /\ flushes = 0
    /\ answer = 0

-----------------------------------------------------------------------------
(* The interrupt handlers, and the hardware.                               *)

\* A byte arrives; a full buffer drops it.
rxIrq ==
    /\ received < MaxReceived
    /\ received' = received + 1
    /\ IF Full(_rxbuf, RxSize)
         THEN UNCHANGED <<_rxbuf, stored>>
         ELSE /\ _rxbuf' = PutC(_rxbuf, RxSize, received + 1)
              /\ stored' = Append(stored, received + 1)
    /\ UNCHANGED <<_txbuf, attached, busy, pc, threadVars, got, accepted, transmitted, written, flushes, answer>>

\* serial_putc fills the transmit register.
Transmit(byte) == transmitted' = Append(transmitted, byte) /\ busy' = TRUE

\* The transmit interrupt, one turn of the handler's loop.
txIrq ==
    /\ attached /\ ~busy
    /\ IF Empty(_txbuf)
         THEN attached' = FALSE /\ UNCHANGED <<_txbuf, transmitted, busy>>
         ELSE /\ Transmit(Peek(_txbuf))
              /\ _txbuf' = GetC(_txbuf, TxSize)
              /\ UNCHANGED attached
    /\ UNCHANGED <<_rxbuf, pc, threadVars, stored, got, accepted, received, written, flushes, answer>>

\* The transmit register has been shifted out.
Shifted ==
    /\ busy
    /\ busy' = FALSE
    /\ UNCHANGED <<_rxbuf, _txbuf, attached, pc, threadVars, historyVars, answer>>

-----------------------------------------------------------------------------
(* The thread: getc.                                                       *)
Goto(from, to) == pc = from /\ pc' = to

serial_getc ==
    /\ pc = "idle"
    /\ pc' = IF Empty(_rxbuf) THEN "idle" ELSE "getcLoad"
    /\ UNCHANGED <<_rxbuf, _txbuf, attached, busy, threadVars, historyVars, answer>>

GetcLoad ==
    /\ Goto("getcLoad", "getcAdvance")
    /\ data' = Peek(_rxbuf)
    /\ UNCHANGED <<_rxbuf, _txbuf, attached, busy, left, wrapped, historyVars, answer>>

GetcAdvance ==
    /\ Goto("getcAdvance", "idle")
    /\ _rxbuf' = GetC(_rxbuf, RxSize)
    /\ got' = Append(got, data)
    /\ data' = 0
    /\ UNCHANGED <<_txbuf, attached, busy, left, wrapped, stored, accepted, transmitted, received,
                   written, flushes, answer>>

-----------------------------------------------------------------------------
(* readable and writable: the index a handler moves is read twice, once in *)
(* the test and once in the result.                                        *)
readable ==
    /\ Goto("idle", "readable")
    /\ wrapped' = Wrapped(_rxbuf)
    /\ UNCHANGED <<_rxbuf, _txbuf, attached, busy, left, data, historyVars, answer>>

writable ==
    /\ Goto("idle", "writable")
    /\ wrapped' = Wrapped(_txbuf)
    /\ UNCHANGED <<_rxbuf, _txbuf, attached, busy, left, data, historyVars, answer>>

Counted ==
    /\ pc \in {"readable", "writable"}
    /\ pc' = "idle"
    /\ answer' = IF pc = "readable" THEN Use(_rxbuf, RxSize, wrapped)
                 ELSE Available(_txbuf, TxSize, wrapped)
    /\ wrapped' = FALSE
    /\ UNCHANGED <<_rxbuf, _txbuf, attached, busy, left, data, historyVars>>

-----------------------------------------------------------------------------
(* write (and putc, puts, printf): a putc per byte, then prime.            *)
write(length) ==
    /\ Goto("idle", "putc")
    /\ written + length <= MaxWritten
    /\ left' = length
    /\ UNCHANGED <<_rxbuf, _txbuf, attached, busy, data, wrapped, historyVars, answer>>

\* RingBuffer::putc drops the byte when the buffer is full; write counts it.
serial_putc ==
    /\ pc = "putc"
    /\ data' = written + 1
    /\ written' = written + 1
    /\ left' = left - 1
    /\ pc' = IF ~Full(_txbuf, TxSize) THEN "putcStore"
             ELSE IF left = 1 THEN "prime" ELSE "putc"
    /\ UNCHANGED <<_rxbuf, _txbuf, attached, busy, wrapped, stored, got, accepted, transmitted, received,
                   flushes, answer>>

PutcStore ==
    /\ Goto("putcStore", "putcAdvance")
    /\ _txbuf' = [_txbuf EXCEPT !.buf[_txbuf.addr_w] = data]
    /\ UNCHANGED <<_rxbuf, attached, busy, threadVars, historyVars, answer>>

PutcAdvance ==
    /\ pc = "putcAdvance"
    /\ pc' = IF left = 0 THEN "prime" ELSE "putc"
    /\ _txbuf' = PutC(_txbuf, TxSize, data)
    /\ accepted' = Append(accepted, data)
    /\ data' = 0
    /\ UNCHANGED <<_rxbuf, attached, busy, left, wrapped, stored, got, transmitted, received, written,
                   flushes, answer>>

\* Mutation: the handler stays attached while the thread runs txIrq itself.
prime_Attached ==
    /\ pc = "prime"
    /\ pc' = IF busy THEN "idle" ELSE "pump"
    /\ data' = 0
    /\ UNCHANGED <<_rxbuf, _txbuf, attached, busy, left, wrapped, historyVars, answer>>

\* prime: when the transmitter is idle, detach the handler ...
prime ==
    /\ pc = "prime"
    /\ data' = 0
    /\ IF busy THEN pc' = "idle" /\ UNCHANGED attached
       ELSE pc' = "pump" /\ attached' = FALSE
    /\ UNCHANGED <<_rxbuf, _txbuf, busy, left, wrapped, historyVars, answer>>

\* ... run its loop in the thread ...
Pump ==
    /\ pc = "pump"
    /\ pc' = IF busy \/ Empty(_txbuf) THEN "attach" ELSE "pumpLoad"
    /\ attached' = IF ~busy /\ Empty(_txbuf) THEN FALSE ELSE attached
    /\ UNCHANGED <<_rxbuf, _txbuf, busy, threadVars, historyVars, answer>>

PumpLoad ==
    /\ Goto("pumpLoad", "pumpAdvance")
    /\ data' = Peek(_txbuf)
    /\ UNCHANGED <<_rxbuf, _txbuf, attached, busy, left, wrapped, historyVars, answer>>

PumpAdvance ==
    /\ Goto("pumpAdvance", "pumpSend")
    /\ _txbuf' = GetC(_txbuf, TxSize)
    /\ UNCHANGED <<_rxbuf, attached, busy, threadVars, historyVars, answer>>

\* serial_putc waits for the register.
PumpSend ==
    /\ Goto("pumpSend", "pump")
    /\ ~busy
    /\ Transmit(data)
    /\ data' = 0
    /\ UNCHANGED <<_rxbuf, _txbuf, attached, left, wrapped, stored, got, accepted, received,
                   written, flushes, answer>>

\* ... and attach the handler again.
Attach ==
    /\ Goto("attach", "idle")
    /\ attached' = TRUE
    /\ UNCHANGED <<_rxbuf, _txbuf, busy, threadVars, historyVars, answer>>

-----------------------------------------------------------------------------
(* flush: clear of either buffer, addr_w before addr_r.  What was buffered *)
(* is forgotten.                                                           *)
flush ==
    /\ flushes < MaxFlushes
    /\ flushes' = flushes + 1
    /\ Goto("idle", "clearTx")
    /\ _txbuf' = [_txbuf EXCEPT !.addr_w = 0]
    /\ UNCHANGED <<_rxbuf, attached, busy, threadVars, stored, got, accepted, transmitted, received,
                   written, answer>>

ClearTx ==
    /\ Goto("clearTx", "flushRx")
    /\ _txbuf' = [_txbuf EXCEPT !.addr_r = 0]
    /\ UNCHANGED <<_rxbuf, attached, busy, threadVars, historyVars, answer>>

FlushRx ==
    /\ Goto("flushRx", "clearRx")
    /\ _rxbuf' = [_rxbuf EXCEPT !.addr_w = 0]
    /\ stored' = got
    /\ UNCHANGED <<_txbuf, attached, busy, threadVars, got, accepted, transmitted, received, written,
                   flushes, answer>>

ClearRx ==
    /\ Goto("clearRx", "idle")
    /\ _rxbuf' = [_rxbuf EXCEPT !.addr_r = 0]
    /\ UNCHANGED <<_txbuf, attached, busy, threadVars, historyVars, answer>>

-----------------------------------------------------------------------------
Call == serial_getc \/ readable \/ writable \/ flush \/ \E length \in 1..MaxWritten : write(length)

SerialThread ==
    \/ GetcLoad \/ GetcAdvance \/ Counted
    \/ serial_putc \/ PutcStore \/ PutcAdvance
    \/ prime \/ Pump \/ PumpLoad \/ PumpAdvance \/ PumpSend \/ Attach
    \/ ClearTx \/ FlushRx \/ ClearRx

SerialNext == Call \/ SerialThread \/ rxIrq \/ txIrq \/ Shifted

\* The thread ends the calls it makes, the register is shifted out, and a pending
\* transmit interrupt is served.
SerialFair ==
    WF_serialVars(SerialThread) /\ WF_serialVars(txIrq) /\ WF_serialVars(Shifted)
SerialSpec == SerialInit /\ [][SerialNext]_serialVars /\ SerialFair

-----------------------------------------------------------------------------
PCs == {"idle", "getcLoad", "getcAdvance", "readable", "writable", "putc", "putcStore",
        "putcAdvance", "prime", "pump", "pumpLoad", "pumpAdvance", "pumpSend", "attach",
        "clearTx", "flushRx", "clearRx"}

(* Types: no index ever leaves its ring.                                   *)
SerialTypeOK ==
    /\ _rxbuf \in Rings(RxSize, 0..MaxReceived)
    /\ _txbuf \in Rings(TxSize, 0..MaxWritten)
    /\ attached \in BOOLEAN /\ busy \in BOOLEAN /\ wrapped \in BOOLEAN
    /\ pc \in PCs
    /\ left \in 0..MaxWritten
    /\ data \in 0..(MaxReceived + MaxWritten)
    /\ received \in 0..MaxReceived /\ written \in 0..MaxWritten
    /\ flushes \in 0..MaxFlushes
    /\ answer \in Int

(* getc returns the bytes rxIrq stored, each once and in order, however    *)
(* the handler interrupts it; also across a flush, which the handler may   *)
(* interrupt between the two indices.                                      *)
RxFifo == pc # "clearRx" => stored = got \o Contents(_rxbuf, RxSize)

(* What was put is what was sent, what is in the thread's hand inside      *)
(* txIrq, and what is still buffered: prime and the handler never take the *)
(* same byte.  Holds until the first flush: its clear moves addr_w before  *)
(* addr_r, and the handler may then send what the ring held before.        *)
TxFifo ==
    flushes = 0 =>
        accepted = transmitted \o (IF pc = "pumpSend" THEN <<data>> ELSE <<>>)
                   \o Contents(_txbuf, TxSize)

(* Both rings are queues, whatever memory access a handler falls between,  *)
(* and no index leaves its ring.                                           *)
SerialFifo == SerialTypeOK /\ RxFifo /\ TxFifo

\* Bytes are to be sent, and must be at last: prime gives up when the transmitter
\* is busy, and the handler detaches itself when it finds nothing to send.
SerialWaits == ~Empty(_txbuf)

-----------------------------------------------------------------------------
(* The inductive invariant: while the thread is inside txIrq the handler   *)
(* is detached, what the thread saw of a ring still holds whatever the     *)
(* handlers did since, and a flush leaves the receive ring straight.       *)
Pumping == {"pump", "pumpLoad", "pumpAdvance", "pumpSend", "attach"}
HandlerKnown == pc \in Pumping => ~attached
RxKnown ==
    /\ pc \in {"getcLoad", "getcAdvance"} => ~Empty(_rxbuf)
    /\ pc = "getcAdvance" => data = Peek(_rxbuf)
    /\ pc = "clearRx" =>
          /\ _rxbuf.addr_r = 0 \/ _rxbuf.addr_w < _rxbuf.addr_r
          /\ stored = got \o [i \in 1.._rxbuf.addr_w |-> _rxbuf.buf[i - 1]]
TxKnown ==
    /\ pc \in {"putcStore", "putcAdvance"} => data \in 0..MaxWritten
    /\ pc \in {"pumpAdvance", "pumpSend"} => data \in 0..MaxWritten
    /\ written + left <= MaxWritten
    /\ pc = "putc" => left > 0
    /\ pc \in {"pumpLoad", "pumpAdvance"} => ~Empty(_txbuf)
    /\ pc = "pumpAdvance" => data = Peek(_txbuf)
    /\ flushes = 0 /\ pc \in {"putcStore", "putcAdvance"} => ~Full(_txbuf, TxSize)
    /\ pc = "clearTx" => flushes > 0
SerialInv ==
    /\ SerialTypeOK
    /\ stored \in Seq(Nat) /\ got \in Seq(Nat) /\ accepted \in Seq(Nat) /\ transmitted \in Seq(Nat)
    /\ HandlerKnown /\ RxKnown /\ TxKnown /\ RxFifo /\ TxFifo

=============================================================================
