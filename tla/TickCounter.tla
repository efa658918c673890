---------------------------- MODULE TickCounter ----------------------------
(***************************************************************************)
(* bsp/az3166/timing/SystemTickCounter.cpp: a 64-bit time made from a      *)
(* hardware counter that wraps.  A ticker samples the counter; a read      *)
(* samples it too.  Every function is one critical section.                *)
(***************************************************************************)
EXTENDS Integers

CONSTANTS
    Wrap,       \* values of us_ticker_read: 2^32
    MaxGap,     \* the longest time between two samples, in microseconds
    PerMs,      \* microseconds in a unit of SystemTickCounterRead
    MaxTime     \* bound: microseconds the model runs after Init

ASSUME TickAssumption ==
    /\ Wrap \in Nat /\ MaxGap \in Nat /\ MaxGap < Wrap
    /\ PerMs \in Nat \ {0}
    /\ MaxTime \in Nat

VARIABLES
    usTicker,               \* the hardware counter
    previousTick, elapsedMicroseconds, initialized,
    elapsedTime,            \* microseconds that really passed since Init
    lastRead                \* what SystemTickCounterRead returned last

tickVars == <<usTicker, previousTick, elapsedMicroseconds, initialized, elapsedTime, lastRead>>

\* Mutation: the difference of the two ticks is not reduced to 32 bits.
Elapsed_Wide(current, previous) == current - previous

\* The unsigned 32-bit difference current - previous.
Elapsed(current, previous) ==
    IF current >= previous THEN current - previous ELSE current - previous + Wrap

TickInit ==
    /\ usTicker \in 0..(Wrap - 1)
    /\ previousTick = 0 /\ elapsedMicroseconds = 0 /\ initialized = FALSE
    /\ elapsedTime = 0 /\ lastRead = 0

\* A microsecond passes.  The sampler is never held up for longer than MaxGap.
Microsecond ==
    /\ elapsedTime < MaxTime
    /\ initialized => Elapsed(usTicker, previousTick) < MaxGap
    /\ usTicker' = IF usTicker = Wrap - 1 THEN 0 ELSE usTicker + 1
    /\ elapsedTime' = IF initialized THEN elapsedTime + 1 ELSE elapsedTime
    /\ UNCHANGED <<previousTick, elapsedMicroseconds, initialized, lastRead>>

\* A second call does nothing.
SystemTickCounterInit ==
    /\ ~initialized
    /\ previousTick' = usTicker
    /\ elapsedMicroseconds' = 0
    /\ initialized' = TRUE
    /\ UNCHANGED <<usTicker, elapsedTime, lastRead>>

Sample ==
    /\ elapsedMicroseconds' = elapsedMicroseconds + Elapsed(usTicker, previousTick)
    /\ previousTick' = usTicker

sampleTickCounter ==
    /\ initialized
    /\ Sample
    /\ UNCHANGED <<usTicker, initialized, elapsedTime, lastRead>>

SystemTickCounterRead ==
    /\ IF initialized THEN Sample ELSE UNCHANGED <<elapsedMicroseconds, previousTick>>
    /\ lastRead' = elapsedMicroseconds' \div PerMs
    /\ UNCHANGED <<usTicker, initialized, elapsedTime>>

TickNext == Microsecond \/ SystemTickCounterInit \/ sampleTickCounter \/ SystemTickCounterRead

TickSpec == TickInit /\ [][TickNext]_tickVars

-----------------------------------------------------------------------------
(* Types.                                                                  *)
TickTypeOK ==
    /\ usTicker \in 0..(Wrap - 1) /\ previousTick \in 0..(Wrap - 1)
    /\ elapsedMicroseconds \in Nat /\ elapsedTime \in Nat /\ lastRead \in Nat
    /\ initialized \in BOOLEAN

(* No wrap of the counter is missed and none counted twice, however reads  *)
(* and the sampler follow each other: what was accumulated and what the    *)
(* counter shows since make up the time that passed since Init.            *)
TickExact ==
    IF initialized
      THEN elapsedTime = elapsedMicroseconds + Elapsed(usTicker, previousTick)
      ELSE elapsedTime = 0 /\ elapsedMicroseconds = 0

(* A read returns the time that really passed, and never less than the     *)
(* read before.                                                            *)
ReadsMonotone ==
    [][lastRead' # lastRead => lastRead' > lastRead /\ lastRead' = elapsedTime \div PerMs]_tickVars

=============================================================================
