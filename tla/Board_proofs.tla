--------------------------- MODULE Board_proofs -----------------------------
(***************************************************************************)
(* What keeps the board's time, settings and sound: SystemTickCounter.cpp, *)
(* the NTP client, the settings store of EEPROMInterface.cpp and           *)
(* AudioClassV2.cpp, each for every value of its constants.                *)
(***************************************************************************)
EXTENDS TickCounter, TimeSync, EEPROMSettings, AudioV2, TLAPS

-----------------------------------------------------------------------------
(* TickCounter: the time is exact.                                         *)

\* The difference of two ticks is a tick.
LEMMA ElapsedType ==
    ASSUME NEW c \in 0..(Wrap - 1), NEW p \in 0..(Wrap - 1), Wrap \in Nat
    PROVE  Elapsed(c, p) \in 0..(Wrap - 1)
  BY DEF Elapsed

\* Right after a sample nothing has elapsed.
LEMMA ElapsedNothing ==
    ASSUME NEW c \in 0..(Wrap - 1)
    PROVE  Elapsed(c, c) = 0
  BY DEF Elapsed

\* A tick adds one to the difference, also over the wrap, while the difference
\* stays below a lap.
LEMMA ElapsedTick ==
    ASSUME NEW c \in 0..(Wrap - 1), NEW p \in 0..(Wrap - 1), Wrap \in Nat,
           MaxGap \in Nat, MaxGap < Wrap, Elapsed(c, p) < MaxGap
    PROVE  Elapsed(IF c = Wrap - 1 THEN 0 ELSE c + 1, p) = Elapsed(c, p) + 1
  BY DEF Elapsed

\* Dividing a time by the unit gives a natural number.
LEMMA DivType ==
    ASSUME NEW a \in Nat, NEW d \in Nat \ {0}
    PROVE  a \div d \in Nat
  BY Z3

\* The counter and the times keep their types: the accumulated 64-bit time never
\* goes below zero, in whatever order reads, samples and ticks come.
THEOREM TickTypes == TickSpec => []TickTypeOK
  <1>1. TickInit => TickTypeOK
    <2>1. 0 \in 0..(Wrap - 1)
      BY TickAssumption
    <2> SUFFICES ASSUME TickInit
                 PROVE  TickTypeOK
      OBVIOUS
    <2>2. initialized \in BOOLEAN
      BY DEF TickInit
    <2>3. /\ usTicker \in 0..(Wrap - 1) /\ previousTick \in 0..(Wrap - 1)
          /\ elapsedMicroseconds \in Nat /\ elapsedTime \in Nat /\ lastRead \in Nat
      BY <2>1, SMT DEF TickInit
    <2>4. QED
      BY <2>2, <2>3 DEF TickTypeOK
  <1>2. TickTypeOK /\ [TickNext]_tickVars => TickTypeOK'
    <2> SUFFICES ASSUME TickTypeOK, [TickNext]_tickVars
                 PROVE  TickTypeOK'
      OBVIOUS
    <2>e. Elapsed(usTicker, previousTick) \in Nat
      <3>1. Elapsed(usTicker, previousTick) \in 0..(Wrap - 1)
        BY ElapsedType, TickAssumption DEF TickTypeOK
      <3>2. QED
        BY <3>1, TickAssumption
    <2>1. CASE Microsecond
      BY <2>1, TickAssumption DEF Microsecond, TickTypeOK
    <2>2. CASE SystemTickCounterInit
      BY <2>2 DEF SystemTickCounterInit, TickTypeOK
    <2>3. CASE sampleTickCounter
      BY <2>3, <2>e DEF sampleTickCounter, Sample, TickTypeOK
    <2>4. CASE SystemTickCounterRead
      <3>1. elapsedMicroseconds' \in Nat /\ previousTick' \in 0..(Wrap - 1)
        BY <2>4, <2>e DEF SystemTickCounterRead, Sample, TickTypeOK
      <3>2. lastRead' \in Nat
        BY <2>4, <3>1, DivType, TickAssumption DEF SystemTickCounterRead
      <3>3. QED
        BY <2>4, <3>1, <3>2 DEF SystemTickCounterRead, TickTypeOK
    <2>5. CASE UNCHANGED tickVars
      BY <2>5 DEF tickVars, TickTypeOK
    <2>6. QED
      BY <2>1, <2>2, <2>3, <2>4, <2>5 DEF TickNext
  <1>3. QED
    BY <1>1, <1>2, PTL DEF TickSpec

\* No lap of the counter is missed and none counted twice: the sum of what was
\* accumulated and what the counter shows is the time since Init.
THEOREM TickIsExact == TickSpec => []TickExact
  <1>1. TickInit => TickExact
    BY DEF TickInit, TickExact
  <1>2. TickTypeOK /\ TickExact /\ [TickNext]_tickVars => TickExact'
    <2> SUFFICES ASSUME TickTypeOK, TickExact, [TickNext]_tickVars
                 PROVE  TickExact'
      OBVIOUS
    <2>e. Elapsed(usTicker, previousTick) \in Nat
      <3>1. Elapsed(usTicker, previousTick) \in 0..(Wrap - 1)
        BY ElapsedType, TickAssumption DEF TickTypeOK
      <3>2. QED
        BY <3>1, TickAssumption
    <2>n. Elapsed(usTicker, usTicker) = 0
      BY ElapsedNothing DEF TickTypeOK
    <2>1. CASE Microsecond
      <3>1. CASE initialized
        <4>1. Elapsed(usTicker', previousTick') = Elapsed(usTicker, previousTick) + 1
          BY <2>1, <3>1, ElapsedTick, TickAssumption DEF Microsecond, TickTypeOK
        <4>2. QED
          BY <2>1, <3>1, <4>1, <2>e DEF Microsecond, TickExact, TickTypeOK
      <3>2. CASE ~initialized
        BY <2>1, <3>2 DEF Microsecond, TickExact
      <3>3. QED
        BY <3>1, <3>2
    <2>2. CASE SystemTickCounterInit
      <3>1. elapsedTime' = 0 /\ elapsedMicroseconds' = 0
        BY <2>2 DEF SystemTickCounterInit, TickExact
      <3>2. Elapsed(usTicker, previousTick)' = 0
        BY <2>2, <2>n DEF SystemTickCounterInit, Elapsed
      <3>3. QED
        BY <2>2, <3>1, <3>2 DEF SystemTickCounterInit, TickExact
    <2>3. ASSUME Sample, initialized, UNCHANGED <<usTicker, initialized, elapsedTime>>
          PROVE  TickExact'
      <3>1. Elapsed(usTicker, previousTick)' = 0
        BY <2>3, <2>n DEF Sample, Elapsed
      <3>2. QED
        BY <2>3, <3>1, <2>e DEF Sample, TickExact, TickTypeOK
    <2>4. CASE sampleTickCounter
      BY <2>3, <2>4 DEF sampleTickCounter
    <2>5. CASE SystemTickCounterRead
      <3>1. CASE initialized
        BY <2>3, <2>5, <3>1 DEF SystemTickCounterRead
      <3>2. CASE ~initialized
        BY <2>5, <3>2 DEF SystemTickCounterRead, TickExact
      <3>3. QED
        BY <3>1, <3>2
    <2>6. CASE UNCHANGED tickVars
      BY <2>6 DEF tickVars, TickExact, Elapsed
    <2>7. QED
      BY <2>1, <2>2, <2>4, <2>5, <2>6 DEF TickNext
  <1>3. QED
    BY <1>1, <1>2, TickTypes, PTL DEF TickSpec

\* A longer time is not shorter in milliseconds.
LEMMA DivMonotone ==
    ASSUME NEW a \in Nat, NEW b \in Nat, a <= b, NEW d \in Nat \ {0}
    PROVE  a \div d <= b \div d
  <1> DEFINE p == a \div d
             q == b \div d
  <1>1. p \in Nat /\ q \in Nat /\ d * p <= a /\ b < d * (q + 1)
    BY Z3
  <1> HIDE DEF p, q
  <1>2. ASSUME q < p PROVE FALSE
    <2>1. PICK k \in Nat : p = (q + 1) + k
      <3>1. p - (q + 1) \in Nat /\ p = (q + 1) + (p - (q + 1))
        BY <1>1, <1>2
      <3>2. QED
        BY <3>1
    <2>2. d * p = d * (q + 1) + d * k
      BY <1>1, <2>1, Z3
    <2>3. d * k >= 0
      BY <2>1, Z3
    <2>4. d * p \in Int /\ d * (q + 1) \in Int /\ d * k \in Int
      BY <1>1, <2>1
    <2>5. QED
      BY <1>1, <2>2, <2>3, <2>4
  <1>3. p <= q
    BY <1>1, <1>2
  <1>4. QED
    BY <1>3 DEF p, q

\* What was returned last is not more than what has been accumulated.
ReadBehind == lastRead <= elapsedMicroseconds \div PerMs

\* SystemTickCounterRead never returns less than before, and what it returns is the time
\* that passed.
THEOREM ReadsGoOn == TickSpec => ReadsMonotone
  <1>1. TickInit => ReadBehind
    BY DivType, TickAssumption DEF TickInit, ReadBehind
  <1>2. ASSUME TickTypeOK, TickExact, ReadBehind, [TickNext]_tickVars
        PROVE  /\ ReadBehind'
               /\ lastRead' # lastRead =>
                    lastRead' > lastRead /\ lastRead' = elapsedTime \div PerMs
    <2>t. PerMs \in Nat \ {0}
      BY TickAssumption
    <2>e. Elapsed(usTicker, previousTick) \in Nat
      <3>1. Elapsed(usTicker, previousTick) \in 0..(Wrap - 1)
        BY <1>2, ElapsedType, TickAssumption DEF TickTypeOK
      <3>2. QED
        BY <3>1, TickAssumption
    <2>1. elapsedMicroseconds \in Nat /\ elapsedMicroseconds' \in Nat
      <3>1. CASE Microsecond \/ SystemTickCounterInit \/ UNCHANGED tickVars
        BY <1>2, <3>1 DEF Microsecond, SystemTickCounterInit, tickVars, TickTypeOK
      <3>2. CASE sampleTickCounter \/ SystemTickCounterRead
        BY <1>2, <2>e, <3>2 DEF sampleTickCounter, SystemTickCounterRead, Sample, TickTypeOK
      <3>3. QED
        BY <1>2, <3>1, <3>2 DEF TickNext
    <2>2. elapsedMicroseconds <= elapsedMicroseconds'
      <3>1. CASE Microsecond \/ SystemTickCounterInit \/ UNCHANGED tickVars
        BY <1>2, <3>1, <2>1 DEF Microsecond, SystemTickCounterInit, tickVars, TickTypeOK, TickExact
      <3>2. CASE sampleTickCounter \/ SystemTickCounterRead
        BY <1>2, <2>e, <3>2, <2>1 DEF sampleTickCounter, SystemTickCounterRead, Sample, TickTypeOK
      <3>3. QED
        BY <1>2, <3>1, <3>2 DEF TickNext
    <2>3. elapsedMicroseconds \div PerMs <= elapsedMicroseconds' \div PerMs
      BY <2>t, <2>1, <2>2, DivMonotone
    <2>4. elapsedMicroseconds \div PerMs \in Nat /\ elapsedMicroseconds' \div PerMs \in Nat
      BY <2>t, <2>1, DivType
    <2>5. CASE SystemTickCounterRead
      <3>1. lastRead' = elapsedMicroseconds' \div PerMs
        BY <2>5 DEF SystemTickCounterRead
      <3>2. elapsedMicroseconds' = elapsedTime
        BY <1>2, <2>5, <2>e DEF SystemTickCounterRead, Sample, TickExact, TickTypeOK
      <3>3. lastRead \in Nat /\ lastRead <= elapsedMicroseconds \div PerMs
        BY <1>2 DEF TickTypeOK, ReadBehind
      <3> DEFINE m == elapsedMicroseconds \div PerMs
                 n == elapsedMicroseconds' \div PerMs
      <3>4. n = elapsedTime \div PerMs
        BY <3>2
      <3> HIDE DEF m, n
      <3>5. /\ m \in Nat /\ n \in Nat /\ lastRead \in Nat /\ lastRead <= m /\ m <= n /\ lastRead' = n
        BY <2>3, <2>4, <3>1, <3>3 DEF m, n
      <3>6. lastRead' <= n /\ (lastRead' # lastRead => lastRead' > lastRead)
        BY <3>5
      <3>7. QED
        BY <3>4, <3>5, <3>6 DEF ReadBehind, n
    <2>6. CASE ~SystemTickCounterRead
      <3>1. lastRead' = lastRead /\ lastRead \in Nat
        BY <1>2, <2>6 DEF TickNext, Microsecond, SystemTickCounterInit, sampleTickCounter,
           tickVars, TickTypeOK
      <3> DEFINE m == elapsedMicroseconds \div PerMs
                 n == elapsedMicroseconds' \div PerMs
      <3>2. m \in Nat /\ n \in Nat /\ lastRead <= m /\ m <= n
        BY <1>2, <2>3, <2>4 DEF ReadBehind
      <3> HIDE DEF m, n
      <3>3. lastRead' <= n
        BY <3>1, <3>2
      <3>4. QED
        BY <3>1, <3>3 DEF ReadBehind, n
    <2>7. QED
      BY <2>5, <2>6
  <1>3. QED
    BY <1>1, <1>2, TickTypes, TickIsExact, PTL DEF TickSpec, ReadsMonotone

-----------------------------------------------------------------------------
(* TimeSync: a wrong clock is set right, also across the wrap.             *)

\* A remainder, for an argument within a lap of the range.
LEMMA Remainder ==
    ASSUME NEW W \in Nat \ {0}, NEW x \in Int, -W <= x, x < 2 * W
    PROVE  /\ x % W \in 0..(W - 1)
           /\ x % W = IF x < 0 THEN x + W ELSE IF x < W THEN x ELSE x - W
  <1>1. CASE x < 0
    BY <1>1
  <1>2. CASE 0 <= x /\ x < W
    BY <1>2
  <1>3. CASE W <= x
    BY <1>3
  <1>4. QED
    BY <1>1, <1>2, <1>3

\* The difference of two readings of a clock.
LEMMA DifferenceIs ==
    ASSUME NEW a \in 0..(TimeWrap - 1), NEW b \in 0..(TimeWrap - 1)
    PROVE  /\ Difference(a, b) \in 0..(TimeWrap - 1)
           /\ Difference(a, b) = IF a < b THEN a - b + TimeWrap ELSE a - b
  <1>1. TimeWrap \in Nat \ {0}
    BY TimeAssumption
  <1>2. a - b \in Int /\ -TimeWrap <= a - b /\ a - b < 2 * TimeWrap /\ a - b < TimeWrap
        /\ (a - b < 0 <=> a < b)
    BY <1>1
  <1>3. /\ (a - b) % TimeWrap \in 0..(TimeWrap - 1)
        /\ (a - b) % TimeWrap = IF a - b < 0 THEN a - b + TimeWrap
                                ELSE IF a - b < TimeWrap THEN a - b ELSE a - b - TimeWrap
    BY <1>1, <1>2, Remainder, Zenon
  <1>4. QED
    BY <1>2, <1>3 DEF Difference

\* A clock that goes on by one.
LEMMA NextSecond ==
    ASSUME NEW a \in 0..(TimeWrap - 1)
    PROVE  /\ (a + 1) % TimeWrap \in 0..(TimeWrap - 1)
           /\ (a + 1) % TimeWrap = IF a = TimeWrap - 1 THEN 0 ELSE a + 1
  <1>1. TimeWrap \in Nat \ {0}
    BY TimeAssumption
  <1>2. PICK x \in Int : x = a + 1
    BY <1>1
  <1>3. -TimeWrap <= x /\ x < 2 * TimeWrap /\ ~(x < 0)
    BY <1>1, <1>2
  <1>4. /\ x % TimeWrap \in 0..(TimeWrap - 1)
        /\ x % TimeWrap = IF x < 0 THEN x + TimeWrap
                          ELSE IF x < TimeWrap THEN x ELSE x - TimeWrap
    BY <1>1, <1>3, Remainder, Zenon
  <1>5. QED
    BY <1>1, <1>2, <1>3, <1>4

\* A second goes by for two clocks alike.
LEMMA BothGoOn ==
    ASSUME NEW s \in 0..(TimeWrap - 1), NEW b \in 0..(TimeWrap - 1)
    PROVE  Difference((s + 1) % TimeWrap, (b + 1) % TimeWrap) = Difference(s, b)
  <1>1. TimeWrap \in Nat \ {0}
    BY TimeAssumption
  <1>2. PICK s1 \in 0..(TimeWrap - 1) : /\ s1 = (s + 1) % TimeWrap
                                        /\ s1 = IF s = TimeWrap - 1 THEN 0 ELSE s + 1
    BY NextSecond
  <1>3. PICK b1 \in 0..(TimeWrap - 1) : /\ b1 = (b + 1) % TimeWrap
                                        /\ b1 = IF b = TimeWrap - 1 THEN 0 ELSE b + 1
    BY NextSecond
  <1>4. Difference(s, b) = IF s < b THEN s - b + TimeWrap ELSE s - b
    BY DifferenceIs
  <1>5. Difference(s1, b1) = IF s1 < b1 THEN s1 - b1 + TimeWrap ELSE s1 - b1
    BY DifferenceIs
  <1>6. Difference(s1, b1) = Difference(s, b)
    BY <1>1, <1>2, <1>3, <1>4, <1>5
  <1>7. QED
    BY <1>2, <1>3, <1>6, Zenon

\* What a second does to the age of a stamp, and to a stamp of the other clock.
LEMMA OneGoesOn ==
    ASSUME NEW o \in 0..(TimeWrap - 1), NEW b \in 0..(TimeWrap - 1)
    PROVE  /\ Difference(b, o) + 1 < TimeWrap =>
                 Difference((b + 1) % TimeWrap, o) = Difference(b, o) + 1
           /\ Difference(o, (b + 1) % TimeWrap) =
                 IF Difference(o, b) = 0 THEN TimeWrap - 1 ELSE Difference(o, b) - 1
  <1>1. TimeWrap \in Nat \ {0}
    BY TimeAssumption
  <1>2. PICK b1 \in 0..(TimeWrap - 1) : /\ b1 = (b + 1) % TimeWrap
                                        /\ b1 = IF b = TimeWrap - 1 THEN 0 ELSE b + 1
    BY NextSecond
  <1>3. /\ Difference(b, o) = IF b < o THEN b - o + TimeWrap ELSE b - o
        /\ Difference(o, b) = IF o < b THEN o - b + TimeWrap ELSE o - b
        /\ Difference(b1, o) = IF b1 < o THEN b1 - o + TimeWrap ELSE b1 - o
        /\ Difference(o, b1) = IF o < b1 THEN o - b1 + TimeWrap ELSE o - b1
    BY DifferenceIs
  <1>4. /\ Difference(b, o) + 1 < TimeWrap => Difference(b1, o) = Difference(b, o) + 1
        /\ Difference(o, b1) = IF Difference(o, b) = 0 THEN TimeWrap - 1 ELSE Difference(o, b) - 1
    BY <1>1, <1>2, <1>3
  <1>5. QED
    BY <1>2, <1>4, Zenon

\* The remainders the invariant speaks of: a difference and a wait.
LEMMA WaitShifted ==
    ASSUME NEW D \in 0..(TimeWrap - 1), NEW c \in 0..MaxWait
    PROVE  /\ (D + c) % TimeWrap = IF D + c < TimeWrap THEN D + c ELSE D + c - TimeWrap
           /\ (D - c) % TimeWrap = IF D < c THEN D - c + TimeWrap ELSE D - c
  <1>1. TimeWrap \in Nat \ {0} /\ MaxWait \in Nat /\ MaxWait < TimeWrap
    BY TimeAssumption
  <1>2. PICK x \in Int : x = D + c
    BY <1>1
  <1>3. PICK y \in Int : y = D - c
    BY <1>1
  <1>4. /\ -TimeWrap <= x /\ x < 2 * TimeWrap /\ ~(x < 0)
        /\ -TimeWrap <= y /\ y < TimeWrap /\ y < 2 * TimeWrap
    BY <1>1, <1>2, <1>3
  <1>5. x % TimeWrap = IF x < 0 THEN x + TimeWrap
                       ELSE IF x < TimeWrap THEN x ELSE x - TimeWrap
    BY <1>1, <1>4, Remainder, Zenon
  <1>6. y % TimeWrap = IF y < 0 THEN y + TimeWrap
                       ELSE IF y < TimeWrap THEN y ELSE y - TimeWrap
    BY <1>1, <1>4, Remainder, Zenon
  <1>7. QED
    BY <1>1, <1>2, <1>3, <1>4, <1>5, <1>6

\* A request stamped when it was w seconds on its way.
LEMMA StampedAfter ==
    ASSUME NEW s \in 0..(TimeWrap - 1), NEW b \in 0..(TimeWrap - 1),
           NEW o \in 0..(TimeWrap - 1), Difference(b, o) \in 0..MaxWait
    PROVE  Difference(s, o) = (Difference(s, b) + Difference(b, o)) % TimeWrap
  <1>1. TimeWrap \in Nat \ {0} /\ MaxWait \in Nat /\ MaxWait < TimeWrap
    BY TimeAssumption
  <1>2. /\ Difference(s, b) \in 0..(TimeWrap - 1)
        /\ Difference(s, b) = IF s < b THEN s - b + TimeWrap ELSE s - b
        /\ Difference(b, o) = IF b < o THEN b - o + TimeWrap ELSE b - o
        /\ Difference(s, o) = IF s < o THEN s - o + TimeWrap ELSE s - o
    BY DifferenceIs
  <1>3. PICK D \in 0..(TimeWrap - 1) : D = Difference(s, b)
    BY <1>2
  <1>4. PICK c \in 0..MaxWait : c = Difference(b, o)
    OBVIOUS
  <1>5. (D + c) % TimeWrap = IF D + c < TimeWrap THEN D + c ELSE D + c - TimeWrap
    BY WaitShifted
  <1>6. Difference(s, o) = (D + c) % TimeWrap
    BY <1>1, <1>2, <1>3, <1>4, <1>5
  <1>7. QED
    BY <1>3, <1>4, <1>6

\* Setting the clock: what the two legs of an exchange took, a and c seconds, is
\* all the clocks differ by afterwards, when they differed by more before.
LEMMA SetRight ==
    ASSUME NEW s \in 0..(TimeWrap - 1), NEW b \in 0..(TimeWrap - 1),
           NEW a \in 0..MaxWait, NEW c \in 0..MaxWait,
           ~(Difference(s, b) <= MaxWait), ~(Difference(b, s) <= MaxWait),
           NEW off \in Int,
           off = (((Difference(s, b) + a) % TimeWrap) + ((Difference(s, b) - c) % TimeWrap)) \div 2
    PROVE  \/ Difference(s, (b + off) % TimeWrap) <= MaxWait
           \/ Difference((b + off) % TimeWrap, s) <= MaxWait
  <1>1. TimeWrap \in Nat \ {0} /\ MaxWait \in Nat /\ MaxWait < TimeWrap
    BY TimeAssumption
  <1>2. /\ Difference(s, b) \in 0..(TimeWrap - 1)
        /\ Difference(s, b) = IF s < b THEN s - b + TimeWrap ELSE s - b
        /\ Difference(b, s) = IF b < s THEN b - s + TimeWrap ELSE b - s
    BY DifferenceIs
  <1>3. PICK D \in 0..(TimeWrap - 1) : D = Difference(s, b)
    BY <1>2
  <1>4. /\ (D + a) % TimeWrap = IF D + a < TimeWrap THEN D + a ELSE D + a - TimeWrap
        /\ (D - c) % TimeWrap = IF D < c THEN D - c + TimeWrap ELSE D - c
    BY WaitShifted
  <1>5. D > MaxWait /\ D + MaxWait < TimeWrap
    BY <1>1, <1>2, <1>3
  <1>6. (D + a) % TimeWrap = D + a /\ (D - c) % TimeWrap = D - c
    BY <1>1, <1>4, <1>5
  <1>7. off = ((D + a) + (D - c)) \div 2
    <2>1. off = (((D + a) % TimeWrap) + ((D - c) % TimeWrap)) \div 2
      BY <1>3, Zenon
    <2> DEFINE P == (D + a) % TimeWrap
               Q == (D - c) % TimeWrap
    <2>2. off = (P + Q) \div 2 /\ P = D + a /\ Q = D - c
      BY <2>1, <1>6, Zenon
    <2> HIDE DEF P, Q
    <2>3. QED
      BY <2>2, Zenon
  <1>8. 2 * off <= 2 * D + a - c /\ 2 * D + a - c <= 2 * off + 1
    BY <1>1, <1>7
  <1>9. /\ off - D <= MaxWait /\ D - off <= MaxWait /\ off >= 0 /\ off < TimeWrap
    BY <1>1, <1>5, <1>8
  <1>10. PICK x \in Int : x = b + off
    BY <1>1
  <1>11. -TimeWrap <= x /\ x < 2 * TimeWrap /\ ~(x < 0)
    BY <1>1, <1>9, <1>10
  <1>12. /\ x % TimeWrap \in 0..(TimeWrap - 1)
         /\ x % TimeWrap = IF x < 0 THEN x + TimeWrap
                           ELSE IF x < TimeWrap THEN x ELSE x - TimeWrap
    BY <1>1, <1>11, Remainder, Zenon
  <1>13. PICK n \in 0..(TimeWrap - 1) : /\ n = x % TimeWrap
                                        /\ n = IF x < TimeWrap THEN x ELSE x - TimeWrap
    BY <1>11, <1>12
  <1>14. /\ Difference(s, n) = IF s < n THEN s - n + TimeWrap ELSE s - n
         /\ Difference(n, s) = IF n < s THEN n - s + TimeWrap ELSE n - s
    BY DifferenceIs
  <1>15. Difference(s, n) <= MaxWait \/ Difference(n, s) <= MaxWait
    <2>1. PICK e \in 0..MaxWait : off = D + e \/ off = D - e
      BY <1>1, <1>9
    <2>2. n = (IF b + off < TimeWrap THEN b + off ELSE b + off - TimeWrap)
      <3>1. n = IF x < TimeWrap THEN x ELSE x - TimeWrap
        BY <1>13, Zenon
      <3>2. QED
        BY <1>1, <3>1, <1>10
    <2>3. D = IF s < b THEN s - b + TimeWrap ELSE s - b
      BY <1>2, <1>3
    <2>4. CASE off = D + e
      <3>1. n = IF s + e < TimeWrap THEN s + e ELSE s + e - TimeWrap
        BY <1>1, <1>9, <2>2, <2>3, <2>4
      <3>2. Difference(n, s) = e
        BY <1>1, <1>14, <3>1
      <3>3. QED
        BY <3>2
    <2>5. CASE off = D - e
      <3>1. n = IF s - e >= 0 THEN s - e ELSE s - e + TimeWrap
        BY <1>1, <1>9, <2>2, <2>3, <2>5
      <3>2. Difference(s, n) = e
        BY <1>1, <1>14, <3>1
      <3>3. QED
        BY <3>2
    <2>6. QED
      BY <2>1, <2>4, <2>5
  <1>16. QED
    BY <1>10, <1>13, <1>15, Zenon

\* The types: every variable keeps its own, whatever the step.
LEMMA TimeTypesKept ==
    ASSUME TimeInv, [TimeNext]_timeVars
    PROVE  TimeTypeOK' /\ HostKnown'
  <1>0. TimeTypeOK /\ TimeWrap \in Nat \ {0} /\ MaxWait \in Nat /\ MaxWait < TimeWrap
    BY TimeAssumption DEF TimeInv
  <1>1. timeSynced' \in BOOLEAN
    BY <1>0, Zenon DEF TimeTypeOK, TimeNext, SetTimeServer, SyncTime, SyncFailed, setTime,
       NextHost, ExchangeFails,
         ServerReceives, ServerAnswers, Received, Second, timeVars
  <1>2. ntpHosts' \in ServerLists \union {<<>>, defaultNTPs}
    BY <1>0 DEF TimeTypeOK, splitString, TimeNext, SetTimeServer, SyncTime, SyncFailed, setTime,
       NextHost, ExchangeFails,
         ServerReceives, ServerAnswers, Received, Second, timeVars
  <1>3. syncAt' \in {"idle", "host", "asked", "served", "answered"}
    BY <1>0 DEF TimeTypeOK, TimeNext, SetTimeServer, SyncTime, SyncFailed, setTime, NextHost,
       ExchangeFails,
         ServerReceives, ServerAnswers, Received, Second, timeVars
  <1>4. serverClock' \in 0..(TimeWrap - 1)
    <2>1. serverClock' = serverClock \/ serverClock' = (serverClock + 1) % TimeWrap
      BY Zenon DEF TimeNext, SetTimeServer, SyncTime, SyncFailed, setTime, NextHost, ExchangeFails,
         ServerReceives, ServerAnswers, Received, Second, timeVars
    <2>2. QED
      BY <1>0, <2>1, NextSecond DEF TimeTypeOK
  <1>5. boardClock' \in 0..(TimeWrap - 1)
    <2>1. CASE Received
      <3>1. Difference(pkt.rx, pkt.orig) \in Nat /\ Difference(pkt.tx, boardClock) \in Nat
        BY <1>0, DifferenceIs DEF TimeTypeOK
      <3>2. Offset(pkt, boardClock) \in Nat
        BY <3>1 DEF Offset
      <3>3. PICK x \in Nat : x = boardClock + Offset(pkt, boardClock)
        BY <1>0, <3>2 DEF TimeTypeOK
      <3>4. x % TimeWrap \in 0..(TimeWrap - 1)
        BY <1>0, <3>3
      <3>5. boardClock' = x % TimeWrap
        BY <2>1, <3>3, Zenon DEF Received
      <3>6. QED
        BY <3>4, <3>5
    <2>2. CASE ~Received
      <3>1. boardClock' = boardClock \/ boardClock' = (boardClock + 1) % TimeWrap
        BY <2>2, Zenon DEF TimeNext, SetTimeServer, SyncTime, SyncFailed, setTime, NextHost,
           ExchangeFails,
         ServerReceives, ServerAnswers, Received, Second, timeVars
      <3>2. QED
        BY <1>0, <3>1, NextSecond DEF TimeTypeOK
    <2>3. QED
      BY <2>1, <2>2
  <1>6. pkt' \in [orig : 0..(TimeWrap - 1), rx : 0..(TimeWrap - 1), tx : 0..(TimeWrap - 1)]
    <2>1. NoStamps \in [orig : 0..(TimeWrap - 1), rx : 0..(TimeWrap - 1), tx : 0..(TimeWrap - 1)]
      BY <1>0 DEF NoStamps
    <2>2. \/ pkt' = pkt \/ pkt' = NoStamps \/ pkt' = [NoStamps EXCEPT !.orig = boardClock]
          \/ pkt' = [pkt EXCEPT !.rx = serverClock] \/ pkt' = [pkt EXCEPT !.tx = serverClock]
      BY Zenon DEF TimeNext, SetTimeServer, SyncTime, SyncFailed, setTime, NextHost, ExchangeFails,
         ServerReceives, ServerAnswers, Received, Second, timeVars
    <2>3. QED
      BY <1>0, <2>1, <2>2 DEF TimeTypeOK
  <1>7. waited' \in 0..MaxWait
    <2>1. waited' = waited \/ waited' = 0 \/ (Second /\ syncAt \notin {"idle", "host"})
      BY <1>0 DEF TimeTypeOK, TimeNext, SetTimeServer, SyncTime, SyncFailed, setTime, NextHost,
         ExchangeFails,
         ServerReceives, ServerAnswers, Received, Second, timeVars
    <2>2. CASE Second /\ syncAt \notin {"idle", "host"}
      BY <1>0, <2>2 DEF TimeTypeOK, Second
    <2>3. QED
      BY <1>0, <2>1, <2>2 DEF TimeTypeOK
  <1>8. hostIndex' \in 0..(Len(ntpHosts') + 1) /\ HostKnown'
    <2>1. \A l \in ServerLists \union {<<>>, defaultNTPs} : Len(l) \in Nat
      <3>1. Len(defaultNTPs) = 1 /\ Len(<<>>) = 0
        BY DEF defaultNTPs
      <3>2. \A l \in ServerLists : Len(l) \in Nat
        BY TimeAssumption
      <3>3. QED
        BY <3>1, <3>2
    <2>2. Len(ntpHosts) \in Nat /\ Len(ntpHosts') \in Nat /\ hostIndex \in 0..(Len(ntpHosts) + 1)
      BY <1>0, <1>2, <2>1 DEF TimeTypeOK
    <2>3. PICK n \in Nat : n = Len(ntpHosts')
      BY <2>2
    <2>4. PICK m \in Nat : m = Len(ntpHosts)
      BY <2>2
    <2>5. /\ syncAt = "idle" => hostIndex = 0
          /\ syncAt = "host" => hostIndex \in 1..(m + 1)
          /\ syncAt \in {"asked", "served", "answered"} => hostIndex \in 1..m
          /\ hostIndex \in 0..(m + 1)
      BY <2>2, <2>4 DEF TimeInv, HostKnown, Exchanging
    <2>6. SUFFICES /\ syncAt' = "idle" => hostIndex' = 0
                   /\ syncAt' = "host" => hostIndex' \in 1..(n + 1)
                   /\ syncAt' \in {"asked", "served", "answered"} => hostIndex' \in 1..n
                   /\ hostIndex' \in 0..(n + 1)
      BY <2>3, <1>3 DEF HostKnown, Exchanging
    <2>7. CASE UNCHANGED ntpHosts
      <3>1. m = n
        BY <2>3, <2>4, <2>7
      <3>2. CASE TimeNext
        <4>1. CASE setTime
          <5>1. /\ syncAt = "host" /\ hostIndex <= m
                /\ \/ syncAt' = "host" /\ hostIndex' = hostIndex + 1
                   \/ syncAt' = "asked" /\ hostIndex' = hostIndex
            BY <4>1, <2>4, Zenon DEF setTime, NextHost
          <5>2. QED
            BY <5>1, <2>5, <3>1
        <4>2. CASE ExchangeFails
          BY <4>2, <2>5, <3>1 DEF ExchangeFails, NextHost
        <4>3. CASE (\E list \in ServerLists : SetTimeServer(list)) \/ SyncTime \/ SyncFailed
          BY <4>3, <2>5, <3>1 DEF SetTimeServer, SyncTime, SyncFailed
        <4>4. CASE ServerReceives \/ ServerAnswers \/ Received \/ Second
          BY <4>4, <2>5, <3>1 DEF ServerReceives, ServerAnswers, Received, Second
        <4>5. QED
          BY <3>2, <4>1, <4>2, <4>3, <4>4 DEF TimeNext
      <3>3. QED
        BY <2>5, <3>1, <3>2 DEF timeVars
    <2>8. CASE ntpHosts' # ntpHosts
      <3>1. (\E list \in ServerLists : SetTimeServer(list)) \/ SyncTime
        BY <2>8, Zenon DEF TimeNext, SetTimeServer, SyncTime, SyncFailed, setTime, NextHost,
           ExchangeFails,
         ServerReceives, ServerAnswers, Received, Second, timeVars
      <3>2. \/ syncAt = "idle" /\ syncAt' = "idle" /\ hostIndex' = hostIndex
            \/ syncAt' = "host" /\ hostIndex' = 1
        BY <3>1 DEF SetTimeServer, SyncTime
      <3>3. QED
        BY <3>2, <2>5
    <2>9. QED
      BY <2>7, <2>8
  <1>9. QED
    BY <1>1, <1>2, <1>3, <1>4, <1>5, <1>6, <1>7, <1>8 DEF TimeTypeOK

\* How a step leaves the stamps in relation to the clocks.
LEMMA TimeStepKept ==
    ASSUME TimeInv, [TimeNext]_timeVars
    PROVE  TimeInv'
  <1>0. TimeTypeOK /\ TimeWrap \in Nat \ {0} /\ MaxWait \in Nat /\ MaxWait < TimeWrap
    BY TimeAssumption DEF TimeInv
  <1>1. TimeTypeOK' /\ HostKnown'
    BY TimeTypesKept
  <1>2. (syncAt \notin Exchanging => waited = 0)'
    BY <1>0 DEF TimeInv, TimeTypeOK, TimeNext, SetTimeServer, SyncTime, SyncFailed, setTime,
       NextHost,
         ExchangeFails, ServerReceives, ServerAnswers, Received, Second, timeVars, Exchanging
  <1>t. TimeInv'
    <2>1. CASE Second
      <3>1. PICK s1 \in 0..(TimeWrap - 1) : s1 = (serverClock + 1) % TimeWrap
        BY <1>0, NextSecond DEF TimeTypeOK
      <3>2. PICK b1 \in 0..(TimeWrap - 1) : b1 = (boardClock + 1) % TimeWrap
        BY <1>0, NextSecond DEF TimeTypeOK
      <3>3. PICK D \in 0..(TimeWrap - 1) : D = Difference(serverClock, boardClock)
        BY <1>0, DifferenceIs DEF TimeTypeOK
      <3>4. serverClock' = s1 /\ boardClock' = b1 /\ pkt' = pkt /\ syncAt' = syncAt
        BY <2>1, <3>1, <3>2 DEF Second
      <3>5. Difference(s1, b1) = D
        BY <1>0, <3>1, <3>2, <3>3, BothGoOn DEF TimeTypeOK
      <3>6. (syncAt \in Exchanging => Difference(boardClock, pkt.orig) = waited)'
        <4>1. SUFFICES ASSUME syncAt \in Exchanging
                       PROVE  Difference(b1, pkt.orig) = waited'
          BY <3>4, Zenon
        <4>2. waited' = waited + 1 /\ waited < MaxWait /\ waited \in Nat
          BY <1>0, <2>1, <4>1 DEF Second, Exchanging, TimeTypeOK
        <4>3. Difference(boardClock, pkt.orig) = waited
          BY <4>1 DEF TimeInv
        <4>4. Difference(boardClock, pkt.orig) + 1 < TimeWrap =>
                Difference(b1, pkt.orig) = Difference(boardClock, pkt.orig) + 1
          BY <1>0, <3>2, OneGoesOn DEF TimeTypeOK
        <4>5. QED
          BY <1>0, <4>2, <4>3, <4>4
      <3>7. (syncAt \in {"served", "answered"} =>
              \E a \in 0..MaxWait :
                Difference(pkt.rx, pkt.orig) = (Difference(serverClock,
                   boardClock) + a) % TimeWrap)'
        BY <3>3, <3>4, <3>5 DEF TimeInv
      <3>8. (syncAt = "answered" =>
              \E c \in 0..waited :
                Difference(pkt.tx, boardClock) = (Difference(serverClock,
                   boardClock) - c) % TimeWrap)'
        <4>1. SUFFICES ASSUME syncAt = "answered"
                       PROVE  \E c \in 0..waited' : Difference(pkt.tx, b1) = (D - c) % TimeWrap
          BY <3>4, <3>5
        <4>2. waited' = waited + 1 /\ waited < MaxWait /\ waited \in Nat
          BY <1>0, <2>1, <4>1 DEF Second, TimeTypeOK
        <4>3. PICK c \in 0..waited : Difference(pkt.tx, boardClock) = (D - c) % TimeWrap
          BY <4>1, <3>3 DEF TimeInv
        <4>4. PICK d \in 0..waited' : d = c + 1
          BY <4>2
        <4>5. c \in 0..MaxWait /\ d \in 0..MaxWait
          BY <1>0, <4>2, <4>4
        <4>6. /\ (D - c) % TimeWrap = IF D < c THEN D - c + TimeWrap ELSE D - c
              /\ (D - d) % TimeWrap = IF D < d THEN D - d + TimeWrap ELSE D - d
          BY <4>5, WaitShifted
        <4>7. Difference(pkt.tx, b1) = IF Difference(pkt.tx, boardClock) = 0 THEN TimeWrap - 1
                                       ELSE Difference(pkt.tx, boardClock) - 1
          BY <1>0, <3>2, OneGoesOn DEF TimeTypeOK
        <4>8. Difference(pkt.tx, b1) = (D - d) % TimeWrap
          BY <1>0, <4>3, <4>4, <4>5, <4>6, <4>7
        <4>9. QED
          BY <4>8
      <3>9. QED
        BY <1>1, <1>2, <3>6, <3>7, <3>8 DEF TimeInv
    <2>2. CASE ServerReceives
      <3>1. syncAt = "asked" /\ syncAt' = "served" /\ pkt' = [pkt EXCEPT !.rx = serverClock]
            /\ serverClock' = serverClock /\ boardClock' = boardClock /\ waited' = waited
        BY <2>2 DEF ServerReceives
      <3>2. pkt'.rx = serverClock /\ pkt'.orig = pkt.orig
        BY <1>0, <3>1 DEF TimeTypeOK
      <3>3. Difference(boardClock, pkt.orig) = waited /\ waited \in 0..MaxWait
        BY <1>0, <3>1 DEF TimeInv, Exchanging, TimeTypeOK
      <3>4. Difference(serverClock, pkt.orig)
              = (Difference(serverClock, boardClock) + Difference(boardClock, pkt.orig)) % TimeWrap
        BY <1>0, <3>3, StampedAfter DEF TimeTypeOK
      <3>5. QED
        BY <1>1, <1>2, <3>1, <3>2, <3>3, <3>4 DEF TimeInv
    <2>3. CASE ServerAnswers
      <3>1. syncAt = "served" /\ syncAt' = "answered" /\ pkt' = [pkt EXCEPT !.tx = serverClock]
            /\ serverClock' = serverClock /\ boardClock' = boardClock /\ waited' = waited
        BY <2>3 DEF ServerAnswers
      <3>2. pkt'.tx = serverClock /\ pkt'.rx = pkt.rx /\ pkt'.orig = pkt.orig
        BY <1>0, <3>1 DEF TimeTypeOK
      <3>3. PICK D \in 0..(TimeWrap - 1) : D = Difference(serverClock, boardClock)
        BY <1>0, DifferenceIs DEF TimeTypeOK
      <3>4. (D - 0) % TimeWrap = IF D < 0 THEN D - 0 + TimeWrap ELSE D - 0
        BY <1>0, WaitShifted
      <3>5. Difference(serverClock, boardClock) = (Difference(serverClock,
         boardClock) - 0) % TimeWrap
        BY <1>0, <3>3, <3>4
      <3>6. 0 \in 0..waited
        BY <1>0 DEF TimeTypeOK
      <3>7. \E c \in 0..waited' :
              Difference(pkt'.tx, boardClock') = (Difference(serverClock',
                 boardClock') - c) % TimeWrap
        BY <3>1, <3>2, <3>5, <3>6
      <3>8. (syncAt \in Exchanging => Difference(boardClock, pkt.orig) = waited)'
        BY <3>1, <3>2 DEF TimeInv, Exchanging
      <3>9. \E a \in 0..MaxWait :
                Difference(pkt'.rx, pkt'.orig) = (Difference(serverClock',
                   boardClock') + a) % TimeWrap
        BY <3>1, <3>2 DEF TimeInv
      <3>10. QED
        BY <1>1, <1>2, <3>1, <3>7, <3>8, <3>9 DEF TimeInv
    <2>4. CASE syncAt' = "asked" /\ ~Second /\ TimeNext /\ ~ServerReceives /\ ~ServerAnswers
      <3>1. setTime
        BY <2>4 DEF TimeNext, SetTimeServer, SyncTime, SyncFailed, ExchangeFails, NextHost, Received
      <3>2. syncAt = "host" /\ pkt' = [NoStamps EXCEPT !.orig = boardClock] /\ boardClock' = boardClock
            /\ waited' = waited
        BY <2>4, <3>1 DEF setTime, NextHost
      <3>3. pkt'.orig = boardClock /\ waited = 0
        BY <3>2 DEF NoStamps, TimeInv, Exchanging
      <3>4. Difference(boardClock, boardClock) = 0
        BY <1>0, DifferenceIs DEF TimeTypeOK
      <3>5. QED
        BY <1>1, <1>2, <2>4, <3>2, <3>3, <3>4 DEF TimeInv
    <2>5. CASE syncAt' \notin Exchanging
      BY <1>1, <1>2, <2>5 DEF TimeInv, Exchanging
    <2>6. CASE UNCHANGED timeVars
      BY <1>1, <1>2, <2>6 DEF TimeInv, timeVars
    <2>7. QED
      <3>1. SUFFICES ASSUME TimeNext, ~Second, ~ServerReceives, ~ServerAnswers,
                            syncAt' \in Exchanging
                     PROVE  syncAt' = "asked"
        BY <2>1, <2>2, <2>3, <2>4, <2>5, <2>6
      <3>2. QED
        BY <3>1 DEF TimeNext, SetTimeServer, SyncTime, SyncFailed, setTime, NextHost, ExchangeFails,
           Received, Exchanging
  <1>3. QED
    BY <1>t

\* The invariant of the exchange.
THEOREM TimeInvariant == TimeSpec => []TimeInv
  <1>1. TimeInit => TimeInv
    <2>1. SUFFICES ASSUME TimeInit PROVE TimeInv
      OBVIOUS
    <2>2. TimeWrap \in Nat \ {0} /\ MaxWait \in Nat /\ Len(ntpHosts) = 0
      BY <2>1, TimeAssumption DEF TimeInit
    <2>3. timeSynced \in BOOLEAN
      BY <2>1, Zenon DEF TimeInit
    <2>4. ntpHosts = <<>>
      BY <2>1 DEF TimeInit
    <2>5. pkt \in [orig : 0..(TimeWrap - 1), rx : 0..(TimeWrap - 1), tx : 0..(TimeWrap - 1)]
      BY <2>1, <2>2 DEF TimeInit, NoStamps
    <2>6. TimeTypeOK
      BY <2>1, <2>2, <2>3, <2>4, <2>5 DEF TimeInit, TimeTypeOK
    <2>7. QED
      BY <2>1, <2>6 DEF TimeInit, TimeInv, HostKnown, Exchanging
  <1>2. TimeInv /\ [TimeNext]_timeVars => TimeInv'
    BY TimeStepKept
  <1>3. QED
    BY <1>1, <1>2, PTL DEF TimeSpec

\* An exchange sets a wrong clock right.
THEOREM ClockSetRight == TimeSpec => WrongClockSetRight
  <1>1. ASSUME TimeInv, Received, ~ClocksAgree PROVE ClocksAgree'
    <2>0. TimeTypeOK /\ TimeWrap \in Nat \ {0} /\ MaxWait \in Nat /\ MaxWait < TimeWrap
      BY <1>1, TimeAssumption DEF TimeInv
    <2>1. syncAt = "answered" /\ serverClock' = serverClock
      BY <1>1 DEF Received
    <2>2. PICK a \in 0..MaxWait :
             Difference(pkt.rx, pkt.orig) = (Difference(serverClock, boardClock) + a) % TimeWrap
      BY <1>1, <2>1 DEF TimeInv
    <2>3. PICK c \in 0..waited :
             Difference(pkt.tx, boardClock) = (Difference(serverClock, boardClock) - c) % TimeWrap
      BY <1>1, <2>1 DEF TimeInv
    <2>4. c \in 0..MaxWait
      BY <2>0 DEF TimeTypeOK
    <2>5. Difference(pkt.rx, pkt.orig) \in Nat /\ Difference(pkt.tx, boardClock) \in Nat
      BY <2>0, DifferenceIs DEF TimeTypeOK
    <2>6. PICK off \in Int : off = (Difference(pkt.rx, pkt.orig) + Difference(pkt.tx, boardClock)) \div 2
      BY <2>5
    <2>7. off = (((Difference(serverClock, boardClock) + a) % TimeWrap)
                 + ((Difference(serverClock, boardClock) - c) % TimeWrap)) \div 2
      BY <2>2, <2>3, <2>6, Zenon
    <2>8. boardClock' = (boardClock + off) % TimeWrap
      BY <1>1, <2>6, Zenon DEF Received, Offset
    <2>9. \/ Difference(serverClock, (boardClock + off) % TimeWrap) <= MaxWait
          \/ Difference((boardClock + off) % TimeWrap, serverClock) <= MaxWait
      <3>1. ~(Difference(serverClock, boardClock) <= MaxWait)
            /\ ~(Difference(boardClock, serverClock) <= MaxWait)
        BY <1>1, Zenon DEF ClocksAgree
      <3>2. serverClock \in 0..(TimeWrap - 1) /\ boardClock \in 0..(TimeWrap - 1)
        BY <2>0, Zenon DEF TimeTypeOK
      <3>3. QED
        BY <3>1, <3>2, <2>4, <2>7, SetRight, Zenon
    <2>10. QED
      BY <2>1, <2>8, <2>9, Zenon DEF ClocksAgree
  <1>2. TimeInv => [Received /\ ~ClocksAgree => ClocksAgree']_timeVars
    BY <1>1
  <1>3. QED
    BY TimeInvariant, <1>2, PTL DEF TimeSpec, WrongClockSetRight

-----------------------------------------------------------------------------
(* AudioV2: recording and playing within the buffer.                       *)

\* The flags of AudioClassV2 stay flags.
LEMMA AudioBooleansKept ==
    ASSUME AudioInv, [AudioNext]_audioVars
    PROVE  audioBuffer' \in BOOLEAN /\ mono' \in BOOLEAN
  BY Zenon DEF AudioInv, AudioTypeOK, AudioNext, format, startRecord, startPlay, NewBuffer,
     PlayLoad,
       PlayAdvance, startWithCallback, stop, StopHeader, StopFinish, StopDMA,
       BSP_AUDIO_IN_TransferComplete_CallBack, BSP_AUDIO_OUT_TransferComplete_CallBack,
       convertToMono, audioVars, buffers, wave

\* The sizes a conversion computes are natural numbers.
LEMMA MonoSizeFits ==
    ASSUME NEW n \in Nat, n >= WAVE_HEADER_SIZE
    PROVE  MonoSize(n) - WAVE_HEADER_SIZE \in Nat
  <1>1. WAVE_HEADER_SIZE \in Nat /\ SampleSize \in Nat \ {0}
    BY AudioAssumption
  <1>2. \A a, b \in Nat : a * b \in Nat
    OBVIOUS
  <1> DEFINE moved == (n - WAVE_HEADER_SIZE - 1) \div (2 * SampleSize)
             k == 1 + (IF n = WAVE_HEADER_SIZE THEN 0 ELSE moved)
  <1>3. k \in Nat
    <2>1. CASE n = WAVE_HEADER_SIZE
      BY <2>1
    <2>2. CASE n # WAVE_HEADER_SIZE
      <3>1. n - WAVE_HEADER_SIZE - 1 \in Nat /\ 2 * SampleSize \in Nat \ {0}
        BY <1>1, <2>2
      <3>2. \A a \in Nat, d \in Nat \ {0} : a \div d \in Nat
        OBVIOUS
      <3>3. moved \in Nat
        BY <3>1, <3>2
      <3>4. QED
        BY <2>2, <3>3
    <2>3. QED
      BY <2>1, <2>2
  <1>4. SampleSize * k \in Nat
    BY <1>1, <1>2, <1>3
  <1>5. MonoSize(n) = WAVE_HEADER_SIZE + SampleSize * k
    BY DEF MonoSize
  <1>6. QED
    BY <1>1, <1>4, <1>5

\* A step of the application, of a DMA interrupt or of a callback keeps the invariant.
LEMMA AudioStepKept ==
    ASSUME AudioInv, [AudioNext]_audioVars
    PROVE  AudioInv'
  <1>0. audioBuffer' \in BOOLEAN /\ mono' \in BOOLEAN
    BY AudioBooleansKept
  <1>1. /\ AUDIO_CHUNK_SIZE \in Nat /\ WAVE_HEADER_SIZE \in Nat
    BY AudioAssumption
  <1> USE <1>0, <1>1 DEF AudioInv, AudioTypeOK, CallTypedAudio, CursorKnown, CallKnownAudio,
     HeaderKnown,
           HeaderCovers, AudioInBuffer, Recorded, Running, Returned, None, buffers, cursors, wave
  <1>2. CASE format
    BY <1>2 DEF format, ReadyToStart
  <1>3. ASSUME NEW n \in BufferSizes, startRecord(n)
        PROVE  AudioInv'
    BY <1>3, AudioAssumption DEF startRecord, ReadyToStart, NewBuffer
  <1>4. ASSUME NEW n \in BufferSizes, startPlay(n)
        PROVE  AudioInv'
    BY <1>4, AudioAssumption DEF startPlay, ReadyToStart, NewBuffer
  <1>5. CASE startWithCallback("RECORDING", "in") \/ startWithCallback("PLAYING", "out")
    BY <1>5 DEF startWithCallback, ReadyToStart
  <1>6. CASE PlayLoad
    BY <1>6 DEF PlayLoad
  <1>7. CASE PlayAdvance
    BY <1>7 DEF PlayAdvance
  <1>8. CASE stop
    BY <1>8 DEF stop
  <1>9. CASE StopHeader
    BY <1>9 DEF StopHeader
  <1>10. CASE StopFinish
    BY <1>10 DEF StopFinish, Finish
  <1>11. CASE StopDMA
    BY <1>11 DEF StopDMA
  <1>12. CASE BSP_AUDIO_IN_TransferComplete_CallBack
    <2>1. CASE audioState = "RECORDING" /\ audioBuffer
      BY <1>12, <2>1 DEF BSP_AUDIO_IN_TransferComplete_CallBack, RecordChunk, NoRoom, StopInside,
         Finish
    <2>2. CASE ~(audioState = "RECORDING" /\ audioBuffer)
      BY <1>12, <2>2 DEF BSP_AUDIO_IN_TransferComplete_CallBack, Callback, Finish
    <2>3. QED
      BY <2>1, <2>2
  <1>13. CASE BSP_AUDIO_OUT_TransferComplete_CallBack
    <2>1. CASE audioState = "PLAYING" /\ audioBuffer
      BY <1>13, <2>1 DEF BSP_AUDIO_OUT_TransferComplete_CallBack, PlayChunk, NoRoom, StopInside,
         Finish
    <2>2. CASE ~(audioState = "PLAYING" /\ audioBuffer)
      BY <1>13, <2>2 DEF BSP_AUDIO_OUT_TransferComplete_CallBack, Callback, Finish
    <2>3. QED
      BY <2>1, <2>2
  <1>14. CASE convertToMono
    BY <1>14, MonoSizeFits DEF convertToMono, getCurrentSize
  <1>15. CASE UNCHANGED audioVars
    BY <1>15 DEF audioVars
  <1>16. QED
    BY <1>2, <1>3, <1>4, <1>5, <1>6, <1>7, <1>8, <1>9, <1>10, <1>11, <1>12, <1>13, <1>14, <1>15
       DEF AudioNext

\* The inductive invariant of AudioClassV2 holds, wherever the interrupts come.
THEOREM AudioInvariant == AudioSpec => []AudioInv
  <1>1. AudioInit => AudioInv
    <2>1. AudioInit => audioBuffer \in BOOLEAN /\ mono \in BOOLEAN
      BY Zenon DEF AudioInit
    <2>2. QED
      BY <2>1, AudioAssumption
       DEF AudioInit, AudioInv, AudioTypeOK, CallTypedAudio, CursorKnown, CallKnownAudio,
          HeaderKnown,
           HeaderCovers, AudioInBuffer, Recorded, Running, Returned, None
  <1>2. QED
    BY <1>1, AudioStepKept, PTL DEF AudioSpec

\* Nothing is written behind the application's buffer, and a recording that was stopped has a
\* header that covers it: AudioSound, for every size of buffer and chunk.
THEOREM AudioIsSound == AudioSpec => []AudioSound
  <1>1. AudioInv => AudioSound
    BY DEF AudioInv, AudioSound, HeaderHonest, HeaderKnown, Recorded, HeaderCovers, Returned,
       CallTypedAudio
  <1>2. QED
    BY <1>1, AudioInvariant, PTL

-----------------------------------------------------------------------------
(* EEPROMSettings: what was saved stays readable.                          *)

Cells == [enveloped : BOOLEAN, val : Values \cup {Zero}]

\* What a call under way is.
LEMMA CallKinds ==
    ASSUME CallTyped
    PROVE  /\ eeCall.op = "save" <=> eeCall \in SaveCalls
           /\ eeCall.op = "enable" <=> eeCall \in EnableCalls
           /\ eeCall = Idle \/ eeCall \in SaveCalls \/ eeCall \in EnableCalls
           /\ eeCall = Idle => eeCall \notin SaveCalls /\ eeCall \notin EnableCalls
           /\ eeCall \notin SaveCalls \/ eeCall \notin EnableCalls
           /\ eeCall # Idle => /\ Len(eeCall.todo) > 0 /\ eeCall.todo \in Seq(Zones)
                               /\ eeCall.blk \in 1..Blocks[Zone] /\ Zone \in Zones
                               /\ Zone = eeCall.todo[1] /\ eeCall.blk \in Nat
           /\ eeCall.op \in {"idle", "save", "enable"}
  <1>1. eeCall = Idle => eeCall.op = "idle"
    BY DEF Idle
  <1>2. eeCall \in SaveCalls => eeCall.op = "save" /\ eeCall.todo \in Seq(Zones) /\ eeCall.blk \in Nat
    BY DEF SaveCalls
  <1>3. eeCall \in EnableCalls => eeCall.op = "enable" /\ eeCall.todo \in Seq(Zones) /\ eeCall.blk \in Nat
    BY DEF EnableCalls
  <1>4. eeCall # Idle => eeCall.todo \in Seq(Zones) /\ Len(eeCall.todo) > 0
                         /\ eeCall.blk \in 1..Blocks[Zone] /\ eeCall.blk \in Nat
    BY <1>2, <1>3 DEF CallTyped
  <1>5. eeCall # Idle => Zone \in Zones /\ Zone = eeCall.todo[1]
    <2> SUFFICES ASSUME eeCall # Idle PROVE Zone \in Zones /\ Zone = eeCall.todo[1]
      OBVIOUS
    <2> DEFINE q == eeCall.todo
    <2>1. q \in Seq(Zones) /\ Len(q) > 0
      BY <1>4
    <2> HIDE DEF q
    <2>2. Head(q) \in Zones /\ Head(q) = q[1]
      BY <2>1
    <2>3. QED
      BY <2>2 DEF Zone, q
  <1>6. QED
    BY <1>1, <1>2, <1>3, <1>4, <1>5 DEF CallTyped

\* A function changed at one point, and a constant one.
LEMMA ChangedAt ==
    ASSUME NEW D, NEW R, NEW f \in [D -> R], NEW d \in D, NEW v \in R
    PROVE  /\ [f EXCEPT ![d] = v] \in [D -> R]
           /\ \A x \in D : [f EXCEPT ![d] = v][x] = IF x = d THEN v ELSE f[x]
           /\ [x \in D |-> v] \in [D -> R]
  OBVIOUS

\* The rest of a sequence.
LEMMA TailFacts ==
    ASSUME NEW S, NEW q \in Seq(S), q # <<>>
    PROVE  /\ Tail(q) \in Seq(S) /\ Len(Tail(q)) = Len(q) - 1 /\ Len(q) \in Nat \ {0}
           /\ DOMAIN Tail(q) = 1..(Len(q) - 1) /\ DOMAIN q = 1..Len(q)
           /\ \A i \in 1..(Len(q) - 1) : Tail(q)[i] = q[i + 1]
           /\ Head(q) = q[1] /\ Head(q) \in S
  OBVIOUS

\* One block of the chip is written.
LEMMA OneBlock ==
    ASSUME EEPROMTypeOK, ChipShaped, NEW z0 \in Zones, NEW b0 \in 1..Blocks[z0], NEW v \in Cells,
           zones' = [zones EXCEPT ![z0][b0] = v]
    PROVE  /\ ChipShaped'
           /\ \A z \in Zones : zones'[z] \in [1..Blocks[z] -> Cells]
           /\ \A z \in Zones : \A b \in 1..Blocks[z] :
                 zones'[z][b] = IF z = z0 /\ b = b0 THEN v ELSE zones[z][b]
  <1>1. \A z \in Zones : zones[z] \in [1..Blocks[z] -> Cells]
    BY DEF EEPROMTypeOK, Cells
  <1>2. zones' = [z \in Zones |-> IF z = z0 THEN [zones[z] EXCEPT ![b0] = v] ELSE zones[z]]
    BY DEF ChipShaped
  <1>3. \A z \in Zones : zones'[z] = IF z = z0 THEN [zones[z] EXCEPT ![b0] = v] ELSE zones[z]
    BY <1>2
  <1>4. ChipShaped'
    BY <1>2, <1>3 DEF ChipShaped
  <1>5. ASSUME NEW z \in Zones
        PROVE  /\ zones'[z] \in [1..Blocks[z] -> Cells]
               /\ \A b \in 1..Blocks[z] :
                    zones'[z][b] = IF z = z0 /\ b = b0 THEN v ELSE zones[z][b]
    <2>1. CASE z = z0
      <3>1. zones'[z] = [zones[z] EXCEPT ![b0] = v] /\ zones[z] \in [1..Blocks[z] -> Cells]
        BY <1>1, <1>3, <2>1
      <3>2. b0 \in 1..Blocks[z]
        BY <2>1
      <3>3. /\ [zones[z] EXCEPT ![b0] = v] \in [1..Blocks[z] -> Cells]
            /\ \A b \in 1..Blocks[z] :
                  [zones[z] EXCEPT ![b0] = v][b] = IF b = b0 THEN v ELSE zones[z][b]
        BY <3>1, <3>2, ChangedAt, Zenon
      <3>4. QED
        BY <2>1, <3>1, <3>3, Zenon
    <2>2. CASE z # z0
      BY <1>1, <1>3, <2>2
    <2>3. QED
      BY <2>1, <2>2
  <1>6. QED
    BY <1>4, <1>5

\* A zone is written as a whole.
LEMMA OneZone ==
    ASSUME EEPROMTypeOK, ChipShaped, NEW z0 \in Zones, NEW v \in Cells,
           zones' = [zones EXCEPT ![z0] = [b \in 1..Blocks[z0] |-> v]]
    PROVE  /\ ChipShaped'
           /\ \A z \in Zones : zones'[z] \in [1..Blocks[z] -> Cells]
           /\ \A z \in Zones : \A b \in 1..Blocks[z] :
                 zones'[z][b] = IF z = z0 THEN v ELSE zones[z][b]
  <1>1. \A z \in Zones : zones[z] \in [1..Blocks[z] -> Cells]
    BY DEF EEPROMTypeOK, Cells
  <1>2. zones' = [z \in Zones |-> IF z = z0 THEN [b \in 1..Blocks[z0] |-> v] ELSE zones[z]]
    BY DEF ChipShaped
  <1>3. \A z \in Zones : zones'[z] = IF z = z0 THEN [b \in 1..Blocks[z0] |-> v] ELSE zones[z]
    BY <1>2
  <1>4. ChipShaped'
    BY <1>2, <1>3 DEF ChipShaped
  <1>5. ASSUME NEW z \in Zones
        PROVE  /\ zones'[z] \in [1..Blocks[z] -> Cells]
               /\ \A b \in 1..Blocks[z] : zones'[z][b] = IF z = z0 THEN v ELSE zones[z][b]
    <2>1. CASE z = z0
      <3>1. zones'[z] = [b \in 1..Blocks[z] |-> v]
        BY <1>3, <2>1
      <3>2. QED
        BY <2>1, <3>1
    <2>2. CASE z # z0
      BY <1>1, <1>3, <2>2
    <2>3. QED
      BY <2>1, <2>2
  <1>6. QED
    BY <1>4, <1>5

\* What a block is filled with fits into it.
LEMMA BlockFits ==
    ASSUME EEPROMTypeOK, NEW val \in Values \cup {Zero}
    PROVE  Block(val) \in Cells
  BY DEF Block, Cells, EEPROMTypeOK

\* Forgetting zones keeps the type, and everything known of the others.
LEMMA Forgotten ==
    ASSUME EEPROMTypeOK, NEW zs, Forget(zs)
    PROVE  /\ kept' \in [Zones -> Values \cup {Unknown}]
           /\ \A z \in Zones : kept'[z] = IF z \in zs THEN Unknown ELSE kept[z]
  BY DEF Forget, EEPROMTypeOK

\* A read that fails touches its own zone only, and that is forgotten.
LEMMA ReadFailed ==
    ASSUME EEPROMTypeOK, ChipShaped, NEW z0 \in Zones, NEW b0 \in 1..Blocks[z0], ReadFails(z0, b0)
    PROVE  /\ ChipShaped'
           /\ \A z \in Zones : zones'[z] \in [1..Blocks[z] -> Cells]
           /\ \A z \in Zones : z # z0 => \A b \in 1..Blocks[z] : zones'[z][b] = zones[z][b]
           /\ kept' \in [Zones -> Values \cup {Unknown}]
           /\ kept'[z0] = Unknown
           /\ \A z \in Zones : z # z0 => kept'[z] = kept[z]
           /\ \A z \in Zones : \A b \in 1..Blocks[z] :
                 zones'[z][b] = zones[z][b] \/ zones'[z][b].val = Zero
  <1>1. kept' \in [Zones -> Values \cup {Unknown}] /\ kept'[z0] = Unknown
        /\ \A z \in Zones : z # z0 => kept'[z] = kept[z]
    BY Forgotten DEF ReadFails
  <1>2. CASE zones' = [zones EXCEPT ![z0][b0] = Block(Zero)]
    <2>1. Block(Zero) \in Cells /\ Block(Zero).val = Zero
      BY BlockFits DEF Block
    <2>2. QED
      <3>1. /\ ChipShaped'
            /\ \A z \in Zones : zones'[z] \in [1..Blocks[z] -> Cells]
            /\ \A z \in Zones : \A b \in 1..Blocks[z] :
                  zones'[z][b] = IF z = z0 /\ b = b0 THEN Block(Zero) ELSE zones[z][b]
        BY <1>2, <2>1, OneBlock, ZenonT(60)
      <3>2. QED
        BY <1>1, <2>1, <3>1
  <1>3. CASE zones' = zones
    BY <1>1, <1>3 DEF ChipShaped, EEPROMTypeOK, Cells
  <1>4. QED
    BY <1>2, <1>3, Zenon DEF ReadFails

\* The parts of the invariant that only look at the call's end: everything relied on
\* is readable again.
LEMMA BackToIdle ==
    ASSUME EEPROMInv, eeCall' = Idle,
           \A z \in Zones : zones'[z] \in [1..Blocks[z] -> Cells],
           ChipShaped', kept' \in [Zones -> Values \cup {Unknown}],
           secure' = secure, eeBuf' \in [1..MaxBlocks -> Values \cup {Zero}],
           \A z \in Zones : kept'[z] # Unknown =>
              \A b \in 1..Blocks[z] : zones'[z][b] = Block(kept'[z])
    PROVE  EEPROMInv'
  <1>1. eeCall'.op = "idle" /\ eeCall' \notin SaveCalls /\ eeCall' \notin EnableCalls
    BY DEF Idle, SaveCalls, EnableCalls
  <1>2. secure' \in BOOLEAN
    BY DEF EEPROMInv, EEPROMTypeOK
  <1>3. EEPROMTypeOK'
    BY <1>1, <1>2 DEF EEPROMTypeOK, Cells
  <1>4. KeptIsReadable'
    BY DEF KeptIsReadable, Block
  <1>5. QED
    BY <1>1, <1>3, <1>4 DEF EEPROMInv, CallTyped, SaveKnown, EnableKnown

\* A call of save ends.
LEMMA SaveEnds ==
    ASSUME EEPROMInv, LoadFails \/ StoreFails \/ VerifyFails
    PROVE  EEPROMInv'
  <1>1. eeCall \in SaveCalls /\ eeCall' = Idle /\ UNCHANGED <<secure, eeBuf>>
        /\ Zone \in Zones /\ eeCall.blk \in 1..Blocks[Zone]
    BY CallKinds DEF EEPROMInv, LoadFails, StoreFails, VerifyFails, InPhase, Idle
  <1>2. eeBuf' \in [1..MaxBlocks -> Values \cup {Zero}]
    BY <1>1 DEF EEPROMInv, EEPROMTypeOK
  <1>3. \A z \in Zones : kept[z] # Unknown => \A b \in 1..Blocks[z] : zones[z][b] = Block(kept[z])
    BY <1>1 DEF EEPROMInv, SaveKnown, KeptHolds, HoldsAll
  <1>4. CASE StoreFails
    <2>1. UNCHANGED <<zones, kept>>
      BY <1>4 DEF StoreFails
    <2>2. QED
      BY <1>1, <1>2, <1>3, <2>1, BackToIdle DEF EEPROMInv, EEPROMTypeOK, ChipShaped, Cells
  <1>5. CASE LoadFails \/ VerifyFails
    <2>1. ReadFails(Zone, eeCall.blk)
      BY <1>5 DEF LoadFails, VerifyFails
    <2>2. /\ ChipShaped'
          /\ \A z \in Zones : zones'[z] \in [1..Blocks[z] -> Cells]
          /\ \A z \in Zones : z # Zone => \A b \in 1..Blocks[z] : zones'[z][b] = zones[z][b]
          /\ kept' \in [Zones -> Values \cup {Unknown}]
          /\ kept'[Zone] = Unknown
          /\ \A z \in Zones : z # Zone => kept'[z] = kept[z]
      BY <1>1, <2>1, ReadFailed DEF EEPROMInv
    <2>3. QED
      BY <1>1, <1>2, <1>3, <2>2, BackToIdle
  <1>6. QED
    BY <1>4, <1>5

\* A read between calls that fails.
LEMMA ReadKept ==
    ASSUME EEPROMInv, NEW z0 \in Zones, NEW b0 \in 1..Blocks[z0], read(z0, b0)
    PROVE  EEPROMInv'
  <1>1. eeCall = Idle /\ ReadFails(z0, b0) /\ UNCHANGED <<secure, eeCall, eeBuf>>
    BY DEF read
  <1>2. \A z \in Zones : kept[z] # Unknown => \A b \in 1..Blocks[z] : zones[z][b] = Block(kept[z])
    BY <1>1 DEF EEPROMInv, KeptIsReadable
  <1>3. /\ ChipShaped'
        /\ \A z \in Zones : zones'[z] \in [1..Blocks[z] -> Cells]
        /\ \A z \in Zones : z # z0 => \A b \in 1..Blocks[z] : zones'[z][b] = zones[z][b]
        /\ kept' \in [Zones -> Values \cup {Unknown}]
        /\ kept'[z0] = Unknown
        /\ \A z \in Zones : z # z0 => kept'[z] = kept[z]
    BY <1>1, ReadFailed DEF EEPROMInv
  <1>4. eeBuf' \in [1..MaxBlocks -> Values \cup {Zero}]
    BY <1>1 DEF EEPROMInv, EEPROMTypeOK
  <1>5. QED
    BY <1>1, <1>2, <1>3, <1>4, BackToIdle

\* The conversion ends early: what is relied on has been converted.
LEMMA EnableEnds ==
    ASSUME EEPROMInv, EnablePutFails \/ PowerLoss
    PROVE  EEPROMInv'
  <1>1. /\ eeCall' = Idle /\ Forget(ToDo(eeCall)) /\ UNCHANGED <<zones, secure>>
        /\ eeCall \in SaveCalls \/ eeCall \in EnableCalls
    BY CallKinds DEF EEPROMInv, EnablePutFails, PowerLoss, InPhase, Idle
  <1>2. /\ kept' \in [Zones -> Values \cup {Unknown}]
        /\ \A z \in Zones : kept'[z] = IF z \in ToDo(eeCall) THEN Unknown ELSE kept[z]
    BY <1>1, Forgotten DEF EEPROMInv
  <1>3. eeBuf' \in [1..MaxBlocks -> Values \cup {Zero}]
    BY DEF EEPROMInv, EEPROMTypeOK, EnablePutFails, PowerLoss
  <1>4. \A z \in Zones \ ToDo(eeCall) : kept[z] # Unknown =>
           \A b \in 1..Blocks[z] : zones[z][b] = Block(kept[z])
    BY <1>1 DEF EEPROMInv, SaveKnown, EnableKnown, KeptHolds, HoldsAll
  <1>5. ChipShaped' /\ \A z \in Zones : zones'[z] \in [1..Blocks[z] -> Cells]
    BY <1>1 DEF EEPROMInv, EEPROMTypeOK, ChipShaped, Cells
  <1>6. QED
    BY <1>1, <1>2, <1>3, <1>4, <1>5, BackToIdle

\* A call of save begins: nobody relies on its zones any longer.
LEMMA SaveBegins ==
    ASSUME EEPROMInv, NEW s \in Settings, NEW val \in Values, save(s, val)
    PROVE  EEPROMInv'
  <1>1. /\ Layout[s] \in Seq(Zones) /\ Len(Layout[s]) > 0
        /\ Head(Layout[s]) = Layout[s][1] /\ Layout[s][1] \in Zones
        /\ Blocks[Layout[s][1]] \in Nat \ {0}
        /\ \A i \in 1..Len(Layout[s]) : Layout[s][i] \in Zones
    BY EEPROMAssumption
  <1>2. /\ eeCall = Idle /\ UNCHANGED <<zones, secure, eeBuf>>
        /\ eeCall' = [op |-> "save", todo |-> Layout[s], val |-> val, of |-> s,
                      phase |-> IF secure THEN "load" ELSE "store", blk |-> 1]
        /\ Forget({Layout[s][i] : i \in 1..Len(Layout[s])})
    BY DEF save
  <1>3. eeCall' \in SaveCalls
    BY <1>1, <1>2 DEF SaveCalls
  <1>4. /\ eeCall'.todo = Layout[s] /\ eeCall'.of = s /\ eeCall'.val = val /\ eeCall'.blk = 1
        /\ eeCall'.op = "save" /\ eeCall'.phase # "verify" /\ Zone' = Layout[s][1]
        /\ ~secure' => eeCall'.phase = "store"
    BY <1>1, <1>2 DEF Zone
  <1>5. CallTyped' /\ eeCall' # Idle
    BY <1>1, <1>3, <1>4 DEF CallTyped, Idle
  <1>6. /\ kept' \in [Zones -> Values \cup {Unknown}]
        /\ \A z \in Zones : kept'[z] = IF z \in {Layout[s][i] : i \in 1..Len(Layout[s])}
                                         THEN Unknown ELSE kept[z]
    BY <1>2, Forgotten DEF EEPROMInv
  <1>7. EEPROMTypeOK' /\ ChipShaped'
    BY <1>2, <1>4, <1>5, <1>6, <1>1 DEF EEPROMInv, EEPROMTypeOK, ChipShaped
  <1>8. SaveKnown'
    <2>1. \A i \in 1..Len(Layout[s]) : kept'[Layout[s][i]] = Unknown
      BY <1>1, <1>6
    <2>2. KeptHolds(Zones)'
      BY <1>2, <1>6 DEF EEPROMInv, KeptIsReadable, KeptHolds, HoldsAll, Block
    <2>3. QED
      BY <1>1, <1>4, <2>1, <2>2 DEF SaveKnown
  <1>9. eeCall' \notin EnableCalls
    BY <1>4 DEF EnableCalls
  <1>10. QED
    BY <1>5, <1>7, <1>8, <1>9 DEF EEPROMInv, EnableKnown, KeptIsReadable

\* The conversion begins: every zone holds what it held.
LEMMA EnableBegins ==
    ASSUME EEPROMInv, enableHostSecureChannel
    PROVE  EEPROMInv'
  <1>1. /\ ZoneOrder \in Seq(Zones) /\ Len(ZoneOrder) > 0
        /\ Head(ZoneOrder) = ZoneOrder[1] /\ ZoneOrder[1] \in Zones
        /\ Blocks[ZoneOrder[1]] \in Nat \ {0}
        /\ \A i \in 1..Len(ZoneOrder) : ZoneOrder[i] \in Zones
        /\ Zones = {ZoneOrder[i] : i \in 1..Len(ZoneOrder)}
        /\ \A i, j \in 1..Len(ZoneOrder) : ZoneOrder[i] = ZoneOrder[j] => i = j
    <2>1. Zones = {ZoneOrder[i] : i \in 1..Len(ZoneOrder)}
      BY DEF Zones
    <2>2. QED
      BY EEPROMAssumption, <2>1 DEF NoneTwice
  <1>2. /\ eeCall = Idle /\ UNCHANGED <<zones, eeBuf, kept>> /\ secure' = TRUE
        /\ eeCall' = [op |-> "enable", todo |-> ZoneOrder, phase |-> "get", blk |-> 1]
    BY DEF enableHostSecureChannel
  <1>3. eeCall' \in EnableCalls
    BY <1>1, <1>2 DEF EnableCalls
  <1>4. /\ eeCall'.todo = ZoneOrder /\ eeCall'.blk = 1 /\ eeCall'.phase = "get"
        /\ eeCall'.op = "enable" /\ Zone' = ZoneOrder[1]
    BY <1>1, <1>2 DEF Zone
  <1>5. CallTyped' /\ eeCall' # Idle
    BY <1>1, <1>3, <1>4, SMTT(60) DEF CallTyped, Idle
  <1>6. secure' \in BOOLEAN
    BY <1>2, Zenon
  <1>7. EEPROMTypeOK' /\ ChipShaped'
    <2>1. UNCHANGED <<zones, eeBuf, kept>>
      BY <1>2
    <2>2. eeCall'.op \in {"idle", "save", "enable"} /\ Len(eeCall'.todo) > 0
          /\ eeCall'.blk \in 1..Blocks[Zone']
      BY <1>1, <1>4
    <2>3. QED
      BY <1>6, <2>1, <2>2 DEF EEPROMInv, EEPROMTypeOK, ChipShaped
  <1>8. EnableKnown'
    <2>1. \A z \in Zones : kept[z] # Unknown => \A b \in 1..Blocks[z] : zones[z][b].val = kept[z]
      <3>1. eeCall = Idle
        BY <1>2
      <3>2. \A val : Block(val).val = val
        BY DEF Block
      <3>3. QED
        BY <3>1, <3>2 DEF EEPROMInv, KeptIsReadable
    <2>2. ToDo(eeCall)' = {ZoneOrder[i] : i \in 1..Len(ZoneOrder)}
      BY <1>4 DEF ToDo
    <2>3. KeptHolds(Zones \ ToDo(eeCall))'
      <3>1. Zones \ ToDo(eeCall)' = {}
        BY <1>1, <2>2
      <3>2. QED
        BY <3>1 DEF KeptHolds
    <2>4. secure'
      BY <1>2
    <2>5. QED
      BY <1>1, <1>2, <1>4, <2>1, <2>3, <2>4, ZenonT(60) DEF EnableKnown
  <1>9. eeCall' \notin SaveCalls
    BY <1>4 DEF SaveCalls
  <1>10. QED
    BY <1>5, <1>7, <1>8, <1>9 DEF EEPROMInv, SaveKnown, KeptIsReadable

\* What a save has done so far, spelled out.
LEMMA SaveState ==
    ASSUME EEPROMInv, eeCall \in SaveCalls
    PROVE  /\ eeCall.of \in Settings /\ eeCall.val \in Values
           /\ Layout[eeCall.of] \in Seq(Zones) /\ Len(Layout[eeCall.of]) \in Nat
           /\ Len(eeCall.todo) \in 1..Len(Layout[eeCall.of])
           /\ Zone = Layout[eeCall.of][Len(Layout[eeCall.of]) - Len(eeCall.todo) + 1]
           /\ Zone \in Zones /\ eeCall.blk \in 1..Blocks[Zone] /\ Blocks[Zone] \in Nat
           /\ kept[Zone] = Unknown
           /\ NoneTwice(Layout[eeCall.of])
           /\ \A i \in 1..Len(Layout[eeCall.of]) : Layout[eeCall.of][i] \in Zones
           /\ \A i \in 1..(Len(Layout[eeCall.of]) - Len(eeCall.todo)) : Layout[eeCall.of][i] # Zone
           /\ eeCall.todo \in Seq(Zones) /\ eeCall.phase \in {"load", "store", "verify"}
           /\ eeCall.op = "save" /\ eeCall # Idle
           /\ eeCall.todo[1] = Zone
  <1>1. /\ eeCall.of \in Settings /\ eeCall.val \in Values /\ eeCall.todo \in Seq(Zones)
        /\ eeCall.op = "save" /\ eeCall.phase \in {"load", "store", "verify"}
    BY DEF SaveCalls
  <1>2. /\ Zone \in Zones /\ eeCall.blk \in 1..Blocks[Zone] /\ Zone = eeCall.todo[1]
        /\ Len(eeCall.todo) > 0 /\ eeCall # Idle
    BY CallKinds DEF EEPROMInv
  <1>3. /\ Layout[eeCall.of] \in Seq(Zones) /\ NoneTwice(Layout[eeCall.of])
        /\ Blocks[Zone] \in Nat
    BY <1>1, <1>2, EEPROMAssumption
  <1> DEFINE zs == Layout[eeCall.of]
             done == Len(zs) - Len(eeCall.todo)
  <1>4. /\ done >= 0 /\ \A j \in 1..Len(eeCall.todo) : eeCall.todo[j] = zs[done + j]
        /\ \A i \in 1..Len(zs) : kept[zs[i]] = Unknown
    BY DEF EEPROMInv, SaveKnown
  <1>5. /\ Len(zs) \in Nat /\ Len(eeCall.todo) \in Nat /\ Len(eeCall.todo) > 0
        /\ done = Len(zs) - Len(eeCall.todo) /\ done >= 0
    BY <1>1, <1>2, <1>3, <1>4
  <1>6. done + 1 \in 1..Len(zs) /\ done \in Nat /\ Len(eeCall.todo) \in 1..Len(zs)
    <2> HIDE DEF done, zs
    <2> QED
      BY <1>5
  <1>7. Zone = zs[done + 1]
    <2> HIDE DEF done, zs
    <2>1. 1 \in 1..Len(eeCall.todo)
      BY <1>5
    <2>2. QED
      BY <1>2, <1>4, <2>1
  <1>8. \A i \in 1..done : zs[i] # Zone
    <2> SUFFICES ASSUME NEW i \in 1..done, zs[i] = zs[done + 1] PROVE FALSE
      BY <1>7
    <2> HIDE DEF done, zs
    <2>1. i \in 1..Len(zs) /\ i # done + 1
      BY <1>5, <1>6
    <2>2. NoneTwice(zs)
      BY <1>3 DEF zs
    <2>3. QED
      BY <1>6, <2>1, <2>2 DEF NoneTwice
  <1>9. \A i \in 1..Len(zs) : zs[i] \in Zones
    BY <1>3
  <1>10. kept[Zone] = Unknown
    BY <1>4, <1>6, <1>7
  <1>11. QED
    BY <1>1, <1>2, <1>3, <1>5, <1>6, <1>7, <1>8, <1>9, <1>10

\* A step within one zone of a save: the call goes on with another phase or block,
\* and only the zone of the call may change.
LEMMA SaveWithin ==
    ASSUME EEPROMInv, eeCall \in SaveCalls, eeCall' \in SaveCalls,
           eeCall'.todo = eeCall.todo, eeCall'.of = eeCall.of, eeCall'.val = eeCall.val,
           eeCall'.blk \in 1..Blocks[Zone],
           UNCHANGED <<secure, eeBuf, kept>>,
           ChipShaped', \A z \in Zones : zones'[z] \in [1..Blocks[z] -> Cells],
           \A z \in Zones : z # Zone => \A b \in 1..Blocks[z] : zones'[z][b] = zones[z][b],
           eeCall'.phase = "verify" =>
              \A b \in 1..(eeCall'.blk - 1) : zones'[Zone][b] = Block(eeCall.val),
           ~secure /\ eeCall'.phase # "verify" => eeCall'.phase = "store" /\ eeCall'.blk = 1
    PROVE  EEPROMInv'
  <1>1. Zone' = Zone
    BY DEF Zone
  <1>2. eeCall'.op = "save"
    BY DEF SaveCalls
  <1>3. CallTyped' /\ eeCall' # Idle /\ Len(eeCall'.todo) > 0
    BY <1>1, <1>2, SaveState DEF CallTyped, Idle
  <1>4. EEPROMTypeOK'
    BY <1>1, <1>2, <1>3 DEF EEPROMInv, EEPROMTypeOK, Cells
  <1>5. eeCall' \notin EnableCalls
    BY <1>2 DEF EnableCalls
  <1>6. \A val : Block(val)' = Block(val)
    BY DEF Block
  <1>7. KeptHolds(Zones)'
    BY <1>6, SaveState, ZenonT(60) DEF EEPROMInv, SaveKnown, KeptHolds, HoldsAll, Block
  <1>8. SaveKnown'
    <2> DEFINE zs == Layout[eeCall.of]
               done == Len(zs) - Len(eeCall.todo)
    <2>1. /\ done >= 0 /\ \A j \in 1..Len(eeCall.todo) : eeCall.todo[j] = zs[done + j]
          /\ \A i \in 1..done : HoldsAll(zs[i], eeCall.val)
          /\ \A i \in 1..Len(zs) : kept[zs[i]] = Unknown
      BY DEF EEPROMInv, SaveKnown
    <2>2. ASSUME NEW i \in 1..done
          PROVE  HoldsAll(zs[i], eeCall.val)'
      <3>1. Len(zs) \in Nat /\ Len(eeCall.todo) \in Nat /\ i \in 1..Len(zs)
        <4>1. Layout[eeCall.of] \in Seq(Zones) /\ eeCall.todo \in Seq(Zones)
          BY SaveState
        <4>2. Len(zs) \in Nat /\ Len(eeCall.todo) \in Nat
          BY <4>1
        <4>3. PICK m \in Nat, k \in Nat : m = Len(zs) /\ k = Len(eeCall.todo)
          BY <4>2
        <4>4. i \in 1..(m - k)
          BY <4>3
        <4>5. i \in 1..m
          BY <4>4, <4>3
        <4>6. QED
          BY <4>2, <4>3, <4>5
      <3>2. zs[i] \in Zones /\ zs[i] # Zone
        BY <3>1, SaveState
      <3>3. HoldsAll(zs[i], eeCall.val)
        BY <2>1
      <3>4. UNCHANGED <<zs[i], eeCall.val>>
        OBVIOUS
      <3>5. QED
        BY <1>6, <3>2, <3>3, <3>4 DEF HoldsAll
    <2>3. UNCHANGED <<zs, done>>
      OBVIOUS
    <2>4. eeCall'.phase = "verify" =>
             \A b \in 1..(eeCall'.blk - 1) : zones'[Zone'][b] = Block(eeCall.val)'
      BY <1>1 DEF Block
    <2>5. QED
      BY <1>7, <2>1, <2>2, <2>3, <2>4 DEF SaveKnown
  <1>9. QED
    BY <1>3, <1>4, <1>5, <1>8 DEF EEPROMInv, EnableKnown, KeptIsReadable

\* A block's step, and where the call stands after it.
LEMMA Stepped ==
    ASSUME EEPROMInv, eeCall \in SaveCalls, NEW next \in {"load", "store", "verify"}, Step(next)
    PROVE  /\ eeCall' \in SaveCalls /\ eeCall'.blk \in 1..Blocks[Zone]
           /\ eeCall'.todo = eeCall.todo /\ eeCall'.of = eeCall.of /\ eeCall'.val = eeCall.val
           /\ IF LastBlock THEN eeCall'.phase = next /\ eeCall'.blk = 1
              ELSE eeCall'.phase = eeCall.phase /\ eeCall'.blk = eeCall.blk + 1
  <1>1. eeCall.blk \in 1..Blocks[Zone] /\ Blocks[Zone] \in Nat
    BY SaveState
  <1>2. CASE LastBlock
    <2>1. eeCall' = [eeCall EXCEPT !.phase = next, !.blk = 1]
      BY <1>2 DEF Step
    <2>2. /\ eeCall'.todo = eeCall.todo /\ eeCall'.of = eeCall.of /\ eeCall'.val = eeCall.val
          /\ eeCall'.phase = next /\ eeCall'.blk = 1 /\ eeCall' \in SaveCalls
      BY <2>1 DEF SaveCalls
    <2>3. 1 \in 1..Blocks[Zone]
      BY <1>1
    <2>4. QED
      BY <1>2, <2>2, <2>3
  <1>3. CASE ~LastBlock
    <2>1. eeCall' = [eeCall EXCEPT !.blk = eeCall.blk + 1]
      BY <1>3 DEF Step
    <2>2. eeCall.blk + 1 \in 1..Blocks[Zone]
      BY <1>1, <1>3 DEF LastBlock
    <2>3. QED
      BY <1>1, <1>3, <2>1, <2>2 DEF SaveCalls
  <1>4. QED
    BY <1>2, <1>3

\* The chip keeps its shape when it is not written.
LEMMA ChipKept ==
    ASSUME EEPROMInv, zones' = zones
    PROVE  /\ ChipShaped' /\ \A z \in Zones : zones'[z] \in [1..Blocks[z] -> Cells]
  BY DEF EEPROMInv, EEPROMTypeOK, ChipShaped, Cells

\* A save reads the blocks it is about to replace.
LEMMA LoadKept ==
    ASSUME EEPROMInv, Load
    PROVE  EEPROMInv'
  <1>1. eeCall \in SaveCalls /\ eeCall.phase = "load" /\ UNCHANGED <<zones, secure, eeBuf, kept>>
        /\ Step("store")
    BY CallKinds DEF EEPROMInv, Load, InPhase
  <1>2. /\ eeCall' \in SaveCalls /\ eeCall'.blk \in 1..Blocks[Zone]
        /\ eeCall'.todo = eeCall.todo /\ eeCall'.of = eeCall.of /\ eeCall'.val = eeCall.val
        /\ eeCall'.phase # "verify" /\ (LastBlock => eeCall'.blk = 1)
    BY <1>1, Stepped
  <1>3. secure
    BY <1>1 DEF EEPROMInv, SaveKnown
  <1>4. QED
    BY <1>1, <1>2, <1>3, ChipKept, SaveWithin

\* A save writes a block, or the zone.
LEMMA StoreKept ==
    ASSUME EEPROMInv, Store
    PROVE  EEPROMInv'
  <1>1. eeCall \in SaveCalls /\ eeCall.phase = "store" /\ UNCHANGED <<secure, eeBuf, kept>>
    BY CallKinds DEF EEPROMInv, Store, InPhase
  <1>2. PICK val \in StoreOutcomes(eeCall.val) :
         IF secure
           THEN /\ zones' = [zones EXCEPT ![Zone][eeCall.blk] = Block(val)]
                /\ Step("verify")
           ELSE /\ zones' = [zones EXCEPT ![Zone] = [b \in 1..Blocks[Zone] |-> Block(val)]]
                /\ eeCall' = [eeCall EXCEPT !.phase = "verify"]
    BY DEF Store
  <1>3. Block(val) \in Cells
    BY <1>1, BlockFits, SaveState DEF StoreOutcomes, EEPROMInv
  <1>4. Zone \in Zones /\ eeCall.blk \in 1..Blocks[Zone] /\ Blocks[Zone] \in Nat
    BY <1>1, SaveState
  <1>5. CASE secure
    <2>1. /\ ChipShaped' /\ \A z \in Zones : zones'[z] \in [1..Blocks[z] -> Cells]
          /\ \A z \in Zones : z # Zone => \A b \in 1..Blocks[z] : zones'[z][b] = zones[z][b]
      BY <1>2, <1>3, <1>4, <1>5, OneBlock DEF EEPROMInv
    <2>2. /\ eeCall' \in SaveCalls /\ eeCall'.blk \in 1..Blocks[Zone]
          /\ eeCall'.todo = eeCall.todo /\ eeCall'.of = eeCall.of /\ eeCall'.val = eeCall.val
          /\ eeCall'.phase = "verify" => eeCall'.blk = 1
      BY <1>1, <1>2, <1>5, Stepped
    <2>3. eeCall'.phase = "verify" =>
             \A b \in 1..(eeCall'.blk - 1) : zones'[Zone][b] = Block(eeCall.val)
      BY <2>2
    <2>4. QED
      BY <1>1, <1>5, <2>1, <2>2, <2>3, SaveWithin
  <1>6. CASE ~secure
    <2>1. /\ ChipShaped' /\ \A z \in Zones : zones'[z] \in [1..Blocks[z] -> Cells]
          /\ \A z \in Zones : z # Zone => \A b \in 1..Blocks[z] : zones'[z][b] = zones[z][b]
      BY <1>2, <1>3, <1>4, <1>6, OneZone DEF EEPROMInv
    <2>2. /\ eeCall' \in SaveCalls /\ eeCall'.blk = eeCall.blk
          /\ eeCall'.todo = eeCall.todo /\ eeCall'.of = eeCall.of /\ eeCall'.val = eeCall.val
          /\ eeCall'.phase = "verify"
      BY <1>1, <1>2, <1>6 DEF SaveCalls
    <2>3. eeCall.blk = 1
      BY <1>1, <1>6 DEF EEPROMInv, SaveKnown
    <2>4. \A b \in 1..(eeCall'.blk - 1) : zones'[Zone][b] = Block(eeCall.val)
      BY <2>2, <2>3
    <2>5. eeCall'.blk \in 1..Blocks[Zone]
      BY <1>4, <2>2
    <2>6. QED
      BY <1>1, <1>6, <2>1, <2>2, <2>4, <2>5, SaveWithin
  <1>7. QED
    BY <1>5, <1>6

\* The zone is verified: the save goes on with the next, or has kept them all.
LEMMA NextZoneKept ==
    ASSUME EEPROMInv, eeCall \in SaveCalls, HoldsAll(Zone, eeCall.val), NextZone,
           UNCHANGED <<zones, secure, eeBuf>>
    PROVE  EEPROMInv'
  <1> DEFINE zs == Layout[eeCall.of]
             done == Len(zs) - Len(eeCall.todo)
  <1>1. /\ zs \in Seq(Zones) /\ Len(zs) \in Nat /\ Len(eeCall.todo) \in 1..Len(zs)
        /\ Zone = zs[done + 1] /\ eeCall.todo \in Seq(Zones) /\ eeCall.val \in Values
        /\ \A i \in 1..Len(zs) : zs[i] \in Zones
    BY SaveState
  <1>a. PICK n \in Nat : n = Len(zs)
    BY <1>1
  <1>b. PICK m \in 1..n : m = Len(eeCall.todo)
    BY <1>1, <1>a
  <1>c. done = n - m /\ done \in Nat
    BY <1>a, <1>b
  <1>2. /\ \A j \in 1..Len(eeCall.todo) : eeCall.todo[j] = zs[done + j]
        /\ \A i \in 1..done : HoldsAll(zs[i], eeCall.val)
        /\ \A i \in 1..Len(zs) : kept[zs[i]] = Unknown
        /\ KeptHolds(Zones)
    BY DEF EEPROMInv, SaveKnown
  <1>3. /\ ChipShaped' /\ \A z \in Zones : zones'[z] \in [1..Blocks[z] -> Cells]
    BY ChipKept
  <1>4. eeBuf' \in [1..MaxBlocks -> Values \cup {Zero}]
    BY DEF EEPROMInv, EEPROMTypeOK
  <1>5. \A i \in 1..(done + 1) : HoldsAll(zs[i], eeCall.val)
    <2> SUFFICES ASSUME NEW i \in 1..(done + 1) PROVE HoldsAll(zs[i], eeCall.val)
      OBVIOUS
    <2>1. CASE i = done + 1
      BY <1>1, <2>1
    <2>2. CASE i # done + 1
      <3>1. done \in Int
        BY <1>1
      <3>2. i \in 1..done
        BY <2>2, <3>1
      <3>3. QED
        BY <1>2, <3>2
    <2>3. QED
      BY <2>1, <2>2
  <1>6. CASE Len(eeCall.todo) > 1
    <2>1. /\ eeCall' = [eeCall EXCEPT !.todo = Tail(eeCall.todo), !.blk = 1,
                                      !.phase = IF secure THEN "load" ELSE "store"]
          /\ kept' = kept
      BY <1>6 DEF NextZone
    <2>2. /\ Tail(eeCall.todo) \in Seq(Zones) /\ Len(Tail(eeCall.todo)) = Len(eeCall.todo) - 1
          /\ Tail(eeCall.todo) # <<>>
          /\ \A j \in 1..(Len(eeCall.todo) - 1) : Tail(eeCall.todo)[j] = eeCall.todo[j + 1]
          /\ Head(Tail(eeCall.todo)) = Tail(eeCall.todo)[1] /\ Head(Tail(eeCall.todo)) \in Zones
      <3> DEFINE q == eeCall.todo
      <3>1. q \in Seq(Zones) /\ Len(q) > 1
        BY <1>1, <1>6
      <3> HIDE DEF q
      <3>2. /\ Tail(q) \in Seq(Zones) /\ Len(Tail(q)) = Len(q) - 1 /\ Tail(q) # <<>>
            /\ \A j \in 1..(Len(q) - 1) : Tail(q)[j] = q[j + 1]
        <4>1. q # <<>>
          BY <3>1
        <4>2. /\ Tail(q) \in Seq(Zones) /\ Len(Tail(q)) = Len(q) - 1
              /\ \A j \in 1..(Len(q) - 1) : Tail(q)[j] = q[j + 1]
          BY <3>1, <4>1, TailFacts
        <4>3. QED
          BY <3>1, <4>2
      <3>3. Head(Tail(q)) = Tail(q)[1] /\ Head(Tail(q)) \in Zones
        BY <3>2, TailFacts
      <3>4. QED
        BY <3>2, <3>3 DEF q
    <2>3. /\ eeCall'.todo = Tail(eeCall.todo) /\ eeCall'.blk = 1 /\ eeCall'.of = eeCall.of
          /\ eeCall'.val = eeCall.val /\ eeCall'.phase = (IF secure THEN "load" ELSE "store")
          /\ eeCall' \in SaveCalls
      BY <2>1, <2>2 DEF SaveCalls
    <2>4. Zone' = Head(Tail(eeCall.todo))
      BY <2>3 DEF Zone
    <2>5. /\ eeCall'.op = "save" /\ eeCall' # Idle /\ Len(eeCall'.todo) > 0
          /\ eeCall'.blk \in 1..Blocks[Zone']
      <3>1. Blocks[Zone'] \in Nat \ {0}
        BY <2>2, <2>4, EEPROMAssumption
      <3>2. QED
        BY <1>1, <1>6, <2>2, <2>3, <3>1 DEF SaveCalls, Idle
    <2>6. CallTyped' /\ EEPROMTypeOK'
      BY <1>3, <1>4, <2>1, <2>3, <2>5 DEF CallTyped, EEPROMInv, EEPROMTypeOK, Cells
    <2>7. eeCall' \notin EnableCalls
      BY <2>5 DEF EnableCalls
    <2>8. SaveKnown'
      <3>1. PICK d \in Nat : d = done
        BY <1>c
      <3>2. Len(zs) - Len(eeCall'.todo) = d + 1
        <4>1. Len(eeCall'.todo) = m - 1
          BY <1>b, <2>2, <2>3
        <4>2. QED
          BY <1>a, <1>b, <1>c, <3>1, <4>1
      <3>3. ASSUME NEW j \in 1..Len(eeCall'.todo)
            PROVE  eeCall'.todo[j] = zs[(d + 1) + j]
        <4>1. j \in 1..(Len(eeCall.todo) - 1) /\ j + 1 \in 1..Len(eeCall.todo) /\ j \in Nat
          BY <1>1, <2>2, <2>3
        <4>2. eeCall'.todo[j] = eeCall.todo[j + 1]
          BY <2>2, <2>3, <4>1
        <4>3. eeCall.todo[j + 1] = zs[d + (j + 1)]
          BY <1>2, <3>1, <4>1
        <4>4. d + (j + 1) = (d + 1) + j
          BY <4>1
        <4>5. QED
          BY <4>2, <4>3, <4>4
      <3>4. \A i \in 1..(d + 1) : HoldsAll(zs[i], eeCall.val)
        BY <1>5, <3>1
      <3>5. /\ \A i \in 1..(d + 1) : \A b \in 1..Blocks[zs[i]] : zones'[zs[i]][b] = Block(eeCall.val)'
            /\ KeptHolds(Zones)'
        BY <1>2, <2>1, <3>4 DEF HoldsAll, KeptHolds, Block
      <3>6. Layout[eeCall.of]' = zs /\ eeCall'.val = eeCall.val
        BY <2>3
      <3> HIDE DEF zs, done
      <3>7. QED
        <4>1. /\ (Len(Layout[eeCall.of]) - Len(eeCall.todo))' = d + 1
              /\ d + 1 >= 0
          <5>1. Len(Layout[eeCall'.of]) - Len(eeCall'.todo) = d + 1
            BY <3>2, <3>6
          <5>2. d + 1 >= 0
            OBVIOUS
          <5>3. QED
            BY <5>1, <5>2
        <4>2. /\ \A j \in 1..Len(eeCall'.todo) : eeCall'.todo[j] = zs[(d + 1) + j]
              /\ \A i \in 1..Len(zs) : kept'[zs[i]] = Unknown
          BY <1>2, <2>1, <3>3
        <4>3. eeCall'.phase # "verify" /\ (~secure' => eeCall'.phase = "store" /\ eeCall'.blk = 1)
          BY <2>3
        <4>4. QED
          BY <2>3, <3>5, <3>6, <4>1, <4>2, <4>3 DEF SaveKnown, HoldsAll
    <2>9. QED
      BY <1>3, <2>5, <2>6, <2>7, <2>8 DEF EEPROMInv, EnableKnown, KeptIsReadable
  <1>7. CASE ~(Len(eeCall.todo) > 1)
    <2>1. /\ eeCall' = Idle
          /\ kept' = [z \in Zones |-> IF \E i \in 1..Len(zs) : zs[i] = z THEN eeCall.val ELSE kept[z]]
      BY <1>7 DEF NextZone
    <2>2. done + 1 = Len(zs)
      <3>1. m = 1
        <4>1. ~(m > 1)
          BY <1>b, <1>7
        <4>2. QED
          BY <4>1
      <3>2. QED
        BY <1>a, <1>b, <1>c, <3>1
    <2>3. kept' \in [Zones -> Values \cup {Unknown}]
      BY <1>1, <2>1 DEF EEPROMInv, EEPROMTypeOK
    <2>4. ASSUME NEW z \in Zones, kept'[z] # Unknown
          PROVE  \A b \in 1..Blocks[z] : zones'[z][b] = Block(kept'[z])
      <3>1. CASE \E i \in 1..Len(zs) : zs[i] = z
        <4>1. kept'[z] = eeCall.val
          BY <2>1, <3>1
        <4>2. HoldsAll(z, eeCall.val)
          BY <1>5, <2>2, <3>1
        <4>3. QED
          BY <4>1, <4>2 DEF HoldsAll
      <3>2. CASE ~\E i \in 1..Len(zs) : zs[i] = z
        <4>1. kept'[z] = kept[z]
          BY <2>1, <3>2
        <4>2. QED
          BY <1>2, <2>4, <4>1 DEF KeptHolds, HoldsAll
      <3>3. QED
        BY <3>1, <3>2
    <2>5. QED
      BY <1>3, <1>4, <2>1, <2>3, <2>4, BackToIdle
  <1>8. QED
    BY <1>6, <1>7

\* A save reads back what it wrote.
LEMMA VerifyKept ==
    ASSUME EEPROMInv, Verify
    PROVE  EEPROMInv'
  <1>1. /\ eeCall \in SaveCalls /\ eeCall.phase = "verify" /\ UNCHANGED <<zones, secure, eeBuf>>
        /\ Readable(Zone, eeCall.blk)
    BY CallKinds DEF EEPROMInv, Verify, InPhase
  <1>2. /\ Zone \in Zones /\ eeCall.blk \in 1..Blocks[Zone] /\ Blocks[Zone] \in Nat
        /\ eeCall.val \in Values
    BY <1>1, SaveState
  <1>3. \A b \in 1..(eeCall.blk - 1) : zones[Zone][b] = Block(eeCall.val)
    BY <1>1 DEF EEPROMInv, SaveKnown
  <1>4. CASE zones[Zone][eeCall.blk].val # eeCall.val
    <2>1. eeCall' = Idle /\ kept' = kept
      BY <1>4 DEF Verify
    <2>2. \A z \in Zones : kept[z] # Unknown => \A b \in 1..Blocks[z] : zones[z][b] = Block(kept[z])
      BY <1>1 DEF EEPROMInv, SaveKnown, KeptHolds, HoldsAll
    <2>3. QED
      BY <1>1, <2>1, <2>2, ChipKept, BackToIdle DEF EEPROMInv, EEPROMTypeOK
  <1>5. CASE zones[Zone][eeCall.blk].val = eeCall.val
    <2>1. zones[Zone][eeCall.blk] = Block(eeCall.val)
      <3>1. zones[Zone][eeCall.blk] \in Cells
        BY <1>2 DEF EEPROMInv, EEPROMTypeOK, Cells
      <3>2. QED
        BY <1>1, <1>5, <3>1 DEF Readable, Block, Cells
    <2>2. \A b \in 1..eeCall.blk : zones[Zone][b] = Block(eeCall.val)
      BY <1>2, <1>3, <2>1
    <2>3. CASE LastBlock
      <3>1. HoldsAll(Zone, eeCall.val)
        BY <2>2, <2>3 DEF HoldsAll, LastBlock
      <3>2. NextZone
        BY <1>5, <2>3 DEF Verify
      <3>3. QED
        BY <1>1, <3>1, <3>2, NextZoneKept
    <2>4. CASE ~LastBlock
      <3>1. Step("verify") /\ kept' = kept
        BY <1>5, <2>4 DEF Verify
      <3>2. /\ eeCall' \in SaveCalls /\ eeCall'.blk \in 1..Blocks[Zone]
            /\ eeCall'.todo = eeCall.todo /\ eeCall'.of = eeCall.of /\ eeCall'.val = eeCall.val
            /\ eeCall'.phase = "verify" /\ eeCall'.blk = eeCall.blk + 1
        BY <1>1, <2>4, <3>1, Stepped
      <3>3. \A b \in 1..(eeCall'.blk - 1) : zones'[Zone][b] = Block(eeCall.val)
        <4>1. eeCall'.blk - 1 = eeCall.blk
          BY <1>2, <3>2
        <4>2. QED
          BY <1>1, <2>2, <4>1
      <3>4. QED
        BY <1>1, <3>1, <3>2, <3>3, ChipKept, SaveWithin
    <2>5. QED
      BY <2>3, <2>4
  <1>6. QED
    BY <1>4, <1>5

\* What the conversion has done so far, spelled out.
LEMMA EnableState ==
    ASSUME EEPROMInv, eeCall \in EnableCalls
    PROVE  /\ secure /\ Zone \in Zones /\ eeCall.blk \in 1..Blocks[Zone] /\ Blocks[Zone] \in Nat
           /\ 1..Blocks[Zone] \subseteq 1..MaxBlocks
           /\ eeCall.todo \in Seq(Zones) /\ eeCall.todo # <<>> /\ Zone = eeCall.todo[1]
           /\ NoneTwice(eeCall.todo) /\ eeCall.phase \in {"get", "put"} /\ eeCall.op = "enable"
           /\ Zone \in ToDo(eeCall) /\ eeCall # Idle
  <1>1. eeCall.todo \in Seq(Zones) /\ eeCall.phase \in {"get", "put"} /\ eeCall.op = "enable"
    BY DEF EnableCalls
  <1>2. /\ Zone \in Zones /\ eeCall.blk \in 1..Blocks[Zone] /\ Zone = eeCall.todo[1]
        /\ Len(eeCall.todo) > 0 /\ eeCall # Idle
    BY CallKinds DEF EEPROMInv
  <1>3. Blocks[Zone] \in Nat /\ 1..Blocks[Zone] \subseteq 1..MaxBlocks
    BY <1>2, EEPROMAssumption
  <1>4. secure /\ NoneTwice(eeCall.todo)
    BY DEF EEPROMInv, EnableKnown, NoneTwice
  <1>5. Zone \in ToDo(eeCall)
    <2>1. 1 \in 1..Len(eeCall.todo)
      BY <1>1, <1>2
    <2>2. QED
      BY <1>2, <2>1 DEF ToDo
  <1>6. eeCall.todo # <<>>
    BY <1>1, <1>2
  <1>7. QED
    BY <1>1, <1>2, <1>3, <1>4, <1>5, <1>6

\* The conversion reads a zone into its buffer, or fails to and does not notice.
LEMMA EnableGetKept ==
    ASSUME EEPROMInv, EnableGet
    PROVE  EEPROMInv'
  <1>1. eeCall \in EnableCalls /\ eeCall.phase = "get" /\ UNCHANGED <<zones, secure>>
        /\ eeCall' = [eeCall EXCEPT !.phase = "put"]
    BY CallKinds DEF EEPROMInv, EnableGet, InPhase
  <1>2. /\ secure /\ Zone \in Zones /\ eeCall.blk \in 1..Blocks[Zone] /\ Blocks[Zone] \in Nat
        /\ 1..Blocks[Zone] \subseteq 1..MaxBlocks
        /\ eeCall.todo \in Seq(Zones) /\ Zone = eeCall.todo[1] /\ Len(eeCall.todo) > 0
    BY <1>1, EnableState
  <1>3. /\ eeCall' \in EnableCalls /\ eeCall'.todo = eeCall.todo /\ eeCall'.blk = eeCall.blk
        /\ eeCall'.phase = "put" /\ eeCall'.op = "enable" /\ Zone' = Zone
    BY <1>1 DEF EnableCalls, Zone
  <1>4. eeCall.blk = 1
    BY <1>1 DEF EEPROMInv, EnableKnown
  <1>5. eeCall' # Idle /\ CallTyped' /\ eeCall' \notin SaveCalls
    BY <1>2, <1>3 DEF CallTyped, Idle, SaveCalls
  <1>6. /\ kept' \in [Zones -> Values \cup {Unknown}]
        /\ \A z \in Zones : kept'[z] = kept[z] \/ (z = Zone /\ kept'[z] = Unknown)
    <2>1. CASE kept' = kept
      BY <2>1 DEF EEPROMInv, EEPROMTypeOK
    <2>2. CASE Forget({Zone})
      BY <2>2, Forgotten DEF EEPROMInv
    <2>3. QED
      BY <2>1, <2>2 DEF EnableGet
  <1>7. /\ eeBuf' \in [1..MaxBlocks -> Values \cup {Zero}]
        /\ kept'[Zone] # Unknown => \A b \in 1..Blocks[Zone] : eeBuf'[b] = kept'[Zone]
    <2>1. CASE /\ eeBuf' = [b \in 1..MaxBlocks |->
                              IF b \in 1..Blocks[Zone] THEN zones[Zone][b].val ELSE eeBuf[b]]
               /\ UNCHANGED kept
      <3>1. \A b \in 1..Blocks[Zone] : zones[Zone][b].val \in Values \cup {Zero}
        BY <1>2 DEF EEPROMInv, EEPROMTypeOK
      <3>2. eeBuf' \in [1..MaxBlocks -> Values \cup {Zero}]
        BY <2>1, <3>1 DEF EEPROMInv, EEPROMTypeOK
      <3>3. kept[Zone] # Unknown => \A b \in 1..Blocks[Zone] : zones[Zone][b].val = kept[Zone]
        <4>1. 1 \in 1..Len(eeCall.todo)
          BY <1>2
        <4>2. kept[eeCall.todo[1]] # Unknown =>
                 \A b \in 1..Blocks[eeCall.todo[1]] :
                    zones[eeCall.todo[1]][b].val = kept[eeCall.todo[1]]
          BY <1>1, <4>1 DEF EEPROMInv, EnableKnown
        <4>3. QED
          BY <1>2, <4>2
      <3>4. QED
        BY <1>2, <2>1, <3>2, <3>3
    <2>2. CASE UNCHANGED eeBuf /\ Forget({Zone})
      <3>1. kept'[Zone] = Unknown
        BY <1>2, <2>2, Forgotten DEF EEPROMInv
      <3>2. QED
        BY <2>2, <3>1 DEF EEPROMInv, EEPROMTypeOK
    <2>3. QED
      BY <2>1, <2>2 DEF EnableGet
  <1>8. EEPROMTypeOK' /\ ChipShaped'
    BY <1>1, <1>2, <1>3, <1>6, <1>7, ChipKept DEF EEPROMInv, EEPROMTypeOK, Cells
  <1>9. EnableKnown'
    <2>1. ToDo(eeCall)' = ToDo(eeCall)
      BY <1>3 DEF ToDo
    <2>2. KeptHolds(Zones \ ToDo(eeCall))'
      BY <1>1, <1>6, <2>1 DEF EEPROMInv, EnableKnown, KeptHolds, HoldsAll, Block
    <2>3. ASSUME NEW i \in 1..Len(eeCall.todo), kept'[eeCall.todo[i]] # Unknown
          PROVE  \A b \in 1..Blocks[eeCall.todo[i]] :
                    zones'[eeCall.todo[i]][b].val = kept'[eeCall.todo[i]]
      <3>1. eeCall.todo[i] \in Zones
        BY <1>2
      <3>2. kept'[eeCall.todo[i]] = kept[eeCall.todo[i]]
        BY <1>6, <2>3, <3>1
      <3>3. QED
        BY <1>1, <2>3, <3>2 DEF EEPROMInv, EnableKnown
    <2>4. \A b \in 1..(eeCall.blk - 1) : FALSE
      BY <1>4
    <2>5. secure' /\ \A i, j \in 1..Len(eeCall.todo) : eeCall.todo[i] = eeCall.todo[j] => i = j
      BY <1>1, <1>2 DEF EEPROMInv, EnableKnown
    <2>6. QED
      BY <1>3, <1>7, <2>2, <2>3, <2>4, <2>5 DEF EnableKnown
  <1>10. QED
    BY <1>5, <1>8, <1>9 DEF EEPROMInv, SaveKnown, KeptIsReadable

\* The conversion stores a block in an envelope and goes on with the next block, the
\* next zone, or ends.
LEMMA EnablePutKept ==
    ASSUME EEPROMInv, EnablePut
    PROVE  EEPROMInv'
  <1>1. /\ eeCall \in EnableCalls /\ eeCall.phase = "put" /\ UNCHANGED <<secure, eeBuf, kept>>
        /\ zones' = [zones EXCEPT ![Zone][eeCall.blk] = Block(eeBuf[eeCall.blk])]
    BY CallKinds DEF EEPROMInv, EnablePut, InPhase
  <1>2. /\ secure /\ Zone \in Zones /\ eeCall.blk \in 1..Blocks[Zone] /\ Blocks[Zone] \in Nat
        /\ 1..Blocks[Zone] \subseteq 1..MaxBlocks /\ eeCall.todo # <<>>
        /\ eeCall.todo \in Seq(Zones) /\ Zone = eeCall.todo[1] /\ Len(eeCall.todo) > 0
        /\ NoneTwice(eeCall.todo)
    BY <1>1, EnableState
  <1>3. Block(eeBuf[eeCall.blk]) \in Cells
    <2>1. eeBuf[eeCall.blk] \in Values \cup {Zero}
      BY <1>2 DEF EEPROMInv, EEPROMTypeOK
    <2>2. QED
      BY <2>1, BlockFits DEF EEPROMInv
  <1>4. /\ ChipShaped' /\ \A z \in Zones : zones'[z] \in [1..Blocks[z] -> Cells]
        /\ \A z \in Zones : \A b \in 1..Blocks[z] :
              zones'[z][b] = IF z = Zone /\ b = eeCall.blk THEN Block(eeBuf[eeCall.blk])
                             ELSE zones[z][b]
    <2>1. EEPROMTypeOK /\ ChipShaped
      BY DEF EEPROMInv
    <2>2. QED
      <3> DEFINE z0 == Zone
                 b0 == eeCall.blk
                 v == Block(eeBuf[eeCall.blk])
      <3>1. zones' = [zones EXCEPT ![z0][b0] = v] /\ v \in Cells /\ z0 \in Zones /\ b0 \in 1..Blocks[z0]
        BY <1>1, <1>2, <1>3
      <3> HIDE DEF z0, b0, v
      <3>2. /\ ChipShaped' /\ \A z \in Zones : zones'[z] \in [1..Blocks[z] -> Cells]
            /\ \A z \in Zones : \A b \in 1..Blocks[z] :
                  zones'[z][b] = IF z = z0 /\ b = b0 THEN v ELSE zones[z][b]
        BY <2>1, <3>1, OneBlock, ZenonT(60)
      <3>3. QED
        BY <3>2 DEF z0, b0, v
  <1>5. kept[Zone] # Unknown => \A b \in 1..eeCall.blk : zones'[Zone][b] = Block(kept[Zone])
    <2>1. kept[Zone] # Unknown => /\ \A b \in 1..Blocks[Zone] : eeBuf[b] = kept[Zone]
                                  /\ \A b \in 1..(eeCall.blk - 1) : zones[Zone][b] = Block(kept[Zone])
      BY <1>1 DEF EEPROMInv, EnableKnown
    <2>2. QED
      BY <1>2, <1>4, <2>1
  <1>6. /\ KeptHolds(Zones \ ToDo(eeCall))
        /\ \A j \in 1..Len(eeCall.todo) : j > 1 /\ kept[eeCall.todo[j]] # Unknown =>
              \A b \in 1..Blocks[eeCall.todo[j]] : zones[eeCall.todo[j]][b].val = kept[eeCall.todo[j]]
    BY <1>1 DEF EEPROMInv, EnableKnown
  <1>7. \A z \in Zones \ ToDo(eeCall) : kept[z] # Unknown =>
           \A b \in 1..Blocks[z] : zones'[z][b] = Block(kept[z])
    BY <1>1, <1>4, <1>6, EnableState DEF KeptHolds, HoldsAll
  <1>8. ASSUME NEW j \in 1..Len(eeCall.todo), j > 1, kept[eeCall.todo[j]] # Unknown
        PROVE  \A b \in 1..Blocks[eeCall.todo[j]] :
                  zones'[eeCall.todo[j]][b].val = kept[eeCall.todo[j]]
    <2>1. 1 \in 1..Len(eeCall.todo) /\ eeCall.todo[j] \in Zones
      BY <1>2
    <2>2. eeCall.todo[j] # Zone
      BY <1>2, <1>8, <2>1 DEF NoneTwice
    <2>3. QED
      BY <1>4, <1>6, <1>8, <2>1, <2>2
  <1>9. secure' \in BOOLEAN /\ secure' /\ eeBuf' \in [1..MaxBlocks -> Values \cup {Zero}]
        /\ kept' \in [Zones -> Values \cup {Unknown}]
    BY <1>1, <1>2 DEF EEPROMInv, EEPROMTypeOK
  <1>10. CASE ~LastBlock
    <2>1. eeCall' = [eeCall EXCEPT !.blk = eeCall.blk + 1]
      BY <1>10 DEF EnablePut
    <2>2. eeCall.blk + 1 \in 1..Blocks[Zone]
      BY <1>2, <1>10 DEF LastBlock
    <2>3. /\ eeCall' \in EnableCalls /\ eeCall'.todo = eeCall.todo /\ eeCall'.blk = eeCall.blk + 1
          /\ eeCall'.phase = "put" /\ eeCall'.op = "enable" /\ Zone' = Zone
      BY <1>1, <2>1, <2>2 DEF EnableCalls, Zone
    <2>4. eeCall' # Idle /\ CallTyped' /\ eeCall' \notin SaveCalls
      BY <1>2, <2>2, <2>3 DEF CallTyped, Idle, SaveCalls
    <2>5. EEPROMTypeOK'
      BY <1>2, <1>4, <1>9, <2>2, <2>3 DEF EEPROMTypeOK, Cells
    <2>6. EnableKnown'
      <3>1. ToDo(eeCall)' = ToDo(eeCall)
        BY <2>3 DEF ToDo
      <3>2. KeptHolds(Zones \ ToDo(eeCall))'
        BY <1>1, <1>7, <3>1 DEF KeptHolds, HoldsAll, Block
      <3>3. kept'[Zone'] # Unknown => /\ \A b \in 1..Blocks[Zone'] : eeBuf'[b] = kept'[Zone']
                                      /\ \A b \in 1..(eeCall'.blk - 1) : zones'[Zone'][b] = Block(kept[Zone])'
        <4>1. eeCall'.blk - 1 = eeCall.blk
          BY <1>2, <2>3
        <4>2. Block(kept[Zone])' = Block(kept[Zone])
          BY <1>1, <2>3 DEF Block
        <4>3. kept[Zone] # Unknown => \A b \in 1..Blocks[Zone] : eeBuf[b] = kept[Zone]
          BY <1>1 DEF EEPROMInv, EnableKnown
        <4>4. QED
          BY <1>1, <1>5, <2>3, <4>1, <4>2, <4>3
      <3>4. \A k, j \in 1..Len(eeCall.todo) : eeCall.todo[k] = eeCall.todo[j] => k = j
        BY <1>2 DEF NoneTwice
      <3>5. QED
        BY <1>1, <1>8, <1>9, <2>3, <3>2, <3>3, <3>4 DEF EnableKnown
    <2>7. QED
      BY <1>4, <2>4, <2>5, <2>6 DEF EEPROMInv, SaveKnown, KeptIsReadable
  <1>11. LastBlock => (kept[Zone] # Unknown => \A b \in 1..Blocks[Zone] : zones'[Zone][b] = Block(kept[Zone]))
    BY <1>5 DEF LastBlock
  <1>12. CASE LastBlock /\ Len(eeCall.todo) = 1
    <2>1. eeCall' = Idle
      BY <1>12 DEF EnablePut
    <2>2. ToDo(eeCall) = {Zone}
      BY <1>2, <1>12 DEF ToDo
    <2>3. \A z \in Zones : kept'[z] # Unknown => \A b \in 1..Blocks[z] : zones'[z][b] = Block(kept'[z])
      BY <1>1, <1>7, <1>11, <1>12, <2>2
    <2>4. QED
      BY <1>1, <1>4, <1>9, <2>1, <2>3, BackToIdle
  <1>13. CASE LastBlock /\ Len(eeCall.todo) # 1
    <2> DEFINE q == eeCall.todo
    <2>1. eeCall' = [eeCall EXCEPT !.todo = Tail(eeCall.todo), !.phase = "get", !.blk = 1]
      BY <1>13 DEF EnablePut
    <2>2. /\ Tail(q) \in Seq(Zones) /\ Len(Tail(q)) = Len(q) - 1 /\ Len(q) \in Nat \ {0, 1}
          /\ \A j \in 1..(Len(q) - 1) : Tail(q)[j] = q[j + 1]
      <3>1. q \in Seq(Zones) /\ q # <<>> /\ Len(q) # 1
        BY <1>2, <1>13
      <3> HIDE DEF q
      <3>2. QED
        BY <3>1, TailFacts
    <2>3. /\ eeCall' \in EnableCalls /\ eeCall'.todo = Tail(q) /\ eeCall'.blk = 1
          /\ eeCall'.phase = "get" /\ eeCall'.op = "enable"
      BY <1>1, <2>1, <2>2 DEF EnableCalls
    <2>4. Tail(q) # <<>> /\ Head(Tail(q)) \in Zones /\ Head(Tail(q)) = Tail(q)[1]
      <3> HIDE DEF q
      <3>1. Tail(q) # <<>>
        <4>1. PICK n \in Nat \ {0, 1} : n = Len(q)
          BY <2>2
        <4>2. Len(Tail(q)) = n - 1 /\ n - 1 # 0
          BY <2>2, <4>1
        <4>3. QED
          BY <4>2
      <3>2. QED
        BY <2>2, <3>1, TailFacts
    <2>5. Zone' = Head(Tail(q)) /\ Blocks[Zone'] \in Nat \ {0}
      BY <2>3, <2>4, EEPROMAssumption DEF Zone
    <2>6. Len(eeCall'.todo) > 0 /\ eeCall'.blk \in 1..Blocks[Zone']
      <3>1. PICK n \in Nat \ {0, 1} : n = Len(q)
        BY <2>2
      <3>2. Len(eeCall'.todo) = n - 1
        BY <2>2, <2>3, <3>1
      <3>3. Len(eeCall'.todo) > 0
        BY <3>2
      <3>4. QED
        BY <2>3, <2>5, <3>3
    <2>7. eeCall' # Idle /\ CallTyped' /\ eeCall' \notin SaveCalls
      BY <2>3, <2>6 DEF CallTyped, Idle, SaveCalls
    <2>8. EEPROMTypeOK'
      BY <1>4, <1>9, <2>3, <2>6 DEF EEPROMTypeOK, Cells
    <2>9. EnableKnown'
      <3>1. ToDo(eeCall)' = {q[j + 1] : j \in 1..(Len(q) - 1)}
        BY <2>2, <2>3, ZenonT(60) DEF ToDo
      <3>2. ASSUME NEW z \in Zones, z \notin ToDo(eeCall)', kept[z] # Unknown
            PROVE  \A b \in 1..Blocks[z] : zones'[z][b] = Block(kept[z])
        <4>1. CASE z \in ToDo(eeCall)
          <5>1. PICK k \in 1..Len(q) : z = q[k]
            BY <4>1 DEF ToDo
          <5>2. CASE k = 1
            BY <1>2, <1>11, <1>13, <3>2, <5>1, <5>2
          <5>3. CASE k # 1
            <6>1. k - 1 \in 1..(Len(q) - 1) /\ q[(k - 1) + 1] = z
              BY <2>2, <5>1, <5>3
            <6>2. QED
              BY <3>1, <3>2, <6>1
          <5>4. QED
            BY <5>2, <5>3
        <4>2. CASE z \notin ToDo(eeCall)
          BY <1>7, <3>2, <4>2
        <4>3. QED
          BY <4>1, <4>2
      <3>3. KeptHolds(Zones \ ToDo(eeCall))'
        BY <1>1, <3>2 DEF KeptHolds, HoldsAll, Block
      <3>4. \A k, j \in 1..Len(Tail(q)) : Tail(q)[k] = Tail(q)[j] => k = j
        <4> SUFFICES ASSUME NEW k \in 1..(Len(q) - 1), NEW j \in 1..(Len(q) - 1),
           q[k + 1] = q[j + 1]
                     PROVE  k = j
          BY <2>2
        <4>1. k + 1 \in 1..Len(q) /\ j + 1 \in 1..Len(q)
          BY <2>2
        <4>2. k + 1 = j + 1
          BY <1>2, <4>1 DEF NoneTwice
        <4>3. QED
          BY <4>2, <2>2
      <3>5. ASSUME NEW j \in 1..Len(Tail(q)), kept[Tail(q)[j]] # Unknown
            PROVE  \A b \in 1..Blocks[Tail(q)[j]] : zones'[Tail(q)[j]][b].val = kept[Tail(q)[j]]
        <4>1. j + 1 \in 1..Len(q) /\ j + 1 > 1 /\ Tail(q)[j] = q[j + 1]
          BY <2>2
        <4>2. QED
          BY <1>8, <3>5, <4>1
      <3>6. QED
        BY <1>1, <1>9, <2>3, <3>3, <3>4, <3>5 DEF EnableKnown
    <2>10. QED
      BY <1>4, <2>7, <2>8, <2>9 DEF EEPROMInv, SaveKnown, KeptIsReadable
  <1>14. QED
    BY <1>10, <1>12, <1>13

\* The invariant of the settings store holds in every reachable state.
THEOREM EEPROMInvariant == EEPROMSpec => []EEPROMInv
  <1>1. EEPROMInit => EEPROMInv
    <2> SUFFICES ASSUME EEPROMInit PROVE EEPROMInv
      OBVIOUS
    <2>1. FALSE \in BOOLEAN
      BY Zenon
    <2>2. \A e \in BOOLEAN :
            [enveloped |-> e, val |-> Zero] \in [enveloped : BOOLEAN, val : Values \cup {Zero}]
      OBVIOUS
    <2>3. \A z \in Zones : zones[z] = [b \in 1..Blocks[z] |-> [enveloped |-> FALSE, val |-> Zero]]
      BY DEF EEPROMInit
    <2>4. ChipShaped
      BY DEF EEPROMInit, ChipShaped
    <2>5. eeCall = Idle /\ eeCall.op = "idle"
      BY DEF EEPROMInit, Idle
    <2>6. eeCall \notin SaveCalls /\ eeCall \notin EnableCalls
      BY <2>5 DEF SaveCalls, EnableCalls
    <2>7. \A z \in Zones : zones[z] \in [1..Blocks[z] -> [enveloped : BOOLEAN, val : Values \cup {Zero}]]
      <3> DEFINE cell == [enveloped |-> FALSE, val |-> Zero]
                 R == [enveloped : BOOLEAN, val : Values \cup {Zero}]
      <3>1. cell \in R
        BY <2>1, <2>2, Zenon
      <3>2. \A z \in Zones : zones[z] = [b \in 1..Blocks[z] |-> cell]
        BY <2>3
      <3> HIDE DEF cell, R
      <3>3. \A z \in Zones : zones[z] \in [1..Blocks[z] -> R]
        BY <3>1, <3>2
      <3>4. QED
        BY <3>3 DEF R
    <2>8. secure \in BOOLEAN
      BY Zenon DEF EEPROMInit
    <2>9. EEPROMTypeOK
      BY <2>5, <2>7, <2>8 DEF EEPROMTypeOK, EEPROMInit
    <2>10. \A z \in Zones : kept[z] = Unknown
      BY DEF EEPROMInit
    <2>11. QED
      BY <2>4, <2>5, <2>6, <2>9, <2>10
         DEF EEPROMInv, CallTyped, SaveKnown, EnableKnown, KeptIsReadable
  <1>2. EEPROMInv /\ [EEPROMNext]_eepromVars => EEPROMInv'
    <2> SUFFICES ASSUME EEPROMInv, [EEPROMNext]_eepromVars PROVE EEPROMInv'
      OBVIOUS
    <2>1. CASE UNCHANGED eepromVars
      <3> USE <2>1 DEF eepromVars, EEPROMInv, KeptHolds, HoldsAll, Block, Zone, ToDo
      <3>1. EEPROMTypeOK'
        BY DEF EEPROMTypeOK
      <3>2. ChipShaped'
        BY DEF ChipShaped
      <3>3. CallTyped'
        BY DEF CallTyped
      <3>4. SaveKnown'
        BY DEF SaveKnown
      <3>5. EnableKnown'
        BY DEF EnableKnown
      <3>6. KeptIsReadable'
        BY DEF KeptIsReadable
      <3>7. QED
        BY <3>1, <3>2, <3>3, <3>4, <3>5, <3>6
    <2>2. QED
      BY <2>1, SaveBegins, LoadKept, StoreKept, VerifyKept, SaveEnds, ReadKept, EnableBegins,
         EnableGetKept, EnablePutKept, EnableEnds DEF EEPROMNext
  <1>3. QED
    BY <1>1, <1>2, PTL DEF EEPROMSpec

\* A setting whose save reported success is what a later read finds, through other saves,
\* losses of power between two blocks and the conversion to envelopes: KeptIsReadable, for
\* every layout of the zones.
THEOREM SavedIsReadable == EEPROMSpec => []KeptIsReadable
  BY EEPROMInvariant, PTL DEF EEPROMInv

\* The action property.
THEOREM ZonesWrittenInOrder == EEPROMSpec => WrittenInOrder
  <1> DEFINE Holds(chip, zone, val) == \A b \in 1..Blocks[zone] : chip[zone][b].val = val
             A == \A s \in Settings : \A i \in 2..Len(Layout[s]) : \A val \in Values :
                    LET z == Layout[s][i]
                        before == Layout[s][i - 1]
                    IN  eeCall.op = "save" /\ eeCall.of = s
                          /\ ~Holds(zones, z, val) /\ Holds(zones', z, val)
                          => Holds(zones, before, val)
  <1>1. EEPROMInv /\ [EEPROMNext]_eepromVars => [A]_eepromVars
    <2> SUFFICES ASSUME EEPROMInv, EEPROMNext, eeCall.op = "save",
                        NEW s \in Settings, eeCall.of = s, NEW i \in 2..Len(Layout[s]),
                        NEW val \in Values,
                        ~Holds(zones, Layout[s][i], val), Holds(zones', Layout[s][i], val)
                 PROVE  Holds(zones, Layout[s][i - 1], val)
      BY Zenon DEF eepromVars
    <2>1. eeCall \in SaveCalls /\ eeCall # Idle /\ eeCall.op # "enable"
      BY CallKinds DEF EEPROMInv
    <2>2. Layout[s] \in Seq(Zones) /\ Layout[s][i] \in Zones /\ Blocks[Layout[s][i]] \in Nat \ {0}
          /\ val # Zero /\ val \in Nat
      BY EEPROMAssumption
    <2>3. zones' # zones
      OBVIOUS
    <2>4. Store \/ LoadFails \/ VerifyFails
      <3>1. ~(\E z \in Zones : \E b \in 1..Blocks[z] : read(z, b))
        BY <2>1 DEF read
      <3>2. ~EnablePut
        BY <2>1 DEF EnablePut, InPhase
      <3>3. QED
        BY <2>3, <3>1, <3>2 DEF EEPROMNext, save, Load, StoreFails, Verify, enableHostSecureChannel,
             EnableGet, EnablePutFails, PowerLoss
    <2>5. CASE LoadFails \/ VerifyFails
      <3>1. ReadFails(Zone, eeCall.blk) /\ Zone \in Zones /\ eeCall.blk \in 1..Blocks[Zone]
        BY <2>1, <2>5, SaveState DEF LoadFails, VerifyFails
      <3>2. \A z \in Zones : \A b \in 1..Blocks[z] :
               zones'[z][b] = zones[z][b] \/ zones'[z][b].val = Zero
        BY <3>1, ReadFailed DEF EEPROMInv
      <3>3. QED
        BY <2>2, <3>2
    <2>6. CASE Store
      <3> DEFINE zs == Layout[s]
                 done == Len(zs) - Len(eeCall.todo)
      <3>1. /\ Zone = zs[done + 1] /\ Zone \in Zones /\ Len(eeCall.todo) \in 1..Len(zs)
            /\ Len(zs) \in Nat /\ NoneTwice(zs) /\ eeCall.blk \in 1..Blocks[Zone]
            /\ Blocks[Zone] \in Nat
        BY <2>1, SaveState
      <3>2. PICK v \in StoreOutcomes(eeCall.val) :
         IF secure
           THEN zones' = [zones EXCEPT ![Zone][eeCall.blk] = Block(v)]
           ELSE zones' = [zones EXCEPT ![Zone] = [b \in 1..Blocks[Zone] |-> Block(v)]]
        BY <2>6 DEF Store
      <3>3. Block(v) \in Cells /\ Block(v).val = v
        BY <2>1, BlockFits, SaveState DEF StoreOutcomes, EEPROMInv, Block
      <3>4. /\ \A z \in Zones : z # Zone => \A b \in 1..Blocks[z] : zones'[z][b] = zones[z][b]
            /\ zones'[Zone][eeCall.blk] = Block(v)
        <4>1. EEPROMTypeOK /\ ChipShaped
          BY DEF EEPROMInv
        <4> DEFINE z0 == Zone
                   b0 == eeCall.blk
                   w == Block(v)
        <4>a. w \in Cells /\ z0 \in Zones /\ b0 \in 1..Blocks[z0]
          BY <3>1, <3>3
        <4>2. CASE secure
          <5>1. zones' = [zones EXCEPT ![z0][b0] = w]
            BY <3>2, <4>2
          <5> HIDE DEF z0, b0, w
          <5>2. \A z \in Zones : \A b \in 1..Blocks[z] :
                   zones'[z][b] = IF z = z0 /\ b = b0 THEN w ELSE zones[z][b]
            BY <4>1, <4>a, <5>1, OneBlock
          <5>3. QED
            BY <4>a, <5>2 DEF z0, b0, w
        <4>3. CASE ~secure
          <5>1. zones' = [zones EXCEPT ![z0] = [b \in 1..Blocks[z0] |-> w]]
            BY <3>2, <4>3
          <5> HIDE DEF z0, b0, w
          <5>2. \A z \in Zones : \A b \in 1..Blocks[z] :
                   zones'[z][b] = IF z = z0 THEN w ELSE zones[z][b]
            BY <4>1, <4>a, <5>1, OneZone
          <5>3. QED
            BY <4>a, <5>2 DEF z0, b0, w
        <4>4. QED
          BY <4>2, <4>3
      <3>5. Layout[s][i] = Zone
        BY <2>2, <3>4
      <3>6. v = val /\ val = eeCall.val
        <4>1. zones'[Zone][eeCall.blk].val = val
          BY <3>1, <3>5
        <4>2. v = val
          BY <3>3, <3>4, <4>1
        <4>3. QED
          BY <2>2, <4>2 DEF StoreOutcomes
      <3>7. i = done + 1 /\ i - 1 \in 1..done
        <4>1. PICK n \in Nat : n = Len(zs)
          BY <3>1
        <4>2. PICK m \in 1..n : m = Len(eeCall.todo)
          BY <3>1, <4>1
        <4>3. done = n - m
          BY <4>1, <4>2
        <4>a. done + 1 \in 1..n /\ i \in 1..n
          <5>1. i \in 2..n
            BY <4>1
          <5> HIDE DEF done
          <5>2. QED
            BY <4>3, <5>1
        <4>4. i = done + 1
          <5>1. zs[i] = zs[done + 1]
            BY <3>1, <3>5
          <5> HIDE DEF zs, done
          <5>2. QED
            BY <3>1, <4>1, <4>a, <5>1 DEF NoneTwice
        <4>5. QED
          BY <4>1, <4>2, <4>3, <4>4
      <3>8. HoldsAll(zs[i - 1], eeCall.val)
        BY <2>1, <3>7 DEF EEPROMInv, SaveKnown
      <3>9. \A w : Block(w).val = w
        BY DEF Block
      <3>10. QED
        BY <3>6, <3>8, <3>9 DEF HoldsAll
    <2>7. QED
      BY <2>4, <2>5, <2>6
  <1>2. QED
    BY <1>1, EEPROMInvariant, PTL DEF EEPROMSpec, WrittenInOrder

=============================================================================
