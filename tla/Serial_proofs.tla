--------------------------- MODULE Serial_proofs ----------------------------
(***************************************************************************)
(* core/arduino/RingBuffer.cpp is a queue of its bytes, for every size and *)
(* every call; and BufferedSerial, which reads and writes two rings from a *)
(* thread and from interrupt handlers, is first in, first out.             *)
(***************************************************************************)
EXTENDS RingBufferCalls, BufferedSerial, SequenceTheorems, TLAPS

\* How many bytes a ring holds, and the cell of each, without a remainder.
UsedBy(b, n) == IF b.addr_w < b.addr_r THEN b.addr_w + n - b.addr_r ELSE b.addr_w - b.addr_r
CellOf(b, n, i) == IF b.addr_r + i - 1 < n THEN b.addr_r + i - 1 ELSE b.addr_r + i - 1 - n

\* A remainder, for an argument below twice the ring's size.
LEMMA LapRemainder ==
    ASSUME NEW n \in Nat \ {0}, NEW x \in Nat, x < 2 * n
    PROVE  x % n = IF x < n THEN x ELSE x - n
  <1>1. CASE x < n
    BY <1>1
  <1>2. CASE ~(x < n)
    BY <1>2
  <1>3. QED
    BY <1>1, <1>2

\* The indices of a ring.
LEMMA RingTyped ==
    ASSUME NEW n \in Nat \ {0}, NEW V, NEW b \in Rings(n, V)
    PROVE  /\ b.addr_w \in 0..(n - 1) /\ b.addr_r \in 0..(n - 1)
           /\ b.buf \in [0..(n - 1) -> V]
           /\ b = [buf |-> b.buf, addr_w |-> b.addr_w, addr_r |-> b.addr_r]
           /\ UsedBy(b, n) \in 0..(n - 1)
           /\ \A i \in 1..UsedBy(b, n) : CellOf(b, n, i) \in 0..(n - 1)
  <1>1. b.addr_w \in 0..(n - 1) /\ b.addr_r \in 0..(n - 1) /\ b.buf \in [0..(n - 1) -> V]
        /\ b = [buf |-> b.buf, addr_w |-> b.addr_w, addr_r |-> b.addr_r]
    BY DEF Rings
  <1>2. UsedBy(b, n) \in 0..(n - 1)
    BY <1>1 DEF UsedBy
  <1>3. \A i \in 1..UsedBy(b, n) : CellOf(b, n, i) \in 0..(n - 1)
    BY <1>1, <1>2 DEF UsedBy, CellOf
  <1>4. QED
    BY <1>1, <1>2, <1>3

\* The next cell.
LEMMA AfterIs ==
    ASSUME NEW n \in Nat \ {0}, NEW i \in 0..(n - 1)
    PROVE  /\ After(i, n) \in 0..(n - 1)
           /\ After(i, n) = IF i = n - 1 THEN 0 ELSE i + 1
  <1>1. PICK x \in Nat : x = i + 1 /\ x < 2 * n
    OBVIOUS
  <1>2. x % n = IF x < n THEN x ELSE x - n
    BY <1>1, LapRemainder, Zenon
  <1>3. QED
    BY <1>1, <1>2 DEF After

\* What a ring holds, cell by cell.
LEMMA ContentsIs ==
    ASSUME NEW n \in Nat \ {0}, NEW V, NEW b \in Rings(n, V)
    PROVE  /\ Contents(b, n) = [i \in 1..UsedBy(b, n) |-> b.buf[CellOf(b, n, i)]]
           /\ Contents(b, n) \in Seq(V)
           /\ Len(Contents(b, n)) = UsedBy(b, n)
           /\ UsedBy(b, n) \in 0..(n - 1)
           /\ \A i \in 1..UsedBy(b, n) : Contents(b, n)[i] = b.buf[CellOf(b, n, i)]
  <1>1. b.addr_w \in 0..(n - 1) /\ b.addr_r \in 0..(n - 1) /\ b.buf \in [0..(n - 1) -> V]
        /\ UsedBy(b, n) \in 0..(n - 1)
        /\ \A i \in 1..UsedBy(b, n) : CellOf(b, n, i) \in 0..(n - 1)
    BY RingTyped
  <1>2. (b.addr_w + n - b.addr_r) % n = UsedBy(b, n)
    <2>1. PICK x \in Nat : x = b.addr_w + n - b.addr_r /\ x < 2 * n
      BY <1>1
    <2>2. x % n = IF x < n THEN x ELSE x - n
      BY <2>1, LapRemainder, Zenon
    <2>3. (IF x < n THEN x ELSE x - n) = UsedBy(b, n)
      BY <1>1, <2>1 DEF UsedBy
    <2>4. QED
      BY <2>1, <2>2, <2>3, Zenon
  <1>3. \A i \in 1..UsedBy(b, n) : (b.addr_r + i - 1) % n = CellOf(b, n, i)
    <2>1. TAKE i \in 1..UsedBy(b, n)
    <2>2. PICK x \in Nat : x = b.addr_r + i - 1 /\ x < 2 * n
      BY <1>1
    <2>3. x % n = IF x < n THEN x ELSE x - n
      BY <2>2, LapRemainder, Zenon
    <2>4. QED
      BY <1>1, <2>2, <2>3 DEF CellOf
  <1> DEFINE F == [i \in 1..UsedBy(b, n) |-> b.buf[CellOf(b, n, i)]]
  <1>4. Contents(b, n) = F
    BY <1>2, <1>3, Zenon DEF Contents
  <1>5. PICK m \in Nat : m = UsedBy(b, n)
    BY <1>1
  <1>6. F \in [1..m -> V] /\ \A i \in 1..m : F[i] = b.buf[CellOf(b, n, i)]
    BY <1>1, <1>5
  <1> HIDE DEF F
  <1>7. F \in Seq(V) /\ Len(F) = m
    BY <1>6
  <1>8. QED
    BY <1>1, <1>4, <1>5, <1>6, <1>7 DEF F

\* An empty ring, and a full one.
LEMMA EmptyFull ==
    ASSUME NEW n \in Nat \ {0}, NEW V, NEW b \in Rings(n, V)
    PROVE  /\ Empty(b) <=> UsedBy(b, n) = 0
           /\ Empty(b) <=> Contents(b, n) = <<>>
           /\ Full(b, n) <=> UsedBy(b, n) = n - 1
  <1>1. b.addr_w \in 0..(n - 1) /\ b.addr_r \in 0..(n - 1)
    BY RingTyped
  <1>2. Empty(b) <=> UsedBy(b, n) = 0
    BY <1>1 DEF Empty, UsedBy
  <1>3. Contents(b, n) \in Seq(V) /\ Len(Contents(b, n)) = UsedBy(b, n)
    BY ContentsIs
  <1>4. After(b.addr_w, n) = IF b.addr_w = n - 1 THEN 0 ELSE b.addr_w + 1
    BY <1>1, AfterIs
  <1>5. Full(b, n) <=> UsedBy(b, n) = n - 1
    BY <1>1, <1>4 DEF Full, UsedBy
  <1>6. UsedBy(b, n) = 0 <=> Contents(b, n) = <<>>
    BY <1>3
  <1>7. QED
    BY <1>2, <1>5, <1>6

\* A byte that is put is the last one.
LEMMA PutCAppends ==
    ASSUME NEW n \in Nat \ {0}, NEW V, NEW b \in Rings(n, V), NEW d \in V, ~Full(b, n)
    PROVE  /\ PutC(b, n, d) \in Rings(n, V)
           /\ Contents(PutC(b, n, d), n) = Append(Contents(b, n), d)
  <1> DEFINE c == PutC(b, n, d)
  <1>1. b.addr_w \in 0..(n - 1) /\ b.addr_r \in 0..(n - 1) /\ b.buf \in [0..(n - 1) -> V]
        /\ b = [buf |-> b.buf, addr_w |-> b.addr_w, addr_r |-> b.addr_r]
    BY RingTyped
  <1>2. PICK w \in 0..(n - 1) : w = After(b.addr_w, n) /\ w = IF b.addr_w = n - 1 THEN 0 ELSE b.addr_w + 1
    BY <1>1, AfterIs
  <1>3. c.buf = [b.buf EXCEPT ![b.addr_w] = d] /\ c.addr_w = w /\ c.addr_r = b.addr_r
        /\ c = [buf |-> [b.buf EXCEPT ![b.addr_w] = d], addr_w |-> w, addr_r |-> b.addr_r]
    <2>1. PICK k \in 0..(n - 1) : k = b.addr_w
      BY <1>1
    <2>2. c = [b EXCEPT !.buf = [b.buf EXCEPT ![k] = d], !.addr_w = w]
      BY <1>1, <1>2, <2>1 DEF PutC
    <2>3. QED
      BY <1>1, <2>1, <2>2
  <1>4. c \in Rings(n, V)
    BY <1>1, <1>3 DEF Rings
  <1> HIDE DEF c
  <1>5. UsedBy(b, n) \in 0..(n - 1) /\ UsedBy(b, n) # n - 1
    BY EmptyFull, RingTyped
  <1>6. UsedBy(c, n) = UsedBy(b, n) + 1
    BY <1>1, <1>2, <1>3, <1>5, SMTT(60) DEF UsedBy
  <1>7. \A i \in 1..UsedBy(b, n) : CellOf(c, n, i) = CellOf(b, n, i) /\ CellOf(b, n, i) # b.addr_w
                                   /\ CellOf(b, n, i) \in 0..(n - 1)
    BY <1>1, <1>3, <1>5, SMTT(60) DEF UsedBy, CellOf
  <1>8. CellOf(c, n, UsedBy(c, n)) = b.addr_w
    <2>1. PICK u \in 1..(n - 1) : u = UsedBy(c, n) /\ u = UsedBy(b, n) + 1
      BY <1>5, <1>6
    <2>2. u = (IF b.addr_w < b.addr_r THEN b.addr_w + n - b.addr_r ELSE b.addr_w - b.addr_r) + 1
      BY <2>1 DEF UsedBy
    <2>3. CellOf(c, n, u) = b.addr_w
      BY <1>1, <1>3, <2>2 DEF CellOf
    <2>4. QED
      BY <2>1, <2>3
  <1> DEFINE B == Contents(b, n)
             C == Contents(c, n)
  <1>9. B \in Seq(V) /\ Len(B) = UsedBy(b, n) /\ \A i \in 1..UsedBy(b, n) : B[i] = b.buf[CellOf(b, n, i)]
    BY ContentsIs
  <1>10. C \in Seq(V) /\ Len(C) = UsedBy(c, n) /\ \A i \in 1..UsedBy(c, n) : C[i] = c.buf[CellOf(c, n, i)]
    BY <1>4, ContentsIs
  <1> HIDE DEF B, C
  <1>11. \A i \in 1..UsedBy(b, n) : C[i] = B[i]
    <2>1. TAKE i \in 1..UsedBy(b, n)
    <2>2. PICK k \in 0..(n - 1) : k = CellOf(b, n, i) /\ k = CellOf(c, n, i) /\ k # b.addr_w
      BY <1>7
    <2>3. i \in 1..UsedBy(c, n)
      BY <1>5, <1>6
    <2>4. C[i] = c.buf[k] /\ B[i] = b.buf[k]
      BY <1>9, <1>10, <2>2, <2>3
    <2>5. QED
      BY <1>1, <1>3, <2>2, <2>4
  <1>12. C[UsedBy(c, n)] = d
    <2>1. UsedBy(c, n) \in 1..UsedBy(c, n)
      BY <1>5, <1>6
    <2>2. C[UsedBy(c, n)] = c.buf[b.addr_w]
      BY <1>8, <1>10, <2>1
    <2>3. QED
      BY <1>1, <1>3, <2>2
  <1>13. /\ Append(B, d) \in Seq(V) /\ Len(Append(B, d)) = Len(C)
         /\ \A i \in 1..Len(C) : Append(B, d)[i] = C[i]
    BY <1>5, <1>6, <1>9, <1>10, <1>11, <1>12
  <1>14. C = Append(B, d)
    BY <1>10, <1>13, SeqEqual
  <1>15. QED
    BY <1>4, <1>14 DEF B, C, c

\* A byte that is got is the first one.
LEMMA GetCRemoves ==
    ASSUME NEW n \in Nat \ {0}, NEW V, NEW b \in Rings(n, V), ~Empty(b)
    PROVE  /\ GetC(b, n) \in Rings(n, V)
           /\ Peek(b) \in V
           /\ Contents(b, n) = <<Peek(b)>> \o Contents(GetC(b, n), n)
  <1> DEFINE c == GetC(b, n)
  <1>1. b.addr_w \in 0..(n - 1) /\ b.addr_r \in 0..(n - 1) /\ b.buf \in [0..(n - 1) -> V]
        /\ b = [buf |-> b.buf, addr_w |-> b.addr_w, addr_r |-> b.addr_r]
    BY RingTyped
  <1>2. PICK r \in 0..(n - 1) : r = After(b.addr_r, n) /\ r = IF b.addr_r = n - 1 THEN 0 ELSE b.addr_r + 1
    BY <1>1, AfterIs
  <1>3. c.buf = b.buf /\ c.addr_w = b.addr_w /\ c.addr_r = r
        /\ c = [buf |-> b.buf, addr_w |-> b.addr_w, addr_r |-> r]
    BY <1>1, <1>2 DEF GetC
  <1>4. c \in Rings(n, V)
    BY <1>1, <1>3 DEF Rings
  <1> HIDE DEF c
  <1>5. UsedBy(b, n) \in 0..(n - 1) /\ UsedBy(b, n) # 0
    BY EmptyFull, RingTyped
  <1>6. UsedBy(c, n) = UsedBy(b, n) - 1
    BY <1>1, <1>2, <1>3, <1>5 DEF UsedBy
  <1>7. \A i \in 1..UsedBy(c, n) : CellOf(c, n, i) = CellOf(b, n, i + 1)
    BY <1>1, <1>2, <1>3, <1>5, <1>6, SMTT(60) DEF UsedBy, CellOf
  <1>8. CellOf(b, n, 1) = b.addr_r
    BY <1>1 DEF CellOf
  <1> DEFINE B == Contents(b, n)
             C == Contents(c, n)
  <1>9. B \in Seq(V) /\ Len(B) = UsedBy(b, n) /\ \A i \in 1..UsedBy(b, n) : B[i] = b.buf[CellOf(b, n, i)]
    BY ContentsIs
  <1>10. C \in Seq(V) /\ Len(C) = UsedBy(c, n) /\ \A i \in 1..UsedBy(c, n) : C[i] = c.buf[CellOf(c, n, i)]
    BY <1>4, ContentsIs
  <1>11. PICK x \in V : x = Peek(b)
    BY <1>1 DEF Peek
  <1> HIDE DEF B, C
  <1>12. B[1] = x
    BY <1>5, <1>8, <1>9, <1>11 DEF Peek
  <1>13. \A i \in 1..UsedBy(c, n) : C[i] = B[i + 1]
    <2>1. TAKE i \in 1..UsedBy(c, n)
    <2>2. i + 1 \in 1..UsedBy(b, n)
      BY <1>5, <1>6
    <2>3. C[i] = c.buf[CellOf(c, n, i)] /\ B[i + 1] = b.buf[CellOf(b, n, i + 1)]
      BY <1>9, <1>10, <2>2
    <2>4. QED
      BY <1>3, <1>7, <2>3
  <1>14. /\ <<x>> \o C \in Seq(V) /\ Len(<<x>> \o C) = Len(B)
         /\ \A i \in 1..Len(B) : (<<x>> \o C)[i] = B[i]
    <2>1. /\ <<x>> \o C \in Seq(V) /\ Len(<<x>> \o C) = 1 + Len(C)
          /\ \A i \in 1..(1 + Len(C)) : (<<x>> \o C)[i] = IF i = 1 THEN x ELSE C[i - 1]
      BY <1>10
    <2>2. QED
      BY <2>1, <1>5, <1>6, <1>9, <1>10, <1>12, <1>13
  <1>15. B = <<x>> \o C
    BY <1>9, <1>14, SeqEqual
  <1>16. QED
    BY <1>4, <1>11, <1>15 DEF B, C, c

\* The two counts: what a ring holds, and the room it has left.
LEMMA CountsAre ==
    ASSUME NEW n \in Nat \ {0}, NEW V, NEW b \in Rings(n, V)
    PROVE  /\ Available(b, n, Wrapped(b)) = n - 1 - UsedBy(b, n)
           /\ Use(b, n, Wrapped(b)) = UsedBy(b, n)
  <1>1. b.addr_w \in 0..(n - 1) /\ b.addr_r \in 0..(n - 1)
    BY RingTyped
  <1>2. CASE b.addr_w < b.addr_r
    BY <1>1, <1>2 DEF Available, Use, Wrapped, UsedBy
  <1>3. CASE ~(b.addr_w < b.addr_r)
    BY <1>1, <1>3 DEF Available, Use, Wrapped, UsedBy
  <1>4. QED
    BY <1>2, <1>3

\* What put does to the cells and the index, in one case or the other.
LEMMA PutCells ==
    ASSUME NEW n \in Nat \ {0}, NEW V, NEW b \in Rings(n, V), NEW bytes \in Seq(V),
           NEW len \in Nat, len = PutLength(b, n, Len(bytes))
    PROVE  /\ len <= Len(bytes) /\ UsedBy(b, n) + len <= n - 1
           /\ len = IF Len(bytes) < n - 1 - UsedBy(b, n) THEN Len(bytes) ELSE n - 1 - UsedBy(b, n)
           /\ Put(b, n, bytes) \in Rings(n, V)
           /\ Put(b, n, bytes).addr_r = b.addr_r
           /\ Put(b, n, bytes).addr_w = IF b.addr_w + len < n THEN b.addr_w + len
                                       ELSE b.addr_w + len - n
           /\ \A i \in 0..(n - 1) :
                 Put(b, n, bytes).buf[i] =
                    IF i >= b.addr_w /\ i < b.addr_w + len THEN bytes[i - b.addr_w + 1]
                    ELSE IF ~(b.addr_w + len < n) /\ i < b.addr_w + len - n
                         THEN bytes[n - b.addr_w + i + 1] ELSE b.buf[i]
  <1>1. b.addr_w \in 0..(n - 1) /\ b.addr_r \in 0..(n - 1) /\ b.buf \in [0..(n - 1) -> V]
        /\ b = [buf |-> b.buf, addr_w |-> b.addr_w, addr_r |-> b.addr_r]
        /\ UsedBy(b, n) \in 0..(n - 1)
    BY RingTyped
  <1>2. len = IF Len(bytes) < n - 1 - UsedBy(b, n) THEN Len(bytes) ELSE n - 1 - UsedBy(b, n)
    BY CountsAre DEF PutLength
  <1>3. Len(bytes) \in Nat /\ len <= Len(bytes) /\ UsedBy(b, n) + len <= n - 1
    BY <1>1, <1>2
  <1> DEFINE cell(i) == IF i >= b.addr_w /\ i < b.addr_w + len THEN bytes[i - b.addr_w + 1]
                        ELSE IF ~(b.addr_w + len < n) /\ i < len - (n - b.addr_w)
                             THEN bytes[(n - b.addr_w) + i + 1] ELSE b.buf[i]
             cells == [i \in 0..(n - 1) |-> cell(i)]
             next == IF b.addr_w + len < n THEN b.addr_w + len ELSE len - (n - b.addr_w)
  <1>4. Put(b, n, bytes) = [b EXCEPT !.buf = cells, !.addr_w = next]
    BY Zenon DEF Put
  <1>5. \A i \in 0..(n - 1) : cell(i) \in V
    <2>1. TAKE i \in 0..(n - 1)
    <2>2. CASE i >= b.addr_w /\ i < b.addr_w + len
      <3>1. i - b.addr_w + 1 \in 1..Len(bytes)
        BY <1>1, <1>3, <2>2
      <3>2. QED
        BY <2>2, <3>1
    <2>3. CASE ~(i >= b.addr_w /\ i < b.addr_w + len) /\ i < len - (n - b.addr_w)
      <3>1. (n - b.addr_w) + i + 1 \in 1..Len(bytes)
        BY <1>1, <1>3, <2>3
      <3>2. ~(b.addr_w + len < n)
        BY <1>1, <1>3, <2>3
      <3>3. cell(i) = bytes[(n - b.addr_w) + i + 1]
        BY <2>3, <3>2, Zenon
      <3>4. QED
        BY <3>1, <3>3
    <2>4. CASE ~(i >= b.addr_w /\ i < b.addr_w + len) /\ ~(i < len - (n - b.addr_w))
      <3>1. cell(i) = b.buf[i]
        BY <2>4, Zenon
      <3>2. QED
        BY <1>1, <3>1
    <2>5. QED
      BY <2>2, <2>3, <2>4
  <1>6. cells \in [0..(n - 1) -> V] /\ \A i \in 0..(n - 1) : cells[i] = cell(i)
    <2> HIDE DEF cell
    <2>1. QED
      BY <1>5
  <1>7. next \in 0..(n - 1) /\ next = IF b.addr_w + len < n THEN b.addr_w + len ELSE b.addr_w + len - n
    BY <1>1, <1>3
  <1>8. \A i \in 0..(n - 1) :
          cell(i) = IF i >= b.addr_w /\ i < b.addr_w + len THEN bytes[i - b.addr_w + 1]
                    ELSE IF ~(b.addr_w + len < n) /\ i < b.addr_w + len - n
                         THEN bytes[n - b.addr_w + i + 1] ELSE b.buf[i]
    <2>1. TAKE i \in 0..(n - 1)
    <2>2. b.addr_w + len - n = len - (n - b.addr_w)
      BY <1>1
    <2>3. QED
      BY <2>2
  <1> HIDE DEF cell, cells, next
  <1>9. Put(b, n, bytes) = [buf |-> cells, addr_w |-> next, addr_r |-> b.addr_r]
    BY <1>1, <1>4
  <1>10. Put(b, n, bytes) \in Rings(n, V)
    BY <1>1, <1>6, <1>7, <1>9 DEF Rings
  <1>11. Put(b, n, bytes).buf = cells /\ Put(b, n, bytes).addr_w = next /\ Put(b, n, bytes).addr_r = b.addr_r
    BY <1>9
  <1>12. QED
    BY <1>2, <1>3, <1>6, <1>7, <1>8, <1>10, <1>11

\* What is put follows what was there: the part that fits, in order.
LEMMA PutAppends ==
    ASSUME NEW n \in Nat \ {0}, NEW V, NEW b \in Rings(n, V), NEW bytes \in Seq(V),
           NEW len \in Nat, len = PutLength(b, n, Len(bytes))
    PROVE  /\ Put(b, n, bytes) \in Rings(n, V)
           /\ Contents(Put(b, n, bytes), n) = Contents(b, n) \o SubSeq(bytes, 1, len)
           /\ len = IF Len(bytes) < n - 1 - Len(Contents(b, n)) THEN Len(bytes)
                    ELSE n - 1 - Len(Contents(b, n))
  <1>1. b.addr_w \in 0..(n - 1) /\ b.addr_r \in 0..(n - 1) /\ b.buf \in [0..(n - 1) -> V]
        /\ UsedBy(b, n) \in 0..(n - 1)
    BY RingTyped
  <1> DEFINE c == Put(b, n, bytes)
  <1>2. /\ len <= Len(bytes) /\ UsedBy(b, n) + len <= n - 1
        /\ len = IF Len(bytes) < n - 1 - UsedBy(b, n) THEN Len(bytes) ELSE n - 1 - UsedBy(b, n)
        /\ c \in Rings(n, V)
        /\ c.addr_r = b.addr_r
        /\ c.addr_w = IF b.addr_w + len < n THEN b.addr_w + len ELSE b.addr_w + len - n
        /\ \A i \in 0..(n - 1) :
              c.buf[i] = IF i >= b.addr_w /\ i < b.addr_w + len THEN bytes[i - b.addr_w + 1]
                         ELSE IF ~(b.addr_w + len < n) /\ i < b.addr_w + len - n
                              THEN bytes[n - b.addr_w + i + 1] ELSE b.buf[i]
    BY PutCells
  <1> HIDE DEF c
  <1>w. PICK w \in 0..(n - 1) : w = b.addr_w
    BY <1>1
  <1>r. PICK r \in 0..(n - 1) : r = b.addr_r
    BY <1>1
  <1> DEFINE B == Contents(b, n)
             C == Contents(c, n)
             D == SubSeq(bytes, 1, len)
  <1>3. PICK u \in 0..(n - 1) : u = UsedBy(b, n)
    BY <1>1
  <1>4. u = IF w < r THEN w + n - r ELSE w - r
    BY <1>3, <1>w, <1>r DEF UsedBy
  <1>5. UsedBy(c, n) = u + len /\ u + len <= n - 1
    <2>1. c.addr_r = r /\ c.addr_w = (IF w + len < n THEN w + len ELSE w + len - n) /\ u + len <= n - 1
      BY <1>2, <1>3, <1>w, <1>r
    <2>2. UsedBy(c, n) = IF c.addr_w < r THEN c.addr_w + n - r ELSE c.addr_w - r
      BY <2>1 DEF UsedBy
    <2>3. QED
      BY <1>4, <2>1, <2>2
  <1>6. B \in Seq(V) /\ Len(B) = u /\ \A i \in 1..u : B[i] = b.buf[CellOf(b, n, i)]
    BY <1>3, ContentsIs
  <1>7. C \in Seq(V) /\ Len(C) = u + len /\ \A i \in 1..(u + len) : C[i] = c.buf[CellOf(c, n, i)]
    <2>1. PICK v \in 0..(n - 1) : v = UsedBy(c, n) /\ v = u + len
      BY <1>5
    <2>2. C \in Seq(V) /\ Len(C) = v /\ \A i \in 1..v : C[i] = c.buf[CellOf(c, n, i)]
      <3>1. c \in Rings(n, V)
        BY <1>2
      <3>2. /\ C \in Seq(V) /\ Len(C) = UsedBy(c, n)
            /\ \A i \in 1..UsedBy(c, n) : C[i] = c.buf[CellOf(c, n, i)]
        BY <3>1, ContentsIs
      <3>3. QED
        BY <2>1, <3>2, Zenon
    <2>3. QED
      BY <2>1, <2>2
  <1>8. D \in Seq(V) /\ Len(D) = len /\ \A i \in 1..len : D[i] = bytes[i]
    <2>1. Len(bytes) \in Nat
      OBVIOUS
    <2>2. QED
      BY <1>2, <2>1
  <1> HIDE DEF B, C, D
  <1>9. \A i \in 1..u : C[i] = B[i]
    <2>1. TAKE i \in 1..u
    <2>2. PICK k \in 0..(n - 1) : k = CellOf(c, n, i) /\ k = CellOf(b, n, i)
                                 /\ k = IF r + i - 1 < n THEN r + i - 1
                                        ELSE r + i - 1 - n
      <3>1. c.addr_r = r /\ b.addr_r = r
        BY <1>2, <1>r
      <3>2. (IF r + i - 1 < n THEN r + i - 1 ELSE r + i - 1 - n) \in 0..(n - 1)
        BY <1>4
      <3>3. /\ CellOf(c, n, i) = (IF r + i - 1 < n THEN r + i - 1 ELSE r + i - 1 - n)
            /\ CellOf(b, n, i) = (IF r + i - 1 < n THEN r + i - 1 ELSE r + i - 1 - n)
        BY <3>1 DEF CellOf
      <3>4. QED
        BY <3>2, <3>3
    <2>3. /\ ~(k >= w /\ k < w + len)
          /\ ~(~(w + len < n) /\ k < w + len - n)
      BY <1>4, <1>5, <2>2
    <2>4. c.buf[k] = b.buf[k]
      BY <1>2, <1>w, <2>3
    <2>5. i \in 1..(u + len)
      OBVIOUS
    <2>6. QED
      BY <1>6, <1>7, <2>2, <2>4, <2>5
  <1>10. \A j \in 1..len : C[u + j] = bytes[j]
    <2>1. TAKE j \in 1..len
    <2>2. PICK i \in 1..(u + len) : i = u + j
      OBVIOUS
    <2>3. PICK k \in 0..(n - 1) : k = CellOf(c, n, i)
                                 /\ k = IF r + i - 1 < n THEN r + i - 1
                                        ELSE r + i - 1 - n
      <3>1. c.addr_r = r
        BY <1>2, <1>r
      <3>2. (IF r + i - 1 < n THEN r + i - 1 ELSE r + i - 1 - n) \in 0..(n - 1)
        BY <1>4, <1>5, <2>2
      <3>3. CellOf(c, n, i) = (IF r + i - 1 < n THEN r + i - 1 ELSE r + i - 1 - n)
        BY <3>1 DEF CellOf
      <3>4. QED
        BY <3>2, <3>3
    <2>4. k = IF w + j - 1 < n THEN w + j - 1 ELSE w + j - 1 - n
      BY <1>4, <1>5, <2>2, <2>3, SMTT(60)
    <2>5. CASE w + j - 1 < n
      <3>1. k >= w /\ k < w + len /\ k - w + 1 = j
        BY <2>4, <2>5
      <3>2. c.buf[k] = bytes[k - w + 1]
        BY <1>2, <1>w, <3>1
      <3>3. QED
        BY <1>7, <2>2, <2>3, <3>1, <3>2
    <2>6. CASE ~(w + j - 1 < n)
      <3>1. ~(k >= w) /\ ~(w + len < n) /\ k < w + len - n
            /\ n - w + k + 1 = j
        BY <1>5, <2>4, <2>6
      <3>2. c.buf[k] = bytes[n - w + k + 1]
        BY <1>2, <1>w, <3>1
      <3>3. QED
        BY <1>7, <2>2, <2>3, <3>1, <3>2
    <2>7. QED
      BY <2>5, <2>6
  <1>11. /\ B \o D \in Seq(V) /\ Len(B \o D) = u + len
         /\ \A i \in 1..(u + len) : (B \o D)[i] = IF i <= u THEN B[i] ELSE D[i - u]
    <2>1. /\ B \o D \in Seq(V) /\ Len(B \o D) = Len(B) + Len(D)
          /\ \A i \in 1..(Len(B) + Len(D)) : (B \o D)[i] = IF i <= Len(B) THEN B[i] ELSE D[i - Len(B)]
      BY <1>6, <1>8, ConcatProperties
    <2>2. Len(B) = u /\ Len(D) = len
      BY <1>6, <1>8
    <2>3. QED
      BY <2>1, <2>2
  <1>12. \A i \in 1..(u + len) : (B \o D)[i] = C[i]
    <2>1. TAKE i \in 1..(u + len)
    <2>2. CASE i <= u
      BY <1>9, <1>11, <2>2
    <2>3. CASE ~(i <= u)
      <3>1. PICK j \in 1..len : i = u + j /\ j = i - u
        BY <2>3
      <3>2. QED
        BY <1>8, <1>10, <1>11, <2>3, <3>1
    <2>4. QED
      BY <2>2, <2>3
  <1>13. C = B \o D
    BY <1>7, <1>11, <1>12, SeqEqual
  <1>14. QED
    BY <1>2, <1>3, <1>6, <1>13 DEF B, C, D, c

\* What is got is the oldest bytes, and leaves the others.
LEMMA GetRemoves ==
    ASSUME NEW n \in Nat \ {0}, NEW V, NEW b \in Rings(n, V), NEW asked \in Nat,
           NEW len \in Nat, len = GetLength(b, n, asked)
    PROVE  /\ Get(b, n, asked) \in Rings(n, V)
           /\ Got(b, n, asked) = SubSeq(Contents(b, n), 1, len)
           /\ Contents(Get(b, n, asked), n) = SubSeq(Contents(b, n), len + 1, Len(Contents(b, n)))
           /\ len = IF asked < Len(Contents(b, n)) THEN asked ELSE Len(Contents(b, n))
  <1>1. b.addr_w \in 0..(n - 1) /\ b.addr_r \in 0..(n - 1) /\ b.buf \in [0..(n - 1) -> V]
        /\ b = [buf |-> b.buf, addr_w |-> b.addr_w, addr_r |-> b.addr_r]
        /\ UsedBy(b, n) \in 0..(n - 1)
    BY RingTyped
  <1>w. PICK w \in 0..(n - 1) : w = b.addr_w
    BY <1>1
  <1>r. PICK r \in 0..(n - 1) : r = b.addr_r
    BY <1>1
  <1>3. PICK u \in 0..(n - 1) : u = UsedBy(b, n)
    BY <1>1
  <1>4. u = IF w < r THEN w + n - r ELSE w - r
    BY <1>3, <1>w, <1>r DEF UsedBy
  <1>5. len = (IF asked < u THEN asked ELSE u) /\ len <= u
    BY <1>3, CountsAre DEF GetLength
  <1> DEFINE c == Get(b, n, asked)
             rr == IF r + len < n THEN r + len ELSE len - (n - r)
  <1>6. rr \in 0..(n - 1) /\ rr = IF r + len < n THEN r + len ELSE r + len - n
    BY <1>5
  <1>7. c = [b EXCEPT !.addr_r = rr]
    BY <1>r, Zenon DEF Get
  <1> HIDE DEF rr
  <1>8. c = [buf |-> b.buf, addr_w |-> b.addr_w, addr_r |-> rr]
    BY <1>1, <1>7
  <1> HIDE DEF c
  <1>9. c \in Rings(n, V) /\ c.buf = b.buf /\ c.addr_w = w /\ c.addr_r = rr
    BY <1>1, <1>6, <1>8, <1>w DEF Rings
  <1>10. UsedBy(c, n) = u - len
    <2>1. UsedBy(c, n) = IF w < rr THEN w + n - rr ELSE w - rr
      BY <1>9 DEF UsedBy
    <2>2. QED
      BY <1>4, <1>5, <1>6, <2>1
  <1> DEFINE B == Contents(b, n)
             C == Contents(c, n)
             G == Got(b, n, asked)
             cell(i) == IF r + i - 1 < n THEN r + i - 1 ELSE r + i - 1 - n
  <1>11. B \in Seq(V) /\ Len(B) = u /\ \A i \in 1..u : B[i] = b.buf[cell(i)]
    <2>1. /\ B \in Seq(V) /\ Len(B) = UsedBy(b, n)
          /\ \A i \in 1..UsedBy(b, n) : B[i] = b.buf[CellOf(b, n, i)]
      BY ContentsIs
    <2>2. \A i \in 1..u : CellOf(b, n, i) = cell(i)
      BY <1>r DEF CellOf
    <2>3. QED
      BY <1>3, <2>1, <2>2
  <1>12. C \in Seq(V) /\ Len(C) = u - len /\ \A i \in 1..(u - len) : C[i] = b.buf[cell(len + i)]
    <2>1. /\ C \in Seq(V) /\ Len(C) = UsedBy(c, n)
          /\ \A i \in 1..UsedBy(c, n) : C[i] = c.buf[CellOf(c, n, i)]
      BY <1>9, ContentsIs
    <2>2. \A i \in 1..(u - len) : CellOf(c, n, i) = cell(len + i)
      <3>1. TAKE i \in 1..(u - len)
      <3>2. CellOf(c, n, i) = IF rr + i - 1 < n THEN rr + i - 1 ELSE rr + i - 1 - n
        BY <1>9 DEF CellOf
      <3>3. QED
        BY <1>4, <1>5, <1>6, <3>2
    <2> HIDE DEF C, cell
    <2>3. QED
      BY <1>9, <1>10, <2>1, <2>2
  <1>13. G \in Seq(V) /\ Len(G) = len /\ \A i \in 1..len : G[i] = b.buf[cell(i)]
    <2> DEFINE g(i) == IF r + len < n \/ i <= n - r THEN b.buf[r + i - 1] ELSE b.buf[i - (n - r) - 1]
    <2>1. G = [i \in 1..len |-> g(i)]
      BY <1>r, Zenon DEF Got
    <2>2. \A i \in 1..len : g(i) = b.buf[cell(i)] /\ cell(i) \in 0..(n - 1)
      <3>1. TAKE i \in 1..len
      <3>2. CASE r + i - 1 < n
        <4>1. r + len < n \/ i <= n - r
          BY <3>2
        <4>2. QED
          BY <3>2, <4>1
      <3>3. CASE ~(r + i - 1 < n)
        <4>1. ~(r + len < n) /\ ~(i <= n - r) /\ i - (n - r) - 1 = r + i - 1 - n
          BY <3>3
        <4>2. QED
          BY <1>5, <3>3, <4>1
      <3>4. QED
        BY <3>2, <3>3
    <2>3. \A i \in 1..len : b.buf[cell(i)] \in V
      BY <1>1, <2>2
    <2> HIDE DEF g, cell, G
    <2>4. QED
      BY <2>1, <2>2, <2>3, SMTT(60)
  <1> HIDE DEF B, C, G, cell
  <1>14. G = SubSeq(B, 1, len)
    <2>1. /\ SubSeq(B, 1, len) \in Seq(V) /\ Len(SubSeq(B, 1, len)) = len
          /\ \A i \in 1..len : SubSeq(B, 1, len)[i] = B[i]
      BY <1>5, <1>11
    <2>2. \A i \in 1..len : G[i] = SubSeq(B, 1, len)[i]
      BY <1>5, <1>11, <1>13, <2>1
    <2>3. QED
      BY <1>13, <2>1, <2>2, SeqEqual
  <1>15. C = SubSeq(B, len + 1, Len(B))
    <2>1. /\ SubSeq(B, len + 1, u) \in Seq(V) /\ Len(SubSeq(B, len + 1, u)) = u - len
          /\ \A i \in 1..(u - len) : SubSeq(B, len + 1, u)[i] = B[len + i]
      BY <1>5, <1>11
    <2>2. \A i \in 1..(u - len) : C[i] = SubSeq(B, len + 1, u)[i]
      BY <1>5, <1>11, <1>12, <2>1
    <2>3. C = SubSeq(B, len + 1, u)
      BY <1>12, <2>1, <2>2, SeqEqual
    <2>4. QED
      BY <1>11, <2>3
  <1>16. QED
    BY <1>5, <1>9, <1>11, <1>14, <1>15 DEF B, C, G, c

\* The first element of a sequence, as a sequence.
LEMMA FirstOnly ==
    ASSUME NEW S, NEW s \in Seq(S), Len(s) >= 1
    PROVE  SubSeq(s, 1, 1) = <<s[1]>>
  <1>1. s[1] \in S /\ \A i \in 1..1 : s[i] \in S
    OBVIOUS
  <1>2. /\ SubSeq(s, 1, 1) \in Seq(S) /\ Len(SubSeq(s, 1, 1)) = 1
        /\ SubSeq(s, 1, 1)[1] = s[1]
    BY <1>1, SubSeqProperties
  <1>3. <<s[1]>> \in Seq(S) /\ Len(<<s[1]>>) = 1 /\ <<s[1]>>[1] = s[1]
    BY <1>1
  <1>4. \A i \in 1..1 : SubSeq(s, 1, 1)[i] = <<s[1]>>[i]
    BY <1>2, <1>3
  <1>5. QED
    BY <1>2, <1>3, <1>4, SeqEqual

\* A call of a method, as a step of the queue.
LEMMA RingStepMaps ==
    ASSUME ring \in Rings(size, Bytes), RingNext
    PROVE  /\ ring' \in Rings(size, Bytes)
           /\ Queue!Next
  <1> DEFINE q == Contents(ring, size)
             qq == Contents(ring', size)
  <1>1. p_size \in Nat \ {0} /\ MaxChunk \in Nat \ {0} /\ size \in Nat \ {0} /\ size = p_size + 1
    BY RingAssumption DEF size, RingSize
  <1>2. q \in Seq(Bytes) /\ Len(q) \in 0..p_size /\ Len(q) = UsedBy(ring, size)
    BY <1>1, ContentsIs
  <1>3. ASSUME NEW bytes \in Bytes, putc(bytes)
        PROVE  ring' \in Rings(size, Bytes) /\ \E chunk \in [1..1 -> Bytes] : Queue!Accept(chunk)
    <2>1. PICK chunk \in [1..1 -> Bytes] : chunk = <<bytes>>
      <3>1. <<bytes>> \in [1..1 -> Bytes]
        OBVIOUS
      <3>2. QED
        BY <3>1
    <2>2. Full(ring, size) <=> Len(q) = p_size
      BY <1>1, <1>2, EmptyFull
    <2>3. Len(chunk) = 1 /\ chunk \in Seq(Bytes) /\ given' = chunk /\ out' = <<>>
      BY <1>3, <2>1 DEF putc
    <2>4. CASE Full(ring, size)
      <3>1. ring' = ring /\ count' = 0
        BY <1>3, <2>4 DEF putc
      <3>2. Queue!Least(Len(chunk), p_size - Len(q)) = 0
        BY <1>2, <2>2, <2>3, <2>4 DEF Queue!Least
      <3>3. q = q \o SubSeq(chunk, 1, 0)
        BY <1>2, <2>3
      <3>4. Queue!Accept(chunk)
        BY <2>3, <3>1, <3>2, <3>3, Zenon DEF Queue!Accept
      <3>5. QED
        BY <3>1, <3>4
    <2>5. CASE ~Full(ring, size)
      <3>1. ring' = PutC(ring, size, bytes) /\ count' = 1
        BY <1>3, <2>5 DEF putc
      <3>2. ring' \in Rings(size, Bytes) /\ qq = Append(q, bytes)
        BY <1>1, <2>5, <3>1, PutCAppends
      <3>3. Queue!Least(Len(chunk), p_size - Len(q)) = 1
        BY <1>1, <1>2, <2>2, <2>3, <2>5 DEF Queue!Least
      <3>4. qq = q \o SubSeq(chunk, 1, 1)
        <4>1. SubSeq(chunk, 1, 1) = <<bytes>>
          <5>1. chunk[1] = bytes
            BY <2>1
          <5>2. Len(chunk) >= 1
            BY <2>3
          <5>3. SubSeq(chunk, 1, 1) = <<chunk[1]>>
            BY <2>3, <5>2, FirstOnly
          <5>4. QED
            BY <5>1, <5>3
        <4> HIDE DEF q, qq
        <4>2. q \o <<bytes>> = Append(q, bytes)
          BY <1>2
        <4>3. QED
          BY <3>2, <4>1, <4>2
      <3>5. Queue!Accept(chunk)
        BY <2>3, <3>1, <3>3, <3>4, Zenon DEF Queue!Accept
      <3>6. QED
        BY <3>2, <3>5
    <2>6. QED
      BY <2>4, <2>5
  <1>4. ASSUME getc PROVE ring' \in Rings(size, Bytes) /\ Queue!Take(1)
    <2>1. Empty(ring) <=> Len(q) = 0
      BY <1>1, <1>2, EmptyFull
    <2>2. CASE Empty(ring)
      <3>1. ring' = ring /\ given' = <<>> /\ out' = <<>> /\ count' = 0
        BY <1>4, <2>2 DEF getc
      <3>2. Queue!Least(1, Len(q)) = 0
        BY <2>1, <2>2 DEF Queue!Least
      <3>3. SubSeq(q, 1, 0) = <<>> /\ SubSeq(q, 0 + 1, Len(q)) = q
        <4> HIDE DEF q
        <4>1. QED
          BY <1>2, <2>1, <2>2
      <3>4. Queue!Take(1)
        BY <3>1, <3>2, <3>3, Zenon DEF Queue!Take
      <3>5. QED
        BY <3>1, <3>4
    <2>3. CASE ~Empty(ring)
      <3>1. ring' = GetC(ring, size) /\ given' = <<>> /\ out' = <<Peek(ring)>> /\ count' = 1
        BY <1>4, <2>3 DEF getc
      <3>2. ring' \in Rings(size, Bytes) /\ Peek(ring) \in Bytes /\ q = <<Peek(ring)>> \o qq
        BY <1>1, <2>3, <3>1, GetCRemoves
      <3>3. qq \in Seq(Bytes)
        BY <1>1, <3>2, ContentsIs
      <3>4. Queue!Least(1, Len(q)) = 1
        BY <1>2, <2>1, <2>3 DEF Queue!Least
      <3>5. PICK x \in Bytes : x = Peek(ring)
        BY <3>2
      <3>6. SubSeq(q, 1, 1) = <<x>> /\ SubSeq(q, 1 + 1, Len(q)) = qq
        <4> HIDE DEF q, qq
        <4>1. q = <<x>> \o qq /\ Len(q) = 1 + Len(qq) /\ q[1] = x /\ Len(qq) \in Nat
          BY <1>2, <3>2, <3>3, <3>5
        <4>2. SubSeq(q, 1, 1) = <<x>>
          <5>1. Len(q) >= 1
            BY <4>1
          <5>2. SubSeq(q, 1, 1) = <<q[1]>>
            BY <1>2, <5>1, FirstOnly
          <5>3. QED
            BY <4>1, <5>2
        <4>3. q # <<>> /\ Tail(q) = qq
          BY <1>2, <3>3, <4>1
        <4>4. Tail(q) = SubSeq(q, 2, Len(q))
          BY <1>2, <4>3, TailIsSubSeq
        <4>5. QED
          BY <4>2, <4>3, <4>4
      <3>7. Queue!Take(1)
        BY <3>1, <3>4, <3>5, <3>6, Zenon DEF Queue!Take
      <3>8. QED
        BY <3>2, <3>7
    <2>4. QED
      BY <2>2, <2>3
  <1>5. ASSUME NEW n \in 0..MaxChunk, get(n) PROVE ring' \in Rings(size, Bytes) /\ Queue!Take(n)
    <2>1. ring' = Get(ring, size, n) /\ given' = <<>> /\ out' = Got(ring, size, n)
          /\ count' = GetLength(ring, size, n)
      BY <1>5 DEF get
    <2>2. PICK len \in Nat : len = GetLength(ring, size, n)
      <3>1. Use(ring, size, Wrapped(ring)) \in Nat
        BY <1>1, <1>2, CountsAre
      <3>2. QED
        BY <3>1 DEF GetLength
    <2>3. /\ ring' \in Rings(size, Bytes)
          /\ out' = SubSeq(q, 1, len)
          /\ qq = SubSeq(q, len + 1, Len(q))
          /\ len = IF n < Len(q) THEN n ELSE Len(q)
      BY <1>1, <2>1, <2>2, GetRemoves
    <2>4. Queue!Least(n, Len(q)) = len
      BY <2>3 DEF Queue!Least
    <2>5. QED
      BY <2>1, <2>2, <2>3, <2>4, Zenon DEF Queue!Take
  <1>p. ASSUME NEW d \in Seq(Bytes), NEW len \in Nat, len = PutLength(ring, size, Len(d))
        PROVE  /\ Put(ring, size, d) \in Rings(size, Bytes)
               /\ Contents(Put(ring, size, d), size) = Contents(ring, size) \o SubSeq(d, 1, len)
               /\ len = IF Len(d) < size - 1 - Len(Contents(ring, size)) THEN Len(d)
                        ELSE size - 1 - Len(Contents(ring, size))
    BY <1>1, <1>p, PutAppends, SMTT(60)
  <1>6. ASSUME NEW n \in 0..MaxChunk, NEW bytes \in [1..n -> Bytes], put(bytes)
        PROVE  ring' \in Rings(size, Bytes) /\ Queue!Accept(bytes)
    <2>1. ring' = Put(ring, size, bytes) /\ given' = bytes /\ out' = <<>>
          /\ count' = PutLength(ring, size, Len(bytes))
      BY <1>6 DEF put
    <2>2. PICK d \in Seq(Bytes) : d = bytes
      BY <1>1
    <2>3. PICK len \in Nat : len = PutLength(ring, size, Len(d))
      <3>1. Available(ring, size, Wrapped(ring)) \in Nat
        BY <1>1, <1>2, CountsAre
      <3>2. QED
        BY <2>2, <3>1 DEF PutLength
    <2>4. /\ ring' \in Rings(size, Bytes)
          /\ qq = q \o SubSeq(d, 1, len)
          /\ len = IF Len(d) < size - 1 - Len(q) THEN Len(d) ELSE size - 1 - Len(q)
      <3>1. /\ Put(ring, size, d) \in Rings(size, Bytes)
            /\ Contents(Put(ring, size, d), size) = Contents(ring, size) \o SubSeq(d, 1, len)
            /\ len = IF Len(d) < size - 1 - Len(Contents(ring, size)) THEN Len(d)
                     ELSE size - 1 - Len(Contents(ring, size))
        BY <1>p, <2>2, <2>3, Zenon
      <3>2. QED
        BY <2>1, <2>2, <3>1, Zenon
    <2>5. Queue!Least(Len(d), p_size - Len(q)) = len
      <3>1. size - 1 - Len(q) = p_size - Len(q)
        BY <1>1, <1>2
      <3>2. QED
        BY <2>4, <3>1 DEF Queue!Least
    <2>6. QED
      BY <2>1, <2>2, <2>3, <2>4, <2>5, Zenon DEF Queue!Accept
  <1>7. ASSUME available \/ use PROVE ring' \in Rings(size, Bytes) /\ Queue!Report
    <2>1. ring' = ring /\ given' = <<>> /\ out' = <<>>
      BY <1>7 DEF available, use
    <2>2. count' = Len(q) \/ count' = p_size - Len(q)
      BY <1>1, <1>2, <1>7, CountsAre DEF available, use
    <2>3. QED
      BY <2>1, <2>2, Zenon DEF Queue!Report
  <1>8. ASSUME clear PROVE ring' \in Rings(size, Bytes) /\ Queue!Clear
    <2>1. ring' = [ring EXCEPT !.addr_w = 0, !.addr_r = 0] /\ given' = <<>> /\ out' = <<>> /\ count' = 0
      BY <1>8 DEF clear
    <2>2. ring' \in Rings(size, Bytes) /\ ring'.addr_w = 0 /\ ring'.addr_r = 0
      BY <1>1, <2>1 DEF Rings
    <2>3. qq = <<>>
      BY <1>1, <2>2, EmptyFull DEF Empty
    <2>4. QED
      BY <2>1, <2>2, <2>3, Zenon DEF Queue!Clear
  <1>9. 1 \in 0..MaxChunk
    BY <1>1
  <1>10. ring' \in Rings(size, Bytes)
    BY <1>3, <1>4, <1>5, <1>6, <1>7, <1>8 DEF RingNext
  <1>11. QED
    BY <1>3, <1>4, <1>5, <1>6, <1>7, <1>8, <1>9, <1>10, Zenon DEF RingNext, Queue!Next

\* RingBuffer.cpp is the queue.
THEOREM RingImplementsQueue == RingSpec => ImplementsQueue
  <1> DEFINE Inv == ring \in Rings(size, Bytes)
  <1>1. RingInit => Inv /\ Queue!Init
    <2>1. SUFFICES ASSUME RingInit PROVE Inv /\ Queue!Init
      OBVIOUS
    <2>2. size \in Nat \ {0} /\ 0 \in Bytes
      BY RingAssumption DEF size, RingSize
    <2>3. ring \in Rings(size, Bytes) /\ ring.addr_w = 0 /\ ring.addr_r = 0
      BY <2>1, <2>2 DEF RingInit, NewRing, Rings
    <2>4. Contents(ring, size) = <<>>
      BY <2>2, <2>3, EmptyFull DEF Empty
    <2>5. QED
      BY <2>1, <2>3, <2>4 DEF RingInit, Queue!Init
  <1>2. Inv /\ [RingNext]_ringVars => Inv' /\ [Queue!Next]_Queue!vars
    <2>1. SUFFICES ASSUME Inv, [RingNext]_ringVars
                   PROVE  Inv' /\ [Queue!Next]_Queue!vars
      OBVIOUS
    <2>2. CASE RingNext
      BY <2>1, <2>2, RingStepMaps
    <2>3. CASE UNCHANGED ringVars
      BY <2>1, <2>3 DEF ringVars, Queue!vars
    <2>4. QED
      BY <2>1, <2>2, <2>3
  <1> HIDE DEF Inv
  <1>3. QED
    BY <1>1, <1>2, PTL DEF RingSpec, ImplementsQueue, Queue!Spec

\* A step of the queue counts no more bytes than the ring holds, and hands out bytes.
LEMMA QueueStepTyped ==
    ASSUME ring \in Rings(size, Bytes), Queue!Next
    PROVE  count' \in 0..p_size /\ out' \in Seq(Bytes) /\ given' \in Seq(Bytes)
  <1> DEFINE q == Contents(ring, size)
  <1>1. p_size \in Nat \ {0} /\ MaxChunk \in Nat \ {0} /\ size \in Nat \ {0} /\ size = p_size + 1
    BY RingAssumption DEF size, RingSize
  <1>2. q \in Seq(Bytes) /\ Len(q) \in 0..p_size
    BY <1>1, ContentsIs
  <1> HIDE DEF q
  <1>3. ASSUME NEW n \in 0..MaxChunk, Queue!Take(n)
        PROVE  count' \in 0..p_size /\ out' \in Seq(Bytes) /\ given' \in Seq(Bytes)
    <2> DEFINE m == Queue!Least(n, Len(q))
    <2>1. m \in 0..Len(q)
      BY <1>1, <1>2 DEF Queue!Least
    <2>2. given' = <<>> /\ out' = SubSeq(q, 1, m) /\ count' = m
      BY <1>3, Zenon DEF Queue!Take, q
    <2> HIDE DEF m
    <2>3. SubSeq(q, 1, m) \in Seq(Bytes)
      BY <1>2, <2>1
    <2>4. QED
      BY <1>1, <1>2, <2>1, <2>2, <2>3
  <1>4. ASSUME NEW n \in 0..MaxChunk, NEW chunk \in [1..n -> Bytes], Queue!Accept(chunk)
        PROVE  count' \in 0..p_size /\ out' \in Seq(Bytes) /\ given' \in Seq(Bytes)
    <2>1. PICK d \in Seq(Bytes) : d = chunk
      BY <1>1, <1>4
    <2> DEFINE m == Queue!Least(Len(d), p_size - Len(q))
    <2>2. m \in 0..p_size
      BY <1>1, <1>2, <2>1 DEF Queue!Least
    <2>3. given' = d /\ out' = <<>> /\ count' = m
      BY <1>4, <2>1, Zenon DEF Queue!Accept, q
    <2> HIDE DEF m
    <2>4. QED
      BY <2>1, <2>2, <2>3
  <1>5. CASE Queue!Clear
    BY <1>1, <1>5 DEF Queue!Clear
  <1>6. CASE Queue!Report
    <2>1. count' \in {Len(q), p_size - Len(q)} /\ given' = <<>> /\ out' = <<>>
      BY <1>6, Zenon DEF Queue!Report, q
    <2>2. QED
      BY <1>1, <1>2, <2>1
  <1>7. QED
    BY <1>3, <1>4, <1>5, <1>6, Zenon DEF Queue!Next

\* No index of RingBuffer leaves its array, and no count exceeds its capacity.
THEOREM RingTypes == RingSpec => []RingTypeOK
  <1>1. RingInit => RingTypeOK
    <2> SUFFICES ASSUME RingInit PROVE RingTypeOK
      OBVIOUS
    <2>1. size \in Nat \ {0} /\ 0 \in Bytes /\ p_size \in Nat
      BY RingAssumption DEF size, RingSize
    <2>2. ring \in Rings(size, Bytes)
      BY <2>1 DEF RingInit, NewRing, Rings
    <2>3. QED
      BY <2>1, <2>2 DEF RingInit, RingTypeOK
  <1>2. RingTypeOK /\ [RingNext]_ringVars => RingTypeOK'
    <2> SUFFICES ASSUME RingTypeOK, [RingNext]_ringVars PROVE RingTypeOK'
      OBVIOUS
    <2>1. CASE RingNext
      <3>1. ring \in Rings(size, Bytes)
        BY DEF RingTypeOK
      <3>2. ring' \in Rings(size, Bytes) /\ Queue!Next
        BY <2>1, <3>1, RingStepMaps
      <3>3. count' \in 0..p_size /\ out' \in Seq(Bytes) /\ given' \in Seq(Bytes)
        BY <3>1, <3>2, QueueStepTyped
      <3>4. QED
        BY <3>2, <3>3 DEF RingTypeOK, size
    <2>2. CASE UNCHANGED ringVars
      BY <2>2 DEF ringVars, RingTypeOK
    <2>3. QED
      BY <2>1, <2>2
  <1>3. QED
    BY <1>1, <1>2, PTL DEF RingSpec

-----------------------------------------------------------------------------
(* BufferedSerial: the rings between the thread and the interrupt handlers.*)

\* The sizes of the two rings.
LEMMA SerialSizes ==
    /\ RxSize \in Nat \ {0} /\ TxSize \in Nat \ {0}
    /\ MaxReceived \in Nat /\ MaxWritten \in Nat /\ MaxFlushes \in Nat
  <1>1. BufSize \in Nat \ {0} /\ TxMultiple \in Nat \ {0}
    BY SerialAssumption
  <1>2. TxMultiple * BufSize \in Nat
    BY <1>1
  <1>3. QED
    BY <1>1, <1>2, SerialAssumption DEF RxSize, TxSize, RingSize

\* A new ring.
LEMMA NewRingTyped ==
    ASSUME NEW n \in Nat \ {0}, NEW V, 0 \in V
    PROVE  NewRing(n) \in Rings(n, V) /\ NewRing(n).addr_w = 0 /\ NewRing(n).addr_r = 0
  <1>1. 0 \in 0..(n - 1)
    OBVIOUS
  <1>2. QED
    BY <1>1 DEF NewRing, Rings

\* The Boolean variables.
LEMMA SerialBooleans ==
    ASSUME SerialInv, [SerialNext]_serialVars
    PROVE  attached' \in BOOLEAN /\ busy' \in BOOLEAN /\ wrapped' \in BOOLEAN
  <1>1. Wrapped(_rxbuf) \in BOOLEAN /\ Wrapped(_txbuf) \in BOOLEAN
    BY DEF Wrapped
  <1>2. SerialTypeOK
    BY DEF SerialInv
  <1>3. attached' \in BOOLEAN
    BY <1>2, Zenon DEF SerialTypeOK, SerialNext, Call, SerialThread, serialVars, threadVars,
       historyVars, Goto,
      serial_getc, readable, writable, flush, write, GetcLoad, GetcAdvance, Counted, serial_putc,
         PutcStore,
      PutcAdvance, prime, Pump, PumpLoad, PumpAdvance, PumpSend, Attach, ClearTx, FlushRx, ClearRx,
      rxIrq, txIrq, Shifted, Transmit
  <1>4. busy' \in BOOLEAN
    BY <1>2, Zenon DEF SerialTypeOK, SerialNext, Call, SerialThread, serialVars, threadVars,
       historyVars, Goto,
      serial_getc, readable, writable, flush, write, GetcLoad, GetcAdvance, Counted, serial_putc,
         PutcStore,
      PutcAdvance, prime, Pump, PumpLoad, PumpAdvance, PumpSend, Attach, ClearTx, FlushRx, ClearRx,
      rxIrq, txIrq, Shifted, Transmit
  <1>5. wrapped' \in BOOLEAN
    BY <1>1, <1>2, Zenon DEF SerialTypeOK, SerialNext, Call, SerialThread, serialVars,
       threadVars, historyVars, Goto,
      serial_getc, readable, writable, flush, write, GetcLoad, GetcAdvance, Counted, serial_putc,
         PutcStore,
      PutcAdvance, prime, Pump, PumpLoad, PumpAdvance, PumpSend, Attach, ClearTx, FlushRx, ClearRx,
      rxIrq, txIrq, Shifted, Transmit
  <1>6. QED
    BY <1>3, <1>4, <1>5

\* What a step may do to the receive ring and its history.
LEMMA RxMoves ==
    ASSUME [SerialNext]_serialVars
    PROVE  \/ rxIrq \/ GetcAdvance \/ FlushRx \/ ClearRx
           \/ UNCHANGED <<_rxbuf, stored, got>> /\ ~rxIrq /\ ~GetcAdvance /\ ~FlushRx /\ ~ClearRx
  BY Zenon DEF SerialNext, Call, SerialThread, serialVars, threadVars, historyVars, Goto,
      serial_getc, readable, writable, flush, write, GetcLoad, Counted, serial_putc, PutcStore,
      PutcAdvance, prime, Pump, PumpLoad, PumpAdvance, PumpSend, Attach, ClearTx,
      txIrq, Shifted, Transmit

\* Where the thread goes when it does not move the receive ring.
LEMMA RxPlaces ==
    ASSUME [SerialNext]_serialVars, ~rxIrq, ~GetcAdvance, ~FlushRx, ~ClearRx
    PROVE  \/ pc' = pc /\ data' = data
           \/ pc = "idle" /\ pc' = "getcLoad" /\ ~Empty(_rxbuf)
           \/ pc = "getcLoad" /\ pc' = "getcAdvance" /\ data' = Peek(_rxbuf)
           \/ pc # "clearRx" /\ pc' \notin {"getcLoad", "getcAdvance", "clearRx"}
  BY DEF SerialNext, Call, SerialThread, serialVars, threadVars, historyVars, Goto,
      serial_getc, readable, writable, flush, write, GetcLoad, Counted, serial_putc, PutcStore,
      PutcAdvance, prime, Pump, PumpLoad, PumpAdvance, PumpSend, Attach, ClearTx,
      txIrq, Shifted, Transmit

\* The cells a flush leaves before the write index: what the handler stored since.
BeforeWrite(b) == [i \in 1..b.addr_w |-> b.buf[i - 1]]

\* The cells in front of addr_w, which are what a ring holds once clear() has set addr_r
\* to 0.
LEMMA ClearedRing ==
    ASSUME NEW n \in Nat \ {0}, NEW V, NEW b \in Rings(n, V)
    PROVE  /\ BeforeWrite(b) \in Seq(V)
           /\ Len(BeforeWrite(b)) = b.addr_w
           /\ \A i \in 1..b.addr_w : BeforeWrite(b)[i] = b.buf[i - 1]
  <1>1. b.addr_w \in 0..(n - 1) /\ b.buf \in [0..(n - 1) -> V]
    BY RingTyped
  <1>2. PICK w \in 0..(n - 1) : w = b.addr_w
    BY <1>1
  <1> DEFINE F == [i \in 1..w |-> b.buf[i - 1]]
  <1>3. F \in [1..w -> V] /\ \A i \in 1..w : F[i] = b.buf[i - 1]
    BY <1>1, <1>2
  <1> HIDE DEF F
  <1>4. F \in Seq(V) /\ Len(F) = w
    BY <1>3
  <1>5. QED
    BY <1>2, <1>3, <1>4, Zenon DEF F, BeforeWrite

\* A byte that arrives between the two assignments of a clear.
LEMMA ClearedPut ==
    ASSUME NEW n \in Nat \ {0}, NEW V, NEW b \in Rings(n, V), NEW d \in V, ~Full(b, n),
           b.addr_r = 0 \/ b.addr_w < b.addr_r, NEW c, c = PutC(b, n, d)
    PROVE  /\ c.addr_r = 0 \/ c.addr_w < c.addr_r
           /\ BeforeWrite(c) = BeforeWrite(b) \o <<d>>
  <1>1. b.addr_w \in 0..(n - 1) /\ b.addr_r \in 0..(n - 1) /\ b.buf \in [0..(n - 1) -> V]
        /\ b = [buf |-> b.buf, addr_w |-> b.addr_w, addr_r |-> b.addr_r]
    BY RingTyped
  <1>2. PICK w \in 0..(n - 1) : w = b.addr_w
    BY <1>1
  <1>3. PICK v \in 0..(n - 1) : v = After(b.addr_w, n) /\ v = IF w = n - 1 THEN 0 ELSE w + 1
    BY <1>1, <1>2, AfterIs
  <1>4. v = w + 1 /\ (b.addr_r = 0 \/ v < b.addr_r)
    BY <1>1, <1>2, <1>3 DEF Full
  <1>5. c \in Rings(n, V)
    BY PutCAppends
  <1>6. c.buf = [b.buf EXCEPT ![w] = d] /\ c.addr_w = v /\ c.addr_r = b.addr_r
    <2>1. c = [b EXCEPT !.buf = [b.buf EXCEPT ![w] = d], !.addr_w = v]
      BY <1>1, <1>2, <1>3 DEF PutC
    <2>2. QED
      BY <1>1, <2>1
  <1> DEFINE B == BeforeWrite(b)
             C == BeforeWrite(c)
  <1>7. B \in Seq(V) /\ Len(B) = w /\ \A i \in 1..w : B[i] = b.buf[i - 1]
    BY <1>2, ClearedRing
  <1>8. C \in Seq(V) /\ Len(C) = w + 1 /\ \A i \in 1..(w + 1) : C[i] = c.buf[i - 1]
    <2>1. C \in Seq(V) /\ Len(C) = c.addr_w /\ \A i \in 1..c.addr_w : C[i] = c.buf[i - 1]
      BY <1>5, ClearedRing
    <2>2. c.addr_w = w + 1
      BY <1>4, <1>6
    <2> HIDE DEF C
    <2>3. QED
      BY <2>1, <2>2
  <1> HIDE DEF B, C
  <1>9. \A i \in 1..w : C[i] = B[i]
    <2>1. TAKE i \in 1..w
    <2>2. C[i] = c.buf[i - 1] /\ B[i] = b.buf[i - 1] /\ i - 1 \in 0..(n - 1) /\ i - 1 # w
      BY <1>7, <1>8
    <2>3. QED
      BY <1>1, <1>6, <2>2
  <1>10. C[w + 1] = d
    <2>1. C[w + 1] = c.buf[w]
      BY <1>8
    <2>2. QED
      BY <1>1, <1>6, <2>1
  <1>11. B \o <<d>> \in Seq(V) /\ Len(B \o <<d>>) = w + 1
         /\ \A i \in 1..(w + 1) : (B \o <<d>>)[i] = C[i]
    BY <1>7, <1>8, <1>9, <1>10
  <1>12. C = B \o <<d>>
    BY <1>8, <1>11, SeqEqual
  <1>13. QED
    BY <1>4, <1>6, <1>12 DEF B, C

\* A byte behind the second of two sequences.
LEMMA AppendOfConcat ==
    ASSUME NEW S, NEW a \in Seq(S), NEW b \in Seq(S), NEW d \in S
    PROVE  (a \o b) \o <<d>> = a \o (b \o <<d>>)
  <1>1. <<d>> \in Seq(S)
    OBVIOUS
  <1>2. QED
    BY <1>1, ConcatAssociative

\* The two assignments of a clear.
LEMMA WriteCleared ==
    ASSUME NEW n \in Nat \ {0}, NEW V, NEW b \in Rings(n, V)
    PROVE  LET c == [b EXCEPT !.addr_w = 0]
           IN  c \in Rings(n, V) /\ c.addr_w = 0 /\ c.addr_r \in Nat /\ c.buf = b.buf /\ c.addr_r = b.addr_r
  <1>1. 0 \in 0..(n - 1) /\ 0..(n - 1) \subseteq Nat
    OBVIOUS
  <1>2. QED
    BY <1>1 DEF Rings
\* The half of clear() that sets addr_r leaves a ring.
LEMMA ReadCleared ==
    ASSUME NEW n \in Nat \ {0}, NEW V, NEW b \in Rings(n, V)
    PROVE  LET c == [b EXCEPT !.addr_r = 0]
           IN  /\ c \in Rings(n, V) /\ c.addr_r = 0 /\ c.addr_w = b.addr_w
               /\ c.buf = b.buf /\ b.addr_w \in 0..(n - 1)
  <1>1. 0 \in 0..(n - 1) /\ 0..(n - 1) \subseteq Nat
    OBVIOUS
  <1>2. QED
    BY <1>1 DEF Rings

\* The receive side.
LEMMA RxKept ==
    ASSUME SerialInv, [SerialNext]_serialVars
    PROVE  /\ _rxbuf' \in Rings(RxSize, 0..MaxReceived)
           /\ stored' \in Seq(Nat) /\ got' \in Seq(Nat)
           /\ RxKnown' /\ RxFifo'
  <1> DEFINE V == 0..MaxReceived
             C(b) == Contents(b, RxSize)
  <1>1. /\ RxSize \in Nat \ {0} /\ MaxReceived \in Nat /\ _rxbuf \in Rings(RxSize, V)
        /\ stored \in Seq(Nat) /\ got \in Seq(Nat) /\ received \in V
        /\ RxKnown /\ RxFifo
    BY SerialSizes DEF SerialInv, SerialTypeOK
  <1>c. C(_rxbuf) \in Seq(V) /\ C(_rxbuf) \in Seq(Nat)
    <2>1. C(_rxbuf) \in Seq(V)
      BY <1>1, ContentsIs
    <2>2. V \subseteq Nat
      OBVIOUS
    <2>3. QED
      BY <2>1, <2>2, SeqMonotonic
  <1>2. CASE rxIrq
    <2>1. pc' = pc /\ data' = data /\ got' = got
      BY <1>2 DEF rxIrq, threadVars
    <2>2. CASE Full(_rxbuf, RxSize)
      <3>1. UNCHANGED <<_rxbuf, stored>>
        BY <1>2, <2>2 DEF rxIrq
      <3>2. QED
        BY <1>1, <2>1, <3>1 DEF RxKnown, RxFifo
    <2>3. CASE ~Full(_rxbuf, RxSize)
      <3>1. PICK d \in V : d = received + 1
        BY <1>1, <1>2 DEF rxIrq
      <3>2. _rxbuf' = PutC(_rxbuf, RxSize, d) /\ stored' = Append(stored, d)
        BY <1>2, <2>3, <3>1 DEF rxIrq
      <3>3. _rxbuf' \in Rings(RxSize, V) /\ C(_rxbuf') = Append(C(_rxbuf), d)
        BY <1>1, <2>3, <3>2, PutCAppends
      <3>4. stored' \in Seq(Nat)
        BY <1>1, <3>2
      <3>5. CASE pc # "clearRx"
        <4>1. stored = got \o C(_rxbuf)
          BY <1>1, <3>5 DEF RxFifo
        <4>2. Append(stored, d) = got \o Append(C(_rxbuf), d)
          <5> HIDE DEF C
          <5>1. d \in Nat /\ got \in Seq(Nat) /\ stored \in Seq(Nat)
            BY <1>1, <3>1
          <5>2. Append(stored, d) = stored \o <<d>> /\ Append(C(_rxbuf), d) = C(_rxbuf) \o <<d>>
            <6>1. \A q \in Seq(Nat) : Append(q, d) = q \o <<d>>
              BY <5>1
            <6>2. QED
              BY <1>c, <5>1, <6>1, Zenon
          <5>3. (got \o C(_rxbuf)) \o <<d>> = got \o (C(_rxbuf) \o <<d>>)
            BY <1>c, <5>1, AppendOfConcat
          <5>4. QED
            BY <4>1, <5>2, <5>3, Zenon
        <4>3. RxFifo'
          BY <2>1, <3>2, <3>3, <4>1, <4>2 DEF RxFifo
        <4>4. pc \in {"getcLoad", "getcAdvance"} => ~Empty(_rxbuf')
          <5>1. SUFFICES ASSUME pc \in {"getcLoad", "getcAdvance"} PROVE ~Empty(_rxbuf')
            OBVIOUS
          <5>2. Append(C(_rxbuf), d) # <<>>
            <6> HIDE DEF C
            <6>1. QED
              BY <1>c, <3>1
          <5>3. QED
            BY <1>1, <3>3, <5>2, EmptyFull
        <4>5. pc = "getcAdvance" => data = Peek(_rxbuf')
          <5>1. SUFFICES ASSUME pc = "getcAdvance" PROVE data = Peek(_rxbuf')
            OBVIOUS
          <5>2. ~Empty(_rxbuf) /\ data = Peek(_rxbuf)
            BY <1>1, <5>1 DEF RxKnown
          <5>3. Peek(_rxbuf') = Peek(_rxbuf)
            BY <1>1, <3>2, <5>2 DEF Peek, PutC, Empty, Rings
          <5>4. QED
            BY <5>2, <5>3
        <4>6. RxKnown'
          BY <2>1, <3>5, <4>4, <4>5 DEF RxKnown
        <4>7. QED
          BY <1>1, <2>1, <3>3, <3>4, <4>3, <4>6
      <3>6. CASE pc = "clearRx"
        <4>1. /\ _rxbuf.addr_r = 0 \/ _rxbuf.addr_w < _rxbuf.addr_r
              /\ stored = got \o BeforeWrite(_rxbuf)
          BY <1>1, <3>6, Zenon DEF RxKnown, BeforeWrite
        <4>2. /\ _rxbuf'.addr_r = 0 \/ _rxbuf'.addr_w < _rxbuf'.addr_r
              /\ BeforeWrite(_rxbuf') = (BeforeWrite(_rxbuf) \o <<d>>)
          <5>1. PICK c : c = PutC(_rxbuf, RxSize, d)
            OBVIOUS
          <5>2. _rxbuf.addr_r = 0 \/ _rxbuf.addr_w < _rxbuf.addr_r
            BY <4>1, Zenon
          <5>3. /\ c.addr_r = 0 \/ c.addr_w < c.addr_r
                /\ BeforeWrite(c) = BeforeWrite(_rxbuf) \o <<d>>
            BY <1>1, <2>3, <3>1, <5>1, <5>2, ClearedPut
          <5>4. QED
            BY <3>2, <5>1, <5>3, Zenon
        <4>3. BeforeWrite(_rxbuf) \in Seq(Nat)
          <5>1. BeforeWrite(_rxbuf) \in Seq(V)
            BY <1>1, ClearedRing
          <5>2. V \subseteq Nat
            OBVIOUS
          <5>3. QED
            BY <5>1, <5>2, SeqMonotonic
        <4>4. stored' = got \o (BeforeWrite(_rxbuf) \o <<d>>)
          <5>1. d \in Nat /\ got \in Seq(Nat) /\ stored \in Seq(Nat)
            BY <1>1, <3>1
          <5>2. Append(stored, d) = stored \o <<d>>
            BY <5>1
          <5>3. (got \o BeforeWrite(_rxbuf)) \o <<d>> = got \o (BeforeWrite(_rxbuf) \o <<d>>)
            BY <4>3, <5>1, AppendOfConcat
          <5>4. QED
            BY <3>2, <4>1, <5>2, <5>3, Zenon
        <4>5. RxKnown'
          BY <2>1, <3>6, <4>2, <4>4, Zenon DEF RxKnown, BeforeWrite
        <4>6. QED
          BY <1>1, <2>1, <3>3, <3>4, <3>6, <4>5 DEF RxFifo
      <3>7. QED
        BY <3>5, <3>6
    <2>4. QED
      BY <2>2, <2>3
  <1>3. CASE GetcAdvance
    <2>1. pc = "getcAdvance" /\ pc' = "idle" /\ _rxbuf' = GetC(_rxbuf, RxSize)
          /\ got' = Append(got, data) /\ stored' = stored
      BY <1>3 DEF GetcAdvance, Goto
    <2>2. ~Empty(_rxbuf) /\ data = Peek(_rxbuf) /\ stored = got \o C(_rxbuf)
      BY <1>1, <2>1 DEF RxKnown, RxFifo
    <2>3. _rxbuf' \in Rings(RxSize, V) /\ data \in V /\ C(_rxbuf) = <<data>> \o C(_rxbuf')
      BY <1>1, <2>1, <2>2, GetCRemoves
    <2>4. C(_rxbuf') \in Seq(Nat)
      <3>1. C(_rxbuf') \in Seq(V)
        BY <1>1, <2>3, ContentsIs
      <3>2. V \subseteq Nat
        OBVIOUS
      <3>3. QED
        BY <3>1, <3>2, SeqMonotonic
    <2>5. PICK x \in Nat : x = data
      BY <2>3
    <2>6. got \o (<<x>> \o C(_rxbuf')) = Append(got, x) \o C(_rxbuf') /\ Append(got, x) \in Seq(Nat)
      <3> HIDE DEF C
      <3>1. QED
        BY <1>1, <2>4, SMTT(60)
    <2>7. QED
      BY <1>1, <2>1, <2>2, <2>3, <2>5, <2>6 DEF RxKnown, RxFifo
  <1>4. CASE FlushRx
    <2>1. pc = "flushRx" /\ pc' = "clearRx" /\ _rxbuf' = [_rxbuf EXCEPT !.addr_w = 0]
          /\ stored' = got /\ got' = got
      BY <1>4 DEF FlushRx, Goto
    <2>2. _rxbuf' \in Rings(RxSize, V) /\ _rxbuf'.addr_w = 0 /\ _rxbuf'.addr_r \in Nat
      BY <1>1, <2>1, WriteCleared
    <2>3. BeforeWrite(_rxbuf') = <<>>
      <3>1. BeforeWrite(_rxbuf') \in Seq(V) /\ Len(BeforeWrite(_rxbuf')) = 0
        BY <1>1, <2>2, ClearedRing
      <3>2. QED
        BY <3>1
    <2>4. got = got \o <<>>
      BY <1>1
    <2>5. _rxbuf'.addr_r = 0 \/ _rxbuf'.addr_w < _rxbuf'.addr_r
      BY <2>2
    <2>6. RxKnown'
      BY <2>1, <2>3, <2>4, <2>5, Zenon DEF RxKnown, BeforeWrite
    <2>7. QED
      BY <1>1, <2>1, <2>2, <2>6 DEF RxFifo
  <1>5. CASE ClearRx
    <2>1. pc = "clearRx" /\ pc' = "idle" /\ _rxbuf' = [_rxbuf EXCEPT !.addr_r = 0]
          /\ stored' = stored /\ got' = got
      BY <1>5 DEF ClearRx, Goto, historyVars
    <2>2. _rxbuf' \in Rings(RxSize, V) /\ _rxbuf'.addr_r = 0 /\ _rxbuf'.addr_w = _rxbuf.addr_w
          /\ _rxbuf'.buf = _rxbuf.buf /\ _rxbuf.addr_w \in 0..(RxSize - 1)
      BY <1>1, <2>1, ReadCleared
    <2>3. stored = got \o BeforeWrite(_rxbuf)
      BY <1>1, <2>1, Zenon DEF RxKnown, BeforeWrite
    <2>4. C(_rxbuf') = BeforeWrite(_rxbuf)
      <3>1. C(_rxbuf') = [i \in 1..UsedBy(_rxbuf', RxSize) |-> _rxbuf'.buf[CellOf(_rxbuf', RxSize, i)]]
        BY <1>1, <2>2, ContentsIs
      <3>2. UsedBy(_rxbuf', RxSize) = _rxbuf.addr_w
        BY <1>1, <2>2 DEF UsedBy
      <3>3. \A i \in 1.._rxbuf.addr_w : CellOf(_rxbuf', RxSize, i) = i - 1
        BY <1>1, <2>2 DEF CellOf
      <3>4. QED
        BY <2>2, <3>1, <3>2, <3>3, Zenon DEF BeforeWrite
    <2>5. QED
      BY <1>1, <2>1, <2>2, <2>3, <2>4 DEF RxKnown, RxFifo
  <1>6. CASE UNCHANGED <<_rxbuf, stored, got>> /\ ~rxIrq /\ ~GetcAdvance /\ ~FlushRx /\ ~ClearRx
    <2>1. \/ pc' = pc /\ data' = data
          \/ pc = "idle" /\ pc' = "getcLoad" /\ ~Empty(_rxbuf)
          \/ pc = "getcLoad" /\ pc' = "getcAdvance" /\ data' = Peek(_rxbuf)
          \/ pc # "clearRx" /\ pc' \notin {"getcLoad", "getcAdvance", "clearRx"}
      BY <1>6, RxPlaces
    <2>2. RxFifo'
      <3>1. pc' # "clearRx" => pc # "clearRx"
        BY <2>1
      <3>2. QED
        BY <1>1, <1>6, <3>1, Zenon DEF RxFifo
    <2>3. (pc \in {"getcLoad", "getcAdvance"} => ~Empty(_rxbuf))'
      BY <1>1, <1>6, <2>1 DEF RxKnown
    <2>4. (pc = "getcAdvance" => data = Peek(_rxbuf))'
      BY <1>1, <1>6, <2>1 DEF RxKnown
    <2>5. pc' = "clearRx" => pc = "clearRx"
      BY <2>1
    <2>6. RxKnown'
      BY <1>1, <1>6, <2>3, <2>4, <2>5, Zenon DEF RxKnown, BeforeWrite
    <2>7. QED
      BY <1>1, <1>6, <2>2, <2>6
  <1>7. QED
    BY <1>2, <1>3, <1>4, <1>5, <1>6, RxMoves

\* The counters of the thread, and the byte in its hand.
LEMMA SerialCounters ==
    ASSUME SerialInv, [SerialNext]_serialVars
    PROVE  /\ pc' \in PCs /\ left' \in 0..MaxWritten /\ data' \in 0..(MaxReceived + MaxWritten)
           /\ received' \in 0..MaxReceived /\ written' \in 0..MaxWritten
           /\ flushes' \in 0..MaxFlushes /\ answer' \in Int
           /\ written' + left' <= MaxWritten
           /\ pc' = "putc" => left' > 0
           /\ pc' \in {"putcStore", "putcAdvance", "pumpAdvance", "pumpSend"} => data' \in 0..MaxWritten
           /\ pc' = "clearTx" => flushes' > 0
  <1>1. /\ RxSize \in Nat \ {0} /\ TxSize \in Nat \ {0}
        /\ MaxReceived \in Nat /\ MaxWritten \in Nat /\ MaxFlushes \in Nat
    BY SerialSizes
  <1>2. /\ pc \in PCs /\ left \in 0..MaxWritten /\ data \in 0..(MaxReceived + MaxWritten)
        /\ received \in 0..MaxReceived /\ written \in 0..MaxWritten
        /\ flushes \in 0..MaxFlushes /\ answer \in Int /\ wrapped \in BOOLEAN
    BY DEF SerialInv, SerialTypeOK
  <1>3. /\ pc \in {"putcStore", "putcAdvance"} => data \in 0..MaxWritten
        /\ pc \in {"pumpAdvance", "pumpSend"} => data \in 0..MaxWritten
        /\ written + left <= MaxWritten
        /\ pc = "putc" => left > 0
        /\ pc = "clearTx" => flushes > 0
    BY DEF SerialInv, TxKnown
  <1>4. PICK x \in 0..MaxReceived : x = Peek(_rxbuf)
    <2>1. _rxbuf \in Rings(RxSize, 0..MaxReceived)
      BY DEF SerialInv, SerialTypeOK
    <2>2. QED
      BY <1>1, <2>1, RingTyped DEF Peek
  <1>5. PICK y \in 0..MaxWritten : y = Peek(_txbuf)
    <2>1. _txbuf \in Rings(TxSize, 0..MaxWritten)
      BY DEF SerialInv, SerialTypeOK
    <2>2. QED
      BY <1>1, <2>1, RingTyped DEF Peek
  <1>6. pc' \in PCs
    BY <1>2 DEF PCs, SerialNext, Call, SerialThread, serialVars, threadVars, historyVars, Goto,
      serial_getc, readable, writable, flush, write, GetcLoad, GetcAdvance, Counted, serial_putc,
         PutcStore,
      PutcAdvance, prime, Pump, PumpLoad, PumpAdvance, PumpSend, Attach, ClearTx, FlushRx, ClearRx,
      rxIrq, txIrq, Shifted, Transmit
  <1>7. answer' \in Int
    <2>1. CASE Counted
      <3>1. /\ _rxbuf.addr_w \in Int /\ _rxbuf.addr_r \in Int
            /\ _txbuf.addr_w \in Int /\ _txbuf.addr_r \in Int
        BY <1>1, RingTyped, SMTT(60) DEF SerialInv, SerialTypeOK
      <3>2. Use(_rxbuf, RxSize, wrapped) \in Int
        BY <1>1, <1>2, <3>1 DEF Use
      <3>3. Available(_txbuf, TxSize, wrapped) \in Int
        BY <1>1, <1>2, <3>1 DEF Available
      <3>4. answer' = Use(_rxbuf, RxSize, wrapped) \/ answer' = Available(_txbuf, TxSize, wrapped)
        BY <2>1, Zenon DEF Counted
      <3>5. QED
        BY <3>2, <3>3, <3>4
    <2>2. CASE ~Counted
      <3>1. answer' = answer
        BY <2>2, Zenon DEF SerialNext, Call, SerialThread, serialVars, threadVars, historyVars,
           Goto,
          serial_getc, readable, writable, flush, write, GetcLoad, GetcAdvance, serial_putc,
             PutcStore,
          PutcAdvance, prime, Pump, PumpLoad, PumpAdvance, PumpSend, Attach, ClearTx, FlushRx,
             ClearRx,
          rxIrq, txIrq, Shifted, Transmit
      <3>2. QED
        BY <1>2, <3>1
    <2>3. QED
      BY <2>1, <2>2
  <1>8. received' \in 0..MaxReceived /\ flushes' \in 0..MaxFlushes
        /\ (pc' = "clearTx" => flushes' > 0)
    <2>1. received' = received \/ (received < MaxReceived /\ received' = received + 1)
      BY Zenon DEF SerialNext, Call, SerialThread, serialVars, threadVars, historyVars, Goto,
        serial_getc, readable, writable, flush, write, GetcLoad, GetcAdvance, Counted,
           serial_putc, PutcStore,
        PutcAdvance, prime, Pump, PumpLoad, PumpAdvance, PumpSend, Attach, ClearTx, FlushRx,
           ClearRx,
        rxIrq, txIrq, Shifted, Transmit
    <2>2. flush \/ flushes' = flushes
      BY Zenon DEF SerialNext, Call, SerialThread, serialVars, threadVars, historyVars, Goto,
        serial_getc, readable, writable, write, GetcLoad, GetcAdvance, Counted, serial_putc,
           PutcStore,
        PutcAdvance, prime, Pump, PumpLoad, PumpAdvance, PumpSend, Attach, ClearTx, FlushRx,
           ClearRx,
        rxIrq, txIrq, Shifted, Transmit
    <2>3. ~flush /\ pc' = "clearTx" => pc = "clearTx"
      BY DEF SerialNext, Call, SerialThread, serialVars, threadVars, historyVars, Goto,
        serial_getc, readable, writable, write, GetcLoad, GetcAdvance, Counted, serial_putc,
           PutcStore,
        PutcAdvance, prime, Pump, PumpLoad, PumpAdvance, PumpSend, Attach, ClearTx, FlushRx,
           ClearRx,
        rxIrq, txIrq, Shifted, Transmit
    <2>4. flush => flushes < MaxFlushes /\ flushes' = flushes + 1
      BY Zenon DEF flush
    <2>5. QED
      BY <1>1, <1>2, <1>3, <2>1, <2>2, <2>3, <2>4
  <1>9. /\ left' \in 0..MaxWritten /\ written' \in 0..MaxWritten
        /\ written' + left' <= MaxWritten /\ (pc' = "putc" => left' > 0)
    <2>1. CASE serial_putc
      BY <1>1, <1>2, <1>3, <2>1 DEF serial_putc
    <2>2. ASSUME NEW length \in 1..MaxWritten, write(length)
          PROVE  /\ left' \in 0..MaxWritten /\ written' \in 0..MaxWritten
                 /\ written' + left' <= MaxWritten /\ (pc' = "putc" => left' > 0)
      BY <1>1, <1>2, <2>2 DEF write, historyVars, Goto
    <2>3. CASE PutcAdvance
      BY <1>1, <1>2, <1>3, <2>3 DEF PutcAdvance
    <2>4. CASE ~serial_putc /\ ~PutcAdvance /\ ~(\E length \in 1..MaxWritten : write(length))
      <3>1. UNCHANGED <<left, written>>
        BY <2>4, Zenon DEF SerialNext, Call, SerialThread, serialVars, threadVars, historyVars,
           Goto,
        serial_getc, readable, writable, flush, GetcLoad, GetcAdvance, Counted, PutcStore,
        prime, Pump, PumpLoad, PumpAdvance, PumpSend, Attach, ClearTx, FlushRx, ClearRx,
        rxIrq, txIrq, Shifted, Transmit
      <3>2. pc' = "putc" => pc = "putc"
        BY <2>4 DEF SerialNext, Call, SerialThread, serialVars, threadVars, historyVars, Goto,
        serial_getc, readable, writable, flush, GetcLoad, GetcAdvance, Counted, PutcStore,
        prime, Pump, PumpLoad, PumpAdvance, PumpSend, Attach, ClearTx, FlushRx, ClearRx,
        rxIrq, txIrq, Shifted, Transmit
      <3>3. QED
        BY <1>2, <1>3, <3>1, <3>2
    <2>5. QED
      BY <2>1, <2>2, <2>3, <2>4
  <1>10. /\ data' \in 0..(MaxReceived + MaxWritten)
         /\ pc' \in {"putcStore", "putcAdvance", "pumpAdvance", "pumpSend"} => data' \in 0..MaxWritten
    <2>1. CASE serial_putc
      <3>1. data' = written + 1 /\ left > 0
        BY <1>3, <2>1 DEF serial_putc
      <3>2. QED
        BY <1>1, <1>2, <1>3, <3>1
    <2>2. CASE GetcLoad
      <3>1. data' = x /\ pc' = "getcAdvance"
        BY <1>4, <2>2 DEF GetcLoad, Goto
      <3>2. QED
        BY <1>1, <1>4, <3>1
    <2>3. CASE PumpLoad
      <3>1. data' = y
        BY <1>5, <2>3 DEF PumpLoad
      <3>2. QED
        BY <1>1, <1>5, <3>1
    <2>4. CASE ~serial_putc /\ ~GetcLoad /\ ~PumpLoad
      <3>1. data' = data \/ data' = 0
        BY <2>4, Zenon DEF SerialNext, Call, SerialThread, serialVars, threadVars, historyVars,
           Goto,
        serial_getc, readable, writable, flush, write, GetcAdvance, Counted, PutcStore,
        PutcAdvance, prime, Pump, PumpAdvance, PumpSend, Attach, ClearTx, FlushRx, ClearRx,
        rxIrq, txIrq, Shifted, Transmit
      <3>2. pc' \in {"putcStore", "putcAdvance", "pumpAdvance", "pumpSend"} =>
              pc \in {"putcStore", "putcAdvance", "pumpAdvance", "pumpSend"}
        BY <2>4 DEF SerialNext, Call, SerialThread, serialVars, threadVars, historyVars, Goto,
        serial_getc, readable, writable, flush, write, GetcAdvance, Counted, PutcStore,
        PutcAdvance, prime, Pump, PumpAdvance, PumpSend, Attach, ClearTx, FlushRx, ClearRx,
        rxIrq, txIrq, Shifted, Transmit
      <3>3. QED
        BY <1>1, <1>2, <1>3, <3>1, <3>2
    <2>5. QED
      BY <2>1, <2>2, <2>3, <2>4
  <1>11. QED
    BY <1>6, <1>7, <1>8, <1>9, <1>10

\* The handler is detached while the thread does its work.
LEMMA HandlerKept ==
    ASSUME SerialInv, [SerialNext]_serialVars
    PROVE  HandlerKnown'
  <1>1. pc \in Pumping => attached = FALSE
    BY DEF SerialInv, HandlerKnown, SerialTypeOK
  <1>2. pc' \in Pumping => attached' = FALSE
    BY <1>1 DEF Pumping, SerialNext, Call, SerialThread, serialVars, threadVars, historyVars, Goto,
      serial_getc, readable, writable, flush, write, GetcLoad, GetcAdvance, Counted, serial_putc,
         PutcStore,
      PutcAdvance, prime, Pump, PumpLoad, PumpAdvance, PumpSend, Attach, ClearTx, FlushRx, ClearRx,
      rxIrq, txIrq, Shifted, Transmit
  <1>3. QED
    BY <1>2 DEF HandlerKnown

\* What a step may do to the transmit ring and its history.
LEMMA TxMoves ==
    ASSUME [SerialNext]_serialVars
    PROVE  \/ txIrq \/ PutcStore \/ PutcAdvance \/ PumpAdvance \/ PumpSend \/ flush \/ ClearTx
           \/ /\ UNCHANGED <<_txbuf, accepted, transmitted, flushes>>
              /\ ~txIrq /\ ~PutcStore /\ ~PutcAdvance /\ ~PumpAdvance /\ ~PumpSend /\ ~flush /\ ~ClearTx
  BY Zenon DEF SerialNext, Call, SerialThread, serialVars, threadVars, historyVars, Goto,
      serial_getc, readable, writable, write, GetcLoad, GetcAdvance, Counted, serial_putc,
      prime, Pump, PumpLoad, Attach, FlushRx, ClearRx, rxIrq, Shifted, Transmit

\* Where the thread goes when it does not move the transmit ring.
LEMMA TxPlaces ==
    ASSUME [SerialNext]_serialVars,
           ~txIrq, ~PutcStore, ~PutcAdvance, ~PumpAdvance, ~PumpSend, ~flush, ~ClearTx
    PROVE  \/ pc' = pc /\ data' = data
           \/ pc # "pumpSend" /\ pc' = "putcStore" /\ ~Full(_txbuf, TxSize)
           \/ pc # "pumpSend" /\ pc' = "pumpLoad" /\ ~Empty(_txbuf)
           \/ pc = "pumpLoad" /\ pc' = "pumpAdvance" /\ data' = Peek(_txbuf)
           \/ /\ pc # "pumpSend"
              /\ pc' \notin {"putcStore", "putcAdvance", "pumpLoad", "pumpAdvance", "pumpSend"}
  BY DEF SerialNext, Call, SerialThread, serialVars, threadVars, historyVars, Goto,
      serial_getc, readable, writable, write, GetcLoad, GetcAdvance, Counted, serial_putc,
      prime, Pump, PumpLoad, Attach, FlushRx, ClearRx, rxIrq, Shifted, Transmit

\* A store into the cell behind the last byte is not seen.
LEMMA StoreUnseen ==
    ASSUME NEW n \in Nat \ {0}, NEW V, NEW b \in Rings(n, V), NEW d \in V
    PROVE  LET c == [b EXCEPT !.buf[b.addr_w] = d]
           IN  /\ c \in Rings(n, V) /\ Contents(c, n) = Contents(b, n)
               /\ Full(c, n) <=> Full(b, n)
  <1> DEFINE c == [b EXCEPT !.buf[b.addr_w] = d]
  <1>1. b.addr_w \in 0..(n - 1) /\ b.addr_r \in 0..(n - 1) /\ b.buf \in [0..(n - 1) -> V]
        /\ b = [buf |-> b.buf, addr_w |-> b.addr_w, addr_r |-> b.addr_r]
        /\ UsedBy(b, n) \in 0..(n - 1)
    BY RingTyped
  <1>2. PICK w \in 0..(n - 1) : w = b.addr_w
    BY <1>1
  <1>3. c = [b EXCEPT !.buf = [b.buf EXCEPT ![w] = d]]
    BY <1>1, <1>2
  <1> HIDE DEF c
  <1>4. c.buf = [b.buf EXCEPT ![w] = d] /\ c.addr_w = b.addr_w /\ c.addr_r = b.addr_r
        /\ c = [buf |-> [b.buf EXCEPT ![w] = d], addr_w |-> b.addr_w, addr_r |-> b.addr_r]
    BY <1>1, <1>3
  <1>5. c \in Rings(n, V)
    <2>1. [b.buf EXCEPT ![w] = d] \in [0..(n - 1) -> V]
      BY <1>1
    <2>2. QED
      BY <1>1, <1>4, <2>1 DEF Rings
  <1>6. UsedBy(c, n) = UsedBy(b, n) /\ \A i \in 1..UsedBy(b, n) : CellOf(c, n, i) = CellOf(b, n, i)
    BY <1>4 DEF UsedBy, CellOf
  <1>7. \A i \in 1..UsedBy(b, n) : c.buf[CellOf(b, n, i)] = b.buf[CellOf(b, n, i)]
    <2>1. TAKE i \in 1..UsedBy(b, n)
    <2>2. PICK k \in 0..(n - 1) : k = CellOf(b, n, i) /\ k # w
      BY <1>1, <1>2, SMTT(60) DEF UsedBy, CellOf
    <2>3. QED
      BY <1>1, <1>4, <2>2
  <1> DEFINE B == Contents(b, n)
             C == Contents(c, n)
  <1>8. B \in Seq(V) /\ Len(B) = UsedBy(b, n) /\ \A i \in 1..UsedBy(b, n) : B[i] = b.buf[CellOf(b, n, i)]
    BY ContentsIs
  <1>9. C \in Seq(V) /\ Len(C) = UsedBy(c, n) /\ \A i \in 1..UsedBy(c, n) : C[i] = c.buf[CellOf(c, n, i)]
    BY <1>5, ContentsIs
  <1> HIDE DEF B, C
  <1>10. Len(B) = Len(C) /\ \A i \in 1..Len(B) : B[i] = C[i]
    BY <1>6, <1>7, <1>8, <1>9, Zenon
  <1>11. C = B
    BY <1>8, <1>9, <1>10, SeqEqual, Zenon
  <1>12. QED
    BY <1>4, <1>5, <1>11 DEF Full, B, C, c

\* PutC keeps the ring a ring, full or not; GetC leaves room.
LEMMA PutCTyped ==
    ASSUME NEW n \in Nat \ {0}, NEW V, NEW b \in Rings(n, V), NEW d \in V
    PROVE  PutC(b, n, d) \in Rings(n, V)
  <1>1. b.addr_w \in 0..(n - 1) /\ b.addr_r \in 0..(n - 1) /\ b.buf \in [0..(n - 1) -> V]
        /\ b = [buf |-> b.buf, addr_w |-> b.addr_w, addr_r |-> b.addr_r]
    BY RingTyped
  <1>2. PICK w \in 0..(n - 1) : w = After(b.addr_w, n)
    BY <1>1, AfterIs
  <1>3. PICK k \in 0..(n - 1) : k = b.addr_w
    BY <1>1
  <1>4. PutC(b, n, d) = [b EXCEPT !.buf = [b.buf EXCEPT ![k] = d], !.addr_w = w]
    BY <1>1, <1>2, <1>3 DEF PutC
  <1>5. PutC(b, n, d) = [buf |-> [b.buf EXCEPT ![k] = d], addr_w |-> w, addr_r |-> b.addr_r]
    BY <1>1, <1>4
  <1>6. QED
    BY <1>1, <1>5 DEF Rings

\* A ring a byte was taken from is not full.
LEMMA GetCLeavesRoom ==
    ASSUME NEW n \in Nat \ {0}, NEW V, NEW b \in Rings(n, V), ~Empty(b)
    PROVE  ~Full(GetC(b, n), n)
  <1>1. PICK c \in Rings(n, V) : c = GetC(b, n) /\ Contents(b, n) = <<Peek(b)>> \o Contents(c, n)
    BY GetCRemoves
  <1>2. PICK x \in V : x = Peek(b)
    BY GetCRemoves
  <1>3. Len(Contents(b, n)) = UsedBy(b, n) /\ UsedBy(b, n) \in 0..(n - 1)
    BY ContentsIs
  <1>4. Contents(c, n) \in Seq(V) /\ Len(Contents(c, n)) = UsedBy(c, n) /\ UsedBy(c, n) \in 0..(n - 1)
    BY ContentsIs
  <1>5. Len(<<x>> \o Contents(c, n)) = 1 + Len(Contents(c, n))
    BY <1>4
  <1>6. UsedBy(c, n) # n - 1
    BY <1>1, <1>2, <1>3, <1>4, <1>5
  <1>7. QED
    BY <1>1, <1>6, EmptyFull

\* The transmit side: types, and what the thread knows of the ring.
TxSeen ==
    /\ pc \in {"pumpLoad", "pumpAdvance"} => ~Empty(_txbuf)
    /\ pc = "pumpAdvance" => data = Peek(_txbuf)
    /\ flushes = 0 /\ pc \in {"putcStore", "putcAdvance"} => ~Full(_txbuf, TxSize)

\* The transmit side, over every step of the writer and of the interrupt handler.
LEMMA TxKept ==
    ASSUME SerialInv, [SerialNext]_serialVars
    PROVE  /\ _txbuf' \in Rings(TxSize, 0..MaxWritten)
           /\ accepted' \in Seq(Nat) /\ transmitted' \in Seq(Nat)
           /\ TxSeen' /\ TxFifo'
  <1> DEFINE V == 0..MaxWritten
             C(b) == Contents(b, TxSize)
             Hand == IF pc = "pumpSend" THEN <<data>> ELSE <<>>
  <1>1. /\ TxSize \in Nat \ {0} /\ MaxWritten \in Nat /\ _txbuf \in Rings(TxSize, V)
        /\ accepted \in Seq(Nat) /\ transmitted \in Seq(Nat) /\ flushes \in Nat
    BY SerialSizes DEF SerialInv, SerialTypeOK
  <1>2. TxSeen
    BY DEF SerialInv, TxKnown, TxSeen
  <1>3. flushes = 0 => accepted = (transmitted \o Hand) \o C(_txbuf)
    BY DEF SerialInv, TxFifo
  <1>4. /\ pc \in {"putcStore", "putcAdvance", "pumpAdvance", "pumpSend"} => data \in V
        /\ pc = "clearTx" => flushes > 0
        /\ pc \in Pumping => ~attached
    BY DEF SerialInv, TxKnown, HandlerKnown
  <1>5. V \subseteq Nat
    OBVIOUS
  <1>6. \A b \in Rings(TxSize, V) : C(b) \in Seq(Nat)
    <2>1. TAKE b \in Rings(TxSize, V)
    <2>2. C(b) \in Seq(V)
      BY <1>1, ContentsIs
    <2>3. QED
      BY <1>5, <2>2, SeqMonotonic
  <1>7. \A q \in Seq(Nat) : q \o <<>> = q
    OBVIOUS
  <1>8. \A q \in Seq(Nat) : \A d \in Nat : Append(q, d) = q \o <<d>>
    OBVIOUS
  <1>9. \A a, b \in Seq(Nat) : \A d \in Nat : (a \o b) \o <<d>> = a \o (b \o <<d>>)
    BY AppendOfConcat
  <1>10. \A a, b \in Seq(Nat) : \A d \in Nat : a \o (<<d>> \o b) = (a \o <<d>>) \o b
    <2>1. TAKE a, b \in Seq(Nat)
    <2>2. TAKE d \in Nat
    <2>3. PICK e \in Seq(Nat) : e = <<d>>
      <3>1. <<d>> \in Seq(Nat)
        OBVIOUS
      <3>2. QED
        BY <3>1, Zenon
    <2>4. (a \o e) \o b = a \o (e \o b)
      BY ConcatAssociative, SMTT(60)
    <2>5. QED
      BY <2>3, <2>4, Zenon
  <1>11. CASE txIrq
    <2>1. attached /\ pc' = pc /\ data' = data /\ flushes' = flushes /\ accepted' = accepted
      BY <1>11 DEF txIrq, threadVars
    <2>2. pc \notin Pumping
      BY <1>4, <2>1
    <2>3. CASE Empty(_txbuf)
      <3>1. UNCHANGED <<_txbuf, transmitted>>
        BY <1>11, <2>3 DEF txIrq
      <3>2. TxSeen'
        BY <1>2, <2>1, <3>1 DEF TxSeen
      <3>3. TxFifo'
        BY <1>3, <2>1, <3>1, Zenon DEF TxFifo
      <3>4. QED
        BY <1>1, <2>1, <3>1, <3>2, <3>3
    <2>4. CASE ~Empty(_txbuf)
      <3>1. _txbuf' = GetC(_txbuf, TxSize) /\ transmitted' = Append(transmitted, Peek(_txbuf))
        BY <1>11, <2>4 DEF txIrq, Transmit
      <3>2. _txbuf' \in Rings(TxSize, V) /\ Peek(_txbuf) \in V /\ C(_txbuf) = <<Peek(_txbuf)>> \o C(_txbuf')
        BY <1>1, <2>4, <3>1, GetCRemoves
      <3>3. ~Full(_txbuf', TxSize)
        BY <1>1, <2>4, <3>1, GetCLeavesRoom
      <3>4. PICK x \in Nat : x = Peek(_txbuf)
        BY <1>5, <3>2
      <3>5. TxSeen'
        BY <2>1, <2>2, <3>3 DEF TxSeen, Pumping
      <3>6. C(_txbuf') \in Seq(Nat)
        BY <1>6, <3>2
      <3>7. transmitted' = transmitted \o <<x>> /\ transmitted' \in Seq(Nat)
        BY <1>1, <1>8, <3>1, <3>4
      <3>8. pc # "pumpSend"
        BY <2>2 DEF Pumping
      <3>9. flushes = 0 => accepted = transmitted' \o C(_txbuf')
        <4> HIDE DEF C
        <4>1. Hand = <<>>
          BY <3>8, Zenon
        <4>2. transmitted \o (<<x>> \o C(_txbuf')) = (transmitted \o <<x>>) \o C(_txbuf')
          BY <1>1, <1>10, <3>6, Zenon
        <4>3. transmitted \o Hand = transmitted
          BY <1>1, <1>7, <4>1, Zenon
        <4>4. QED
          BY <1>3, <3>2, <3>4, <3>7, <4>2, <4>3, Zenon
      <3>10. TxFifo'
        <4>1. transmitted' \o <<>> = transmitted'
          BY <1>7, <3>7, Zenon
        <4>2. QED
          BY <2>1, <3>8, <3>9, <4>1, Zenon DEF TxFifo
      <3>11. QED
        BY <1>1, <2>1, <3>2, <3>5, <3>7, <3>10
    <2>5. QED
      BY <2>3, <2>4
  <1>12. CASE PutcStore
    <2>1. pc = "putcStore" /\ pc' = "putcAdvance" /\ _txbuf' = [_txbuf EXCEPT !.buf[_txbuf.addr_w] = data]
          /\ data' = data /\ flushes' = flushes /\ accepted' = accepted /\ transmitted' = transmitted
      BY <1>12 DEF PutcStore, Goto, threadVars, historyVars
    <2>2. _txbuf' \in Rings(TxSize, V) /\ C(_txbuf') = C(_txbuf)
          /\ (Full(_txbuf', TxSize) <=> Full(_txbuf, TxSize))
      BY <1>1, <1>4, <2>1, StoreUnseen
    <2>3. TxSeen'
      BY <1>2, <2>1, <2>2 DEF TxSeen
    <2>4. TxFifo'
      <3>1. pc' # "pumpSend" /\ pc # "pumpSend"
        BY <2>1
      <3>2. QED
        BY <1>3, <2>1, <2>2, <3>1, Zenon DEF TxFifo
    <2>5. QED
      BY <1>1, <2>1, <2>2, <2>3, <2>4
  <1>13. CASE PutcAdvance
    <2>1. pc = "putcAdvance" /\ pc' \in {"prime", "putc"} /\ _txbuf' = PutC(_txbuf, TxSize, data)
          /\ accepted' = Append(accepted, data) /\ flushes' = flushes /\ transmitted' = transmitted
      BY <1>13 DEF PutcAdvance
    <2>2. PICK x \in V : x = data
      BY <1>4, <2>1
    <2>3. _txbuf' \in Rings(TxSize, V)
      BY <1>1, <2>1, <2>2, PutCTyped
    <2>4. accepted' \in Seq(Nat) /\ accepted' = accepted \o <<x>> /\ x \in Nat
      BY <1>1, <1>5, <1>8, <2>1, <2>2
    <2>5. TxSeen'
      BY <2>1 DEF TxSeen
    <2>6. TxFifo'
      <3>1. SUFFICES ASSUME flushes = 0 PROVE accepted' = transmitted \o C(_txbuf')
        <4>1. pc' # "pumpSend"
          BY <2>1
        <4>2. transmitted \o <<>> = transmitted
          BY <1>1, <1>7, Zenon
        <4>3. QED
          BY <2>1, <4>1, <4>2, Zenon DEF TxFifo
      <3>2. ~Full(_txbuf, TxSize)
        BY <1>2, <2>1, <3>1 DEF TxSeen
      <3>3. C(_txbuf') = Append(C(_txbuf), x)
        BY <1>1, <2>1, <2>2, <3>2, PutCAppends
      <3>4. C(_txbuf) \in Seq(Nat)
        BY <1>1, <1>6
      <3> HIDE DEF C
      <3>5. C(_txbuf') = C(_txbuf) \o <<x>>
        BY <1>8, <2>4, <3>3, <3>4, Zenon
      <3>6. pc # "pumpSend"
        BY <2>1
      <3>7. accepted = transmitted \o C(_txbuf)
        BY <1>1, <1>3, <1>7, <3>1, <3>6, Zenon
      <3>8. (transmitted \o C(_txbuf)) \o <<x>> = transmitted \o (C(_txbuf) \o <<x>>)
        BY <1>1, <1>9, <2>4, <3>4, Zenon
      <3>9. QED
        BY <2>4, <3>5, <3>7, <3>8, Zenon
    <2>7. QED
      BY <1>1, <2>1, <2>3, <2>4, <2>5, <2>6
  <1>14. CASE PumpAdvance
    <2>1. pc = "pumpAdvance" /\ pc' = "pumpSend" /\ _txbuf' = GetC(_txbuf, TxSize)
          /\ data' = data /\ flushes' = flushes /\ accepted' = accepted /\ transmitted' = transmitted
      BY <1>14 DEF PumpAdvance, Goto, threadVars, historyVars
    <2>2. ~Empty(_txbuf) /\ data = Peek(_txbuf)
      BY <1>2, <2>1 DEF TxSeen
    <2>3. _txbuf' \in Rings(TxSize, V) /\ data \in V /\ C(_txbuf) = <<data>> \o C(_txbuf')
      BY <1>1, <2>1, <2>2, GetCRemoves
    <2>4. PICK x \in Nat : x = data
      BY <1>5, <2>3
    <2>5. TxSeen'
      BY <2>1 DEF TxSeen
    <2>6. TxFifo'
      <3>1. C(_txbuf') \in Seq(Nat)
        BY <1>6, <2>3
      <3> HIDE DEF C
      <3>2. pc # "pumpSend"
        BY <2>1
      <3>3. flushes = 0 => accepted = transmitted \o C(_txbuf)
        BY <1>1, <1>3, <1>7, <3>2, Zenon
      <3>4. transmitted \o (<<x>> \o C(_txbuf')) = (transmitted \o <<x>>) \o C(_txbuf')
        BY <1>1, <1>10, <3>1, Zenon
      <3>5. flushes = 0 => accepted = (transmitted \o <<x>>) \o C(_txbuf')
        BY <2>3, <2>4, <3>3, <3>4, Zenon
      <3>6. QED
        BY <2>1, <2>4, <3>5, Zenon DEF TxFifo, C
    <2>7. QED
      BY <1>1, <2>1, <2>3, <2>5, <2>6
  <1>15. CASE PumpSend
    <2>1. pc = "pumpSend" /\ pc' = "pump" /\ _txbuf' = _txbuf
          /\ transmitted' = Append(transmitted, data) /\ flushes' = flushes /\ accepted' = accepted
      BY <1>15 DEF PumpSend, Goto, Transmit
    <2>2. PICK x \in Nat : x = data
      BY <1>4, <1>5, <2>1
    <2>3. transmitted' = transmitted \o <<x>> /\ transmitted' \in Seq(Nat)
      BY <1>1, <1>8, <2>1, <2>2
    <2>4. TxSeen'
      BY <2>1 DEF TxSeen
    <2>5. TxFifo'
      <3>1. flushes = 0 => accepted = transmitted' \o C(_txbuf)
        BY <1>3, <2>1, <2>2, <2>3, Zenon
      <3>2. transmitted' \o <<>> = transmitted' /\ pc' # "pumpSend"
        BY <1>7, <2>1, <2>3
      <3>3. QED
        BY <2>1, <3>1, <3>2, Zenon DEF TxFifo
    <2>6. QED
      BY <1>1, <2>1, <2>3, <2>4, <2>5
  <1>16. CASE flush
    <2>1. pc' = "clearTx" /\ _txbuf' = [_txbuf EXCEPT !.addr_w = 0] /\ flushes' = flushes + 1
          /\ accepted' = accepted /\ transmitted' = transmitted
      BY <1>16 DEF flush, Goto
    <2>2. _txbuf' \in Rings(TxSize, V)
      BY <1>1, <2>1, WriteCleared
    <2>3. TxSeen'
      BY <2>1 DEF TxSeen
    <2>4. flushes' # 0
      BY <1>1, <2>1
    <2>5. QED
      BY <1>1, <2>1, <2>2, <2>3, <2>4 DEF TxFifo
  <1>17. CASE ClearTx
    <2>1. pc = "clearTx" /\ pc' = "flushRx" /\ _txbuf' = [_txbuf EXCEPT !.addr_r = 0] /\ flushes' = flushes
          /\ accepted' = accepted /\ transmitted' = transmitted
      BY <1>17 DEF ClearTx, Goto, historyVars
    <2>2. _txbuf' \in Rings(TxSize, V)
      BY <1>1, <2>1, ReadCleared
    <2>3. TxSeen'
      BY <2>1 DEF TxSeen
    <2>4. flushes' # 0
      BY <1>1, <1>4, <2>1
    <2>5. QED
      BY <1>1, <2>1, <2>2, <2>3, <2>4 DEF TxFifo
  <1>18. CASE /\ UNCHANGED <<_txbuf, accepted, transmitted, flushes>>
              /\ ~txIrq /\ ~PutcStore /\ ~PutcAdvance /\ ~PumpAdvance /\ ~PumpSend /\ ~flush /\ ~ClearTx
    <2>1. \/ pc' = pc /\ data' = data
          \/ pc # "pumpSend" /\ pc' = "putcStore" /\ ~Full(_txbuf, TxSize)
          \/ pc # "pumpSend" /\ pc' = "pumpLoad" /\ ~Empty(_txbuf)
          \/ pc = "pumpLoad" /\ pc' = "pumpAdvance" /\ data' = Peek(_txbuf)
          \/ /\ pc # "pumpSend"
             /\ pc' \notin {"putcStore", "putcAdvance", "pumpLoad", "pumpAdvance", "pumpSend"}
      BY <1>18, TxPlaces
    <2>2. TxSeen'
      BY <1>2, <1>18, <2>1 DEF TxSeen
    <2>3. (pc' = pc /\ data' = data) \/ (pc # "pumpSend" /\ pc' # "pumpSend")
      BY <2>1
    <2>4. TxFifo'
      BY <1>3, <1>18, <2>3, Zenon DEF TxFifo
    <2>5. QED
      BY <1>1, <1>18, <2>2, <2>4
  <1>19. QED
    BY <1>11, <1>12, <1>13, <1>14, <1>15, <1>16, <1>17, <1>18, TxMoves

\* The invariant of the serial port.
THEOREM SerialInvariant == SerialSpec => []SerialInv
  <1>1. SerialInit => SerialInv
    <2>1. SUFFICES ASSUME SerialInit PROVE SerialInv
      OBVIOUS
    <2>2. /\ RxSize \in Nat \ {0} /\ TxSize \in Nat \ {0}
          /\ MaxReceived \in Nat /\ MaxWritten \in Nat /\ MaxFlushes \in Nat
      BY SerialSizes
    <2>3. /\ _rxbuf \in Rings(RxSize, 0..MaxReceived) /\ _rxbuf.addr_w = 0 /\ _rxbuf.addr_r = 0
          /\ _txbuf \in Rings(TxSize, 0..MaxWritten) /\ _txbuf.addr_w = 0 /\ _txbuf.addr_r = 0
      <3>1. 0 \in 0..MaxReceived /\ 0 \in 0..MaxWritten
        BY <2>2
      <3>2. _rxbuf = NewRing(RxSize) /\ _txbuf = NewRing(TxSize)
        BY <2>1 DEF SerialInit
      <3>3. QED
        BY <2>2, <3>1, <3>2, NewRingTyped, Zenon
    <2>4. Contents(_rxbuf, RxSize) = <<>> /\ Contents(_txbuf, TxSize) = <<>>
      BY <2>2, <2>3, EmptyFull DEF Empty
    <2>5. attached \in BOOLEAN /\ busy \in BOOLEAN /\ wrapped \in BOOLEAN
      BY <2>1, Zenon DEF SerialInit
    <2>6. SerialTypeOK
      BY <2>1, <2>2, <2>3, <2>5 DEF SerialInit, SerialTypeOK, PCs
    <2>7. HandlerKnown /\ RxKnown
      BY <2>1 DEF SerialInit, HandlerKnown, Pumping, RxKnown
    <2>8. TxKnown
      BY <2>1, <2>2 DEF SerialInit, TxKnown
    <2>9. stored \in Seq(Nat) /\ got \in Seq(Nat) /\ accepted \in Seq(Nat) /\ transmitted \in Seq(Nat)
          /\ stored = <<>> /\ got = <<>> /\ accepted = <<>> /\ transmitted = <<>> /\ pc = "idle"
      BY <2>1 DEF SerialInit
    <2>10. RxFifo
      BY <2>4, <2>9 DEF RxFifo
    <2>11. TxFifo
      <3>1. (<<>> \o <<>>) \o <<>> = <<>> /\ pc # "pumpSend"
        BY <2>9
      <3>2. QED
        BY <2>4, <2>9, <3>1, Zenon DEF TxFifo
    <2>12. QED
      BY <2>6, <2>7, <2>8, <2>9, <2>10, <2>11 DEF SerialInv
  <1>2. SerialInv /\ [SerialNext]_serialVars => SerialInv'
    <2>1. SUFFICES ASSUME SerialInv, [SerialNext]_serialVars PROVE SerialInv'
      OBVIOUS
    <2>2. SerialTypeOK'
      BY <2>1, SerialBooleans, SerialCounters, RxKept, TxKept DEF SerialTypeOK
    <2>3. TxKnown'
      BY <2>1, SerialCounters, TxKept DEF TxKnown, TxSeen
    <2>4. QED
      BY <2>1, <2>2, <2>3, HandlerKept, RxKept, TxKept DEF SerialInv
  <1>3. QED
    BY <1>1, <1>2, PTL DEF SerialSpec

\* The serial port is a pair of queues.
THEOREM SerialIsFifo == SerialSpec => []SerialFifo
  <1>1. SerialInv => SerialFifo
    BY DEF SerialInv, SerialFifo
  <1>2. QED
    BY SerialInvariant, <1>1, PTL

=============================================================================
