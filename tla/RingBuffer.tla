---------------------------- MODULE RingBuffer ----------------------------
(***************************************************************************)
(* core/arduino/RingBuffer.cpp: a ring of `size' cells, one of which stays *)
(* free, so that addr_w = addr_r means empty.  A ring is a record of the   *)
(* cells and the two indices; the operators below are what one call reads  *)
(* or computes, for callers that interleave with it.                       *)
(***************************************************************************)
EXTENDS Integers, Sequences

\* The constructor allocates one cell more than it is asked for.
RingSize(p_size) == p_size + 1
NewRing(size) == [buf |-> [i \in 0..(size - 1) |-> 0], addr_w |-> 0, addr_r |-> 0]
Rings(size, Values) ==
    [buf : [0..(size - 1) -> Values], addr_w : 0..(size - 1), addr_r : 0..(size - 1)]

\* The cell after i.
After(i, size) == (i + 1) % size

\* putc: whether the byte is dropped, and the ring after it was stored.
Full(b, size) == After(b.addr_w, size) = b.addr_r
PutC(b, size, data) ==
    [b EXCEPT !.buf[b.addr_w] = data, !.addr_w = After(b.addr_w, size)]

\* getc on a ring that is not empty: the byte, and the ring after it.
Empty(b) == b.addr_r = b.addr_w
Peek(b) == b.buf[b.addr_r]
GetC(b, size) == [b EXCEPT !.addr_r = After(b.addr_r, size)]

\* available and use, for the outcome `wrapped' of their test addr_w < addr_r.
Wrapped(b) == b.addr_w < b.addr_r
Available(b, size, wrapped) ==
    IF wrapped THEN b.addr_r - b.addr_w - 1 ELSE (size - b.addr_w) + b.addr_r - 1
Use(b, size, wrapped) ==
    IF wrapped THEN size - (b.addr_r - b.addr_w) ELSE b.addr_w - b.addr_r

\* put and get: as much of `data' as fits, in one or two pieces; get's result is
\* the bytes it copies out.
PutLength(b, size, len) ==
    IF len < Available(b, size, Wrapped(b)) THEN len ELSE Available(b, size, Wrapped(b))

\* Mutation: a chunk that ends at the end of the array is not split.
Put_NoSplit(b, size, data) ==
    LET len == PutLength(b, size, Len(data))
    IN  [b EXCEPT
           !.buf = [i \in 0..(size - 1) |->
                      IF i >= b.addr_w /\ i < b.addr_w + len THEN data[i - b.addr_w + 1]
                      ELSE b.buf[i]],
           !.addr_w = (b.addr_w + len) % size]
Put(b, size, data) ==
    LET len == PutLength(b, size, Len(data))
        remaining == size - b.addr_w
        straight == b.addr_w + len < size
    IN  [b EXCEPT
           !.buf = [i \in 0..(size - 1) |->
                      IF i >= b.addr_w /\ i < b.addr_w + len THEN data[i - b.addr_w + 1]
                      ELSE IF ~straight /\ i < len - remaining THEN data[remaining + i + 1]
                      ELSE b.buf[i]],
           !.addr_w = IF straight THEN b.addr_w + len ELSE len - remaining]

GetLength(b, size, len) ==
    IF len < Use(b, size, Wrapped(b)) THEN len ELSE Use(b, size, Wrapped(b))
Got(b, size, len) ==
    LET n == GetLength(b, size, len)
        remaining == size - b.addr_r
    IN  [i \in 1..n |-> IF b.addr_r + n < size \/ i <= remaining THEN b.buf[b.addr_r + i - 1]
                        ELSE b.buf[i - remaining - 1]]
Get(b, size, len) ==
    LET n == GetLength(b, size, len)
    IN  [b EXCEPT !.addr_r = IF b.addr_r + n < size THEN b.addr_r + n
                             ELSE n - (size - b.addr_r)]

\* What the ring holds, oldest first.
Contents(b, size) ==
    [i \in 1..((b.addr_w + size - b.addr_r) % size) |-> b.buf[(b.addr_r + i - 1) % size]]
=============================================================================
