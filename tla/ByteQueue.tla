----------------------------- MODULE ByteQueue -----------------------------
(***************************************************************************)
(* What a ring buffer of `size' cells promises one caller: a queue of at   *)
(* most size - 1 bytes that takes what fits and hands out the oldest bytes *)
(* first.                                                                  *)
(***************************************************************************)
EXTENDS Integers, Sequences

CONSTANTS Capacity, Values, MaxChunk

VARIABLES
    queue,      \* the bytes held, oldest first
    given,      \* what the last call was asked to take
    out,        \* what the last call handed out
    count       \* what the last call returned

vars == <<queue, given, out, count>>

Least(m, n) == IF m < n THEN m ELSE n

Init == queue = <<>> /\ given = <<>> /\ out = <<>> /\ count = 0

\* Accept as much of a chunk as there is room for.
Accept(chunk) ==
    LET n == Least(Len(chunk), Capacity - Len(queue))
    IN  /\ queue' = queue \o SubSeq(chunk, 1, n)
        /\ given' = chunk /\ out' = <<>> /\ count' = n

\* Hand out at most n bytes.
Take(n) ==
    LET m == Least(n, Len(queue))
    IN  /\ given' = <<>> /\ out' = SubSeq(queue, 1, m)
        /\ queue' = SubSeq(queue, m + 1, Len(queue))
        /\ count' = m

Clear == queue' = <<>> /\ given' = <<>> /\ out' = <<>> /\ count' = 0
Report ==
    /\ count' \in {Len(queue), Capacity - Len(queue)}
    /\ given' = <<>> /\ out' = <<>>
    /\ UNCHANGED queue

Next ==
    \/ \E n \in 0..MaxChunk : Take(n) \/ \E chunk \in [1..n -> Values] : Accept(chunk)
    \/ Clear
    \/ Report

Spec == Init /\ [][Next]_vars
=============================================================================
