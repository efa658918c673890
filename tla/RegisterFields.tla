--------------------------- MODULE RegisterFields ---------------------------
(***************************************************************************)
(* How the sensor drivers see a chip: bytes, and in them fields that a     *)
(* W_ function sets and an R_ function reads.  A byte is the set of its    *)
(* one-bits; a field is a mask in each of the registers it occupies and    *)
(* the bytes its setter may be asked to store there.                       *)
(***************************************************************************)
EXTENDS Integers, Sequences, FiniteSets, TLC

Bit == 0 .. 7

\* The bits of a number below 256; bits above the eighth are lost, as they are
\* in a u8_t.
Bits(n) == { i \in Bit : (n \div 2^i) % 2 = 1 }

\* The number a byte stands for.
NumberOf(byte) ==
    LET sum[i \in 0 .. 8] == IF i = 0 THEN 0
                             ELSE sum[i - 1] + (IF i - 1 \in byte THEN 2^(i - 1) ELSE 0)
    IN  sum[8]

\* An enumeration type of a driver's header: its mask and its members.
Enum(mask, members) == [mask |-> Bits(mask), values |-> { Bits(m) : m \in members }]

\* The two members DISABLED and ENABLED.
Flag(mask) == Enum(mask, {0, mask})

\* A number, shifted to its position and coerced to its mask.  The samples are
\* the ends of the range, alternating bits, and numbers too large for the mask.
Coerced(mask, position, n) == Bits(n * 2^position) \cap Bits(mask)
Number(mask, position) ==
    [mask |-> Bits(mask),
     values |-> { Coerced(mask, position, n) : n \in {0, 1, 2, 85, 170, 255} }]

\* A field in one register.
Field(reg, type) ==
    [order |-> <<reg>>, mask |-> (reg :> type.mask),
     values |-> { (reg :> v) : v \in type.values }]

\* The fields of a register, by the names of their types.
Fields(reg, types) == [n \in DOMAIN types |-> Field(reg, types[n])]

\* A field in two registers, whose setter writes the low part first.
Pair(low, lowType, high, highType) ==
    [order |-> <<low, high>>,
     mask |-> (low :> lowType.mask @@ high :> highType.mask),
     values |-> { (low :> l @@ high :> h) : l \in lowType.values, h \in highType.values }]

\* Mutation: the old bits of the field stay.
Merge_NotCleared(byte, mask, newValue) == byte \cup newValue

\* value &= ~MASK; value |= newValue;
Merge(byte, mask, newValue) == (byte \ mask) \cup newValue

\* value &= MASK, in every register of the field.
Masked(byte, mask) == byte \cap mask

=============================================================================
