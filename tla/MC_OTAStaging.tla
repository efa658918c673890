--------------------------- MODULE MC_OTAStaging ---------------------------
(***************************************************************************)
(* OTAStaging for TLC: a five-byte partition, three-byte erase and         *)
(* read-back blocks, two-byte write blocks, a descriptor that straddles a  *)
(* read-back boundary, and one package per reason validateHeader has.      *)
(***************************************************************************)
EXTENDS OTAStaging, FiniteSets, FiniteSetsExt

\* Collision-free digests: the content itself.
MCSha(c) == c
MCCrc(c) == IF DOMAIN c = {} THEN 0 ELSE 1 + FoldSet(LAMBDA i, acc : acc + c[i] * 4^i, 4^Cardinality(DOMAIN c), DOMAIN c)
MCCrcs == Nat
\* No two contents of one length have the same CRC, hence CrcTellsApart.
ASSUME MCCrcInjective ==
    \A n \in 0..OtaLength : Cardinality({MCCrc(c) : c \in Content(n)}) = Cardinality(Content(n))
MCDigests == UNION {Content(n) : n \in 0..OtaLength}
MCZeroDigest == Zeros(0)

\* Bodies: two good ones, one whose vector table is rejected.
BodyA == [i \in 0..4 |-> <<1, 1, 0, 2, 1>>[i + 1]]
BodyB == [i \in 0..4 |-> <<1, 3, 1, 2, 0>>[i + 1]]
BodyBad == [i \in 0..4 |-> <<1, 2, 0, 2, 0>>[i + 1]]

Descriptor(body) == [i \in 0..(OTA_IMAGE_DESCRIPTOR_SIZE - 1) |->
                        body[OTA_IMAGE_DESCRIPTOR_OFFSET + i]]
Good(body, size) ==
    [envelope |-> "OK", payloadSize |-> size, image |-> "OK", located |-> TRUE,
     keyId |-> "k1", sha256 |-> Prefix(body, size), descriptor |-> Descriptor(body),
     signer |-> "k1"]

\* One header per reason for which validateHeader refuses one.
Packages ==
    LET good == Good(BodyA, 4)
    IN  {good, Good(BodyB, 5), Good(BodyBad, 4),
         [good EXCEPT !.envelope = "PACKAGE_FORMAT"],
         [good EXCEPT !.envelope = "UNSUPPORTED"],
         [good EXCEPT !.payloadSize = 3], [good EXCEPT !.payloadSize = 6],
         [good EXCEPT !.image = "PACKAGE_FORMAT"],
         [good EXCEPT !.image = "UNSUPPORTED"],
         [good EXCEPT !.located = FALSE],
         [good EXCEPT !.keyId = "k2"],
         [good EXCEPT !.signer = "k2"],
         [good EXCEPT !.keyId = "k3", !.signer = "k3"],
         [good EXCEPT !.descriptor = Descriptor(BodyB)]}
GoodPackages == {Good(BodyA, 4), Good(BodyB, 5)}
AllBodies == {BodyA, BodyB, BodyBad}
GoodBodies == {BodyA, BodyB}
OneKey == {"k1"}
AllKeys == {"k1", "k2", "k3"}
SomeKeys == {"k1", "k2"}
=============================================================================
