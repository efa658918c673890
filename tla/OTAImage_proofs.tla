-------------------------- MODULE OTAImage_proofs ---------------------------
(***************************************************************************)
(* What the staging engine promises about the image, for every value of    *)
(* the constants.  While it is staged: however the package is cut, what was*)
(* hashed and kept of the vector table is the caller's stream; the flash is*)
(* touched only after every check; the descriptor in a Ready image is the  *)
(* signed one.  When it is activated: Activated is durable, a failed       *)
(* activation leaves the previous entry, the bootloader finds only entries *)
(* of approved images, and - when no callback aborts the session it is     *)
(* called from and the bootloader's CRC is unambiguous - the engine        *)
(* implements OTAContract.                                                 *)
(***************************************************************************)
EXTENDS OTAStaging_proofs

-----------------------------------------------------------------------------
(* The bytes of the caller.                                                *)

\* The actions that touch neither the caller's bytes nor what is kept of them.
OtherAction ==
    \/ \E size \in 0..MaxChunk : OTAStagingWritePackage(size)
    \/ NullArgument \/ OTAStagingFinish
    \/ \E c \in issued : OTAStagingActivate(c.sessionGeneration, c.sha256)
    \/ cancelled
    \/ CopyHeader \/ CopySignature
    \/ VerifySignature \/ Admission
    \/ PayloadAccepted \/ WritePackageReturns
    \/ CheckStreamDigest \/ ReadBackBlock \/ Publish
    \/ ReadBootTable \/ WriteBootTable \/ CheckCandidate \/ CheckRestore
    \/ OTAStagingAbort

contentVars == <<stream, vectors, vectorsSize, payloadSha, payloadWritten, erased,
                 payloadSize, flash>>

\* They leave all of it unchanged, and do not start to erase.
LEMMA ContentFrame ==
    ASSUME OtherAction
    PROVE  /\ UNCHANGED contentVars
           /\ pc' \in ErasePCs => pc \in ErasePCs
<1> USE DEF sessionVars, progressVars, givenVars, headerVars, vectorVars, writeVars
<1>1. UNCHANGED contentVars
  BY DEF OtherAction, contentVars, OTAStagingWritePackage, NullArgument, OTAStagingFinish,
         OTAStagingActivate, cancelled, CopyHeader, CopySignature, VerifySignature,
         Admission, PayloadAccepted, WritePackageReturns, CheckStreamDigest, ReadBackBlock,
         Publish, ReadBootTable, WriteBootTable, CheckCandidate, CheckRestore,
         OTAStagingAbort
<1>2. pc' \in ErasePCs => pc \in ErasePCs
  BY PollCases
     DEF ErasePCs, OtherAction, OTAStagingWritePackage, NullArgument, OTAStagingFinish,
         OTAStagingActivate, cancelled, CopyHeader, CopySignature, VerifySignature,
         Admission, PayloadAccepted, WritePackageReturns, CheckStreamDigest, ReadBackBlock,
         Publish, ReadBootTable, WriteBootTable, CheckCandidate, CheckRestore,
         OTAStagingAbort, fail, Return
<1>3. QED BY <1>1, <1>2

\* acceptPayload fills the vector table with the stream's bytes, and goes on to
\* erase only when the table is complete and accepted.
LEMMA AcceptContent ==
    ASSUME StagingInv, ContentInv, acceptPayload
    PROVE  ContentInv'
<1> DEFINE data == packageReceived - OTA_PACKAGE_PAYLOAD_OFFSET
           copied == Min2(remaining, VectorSize - vectorsSize)
           filled == [i \in 0..(VectorSize - 1) |->
                        IF i >= vectorsSize /\ i < vectorsSize + copied
                          THEN stream.body[data + i - vectorsSize] ELSE vectors[i]]
<1> HIDE DEF data, copied, filled
<1>0. UNCHANGED <<stream, payloadSha, payloadWritten, erased, payloadSize>>
  BY DEF acceptPayload, progressVars, givenVars, headerVars, writeVars
<1>1. CASE erased
  <2>1. UNCHANGED vectorVars /\ pc' \notin ErasePCs
    BY <1>1 DEF acceptPayload, ErasePCs
  <2>2. QED BY <1>0, <1>1, <2>1 DEF ContentInv, vectorVars, Prefix, validateVectors
<1>2. CASE ~erased
  <2>1. data = vectorsSize
    BY <1>2, StreamingSizes, SizesAssumption
       DEF acceptPayload, StagingInv, TypeOK, PositionInv, AtBoundary,
           OTA_PACKAGE_PAYLOAD_OFFSET, data
  <2>2. copied \in 0..(VectorSize - vectorsSize) /\ vectorsSize \in 0..VectorSize
    BY StreamingSizes, SizesAssumption DEF StagingInv, TypeOK, Min2, copied
  <2>3. vectors' = filled /\ vectorsSize' = vectorsSize + copied
    BY <1>2, StreamingSizes DEF acceptPayload, copied, filled, data
  <2>4. ASSUME NEW i \in 0..(vectorsSize + copied - 1) PROVE filled[i] = stream.body[i]
    <3>1. i \in 0..(VectorSize - 1)
      BY <2>2, <2>4, SizesAssumption
    <3>2. CASE i < vectorsSize
      BY <2>2, <3>1, <3>2 DEF filled, ContentInv
    <3>3. CASE i >= vectorsSize
      BY <2>1, <2>2, <2>4, <3>1, <3>3 DEF filled
    <3>4. QED BY <2>2, <3>1, <3>2, <3>3, SizesAssumption
  <2>5. pc' \in ErasePCs => /\ vectorsSize + copied = VectorSize
                            /\ validateVectors(filled, payloadSize)
    <3>1. ASSUME pc' \in ErasePCs
          PROVE  /\ ~(vectorsSize + copied = VectorSize /\ ~validateVectors(filled, payloadSize))
                 /\ ~(vectorsSize + copied < VectorSize)
      BY <1>2, <3>1, StreamingSizes
         DEF acceptPayload, copied, filled, data, ErasePCs, fail, Return
    <3>2. QED BY <2>2, <3>1, SizesAssumption
  <2>6. (payloadSha = Prefix(stream.body, payloadWritten))'
    BY <1>0 DEF ContentInv, Prefix
  <2>7. QED
    <3>1. (\A i \in 0..(vectorsSize - 1) : vectors[i] = stream.body[i])'
      BY <1>0, <2>2, <2>3, <2>4, SizesAssumption
    <3>2. ~erased'
      BY <1>0, <1>2
    <3>3. (pc \in ErasePCs => vectorsSize = VectorSize /\ validateVectors(vectors, payloadSize))'
      BY <1>0, <2>3, <2>5 DEF validateVectors, ErasePCs
    <3>4. QED BY <2>6, <3>1, <3>2, <3>3 DEF ContentInv
<1>3. QED BY <1>1, <1>2 DEF StagingInv, TypeOK

\* The byte writePayload takes next is the next byte of the stream.
LEMMA PendingIsStream ==
    ASSUME StagingInv, ContentInv, pc \in {"vectorsWrite", "dataWrite"},
           NEW i \in Nat, i < left
    PROVE  Pending(i) = stream.body[payloadWritten + i]
<1>1. CASE pc = "vectorsWrite"
  <2>1. /\ left \in 1..VectorSize /\ payloadWritten + left = VectorSize
        /\ payloadWritten \in Nat /\ vectorsSize = VectorSize
    BY <1>1 DEF StagingInv, TypeOK, PositionInv, VectorPCs, ErasePCs
  <2>2. VectorSize - left + i \in 0..(vectorsSize - 1)
        /\ VectorSize - left + i = payloadWritten + i
    BY <2>1, SizesAssumption
  <2>3. QED BY <1>1, <2>2 DEF Pending, ContentInv
<1>2. CASE pc = "dataWrite"
  <2>1. packageReceived - OTA_PACKAGE_PAYLOAD_OFFSET + accepted = payloadWritten + left
    BY <1>2 DEF StagingInv, PositionInv, DataPCs
  <2>2. /\ packageReceived \in Int /\ accepted \in Int /\ payloadWritten \in Int /\ left \in Int
        /\ OTA_PACKAGE_PAYLOAD_OFFSET \in Int
    BY SizesAssumption DEF StagingInv, TypeOK, OTA_PACKAGE_PAYLOAD_OFFSET
  <2>3. packageReceived - OTA_PACKAGE_PAYLOAD_OFFSET + accepted - left + i = payloadWritten + i
    BY <2>1, <2>2
  <2>4. QED BY <1>2, <2>3 DEF Pending
<1>3. QED BY <1>1, <1>2

\* What is hashed is what is written.
LEMMA WriteContent ==
    ASSUME StagingInv, ContentInv, writePayload
    PROVE  ContentInv'
<1> DEFINE size == Min2(left, OTA_STAGING_WRITE_BLOCK_SIZE)
<1>0. /\ pc \in {"vectorsWrite", "dataWrite"}
      /\ UNCHANGED <<stream, vectors, vectorsSize, erased, payloadSize>>
      /\ pc' \notin ErasePCs
  BY DEF writePayload, givenVars, headerVars, vectorVars, ErasePCs, fail, Return
<1>1. left \in Nat \ {0} /\ payloadWritten \in Nat
  BY <1>0, WriteSizes DEF StagingInv, TypeOK
<1>2. size \in Nat \ {0} /\ size <= left
  BY <1>1, SizesAssumption DEF Min2
<1> HIDE DEF size
<1>3. payloadSha' = Prefix(stream.body, payloadWritten')
  <2>1. CASE UNCHANGED <<payloadSha, payloadWritten>>
    BY <2>1 DEF ContentInv
  <2>2. CASE /\ payloadSha' = [i \in 0..(payloadWritten + size - 1) |->
                                 IF i < payloadWritten THEN payloadSha[i]
                                 ELSE Pending(i - payloadWritten)]
             /\ payloadWritten' = payloadWritten + size
    <3>1. ASSUME NEW i \in 0..(payloadWritten + size - 1)
          PROVE  (IF i < payloadWritten THEN payloadSha[i] ELSE Pending(i - payloadWritten))
                   = stream.body[i]
      <4>1. CASE i < payloadWritten
        BY <1>1, <4>1 DEF ContentInv, Prefix
      <4>2. CASE ~(i < payloadWritten)
        <5>1. /\ i - payloadWritten \in Nat /\ i - payloadWritten < left
              /\ payloadWritten + (i - payloadWritten) = i
          BY <1>1, <1>2, <4>2
        <5>2. Pending(i - payloadWritten) = stream.body[i]
          BY <1>0, <5>1, PendingIsStream
        <5>3. QED BY <4>2, <5>2
      <4>3. QED BY <4>1, <4>2
    <3>2. payloadSha' = [i \in 0..(payloadWritten + size - 1) |-> stream.body[i]]
      BY <2>2, <3>1
    <3>3. QED BY <1>1, <1>2, <2>2, <3>2 DEF Prefix
  <2>3. QED BY <2>1, <2>2 DEF writePayload, size
<1>4. QED BY <1>0, <1>3 DEF ContentInv, validateVectors

\* Every step keeps the caller's bytes.
LEMMA ContentStep ==
    ASSUME StagingInv, ContentInv, [Next]_vars
    PROVE  ContentInv'
<1> USE DEF sessionVars, progressVars, givenVars, headerVars, vectorVars, writeVars
<1>1. CASE OtherAction
  BY <1>1, ContentFrame DEF ContentInv, contentVars, Prefix, validateVectors
<1>2. ASSUME NEW size, NEW key, NEW s, OTAStagingBegin(size, key, s) PROVE ContentInv'
  BY <1>2, SizesAssumption DEF OTAStagingBegin, ResetSession, ContentInv, Prefix, Zeros, ErasePCs
<1>3. CASE validateHeader
  <2>1. ~erased /\ pc' \notin ErasePCs
    BY <1>3 DEF validateHeader, StagingInv, ControlInv, PositionInv, ErasePCs, fail, Return
  <2>2. QED BY <1>3, <2>1 DEF validateHeader, ContentInv, Prefix
<1>4. CASE acceptPayload
  BY <1>4, AcceptContent
<1>5. CASE erasePayloadRange
  BY <1>5 DEF erasePayloadRange, ContentInv, Prefix, validateVectors, ErasePCs
<1>6. CASE writePayload
  BY <1>6, WriteContent
<1>7. CASE Crash
  BY <1>7, SizesAssumption DEF Crash, ResetSession, Return, ContentInv, Prefix, Zeros, ErasePCs
<1>8. CASE UNCHANGED vars
  BY <1>8 DEF vars, ContentInv, Prefix, validateVectors
<1>9. QED
  BY <1>1, <1>2, <1>3, <1>4, <1>5, <1>6, <1>7, <1>8 DEF Next, Call, Engine, OtherAction

\* What was hashed, and what is kept of the vector table, are the caller's bytes.
THEOREM ContentInvariant == Spec => []ContentInv
<1>1. Init => ContentInv
  BY SizesAssumption DEF Init, ContentInv, Prefix, Zeros, ErasePCs
<1>2. QED BY <1>1, StagingInvariant, ContentStep, PTL DEF Spec

\* However the package is cut into chunks: between two calls everything received is
\* written and hashed, or waits in the vectors buffer.
THEOREM StreamIsConsistent == Spec => []StreamConsistent
<1>1. StagingInv /\ ContentInv => StreamConsistent
  BY DEF StagingInv, PositionInv, AtBoundary, ContentInv, StreamConsistent
<1>2. QED BY <1>1, StagingInvariant, ContentInvariant, PTL

-----------------------------------------------------------------------------
(* The flash. *)

\* What is known when the engine erases or writes a block.
FlashAllowed ==
    /\ authenticated
    /\ stream.header.signer = publicKey
    /\ HeaderError(stream.header, expectedPackageSize, publicKey) = "OK"
    /\ vectors = Prefix(stream.body, VectorSize)
    /\ validateVectors(vectors, payloadSize)

\* Before a block is erased or written, every check has been passed.
LEMMA ChecksPassed ==
    ASSUME StagingInv, ContentInv, pc \in {"erase", "vectorsWrite", "dataWrite"}
    PROVE  FlashAllowed
<1>1. authenticated
  BY DEF StagingInv, ControlInv, PayloadPCs, ErasePCs, VectorPCs, DataPCs
<1>2. erased \/ pc \in ErasePCs
  BY DEF StagingInv, PositionInv, ErasePCs, VectorPCs, DataPCs
<1>3. vectorsSize = VectorSize /\ validateVectors(vectors, payloadSize)
  BY <1>2 DEF ContentInv
<1>4. vectors = Prefix(stream.body, VectorSize)
  <2>1. vectors \in [0..(VectorSize - 1) -> Bytes]
    BY DEF StagingInv, TypeOK, Content
  <2>2. \A i \in 0..(VectorSize - 1) : vectors[i] = stream.body[i]
    BY <1>3 DEF ContentInv
  <2>3. vectors = [i \in 0..(VectorSize - 1) |-> stream.body[i]]
    BY <2>1, <2>2
  <2>4. QED BY <2>3 DEF Prefix
<1>5. QED
  BY <1>1, <1>3, <1>4 DEF StagingInv, ControlInv, FlashAllowed

\* Erasing stays inside the payload's range.
LEMMA EraseInside ==
    ASSUME StagingInv, ContentInv, erasePayloadRange
    PROVE  \A i \in 0..(OtaLength - 1) : flash'[i] # flash[i] => i < payloadSize
<1> DEFINE size == Min2(payloadSize - eraseOffset, OTA_STAGING_ERASE_BLOCK_SIZE)
<1>1. authenticated /\ pc = "erase"
  BY DEF erasePayloadRange, StagingInv, ControlInv, PayloadPCs, ErasePCs
<1>2. /\ size \in Nat /\ eraseOffset \in Nat /\ payloadSize \in Nat
      /\ eraseOffset + size <= payloadSize
  BY <1>1, AuthenticatedSizes, SizesAssumption
     DEF StagingInv, TypeOK, PositionInv, ErasePCs, Min2
<1>3. flash' \in {flash, ErasedRange(eraseOffset, size)}
  BY DEF erasePayloadRange
<1> HIDE DEF size
<1>4. ASSUME NEW i \in 0..(OtaLength - 1), ~(i < payloadSize)
      PROVE  ErasedRange(eraseOffset, size)[i] = flash[i]
  BY <1>2, <1>4, SizesAssumption DEF ErasedRange
<1>5. QED BY <1>3, <1>4

\* Writing stays inside the payload's range.
LEMMA WriteInside ==
    ASSUME StagingInv, ContentInv, writePayload
    PROVE  \A i \in 0..(OtaLength - 1) : flash'[i] # flash[i] => i < payloadSize
<1> DEFINE size == Min2(left, OTA_STAGING_WRITE_BLOCK_SIZE)
<1>1. pc \in {"vectorsWrite", "dataWrite"}
  BY DEF writePayload
<1>2. /\ left \in Nat \ {0} /\ writeOffset = payloadWritten /\ payloadWritten \in Nat
      /\ payloadWritten + left <= payloadSize /\ payloadSize \in Nat
  BY <1>1, WriteSizes DEF StagingInv, TypeOK
<1>3. size \in Nat /\ size <= left
  BY <1>2, SizesAssumption DEF Min2
<1>4. \E n \in 0..size, stuck \in SUBSET Int : flash' = Written(n, stuck)
  <2>1. size \in 0..size BY <1>3
  <2>2. ASSUME NEW stuck \in {{}} \cup {{i} : i \in writeOffset..(writeOffset + size - 1)}
        PROVE  stuck \in SUBSET Int
    BY <1>2, <1>3, <2>2
  <2>3. CASE \E stuck \in {{}} \cup {{i} : i \in writeOffset..(writeOffset + size - 1)} :
               flash' = Written(size, stuck)
    BY <2>1, <2>2, <2>3
  <2>4. CASE \E n \in 0..size : flash' = Written(n, {})
    BY <2>4
  <2>5. QED BY <2>3, <2>4 DEF writePayload
<1> HIDE DEF size
<1>5. PICK n \in 0..size, stuck \in SUBSET Int : flash' = Written(n, stuck)
  BY <1>4
<1>6. ASSUME NEW i \in 0..(OtaLength - 1), ~(i < payloadSize)
      PROVE  Written(n, stuck)[i] = flash[i]
  BY <1>2, <1>3, <1>6, SizesAssumption DEF Written
<1>7. QED BY <1>5, <1>6

\* A step that changes the flash is an erase or a write.
LEMMA FlashSteps ==
    ASSUME [Next]_vars, flash' # flash
    PROVE  erasePayloadRange \/ writePayload
<1>1. ~OtherAction BY ContentFrame DEF contentVars
<1>2. ~UNCHANGED vars BY DEF vars
<1>3. ~validateHeader /\ ~acceptPayload /\ ~Crash
  BY DEF validateHeader, acceptPayload, Crash
<1>4. ASSUME NEW size, NEW key, NEW s PROVE ~OTAStagingBegin(size, key, s)
  BY DEF OTAStagingBegin
<1>5. QED
  BY <1>1, <1>2, <1>3, <1>4 DEF Next, Call, Engine, OtherAction

\* The OTA partition is erased and written only for a package that passed the checks
\* on header, signature and vectors, and only where the payload goes, for every
\* package and chunking.
THEOREM FlashAfterChecks == Spec => FlashOnlyAfterChecks
<1>1. ASSUME StagingInv, ContentInv, [Next]_vars, flash' # flash
      PROVE  /\ FlashAllowed
             /\ \A i \in 0..(OtaLength - 1) : flash'[i] # flash[i] => i < payloadSize
  <2>1. erasePayloadRange \/ writePayload
    BY <1>1, FlashSteps
  <2>2. pc \in {"erase", "vectorsWrite", "dataWrite"}
    BY <2>1 DEF erasePayloadRange, writePayload
  <2>3. QED BY <1>1, <2>1, <2>2, ChecksPassed, EraseInside, WriteInside
<1>2. StagingInv /\ ContentInv /\ [Next]_vars =>
        [flash' # flash =>
            /\ authenticated
            /\ stream.header.signer = publicKey
            /\ HeaderError(stream.header, expectedPackageSize, publicKey) = "OK"
            /\ vectors = Prefix(stream.body, VectorSize)
            /\ validateVectors(vectors, payloadSize)
            /\ \A i \in 0..(OtaLength - 1) : flash'[i] # flash[i] => i < payloadSize]_vars
  BY <1>1 DEF FlashAllowed
<1>3. QED
  BY <1>2, StagingInvariant, ContentInvariant, PTL DEF Spec, FlashOnlyAfterChecks

-----------------------------------------------------------------------------
(* The descriptor. *)

\* A block read back adds its part of the descriptor and keeps the rest, wherever
\* the block borders cut it.
LEMMA CaptureContent ==
    ASSUME StagingInv, NEW a \in Nat, NEW n \in Nat \ {0},
           \A i \in 0..(OTA_IMAGE_DESCRIPTOR_SIZE - 1) :
              OTA_IMAGE_DESCRIPTOR_OFFSET + i < a =>
                  descriptor[i] = flash[OTA_IMAGE_DESCRIPTOR_OFFSET + i]
    PROVE  \A i \in 0..(OTA_IMAGE_DESCRIPTOR_SIZE - 1) :
              OTA_IMAGE_DESCRIPTOR_OFFSET + i < a + n =>
                  CaptureDescriptor(a, n)[i] = flash[OTA_IMAGE_DESCRIPTOR_OFFSET + i]
<1> DEFINE start == OTA_IMAGE_DESCRIPTOR_OFFSET
           destination == IF a <= start THEN 0 ELSE a - start
           source == IF a <= start THEN start ELSE a
           copied == IF \/ a <= start /\ a + n > start
                        \/ a > start /\ a < start + OTA_IMAGE_DESCRIPTOR_SIZE
                       THEN Min2(a + n - source, OTA_IMAGE_DESCRIPTOR_SIZE - destination)
                       ELSE 0
<1>1. ASSUME NEW i \in 0..(OTA_IMAGE_DESCRIPTOR_SIZE - 1), start + i < a + n
      PROVE  \/ start + i < a /\ ~(i >= destination /\ i < destination + copied)
             \/ /\ i >= destination /\ i < destination + copied
                /\ source + i - destination = start + i
  BY <1>1, SizesAssumption DEF Min2
<1>2. CaptureDescriptor(a, n) =
        [i \in 0..(OTA_IMAGE_DESCRIPTOR_SIZE - 1) |->
            IF i >= destination /\ i < destination + copied
              THEN flash[source + i - destination] ELSE descriptor[i]]
  BY DEF CaptureDescriptor
<1> HIDE DEF source, destination, copied
<1>3. QED BY <1>1, <1>2

\* Every step keeps what is known of the descriptor.
LEMMA DescriptorStep ==
    ASSUME StagingInv, DescriptorInv, [Next]_vars
    PROVE  DescriptorInv'
<1> DEFINE Reading == pc \in {"readPoll", "read", "publish"}
           Known == \A i \in 0..(OTA_IMAGE_DESCRIPTOR_SIZE - 1) :
                        OTA_IMAGE_DESCRIPTOR_OFFSET + i < payloadVerified =>
                            descriptor[i] = flash[OTA_IMAGE_DESCRIPTOR_OFFSET + i]
<1> USE DEF statusVars, progressVars, sessionVars, givenVars
<1>0. CASE ~Reading' /\ state' # "READY"
  BY <1>0 DEF DescriptorInv, ReadyDescriptorMatches
<1>1. CASE cancelled /\ Reading'
  <2>1. pc = "readPoll" /\ UNCHANGED <<descriptor, payloadVerified, flash, state, stream>>
    BY <1>1, PollCases DEF cancelled, frameVars, fail, Return
  <2>2. QED BY <2>1 DEF DescriptorInv, ReadyDescriptorMatches
<1>2. CASE CheckStreamDigest /\ Reading'
  <2>1. payloadVerified' = 0 /\ state' = "VERIFYING"
    BY <1>2 DEF CheckStreamDigest, StagingInv, VerifiedInv, ActivatePCs, fail, Return
  <2>2. QED BY <2>1, SizesAssumption DEF DescriptorInv, ReadyDescriptorMatches
<1>3. CASE ReadBackBlock /\ Reading'
  <2> DEFINE size == Min2(payloadSize - payloadVerified, OTA_STAGING_READ_BACK_BLOCK_SIZE)
  <2>1. pc = "read" /\ authenticated
    BY <1>3 DEF ReadBackBlock, StagingInv, ControlInv, VerifyPCs
  <2>2. payloadVerified \in Nat /\ size \in Nat \ {0}
    BY <2>1, AuthenticatedSizes, SizesAssumption DEF StagingInv, TypeOK, VerifiedInv, Min2
  <2>3. /\ descriptor' = CaptureDescriptor(payloadVerified, size)
        /\ payloadVerified' = payloadVerified + size
        /\ UNCHANGED <<flash, state, stream>>
    BY <1>3 DEF ReadBackBlock, fail, Return
  <2> HIDE DEF size
  <2>4. Known BY <2>1 DEF DescriptorInv
  <2>5. \A i \in 0..(OTA_IMAGE_DESCRIPTOR_SIZE - 1) :
            OTA_IMAGE_DESCRIPTOR_OFFSET + i < payloadVerified + size =>
                CaptureDescriptor(payloadVerified, size)[i] = flash[OTA_IMAGE_DESCRIPTOR_OFFSET + i]
    BY <2>2, <2>4, CaptureContent
  <2>6. state # "READY"
    BY <2>1 DEF StagingInv, ControlInv
  <2>7. QED BY <2>3, <2>5, <2>6 DEF DescriptorInv, ReadyDescriptorMatches
<1>4. CASE Publish /\ state' = "READY"
  <2>1. /\ pc = "publish" /\ descriptor = stream.header.descriptor /\ pc' = "idle"
        /\ UNCHANGED <<flash, stream>>
    BY <1>4 DEF Publish, PublishError, fail, Return
  <2>2. payloadVerified = payloadSize /\ authenticated
    BY <2>1 DEF StagingInv, VerifiedInv, ControlInv, VerifyPCs
  <2>3. \A i \in 0..(OTA_IMAGE_DESCRIPTOR_SIZE - 1) : OTA_IMAGE_DESCRIPTOR_OFFSET + i < payloadVerified
    BY <2>2, AuthenticatedSizes, SizesAssumption
  <2>4. QED BY <2>1, <2>3 DEF DescriptorInv, ReadyDescriptorMatches
<1>5. CASE OTAStagingAbort /\ Reading'
  BY <1>5 DEF OTAStagingAbort, frameVars, DescriptorInv, ReadyDescriptorMatches
<1>6. CASE UNCHANGED vars
  BY <1>6 DEF vars, frameVars, DescriptorInv, ReadyDescriptorMatches
<1>7. QED
  <2>1. ASSUME Reading' \/ state' = "READY", [Next]_vars, ~UNCHANGED vars
        PROVE  \/ Reading' /\ (cancelled \/ CheckStreamDigest \/ ReadBackBlock \/ OTAStagingAbort)
               \/ state' = "READY" /\ Publish
    <3>1. CASE Call
      BY <2>1, <3>1
         DEF Call, OTAStagingBegin, OTAStagingWritePackage, NullArgument, OTAStagingFinish,
             OTAStagingActivate, fail, Return, StagingInv, ControlInv
    <3>2. CASE CopyHeader \/ CopySignature \/ validateHeader \/ VerifySignature \/ Admission
      BY <2>1, <3>2
         DEF CopyHeader, CopySignature, validateHeader, VerifySignature, Admission, fail,
             Return, StagingInv, ControlInv
    <3>3. CASE \/ acceptPayload \/ erasePayloadRange \/ writePayload
               \/ PayloadAccepted \/ WritePackageReturns
      BY <2>1, <3>3
         DEF acceptPayload, erasePayloadRange, writePayload, PayloadAccepted,
             WritePackageReturns, fail, Return, StagingInv, ControlInv
    <3>4. CASE cancelled \/ CheckStreamDigest \/ ReadBackBlock \/ Publish
      BY <2>1, <3>4
         DEF cancelled, CheckStreamDigest, ReadBackBlock, Publish, fail, Return, StagingInv,
             ControlInv, PollNext
    <3>5. CASE ReadBootTable \/ WriteBootTable \/ CheckCandidate \/ CheckRestore
      BY <2>1, <3>5
         DEF ReadBootTable, WriteBootTable, CheckCandidate, CheckRestore, fail, Return,
             StagingInv, ControlInv
    <3>6. CASE OTAStagingAbort
      <4>1. state' = "CANCELLED"
        BY <3>6 DEF OTAStagingAbort
      <4>2. QED
        BY <2>1, <3>6, <4>1
    <3>7. CASE Crash
      <4>1. state' = "IDLE" /\ pc' = "idle"
        BY <3>7 DEF Crash, Return
      <4>2. QED
        BY <2>1, <4>1
    <3>8. QED
      BY <2>1, <3>1, <3>2, <3>3, <3>4, <3>5, <3>6, <3>7 DEF Next, Engine
  <2>2. QED BY <1>0, <1>1, <1>2, <1>3, <1>4, <1>5, <1>6, <2>1

\* The descriptor in a Ready image is the signed one, however the read-back blocks cut
\* it and whatever the uninitialized buffer held before.
THEOREM DescriptorMatches == Spec => []ReadyDescriptorMatches
<1>1. Init => DescriptorInv
  BY DEF Init, DescriptorInv, ReadyDescriptorMatches
<1>2. Spec => []DescriptorInv
  BY <1>1, StagingInvariant, DescriptorStep, PTL DEF Spec
<1>3. DescriptorInv => ReadyDescriptorMatches BY DEF DescriptorInv
<1>4. QED BY <1>2, <1>3, PTL

-----------------------------------------------------------------------------
(* Steps that neither activate, publish, abort nor restart. *)

StagingAction ==
    \/ \E size \in 0..MaxChunk : OTAStagingWritePackage(size)
    \/ NullArgument \/ OTAStagingFinish
    \/ cancelled
    \/ CopyHeader \/ CopySignature
    \/ validateHeader \/ VerifySignature \/ Admission
    \/ acceptPayload \/ erasePayloadRange \/ writePayload
    \/ PayloadAccepted \/ WritePackageReturns
    \/ CheckStreamDigest \/ ReadBackBlock

\* What such a step may do to the status: nothing, start verifying, or fail
\* with an error that is not one of activation.
StatusStep ==
    \/ UNCHANGED <<state, lastError, ready>>
    \/ /\ pc = "verifying" /\ state' = "VERIFYING" /\ pc' = "readPoll"
       /\ UNCHANGED <<lastError, ready>>
    \/ /\ pc' = "idle" /\ state' \in {"FAILED", "CANCELLED"} /\ lastError' # "ACTIVATION"
       /\ ready' = [ready EXCEPT !.sessionGeneration = 0]
       /\ previous' = NoTable

\* fail(error) for any error but ACTIVATION is a status step.
LEMMA FailStatus ==
    ASSUME NEW e, e # "ACTIVATION", fail(e)
    PROVE  StatusStep
  BY DEF fail, Return, StatusStep

\* The errors of validateHeader are not the error of activation.
LEMMA HeaderErrors ==
    ASSUME StagingInv
    PROVE  HeaderError(stream.header, expectedPackageSize, publicKey) # "ACTIVATION"
  BY DEF HeaderError, StagingInv, TypeOK, HeaderType

\* A staging step leaves the boot tables and the record of activations alone.
LEMMA StagingFrame ==
    ASSUME StagingInv, StagingAction
    PROVE  /\ UNCHANGED <<bootVars, approved, asked, before, aborted, issued>>
           /\ previous' \in {previous, NoTable}
           /\ pc \notin ActivatePCs /\ pc' \notin ActivatePCs
           /\ StatusStep
<1> USE DEF historyVars, frameVars, statusVars, readyVars, ActivatePCs
<1>1. CASE \E size \in 0..MaxChunk : OTAStagingWritePackage(size)
  BY <1>1, FailStatus DEF OTAStagingWritePackage, StatusStep, fail, Return
<1>2. CASE NullArgument
  BY <1>2, FailStatus DEF NullArgument, fail, Return
<1>3. CASE OTAStagingFinish
  BY <1>3, FailStatus DEF OTAStagingFinish, StatusStep, fail, Return
<1>4. CASE cancelled
  BY <1>4, FailStatus, PollCases DEF cancelled, StatusStep, fail, Return
<1>5. CASE CopyHeader \/ CopySignature
  BY <1>5 DEF CopyHeader, CopySignature, StatusStep
<1>6. CASE validateHeader
  BY <1>6, FailStatus, HeaderErrors DEF validateHeader, StatusStep, fail, Return
<1>7. CASE VerifySignature
  BY <1>7, FailStatus DEF VerifySignature, SignatureError, StatusStep, fail, Return
<1>8. CASE Admission
  BY <1>8, FailStatus DEF Admission, StatusStep, fail, Return
<1>9. CASE acceptPayload
  BY <1>9, FailStatus DEF acceptPayload, StatusStep, fail, Return
<1>10. CASE erasePayloadRange
  BY <1>10, FailStatus DEF erasePayloadRange, StatusStep, fail, Return
<1>11. CASE writePayload
  BY <1>11, FailStatus DEF writePayload, StatusStep, fail, Return
<1>12. CASE PayloadAccepted \/ WritePackageReturns
  BY <1>12 DEF PayloadAccepted, WritePackageReturns, StatusStep, Return
<1>13. CASE CheckStreamDigest
  BY <1>13, FailStatus DEF CheckStreamDigest, StatusStep, fail, Return
<1>14. CASE ReadBackBlock
  BY <1>14, FailStatus DEF ReadBackBlock, StatusStep, fail, Return
<1>15. QED
  BY <1>1, <1>2, <1>3, <1>4, <1>5, <1>6, <1>7, <1>8, <1>9, <1>10, <1>11, <1>12, <1>13,
     <1>14 DEF StagingAction

-----------------------------------------------------------------------------
(* The activation invariant. *)

\* Staging steps preserve it: no activation is in progress.
LEMMA StagingKeepsActivation ==
    ASSUME StagingInv, ActivationInv, StagingAction
    PROVE  ActivationInv'
<1> USE StagingFrame DEF bootVars, StatusStep, ActivationInv, ActivatePCs
<1>1. state' # "ACTIVATING" /\ pc \notin ActivatePCs /\ pc' \notin ActivatePCs
  BY DEF StagingInv, ControlInv
<1>2. state' = "ACTIVATED" => pc = "idle" /\ state = "ACTIVATED"
  BY DEF StagingInv, ControlInv
<1>3. ~(pc = "idle" /\ state = "ACTIVATED")
  BY DEF StagingInv, ControlInv, StagingAction, OTAStagingWritePackage, NullArgument,
         OTAStagingFinish, cancelled, PollNext, CopyHeader, CopySignature, validateHeader,
         VerifySignature, Admission, acceptPayload, erasePayloadRange, writePayload,
         PayloadAccepted, WritePackageReturns, CheckStreamDigest, ReadBackBlock
<1>4. lastError' # "ACTIVATION"
  <2>1. lastError # "ACTIVATION"
    BY DEF StagingAction, OTAStagingWritePackage, NullArgument,
         OTAStagingFinish, cancelled, PollNext, CopyHeader, CopySignature, validateHeader,
         VerifySignature, Admission, acceptPayload, erasePayloadRange, writePayload,
         PayloadAccepted, WritePackageReturns, CheckStreamDigest, ReadBackBlock
  <2>2. QED BY <2>1
<1>5. QED
  BY <1>1, <1>2, <1>3, <1>4 DEF FailedActivationHarmless

\* Every step preserves the activation invariant.
LEMMA ActivationStep ==
    ASSUME StagingInv, ActivationInv, [Next]_vars
    PROVE  ActivationInv'
<1> USE DEF statusVars, readyVars, bootVars, historyVars, ActivatePCs
<1>1. CASE StagingAction
  BY <1>1, StagingKeepsActivation
<1>2. ASSUME NEW size, NEW key, NEW s, OTAStagingBegin(size, key, s) PROVE ActivationInv'
  BY <1>2 DEF OTAStagingBegin, ActivationInv, FailedActivationHarmless
<1>3. ASSUME NEW g, NEW d, OTAStagingActivate(g, d) PROVE ActivationInv'
  BY <1>3 DEF OTAStagingActivate, ActivationInv, FailedActivationHarmless, StagingInv, TypeOK
<1>4. CASE Publish
  <2>1. lastError' # "ACTIVATION" /\ state' \notin {"ACTIVATING", "ACTIVATED"} /\ pc' = "idle"
    BY <1>4 DEF Publish, PublishError, fail, Return
  <2>2. QED BY <2>1 DEF ActivationInv, FailedActivationHarmless
<1>5. CASE ReadBootTable
  <2>1. UNCHANGED <<bootVars, before, asked, approved>>
    BY <1>5 DEF ReadBootTable
  <2>2. CASE fail("ACTIVATION")
    BY <1>5, <2>1, <2>2
       DEF ReadBootTable, fail, Return, ActivationInv, FailedActivationHarmless
  <2>3. CASE previous' = bootTable /\ pc' = "writeCandidate" /\ UNCHANGED <<statusVars, readyVars>>
    BY <1>5, <2>1, <2>3
       DEF ReadBootTable, ActivationInv, FailedActivationHarmless, StagingInv, ControlInv
  <2>4. QED BY <1>5, <2>2, <2>3 DEF ReadBootTable
<1>6. CASE WriteBootTable
  BY <1>6 DEF WriteBootTable, frameVars, ActivationInv, FailedActivationHarmless, StagingInv, ControlInv
<1>7. CASE CheckCandidate
  <2>1. UNCHANGED <<bootVars, before, asked, approved, sessionVars>>
    BY <1>7 DEF CheckCandidate
  <2>2. CASE PersistedIs(Candidate) /\ state' = "ACTIVATED" /\ lastError' = "OK"
             /\ UNCHANGED readyVars /\ Return
    BY <1>7, <2>1, <2>2
       DEF CheckCandidate, PersistedIs, Candidate, Return, ActivationInv, Copies,
           FailedActivationHarmless, StagingInv, ControlInv, sessionVars, headerVars
  <2>3. CASE pc' = "restore" /\ UNCHANGED <<statusVars, readyVars, frameVars>>
    BY <1>7, <2>1, <2>3
       DEF CheckCandidate, frameVars, ActivationInv, FailedActivationHarmless, StagingInv, ControlInv
  <2>4. QED BY <1>7, <2>2, <2>3 DEF CheckCandidate
<1>8. CASE CheckRestore
  <2>1. UNCHANGED <<bootVars, before>> /\ pc = "checkRestore"
    BY <1>8 DEF CheckRestore
  <2>2. CASE PersistedIs(previous) /\ fail("ACTIVATION")
    BY <2>1, <2>2
       DEF PersistedIs, fail, Return, Copies, ActivationInv, FailedActivationHarmless
  <2>3. CASE fail("ACTIVATION_UNCERTAIN")
    BY <2>1, <2>3 DEF fail, Return, ActivationInv, FailedActivationHarmless
  <2>4. QED BY <1>8, <2>2, <2>3 DEF CheckRestore
<1>9. CASE OTAStagingAbort
  BY <1>9 DEF OTAStagingAbort, frameVars, ActivationInv, FailedActivationHarmless, StagingInv, ControlInv,
     PollNext
<1>10. CASE Crash
  BY <1>10 DEF Crash, Return, ActivationInv, FailedActivationHarmless
<1>11. CASE UNCHANGED vars
  BY <1>11 DEF vars, frameVars, sessionVars, headerVars, ActivationInv, FailedActivationHarmless, Candidate
<1>12. QED
  BY <1>1, <1>2, <1>3, <1>4, <1>5, <1>6, <1>7, <1>8, <1>9, <1>10, <1>11
     DEF Next, Call, Engine, StagingAction

\* The activation invariant holds in every behaviour of the engine.
THEOREM ActivationInvariant == Spec => []ActivationInv
<1>1. Init => ActivationInv
  BY DEF Init, ActivationInv, FailedActivationHarmless, ActivatePCs
<1>2. QED BY <1>1, StagingInvariant, ActivationStep, PTL DEF Spec

\* Activated is durable, for every image, partition and sequence of sessions, faults
\* and crashes: the caller's image is in the partition and both copies name it.
THEOREM ActivationDurable == Spec => []ActivatedDurable
<1>1. StagingInv /\ ActivationInv => ActivatedDurable
  BY DEF StagingInv, VerifiedInv, ActivationInv, ActivatedDurable, Candidate
<1>2. QED BY <1>1, StagingInvariant, ActivationInvariant, PTL

\* OTA_ERROR_ACTIVATION is returned only with the previous entry in place, whatever
\* the earlier sessions left in RAM and in the copies.
THEOREM ActivationFailsHarmlessly == Spec => []FailedActivationHarmless
<1>1. ActivationInv => FailedActivationHarmless BY DEF ActivationInv
<1>2. QED BY <1>1, ActivationInvariant, PTL

-----------------------------------------------------------------------------
(* What the bootloader finds. *)

\* An entry stays approved when more images are approved.
LEMMA ApprovedMonotone ==
    ASSUME NEW table, ApprovedEntry(table), approved \subseteq approved'
    PROVE  ApprovedEntry(table)'
  BY DEF ApprovedEntry

\* No entry, and a torn one, name no image.
LEMMA NoEntry == ApprovedEntry(NoTable) /\ ApprovedEntry(TornTable)
  BY DEF ApprovedEntry, NoTable, TornTable

\* The first n bytes of the partition are a content of length n.
LEMMA FlashPrefix ==
    ASSUME StagingInv, NEW n \in 0..OtaLength
    PROVE  Prefix(flash, n) \in Content(n)
<1>1. ASSUME NEW i \in 0..(n - 1) PROVE flash[i] \in Bytes
  BY <1>1, SizesAssumption DEF StagingInv, TypeOK, Content
<1>2. QED BY <1>1 DEF Content, Prefix

\* The candidate entry names the image in the partition, whose digest the caller of
\* OTAStagingActivate gave.
LEMMA CandidateApproved ==
    ASSUME StagingInv, ActivationInv, state = "ACTIVATING"
    PROVE  ApprovedEntry(Candidate)
<1>1. payloadSize \in 1..OtaLength
  BY AuthenticatedSizes, SizesAssumption DEF StagingInv, ControlInv
<1>2. Prefix(flash, payloadSize) \in Content(payloadSize)
  BY <1>1, FlashPrefix, SizesAssumption
<1>3. Sha(Prefix(flash, payloadSize)) \in approved /\ Crc(Prefix(flash, payloadSize)) = ready.crc16
  BY DEF StagingInv, VerifiedInv, ActivationInv
<1>4. QED BY <1>1, <1>2, <1>3 DEF ApprovedEntry, Candidate

\* Every step keeps the entries approved.
LEMMA EntriesStep ==
    ASSUME StagingInv, ActivationInv, EntriesInv, [Next]_vars
    PROVE  EntriesInv'
<1> USE DEF historyVars, bootVars
<1>0. ASSUME approved \subseteq approved', bootTable' \in {bootTable, previous, NoTable},
             previous' \in {previous, bootTable, NoTable},
             \A c \in Copies : persisted'[c] \in {persisted[c], NoTable}
      PROVE  EntriesInv'
  BY <1>0, ApprovedMonotone, NoEntry DEF EntriesInv, ApprovedEntry
<1>1. CASE StagingAction
  BY <1>0, <1>1, StagingFrame
<1>2. ASSUME NEW size, NEW key, NEW s, OTAStagingBegin(size, key, s) PROVE EntriesInv'
  BY <1>0, <1>2 DEF OTAStagingBegin, frameVars
<1>3. ASSUME NEW g, NEW d, OTAStagingActivate(g, d) PROVE EntriesInv'
  BY <1>0, <1>3 DEF OTAStagingActivate, frameVars
<1>4. CASE Publish
  BY <1>0, <1>4 DEF Publish, fail, Return
<1>5. CASE ReadBootTable
  BY <1>0, <1>5 DEF ReadBootTable, fail, Return
<1>6. CASE WriteBootTable
  <2> DEFINE table == IF pc = "writeCandidate" THEN Candidate ELSE previous
  <2>1. ApprovedEntry(table)
    BY <1>6, CandidateApproved
       DEF WriteBootTable, EntriesInv, StagingInv, ControlInv, ActivatePCs
  <2>2. /\ bootTable' = table
        /\ \A c \in Copies : persisted'[c] \in {table, TornTable, persisted[c]}
        /\ UNCHANGED <<approved, previous>>
    BY <1>6 DEF WriteBootTable, frameVars
  <2> HIDE DEF table
  <2>3. QED BY <2>1, <2>2, NoEntry DEF EntriesInv, ApprovedEntry
<1>7. CASE CheckCandidate
  BY <1>0, <1>7 DEF CheckCandidate, Return, frameVars
<1>8. CASE CheckRestore
  BY <1>0, <1>8 DEF CheckRestore, fail, Return
<1>9. CASE OTAStagingAbort
  BY <1>0, <1>9 DEF OTAStagingAbort, frameVars
<1>10. CASE Crash
  <2>1. PICK c \in Copies : bootTable' \in {NoTable, persisted[c]}
    BY <1>10 DEF Crash
  <2>2. \A k \in Copies : persisted'[k] \in {persisted[k], NoTable}
    BY <1>10 DEF Crash
  <2>3. UNCHANGED approved /\ previous' = NoTable
    BY <1>10 DEF Crash, Return
  <2>4. QED BY <2>1, <2>2, <2>3, NoEntry DEF EntriesInv, ApprovedEntry
<1>11. CASE UNCHANGED vars
  BY <1>0, <1>11 DEF vars, frameVars
<1>12. QED
  BY <1>1, <1>2, <1>3, <1>4, <1>5, <1>6, <1>7, <1>8, <1>9, <1>10, <1>11
     DEF Next, Call, Engine, StagingAction

\* Power may fail at any time: whatever boot entry the bootloader then finds has the
\* length and the CRC of an image whose activation the application asked for.
THEOREM EntriesApproved == Spec => []EntriesInv
<1>1. Init => EntriesInv
  BY NoEntry DEF Init, EntriesInv, ApprovedEntry, Copies, NoTable
<1>2. QED BY <1>1, StagingInvariant, ActivationInvariant, EntriesStep, PTL DEF Spec

\* What a power-up does to the installed image.
LEMMA PowerUpInstalls ==
    ASSUME CrcTellsApart, StagingInv, EntriesInv, Crash
    PROVE  \/ UNCHANGED installed
           \/ installed'.length # 0 /\ Sha(installed'.content) \in approved
<1>1. PICK c \in Copies :
        \/ UNCHANGED installed
        \/ /\ Installable(persisted[c])
           /\ installed' = [length |-> persisted[c].length,
                            content |-> Prefix(flash, persisted[c].length)]
  BY DEF Crash
<1> DEFINE n == persisted[c].length
<1>2. CASE Installable(persisted[c]) /\ installed' = [length |-> n, content |-> Prefix(flash, n)]
  <2>1. n \in 1..OtaLength
    BY <1>2 DEF Installable, EntriesInv, ApprovedEntry
  <2>2. PICK d \in Content(n) : Crc(d) = persisted[c].crc16 /\ Sha(d) \in approved
    BY <1>2 DEF Installable, EntriesInv, ApprovedEntry
  <2>3. Prefix(flash, n) \in Content(n) /\ Crc(Prefix(flash, n)) = persisted[c].crc16
    BY <1>2, <2>1, FlashPrefix, SizesAssumption DEF Installable
  <2>4. Sha(Prefix(flash, n)) = Sha(d)
    BY <2>1, <2>2, <2>3 DEF CrcTellsApart
  <2>5. QED BY <1>2, <2>1, <2>2, <2>4
<1>3. QED BY <1>1, <1>2

\* Only power-up changes the installed image, and approval is never taken back.
LEMMA InstalledFrame ==
    ASSUME StagingInv, [Next]_vars, ~Crash
    PROVE  UNCHANGED installed /\ approved \subseteq approved'
<1> USE DEF historyVars, bootVars
<1>1. CASE StagingAction
  BY <1>1, StagingFrame
<1>2. CASE ~StagingAction
  BY <1>2
     DEF Next, Call, Engine, StagingAction, OTAStagingBegin, OTAStagingActivate, Publish,
         ReadBootTable, WriteBootTable, CheckCandidate, CheckRestore, OTAStagingAbort, vars
<1>3. QED BY <1>1, <1>2

\* Whenever power fails, the bootloader installs only an image whose digest the
\* application passed to an accepted OTAStagingActivate - as long as the partition never
\* has the CRC of an approved image, all the bootloader checks, and other contents.
THEOREM InstalledApproved == Spec /\ []CrcTellsApart => []InstalledWasApproved
<1>1. Init => InstalledWasApproved
  BY DEF Init, InstalledWasApproved
<1>2. ASSUME StagingInv, EntriesInv, CrcTellsApart, InstalledWasApproved, [Next]_vars
      PROVE  InstalledWasApproved'
  <2>1. CASE Crash
    <3>1. UNCHANGED approved BY <2>1 DEF Crash
    <3>2. QED BY <1>2, <2>1, <3>1, PowerUpInstalls DEF InstalledWasApproved
  <2>2. CASE ~Crash
    BY <1>2, <2>2, InstalledFrame DEF InstalledWasApproved
  <2>3. QED BY <2>1, <2>2
<1>3. QED BY <1>1, <1>2, StagingInvariant, EntriesApproved, PTL DEF Spec

-----------------------------------------------------------------------------
(* Sessions whose callbacks do not abort them, and the contract. *)

\* A staging step moves pc and state together.
LEMMA StagingSession ==
    ASSUME StagingInv, SessionInv, StagingAction
    PROVE  SessionInv'
<1> USE DEF SessionInv, historyVars, statusVars, readyVars, ActivatePCs
<1>0. ASSUME NEW e, fail(e), UNCHANGED aborted, ~aborted PROVE SessionInv'
  BY <1>0 DEF fail, Return
<1>1. CASE \E size \in 0..MaxChunk : OTAStagingWritePackage(size)
  BY <1>0, <1>1 DEF OTAStagingWritePackage
<1>2. CASE NullArgument
  BY <1>0, <1>2 DEF NullArgument
<1>3. CASE OTAStagingFinish
  BY <1>0, <1>3 DEF OTAStagingFinish
<1>4. CASE cancelled
  BY <1>0, <1>4, PollCases DEF cancelled
<1>5. CASE CopyHeader \/ CopySignature
  BY <1>5 DEF CopyHeader, CopySignature
<1>6. CASE validateHeader
  BY <1>0, <1>6 DEF validateHeader
<1>7. CASE VerifySignature
  BY <1>0, <1>7 DEF VerifySignature
<1>8. CASE Admission
  BY <1>0, <1>8 DEF Admission
<1>9. CASE acceptPayload
  BY <1>0, <1>9 DEF acceptPayload
<1>10. CASE erasePayloadRange
  BY <1>0, <1>10 DEF erasePayloadRange
<1>11. CASE writePayload
  BY <1>0, <1>11 DEF writePayload
<1>12. CASE PayloadAccepted \/ WritePackageReturns
  BY <1>12 DEF PayloadAccepted, WritePackageReturns, Return
<1>13. CASE CheckStreamDigest
  BY <1>0, <1>13 DEF CheckStreamDigest
<1>14. CASE ReadBackBlock
  BY <1>0, <1>14 DEF ReadBackBlock
<1>15. QED
  BY <1>1, <1>2, <1>3, <1>4, <1>5, <1>6, <1>7, <1>8, <1>9, <1>10, <1>11, <1>12, <1>13,
     <1>14 DEF StagingAction

\* Without aborts from callbacks, every step keeps pc and state together.
LEMMA SessionStep ==
    ASSUME ~CallbackAborts, StagingInv, SessionInv, [Next]_vars
    PROVE  SessionInv'
<1> USE DEF SessionInv, historyVars, statusVars, ActivatePCs
<1>1. CASE StagingAction
  BY <1>1, StagingSession
<1>2. ASSUME NEW size, NEW key, NEW s, OTAStagingBegin(size, key, s) PROVE SessionInv'
  BY <1>2 DEF OTAStagingBegin, ResetSession
<1>3. ASSUME NEW g, NEW d, OTAStagingActivate(g, d) PROVE SessionInv'
  BY <1>3 DEF OTAStagingActivate
<1>4. CASE Publish
  BY <1>4 DEF Publish, fail, Return
<1>5. CASE ReadBootTable \/ WriteBootTable \/ CheckCandidate \/ CheckRestore
  BY <1>5 DEF ReadBootTable, WriteBootTable, CheckCandidate, CheckRestore, fail, Return
<1>6. CASE OTAStagingAbort
  BY <1>6 DEF OTAStagingAbort
<1>7. CASE Crash
  BY <1>7 DEF Crash, ResetSession, Return
<1>8. CASE UNCHANGED vars
  BY <1>8 DEF vars
<1>9. QED
  BY <1>1, <1>2, <1>3, <1>4, <1>5, <1>6, <1>7, <1>8
     DEF Next, Call, Engine, StagingAction

\* The session invariant, when no callback aborts the session it is called from.
LEMMA SessionInvariant ==
    ASSUME ~CallbackAborts PROVE Spec => []SessionInv
<1>1. Init => SessionInv
  BY DEF Init, SessionInv, ActivatePCs
<1>2. StagingInv /\ SessionInv /\ [Next]_vars => SessionInv'
  BY ~CallbackAborts, SessionStep
<1>3. QED BY <1>1, <1>2, StagingInvariant, PTL DEF Spec

\* An aborted session is never published or activated, provided OTAStagingAbort is
\* not called from a callback (run ota_callback_abort shows what happens then).
THEOREM AbortedStaysAborted ==
    ASSUME ~CallbackAborts PROVE Spec => []AbortIsFinal
<1>1. SessionInv => AbortIsFinal BY DEF SessionInv, AbortIsFinal
<1>2. QED BY <1>1, SessionInvariant, PTL

\* Every step of the engine is a step of the contract or invisible to it.
LEMMA ContractStep ==
    ASSUME ~CallbackAborts, CrcTellsApart, StagingInv, EntriesInv, SessionInv, [Next]_vars
    PROVE  [Contract!ContractNext]_(Contract!contractVars)
<1> DEFINE running == IF installed.length = 0 THEN ZeroDigest ELSE Sha(installed.content)
<1> USE DEF historyVars, statusVars, readyVars, bootVars
<1>0. ASSUME UNCHANGED <<state, approved, installed>>, state = "READY" => UNCHANGED ready
      PROVE  UNCHANGED Contract!contractVars
  BY <1>0 DEF Contract!contractVars
<1>1. ASSUME state \in {"RECEIVING", "VERIFYING", "READY", "ACTIVATING"},
             state' \in IF state = "ACTIVATING" THEN {"FAILED"} ELSE {"FAILED", "CANCELLED"},
             UNCHANGED <<approved, installed>>
      PROVE  Contract!Drop
  BY <1>1 DEF Contract!Drop
<1>2. CASE StagingAction
  <2>1. UNCHANGED <<approved, installed>> /\ StatusStep /\ pc \notin ActivatePCs
    BY <1>2, StagingFrame
  <2>2. state \in {"RECEIVING", "VERIFYING"}
    BY <1>2
       DEF StagingAction, SessionInv, ActivatePCs, OTAStagingWritePackage, NullArgument,
           OTAStagingFinish, cancelled, PollNext, CopyHeader, CopySignature,
           validateHeader, VerifySignature, Admission, acceptPayload, erasePayloadRange,
           writePayload, PayloadAccepted, WritePackageReturns, CheckStreamDigest,
           ReadBackBlock
  <2>3. CASE UNCHANGED state
    BY <1>0, <2>1, <2>2, <2>3
  <2>4. CASE pc = "verifying" /\ state' = "VERIFYING"
    BY <2>1, <2>4 DEF SessionInv, ActivatePCs, Contract!ContractNext, Contract!Verify
  <2>5. CASE state' \in {"FAILED", "CANCELLED"}
    BY <1>1, <2>1, <2>2, <2>5 DEF Contract!ContractNext
  <2>6. QED BY <2>1, <2>3, <2>4, <2>5 DEF StatusStep
<1>3. ASSUME NEW size, NEW key, NEW s, OTAStagingBegin(size, key, s)
      PROVE  Contract!Open
  BY <1>3 DEF OTAStagingBegin, Contract!Open, StagingInv, TypeOK, States
<1>4. ASSUME NEW g, NEW d, OTAStagingActivate(g, d) PROVE Contract!Attempt
  BY <1>4 DEF OTAStagingActivate, Contract!Attempt
<1>5. CASE Publish
  <2>1. state = "VERIFYING" BY <1>5 DEF Publish, SessionInv
  <2>2. CASE PublishError # "OK"
    <3>1. fail(PublishError) /\ UNCHANGED <<approved, installed>>
      BY <1>5, <2>2 DEF Publish
    <3>2. QED BY <1>1, <2>1, <3>1 DEF fail, Contract!ContractNext
  <2>3. CASE PublishError = "OK"
    <3>1. /\ state' = "READY" /\ ready'.sha256 = Sha(readBack)
          /\ UNCHANGED <<approved, installed>>
      BY <1>5, <2>3 DEF Publish
    <3>2. ready'.sha256 \in Digests
      BY <1>5, PublishStep DEF StagingInv, TypeOK
    <3>3. Contract!Certify
      BY <2>1, <3>1, <3>2 DEF Contract!Certify
    <3>4. QED BY <3>3 DEF Contract!ContractNext
  <2>4. QED BY <2>2, <2>3
<1>6. CASE ReadBootTable \/ WriteBootTable \/ CheckCandidate \/ CheckRestore
  <2>1. state = "ACTIVATING" /\ UNCHANGED <<approved, installed>>
    BY <1>6
       DEF ReadBootTable, WriteBootTable, CheckCandidate, CheckRestore, StagingInv,
           ControlInv, ActivatePCs
  <2>2. state' \in {"ACTIVATING", "FAILED", "ACTIVATED"}
    BY <1>6, <2>1 DEF ReadBootTable, WriteBootTable, CheckCandidate, CheckRestore, fail
  <2>3. CASE state' = "ACTIVATING"
    BY <1>0, <2>1, <2>3
  <2>4. CASE state' = "FAILED"
    BY <1>1, <2>1, <2>4 DEF Contract!ContractNext
  <2>5. CASE state' = "ACTIVATED"
    BY <2>1, <2>5 DEF Contract!ContractNext, Contract!Commit
  <2>6. QED BY <2>2, <2>3, <2>4, <2>5
<1>7. CASE OTAStagingAbort
  BY <1>1, <1>7 DEF OTAStagingAbort, Contract!ContractNext
<1>8. CASE Crash
  <2>1. state' = "IDLE" /\ UNCHANGED approved
    BY <1>8 DEF Crash
  <2>2. running' \in {running} \cup approved
    BY <1>8, PowerUpInstalls
  <2>3. QED BY <2>1, <2>2 DEF Contract!ContractNext, Contract!PowerUp
<1>9. CASE UNCHANGED vars
  BY <1>0, <1>9 DEF vars
<1>10. QED
  BY <1>2, <1>3, <1>4, <1>5, <1>6, <1>7, <1>8, <1>9
     DEF Next, Call, Engine, StagingAction, Contract!ContractNext

\* The engine implements its contract, for every package, chunking, fault and crash:
\* only a verified session is certified, only a certified image is activated, once,
\* and only such an image is installed (under the two conditions of the theorems above).
THEOREM StagingImplementsContract ==
    ASSUME ~CallbackAborts PROVE Spec /\ []CrcTellsApart => ImplementsContract
<1>1. Init => Contract!ContractInit
  BY DEF Init, Contract!ContractInit
<1>2. CrcTellsApart /\ StagingInv /\ EntriesInv /\ SessionInv /\ [Next]_vars
        => [Contract!ContractNext]_(Contract!contractVars)
  BY ~CallbackAborts, ContractStep
<1>3. Spec => []SessionInv BY ~CallbackAborts, SessionInvariant
<1>4. QED
  BY <1>1, <1>2, <1>3, StagingInvariant, EntriesApproved, PTL
     DEF Spec, ImplementsContract, Contract!ContractSpec

=============================================================================
