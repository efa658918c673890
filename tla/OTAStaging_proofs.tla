------------------------- MODULE OTAStaging_proofs -------------------------
(***************************************************************************)
(* The engine's inductive invariant StagingInv, proved for every value of  *)
(* the constants, and what follows from it: TypeOK and ReadyImageAuthentic.*)
(* One lemma per action; in it, one step per conjunct of the invariant.    *)
(***************************************************************************)
EXTENDS OTAStaging, TLAPS

-----------------------------------------------------------------------------
(* Facts about the helpers. *)
\* The values memset leaves behind are well typed.
LEMMA ZeroTypes ==
    /\ Zeros(0) \in Content(0)
    /\ Zeros(VectorSize) \in Content(VectorSize)
    /\ NoReady \in [sessionGeneration: 0..(GenerationLimit - 1), payloadSize: Nat,
                    crc16: Crcs, sha256: Digests]
    /\ NoTable \in BootTables
    /\ [c \in Copies |-> NoTable] \in [Copies -> BootTables]
  BY SizesAssumption, DataAssumption DEF Zeros, Content, NoReady, NoTable, BootTables

\* What a header that passes the static checks of validateHeader guarantees.
LEMMA HeaderOK ==
    ASSUME NEW h \in HeaderType, NEW s \in Nat, NEW k, HeaderError(h, s, k) = "OK"
    PROVE  /\ h.payloadSize \in Nat \ {0}
           /\ h.payloadSize >= OTA_IMAGE_DESCRIPTOR_OFFSET + OTA_IMAGE_DESCRIPTOR_SIZE
           /\ h.payloadSize <= OtaLength
           /\ h.payloadSize + OTA_PACKAGE_PAYLOAD_OFFSET = s
  BY SizesAssumption DEF HeaderError, HeaderType, OTA_PACKAGE_PAYLOAD_OFFSET

\* The stack frame a returning call leaves is well typed.
LEMMA ReturnTypes ==
    ASSUME Return
    PROVE  /\ pc' = "idle" /\ pc' \in PCs
           /\ remaining' = 0 /\ eraseOffset' = 0
           /\ accepted' \in Nat /\ todo' \in Nat /\ left' \in Nat
           /\ descriptor' \in Content(OTA_IMAGE_DESCRIPTOR_SIZE)
           /\ previous' \in BootTables
  BY SizesAssumption, DataAssumption DEF Return, PCs, Content, BootTables, NoTable, Zeros

\* fail(error) ends the call in Failed or Cancelled and invalidates the result.
LEMMA FailTypes ==
    ASSUME TypeOK, NEW e, fail(e)
    PROVE  /\ Return
           /\ state' \in {"FAILED", "CANCELLED"} /\ state' \in States
           /\ ready' \in [sessionGeneration: 0..(GenerationLimit - 1), payloadSize: Nat,
                          crc16: Crcs, sha256: Digests]
           /\ nextGeneration' = nextGeneration
  BY SizesAssumption, DataAssumption DEF fail, TypeOK, States

\* A call that fails preserves the invariant: nothing is claimed any more about
\* position and read-back, and what authentication established still holds.
LEMMA FailStep ==
    ASSUME StagingInv, NEW e, fail(e),
           UNCHANGED <<givenVars, authenticated, progressVars, payloadSha, bootVars, aborted>>,
           payloadSize' \in Nat, authenticated => UNCHANGED payloadSize,
           vectors' \in Content(VectorSize), vectorsSize' \in 0..VectorSize,
           writeOffset' \in 0..OtaLength, erased' \in BOOLEAN,
           flash' \in Content(OtaLength)
    PROVE  StagingInv'
<1>1. pc' = "idle" /\ state' \in {"FAILED", "CANCELLED"}
  BY FailTypes, ReturnTypes DEF StagingInv
<1>2. TypeOK'
  BY SizesAssumption, FailTypes, ReturnTypes
     DEF StagingInv, TypeOK, givenVars, progressVars, bootVars
<1>3. ControlInv'
  BY <1>1, FailTypes, ReturnTypes
     DEF StagingInv, ControlInv, AtBoundary, PayloadPCs, ErasePCs, VectorPCs,
              DataPCs, VerifyPCs, ActivatePCs, HeaderError, givenVars
<1>4. PositionInv'
  BY <1>1 DEF PositionInv, AtBoundary, PayloadPCs, ErasePCs, VectorPCs, DataPCs
<1>5. VerifiedInv'
  BY <1>1 DEF VerifiedInv, ActivatePCs
<1>6. QED BY <1>2, <1>3, <1>4, <1>5 DEF StagingInv

\* cancelled() is called at eight places, each with one continuation.
LEMMA PollCases ==
    ASSUME pc \in DOMAIN PollNext
    PROVE  \/ pc = "writePoll" /\ PollNext[pc] = "stream"
           \/ pc = "verifyPoll" /\ PollNext[pc] = "verify"
           \/ pc = "admitPoll" /\ PollNext[pc] = "admit"
           \/ pc = "erasePoll" /\ PollNext[pc] = "erase"
           \/ pc = "vectorsPoll" /\ PollNext[pc] = "vectorsWrite"
           \/ pc = "dataPoll" /\ PollNext[pc] = "dataWrite"
           \/ pc = "finishPoll" /\ PollNext[pc] = "verifying"
           \/ pc = "readPoll" /\ PollNext[pc] = "read"
  BY DEF PollNext

\* What ResetSession leaves behind is well typed.
LEMMA ResetTypes ==
    ASSUME ResetSession
    PROVE  /\ packageReceived' = 0
           /\ payloadWritten' \in 0..OtaLength /\ payloadVerified' \in 0..OtaLength
           /\ payloadSize' \in Nat /\ writeOffset' \in 0..OtaLength
           /\ authenticated' \in BOOLEAN /\ erased' \in BOOLEAN /\ aborted' \in BOOLEAN
           /\ vectors' \in Content(VectorSize) /\ vectorsSize' \in 0..VectorSize
           /\ payloadSha' \in Content(payloadWritten')
           /\ ready' \in [sessionGeneration: 0..(GenerationLimit - 1), payloadSize: Nat,
                          crc16: Crcs, sha256: Digests]
<1>1. payloadSha' \in Content(payloadWritten')
  <2>1. payloadSha' = Zeros(0) /\ payloadWritten' = 0 BY DEF ResetSession
  <2>2. QED BY <2>1, ZeroTypes
<1>2. ready' \in [sessionGeneration: 0..(GenerationLimit - 1), payloadSize: Nat,
                   crc16: Crcs, sha256: Digests]
  BY ZeroTypes DEF ResetSession
<1>3. vectors' \in Content(VectorSize)
  BY ZeroTypes DEF ResetSession
<1>4. /\ packageReceived' = 0
      /\ payloadWritten' \in 0..OtaLength /\ payloadVerified' \in 0..OtaLength
      /\ payloadSize' \in Nat /\ writeOffset' \in 0..OtaLength
      /\ vectorsSize' \in 0..VectorSize
  BY SizesAssumption DEF ResetSession
<1>5. authenticated' \in BOOLEAN /\ erased' \in BOOLEAN /\ aborted' \in BOOLEAN
  BY DEF ResetSession
<1>6. QED BY <1>1, <1>2, <1>3, <1>4, <1>5

\* In an authenticated session the payload is not empty, fits the partition and
\* fills the declared package.
LEMMA AuthenticatedSizes ==
    ASSUME StagingInv, authenticated
    PROVE  /\ payloadSize \in Nat \ {0}
           /\ payloadSize >= OTA_IMAGE_DESCRIPTOR_OFFSET + OTA_IMAGE_DESCRIPTOR_SIZE
           /\ payloadSize <= OtaLength
           /\ payloadSize + OTA_PACKAGE_PAYLOAD_OFFSET = expectedPackageSize
  BY HeaderOK DEF StagingInv, TypeOK, ControlInv

-----------------------------------------------------------------------------
(* One lemma per action of Next. *)
\* Begin: a fresh session claims nothing.
LEMMA OTAStagingBeginStep ==
    ASSUME StagingInv, NEW size \in PackageSizes, NEW key \in Keys,
           NEW h \in Headers, NEW b \in Bodies,
           OTAStagingBegin(size, key, [header |-> h, body |-> b])
    PROVE  StagingInv'
<1>1. TypeOK'
  <2>1. stream' \in [header: HeaderType, body: Content(OtaLength)]
    BY DataAssumption DEF OTAStagingBegin
  <2>2. /\ remaining' \in 0..(expectedPackageSize' - packageReceived')
        /\ packageReceived' \in 0..expectedPackageSize'
        /\ expectedPackageSize' \in Nat
    BY DataAssumption, ResetTypes DEF OTAStagingBegin, StagingInv, ControlInv, frameVars
  <2>3. QED
    BY <2>1, <2>2, ResetTypes
       DEF StagingInv, TypeOK, States, OTAStagingBegin, frameVars, bootVars
<1>2. ControlInv'
  BY SizesAssumption
     DEF StagingInv, TypeOK, ControlInv, OTA_PACKAGE_PAYLOAD_OFFSET, ResetSession,
         OTAStagingBegin, AtBoundary, PayloadPCs, ErasePCs, VectorPCs, DataPCs,
         VerifyPCs, ActivatePCs, HeaderError, frameVars
<1>3. PositionInv'
  BY SizesAssumption
     DEF StagingInv, TypeOK, PositionInv, ResetSession, OTAStagingBegin, AtBoundary,
         PayloadPCs, ErasePCs, VectorPCs, DataPCs, frameVars
<1>4. VerifiedInv'
  BY SizesAssumption
     DEF StagingInv, TypeOK, VerifiedInv, ResetSession, OTAStagingBegin, ActivatePCs,
         frameVars
<1>5. QED BY <1>1, <1>2, <1>3, <1>4 DEF StagingInv

\* WritePackage: a chunk that fits the package enters the loop.
LEMMA OTAStagingWritePackageStep ==
    ASSUME StagingInv, NEW size \in Nat,
           OTAStagingWritePackage(size)
    PROVE  StagingInv'
<1>1. CASE pc' = "idle"
  <2>1. PICK e : fail(e)
    BY <1>1 DEF OTAStagingWritePackage
  <2>2. QED
    BY <1>1, <2>1, FailStep
       DEF StagingInv, TypeOK, ControlInv, OTAStagingWritePackage, PollNext, sessionVars,
           progressVars, givenVars, headerVars, vectorVars, writeVars, bootVars,
           historyVars
<1>2. CASE pc' # "idle"
  <2> \A e : ~fail(e) BY <1>2 DEF fail, Return
  <2>1. TypeOK'
    BY SizesAssumption, DataAssumption
       DEF StagingInv, TypeOK, PCs, States, PollNext, OTAStagingWritePackage,
           sessionVars, statusVars, progressVars, givenVars, headerVars, vectorVars,
           writeVars, readyVars, bootVars, historyVars
  <2>2. ControlInv'
    BY SizesAssumption
       DEF StagingInv, TypeOK, ControlInv, OTAStagingWritePackage, AtBoundary,
           PayloadPCs, ErasePCs, VectorPCs, DataPCs, VerifyPCs, ActivatePCs, HeaderError,
           sessionVars, statusVars, progressVars, givenVars, headerVars
  <2>3. PositionInv'
    BY SizesAssumption
       DEF StagingInv, TypeOK, PositionInv, OTAStagingWritePackage, AtBoundary,
           PayloadPCs, ErasePCs, VectorPCs, DataPCs, sessionVars, statusVars,
           progressVars, headerVars, vectorVars, writeVars
  <2>4. VerifiedInv'
    BY SizesAssumption
       DEF StagingInv, TypeOK, VerifiedInv, OTAStagingWritePackage, ActivatePCs,
           sessionVars, statusVars, progressVars, givenVars, headerVars, readyVars
  <2>5. QED BY <2>1, <2>2, <2>3, <2>4 DEF StagingInv
<1>3. QED BY <1>1, <1>2

\* A NULL argument ends the session.
LEMMA NullArgumentStep ==
    ASSUME StagingInv, NullArgument
    PROVE  StagingInv'
<1>1. CASE pc' = "idle"
  <2>1. PICK e : fail(e)
    BY <1>1 DEF NullArgument
  <2>2. QED
    BY <1>1, <2>1, FailStep
       DEF StagingInv, TypeOK, ControlInv, NullArgument, sessionVars, progressVars,
           givenVars, headerVars, vectorVars, writeVars, bootVars, historyVars
<1>2. CASE pc' # "idle"
  <2> \A e : ~fail(e) BY <1>2 DEF fail, Return
  <2>1. TypeOK'
    BY SizesAssumption, DataAssumption
       DEF StagingInv, TypeOK, PCs, States, NullArgument, sessionVars, progressVars,
           givenVars, headerVars, vectorVars, writeVars, bootVars, historyVars
  <2>2. ControlInv'
    BY SizesAssumption
       DEF StagingInv, TypeOK, ControlInv, NullArgument, AtBoundary, PayloadPCs,
           ErasePCs, VectorPCs, DataPCs, VerifyPCs, ActivatePCs, HeaderError,
           sessionVars, progressVars, givenVars, headerVars
  <2>3. PositionInv'
    BY SizesAssumption
       DEF StagingInv, TypeOK, PositionInv, NullArgument, AtBoundary, PayloadPCs,
           ErasePCs, VectorPCs, DataPCs, sessionVars, progressVars, headerVars,
           vectorVars, writeVars
  <2>4. VerifiedInv'
    BY SizesAssumption
       DEF StagingInv, TypeOK, VerifiedInv, NullArgument, ActivatePCs, sessionVars,
           progressVars, givenVars, headerVars
  <2>5. QED BY <2>1, <2>2, <2>3, <2>4 DEF StagingInv
<1>3. QED BY <1>1, <1>2

\* A poll of the cancellation callback goes on or cancels.
LEMMA cancelledStep ==
    ASSUME StagingInv, cancelled
    PROVE  StagingInv'
<1>1. CASE pc' = "idle"
  <2>1. PICK e : fail(e)
    BY <1>1, PollCases DEF cancelled
  <2>2. QED
    BY <1>1, <2>1, FailStep
       DEF StagingInv, TypeOK, ControlInv, cancelled, sessionVars, progressVars,
           givenVars, headerVars, vectorVars, writeVars, bootVars, historyVars
<1>2. CASE pc' # "idle"
  <2> \A e : ~fail(e) BY <1>2 DEF fail, Return
  <2>1. TypeOK'
    BY SizesAssumption, DataAssumption, PollCases
       DEF StagingInv, TypeOK, PCs, States, cancelled, sessionVars, statusVars,
           progressVars, givenVars, headerVars, vectorVars, writeVars, readyVars,
           frameVars, bootVars, historyVars
  <2>2. ControlInv'
    BY SizesAssumption, PollCases
       DEF StagingInv, TypeOK, ControlInv, cancelled, AtBoundary, PayloadPCs, ErasePCs,
           VectorPCs, DataPCs, VerifyPCs, ActivatePCs, HeaderError, sessionVars,
           statusVars, progressVars, givenVars, headerVars, frameVars
  <2>3. PositionInv'
    BY SizesAssumption, PollCases
       DEF StagingInv, TypeOK, PositionInv, cancelled, AtBoundary, PayloadPCs, ErasePCs,
           VectorPCs, DataPCs, sessionVars, statusVars, progressVars, headerVars,
           vectorVars, writeVars, frameVars
  <2>4. VerifiedInv'
    BY SizesAssumption, PollCases
       DEF StagingInv, TypeOK, VerifiedInv, cancelled, ActivatePCs, sessionVars,
           statusVars, progressVars, givenVars, headerVars, readyVars, frameVars
  <2>5. QED BY <2>1, <2>2, <2>3, <2>4 DEF StagingInv
<1>3. QED BY <1>1, <1>2

\* Header bytes.
LEMMA CopyHeaderStep ==
    ASSUME StagingInv, CopyHeader
    PROVE  StagingInv'
<1>1. TypeOK'
  BY SizesAssumption, DataAssumption
     DEF StagingInv, TypeOK, PCs, States, Min2, OTA_PACKAGE_PAYLOAD_OFFSET, CopyHeader,
         sessionVars, statusVars, givenVars, headerVars, vectorVars, writeVars,
         readyVars, bootVars, historyVars
<1>2. ControlInv'
  BY SizesAssumption
     DEF StagingInv, TypeOK, ControlInv, Min2, OTA_PACKAGE_PAYLOAD_OFFSET, CopyHeader,
         AtBoundary, PayloadPCs, ErasePCs, VectorPCs, DataPCs, VerifyPCs, ActivatePCs,
         HeaderError, sessionVars, statusVars, givenVars, headerVars
<1>3. PositionInv'
  BY SizesAssumption
     DEF StagingInv, TypeOK, PositionInv, Min2, OTA_PACKAGE_PAYLOAD_OFFSET, ControlInv,
         CopyHeader, AtBoundary, PayloadPCs, ErasePCs, VectorPCs, DataPCs, sessionVars,
         statusVars, headerVars, vectorVars, writeVars
<1>4. VerifiedInv'
  BY SizesAssumption
     DEF StagingInv, TypeOK, VerifiedInv, CopyHeader, ActivatePCs, sessionVars,
         statusVars, givenVars, headerVars, readyVars
<1>5. QED BY <1>1, <1>2, <1>3, <1>4 DEF StagingInv

\* Signature bytes; the last one starts validation.
LEMMA CopySignatureStep ==
    ASSUME StagingInv, CopySignature
    PROVE  StagingInv'
<1>1. TypeOK'
  BY SizesAssumption, DataAssumption
     DEF StagingInv, TypeOK, PCs, States, Min2, OTA_PACKAGE_PAYLOAD_OFFSET,
         CopySignature, sessionVars, statusVars, givenVars, headerVars, vectorVars,
         writeVars, readyVars, bootVars, historyVars
<1>2. ControlInv'
  BY SizesAssumption
     DEF StagingInv, TypeOK, ControlInv, Min2, OTA_PACKAGE_PAYLOAD_OFFSET, CopySignature,
         AtBoundary, PayloadPCs, ErasePCs, VectorPCs, DataPCs, VerifyPCs, ActivatePCs,
         HeaderError, sessionVars, statusVars, givenVars, headerVars
<1>3. PositionInv'
  BY SizesAssumption
     DEF StagingInv, TypeOK, PositionInv, Min2, OTA_PACKAGE_PAYLOAD_OFFSET, ControlInv,
         CopySignature, AtBoundary, PayloadPCs, ErasePCs, VectorPCs, DataPCs,
         sessionVars, statusVars, headerVars, vectorVars, writeVars
<1>4. VerifiedInv'
  BY SizesAssumption
     DEF StagingInv, TypeOK, VerifiedInv, CopySignature, ActivatePCs, sessionVars,
         statusVars, givenVars, headerVars, readyVars
<1>5. QED BY <1>1, <1>2, <1>3, <1>4 DEF StagingInv

\* The static checks establish HeaderError = "OK" and the payload size.
LEMMA validateHeaderStep ==
    ASSUME StagingInv, validateHeader
    PROVE  StagingInv'
<1>1. CASE pc' = "idle"
  <2>1. PICK e : fail(e)
    BY <1>1 DEF validateHeader
  <2>2. QED
    BY <1>1, <2>1, FailStep
       DEF StagingInv, TypeOK, ControlInv, validateHeader, HeaderType, PollNext,
           progressVars, givenVars, headerVars, vectorVars, writeVars, bootVars,
           historyVars
<1>2. CASE pc' # "idle"
  <2> \A e : ~fail(e) BY <1>2 DEF fail, Return
  <2>1. TypeOK'
    BY SizesAssumption, DataAssumption
       DEF StagingInv, TypeOK, PCs, States, HeaderType, PollNext, validateHeader,
           statusVars, progressVars, givenVars, vectorVars, writeVars, readyVars,
           frameVars, bootVars, historyVars
  <2>2. ControlInv'
    BY SizesAssumption
       DEF StagingInv, TypeOK, ControlInv, validateHeader, AtBoundary, PayloadPCs,
           ErasePCs, VectorPCs, DataPCs, VerifyPCs, ActivatePCs, HeaderError, statusVars,
           progressVars, givenVars, frameVars
  <2>3. PositionInv'
    BY SizesAssumption
       DEF StagingInv, TypeOK, PositionInv, ControlInv, validateHeader, AtBoundary,
           PayloadPCs, ErasePCs, VectorPCs, DataPCs, statusVars, progressVars,
           vectorVars, writeVars, frameVars
  <2>4. VerifiedInv'
    BY SizesAssumption
       DEF StagingInv, TypeOK, VerifiedInv, ControlInv, HeaderError, validateHeader,
           ActivatePCs, statusVars, progressVars, givenVars, readyVars, frameVars
  <2>5. QED BY <2>1, <2>2, <2>3, <2>4 DEF StagingInv
<1>3. QED BY <1>1, <1>2

\* The signature check establishes who signed the header.
LEMMA VerifySignatureStep ==
    ASSUME StagingInv, VerifySignature
    PROVE  StagingInv'
<1>1. CASE pc' = "idle"
  <2>1. PICK e : fail(e)
    BY <1>1 DEF VerifySignature
  <2>2. QED
    BY <1>1, <2>1, FailStep
       DEF StagingInv, TypeOK, ControlInv, VerifySignature, PollNext, sessionVars,
           progressVars, givenVars, headerVars, vectorVars, writeVars, bootVars,
           historyVars
<1>2. CASE pc' # "idle"
  <2> \A e : ~fail(e) BY <1>2 DEF fail, Return
  <2>1. TypeOK'
    BY SizesAssumption, DataAssumption
       DEF StagingInv, TypeOK, PCs, States, PollNext, VerifySignature, sessionVars,
           statusVars, progressVars, givenVars, headerVars, vectorVars, writeVars,
           readyVars, frameVars, bootVars, historyVars
  <2>2. ControlInv'
    BY SizesAssumption
       DEF StagingInv, TypeOK, ControlInv, SignatureError, VerifySignature, AtBoundary,
           PayloadPCs, ErasePCs, VectorPCs, DataPCs, VerifyPCs, ActivatePCs, HeaderError,
           sessionVars, statusVars, progressVars, givenVars, headerVars, frameVars
  <2>3. PositionInv'
    BY SizesAssumption
       DEF StagingInv, TypeOK, PositionInv, VerifySignature, AtBoundary, PayloadPCs,
           ErasePCs, VectorPCs, DataPCs, sessionVars, statusVars, progressVars,
           headerVars, vectorVars, writeVars, frameVars
  <2>4. VerifiedInv'
    BY SizesAssumption
       DEF StagingInv, TypeOK, VerifiedInv, VerifySignature, ActivatePCs, sessionVars,
           statusVars, progressVars, givenVars, headerVars, readyVars, frameVars
  <2>5. QED BY <2>1, <2>2, <2>3, <2>4 DEF StagingInv
<1>3. QED BY <1>1, <1>2

\* Admission turns the checks into `authenticated'.
LEMMA AdmissionStep ==
    ASSUME StagingInv, Admission
    PROVE  StagingInv'
<1>1. CASE pc' = "idle"
  <2>1. PICK e : fail(e)
    BY <1>1 DEF Admission
  <2>2. QED
    BY <1>1, <2>1, FailStep
       DEF StagingInv, TypeOK, ControlInv, Admission, progressVars, givenVars,
           headerVars, vectorVars, writeVars, bootVars, historyVars
<1>2. CASE pc' # "idle"
  <2> \A e : ~fail(e) BY <1>2 DEF fail, Return
  <2>1. TypeOK'
    BY SizesAssumption, DataAssumption
       DEF StagingInv, TypeOK, PCs, States, Admission, statusVars, progressVars,
           givenVars, vectorVars, writeVars, readyVars, frameVars, bootVars, historyVars
  <2>2. ControlInv'
    BY SizesAssumption
       DEF StagingInv, TypeOK, ControlInv, Admission, AtBoundary, PayloadPCs, ErasePCs,
           VectorPCs, DataPCs, VerifyPCs, ActivatePCs, HeaderError, statusVars,
           progressVars, givenVars, frameVars
  <2>3. PositionInv'
    BY SizesAssumption
       DEF StagingInv, TypeOK, PositionInv, ControlInv, Admission, AtBoundary,
           PayloadPCs, ErasePCs, VectorPCs, DataPCs, statusVars, progressVars,
           vectorVars, writeVars, frameVars
  <2>4. VerifiedInv'
    BY SizesAssumption
       DEF StagingInv, TypeOK, VerifiedInv, Admission, ActivatePCs, statusVars,
           progressVars, givenVars, readyVars, frameVars
  <2>5. QED BY <2>1, <2>2, <2>3, <2>4 DEF StagingInv
<1>3. QED BY <1>1, <1>2

\* The whole rest of the chunk is accepted, so the write loop ends: it never
\* reaches beyond the payload.
LEMMA StreamingSizes ==
    ASSUME StagingInv, acceptPayload
    PROVE  /\ authenticated
           /\ Min2(remaining, payloadSize - payloadWritten) = remaining
           /\ remaining \in Nat \ {0}
           /\ packageReceived + remaining <= OTA_PACKAGE_PAYLOAD_OFFSET + payloadSize
           /\ payloadSize <= OtaLength
<1>1. authenticated
  BY DEF acceptPayload, StagingInv, ControlInv, AtBoundary
<1>2. QED
  BY <1>1, AuthenticatedSizes, SizesAssumption
     DEF acceptPayload, StagingInv, TypeOK, PositionInv, AtBoundary, Min2,
         OTA_PACKAGE_PAYLOAD_OFFSET

\* Payload bytes: the vector table is completed first, then data is written.
LEMMA acceptPayloadStep ==
    ASSUME StagingInv, acceptPayload
    PROVE  StagingInv'
<1> DEFINE data == packageReceived - OTA_PACKAGE_PAYLOAD_OFFSET
           copied == Min2(remaining, VectorSize - vectorsSize)
           filled == [i \in 0..(VectorSize - 1) |->
                        IF i >= vectorsSize /\ i < vectorsSize + copied
                          THEN stream.body[data + i - vectorsSize] ELSE vectors[i]]
<1> HIDE DEF copied, filled
<1>1. CASE erased
  <2>0. /\ accepted' = remaining /\ left' = remaining /\ pc' = "dataPoll"
        /\ UNCHANGED <<statusVars, readyVars, vectorVars, remaining, todo, eraseOffset,
                       readBack, descriptor, previous>>
    BY <1>1, StreamingSizes DEF acceptPayload
  <2>1. TypeOK'
    BY <2>0, StreamingSizes
       DEF acceptPayload, StagingInv, TypeOK, PCs, PollNext, statusVars, readyVars, vectorVars,
           progressVars, givenVars, headerVars, writeVars, bootVars, historyVars
  <2>2. ControlInv'
    BY <2>0, StreamingSizes
       DEF acceptPayload, StagingInv, ControlInv, AtBoundary, PayloadPCs, ErasePCs, VectorPCs,
           DataPCs, VerifyPCs, ActivatePCs, HeaderError, statusVars, progressVars, givenVars,
           headerVars
  <2>3. PositionInv'
    BY <1>1, <2>0, StreamingSizes, SizesAssumption
       DEF acceptPayload, StagingInv, TypeOK, PositionInv, AtBoundary, PayloadPCs, ErasePCs,
           VectorPCs, DataPCs, OTA_PACKAGE_PAYLOAD_OFFSET, progressVars, vectorVars, writeVars
  <2>4. VerifiedInv'
    BY <2>0 DEF acceptPayload, StagingInv, VerifiedInv, ControlInv, ActivatePCs, progressVars, statusVars
  <2>5. QED BY <2>1, <2>2, <2>3, <2>4 DEF StagingInv
<1>2. CASE ~erased
  <2>1. copied \in 0..(VectorSize - vectorsSize) /\ copied <= remaining
        /\ (copied < remaining => vectorsSize + copied = VectorSize)
    BY StreamingSizes, SizesAssumption DEF StagingInv, TypeOK, Min2, copied
  <2>2. filled \in Content(VectorSize)
    <3>1. data = vectorsSize
      BY <1>2, StreamingSizes, SizesAssumption
         DEF acceptPayload, StagingInv, TypeOK, PositionInv, AtBoundary, OTA_PACKAGE_PAYLOAD_OFFSET
    <3>2. ASSUME NEW i \in 0..(VectorSize - 1), i >= vectorsSize, i < vectorsSize + copied
          PROVE  stream.body[data + i - vectorsSize] \in Bytes
      BY <2>1, <3>1, <3>2, StreamingSizes, SizesAssumption
         DEF StagingInv, TypeOK, Content, OTA_PACKAGE_PAYLOAD_OFFSET
    <3>3. ASSUME NEW i \in 0..(VectorSize - 1) PROVE vectors[i] \in Bytes
      BY <3>3 DEF StagingInv, TypeOK, Content
    <3>4. QED BY <3>2, <3>3 DEF Content, filled
  <2>3. /\ vectors' = filled /\ vectorsSize' = vectorsSize + copied
        /\ UNCHANGED <<progressVars, givenVars, headerVars, writeVars, flash, bootVars, historyVars>>
    BY <1>2, StreamingSizes DEF acceptPayload, copied, filled
  <2>4. CASE pc' = "idle"
    <3>1. PICK e : fail(e)
      BY <1>2, <2>4, StreamingSizes DEF acceptPayload
    <3>2. QED
      BY <2>1, <2>2, <2>3, <3>1, FailStep, SizesAssumption
         DEF StagingInv, TypeOK, headerVars, writeVars, historyVars
  <2>5. CASE pc' # "idle"
    <3> \A e : ~fail(e) BY <2>5 DEF fail, Return
    <3>0. /\ accepted' = remaining /\ todo' = remaining - copied /\ eraseOffset' = 0
          /\ pc' = IF vectorsSize + copied < VectorSize THEN "accepted" ELSE "erasePoll"
          /\ UNCHANGED <<statusVars, readyVars, remaining, left, readBack, descriptor, previous>>
      BY <1>2, StreamingSizes DEF acceptPayload, copied, filled
    <3>1. TypeOK'
      BY <2>1, <2>2, <2>3, <3>0, StreamingSizes, SizesAssumption
         DEF StagingInv, TypeOK, PCs, PollNext, statusVars, readyVars, progressVars, givenVars,
             headerVars, writeVars, bootVars, historyVars
    <3>2. ControlInv'
      BY <2>3, <2>5, <3>0, StreamingSizes
         DEF acceptPayload, StagingInv, ControlInv, AtBoundary, PayloadPCs, ErasePCs, VectorPCs,
           DataPCs, VerifyPCs, ActivatePCs, HeaderError, statusVars, progressVars, givenVars,
           headerVars
    <3>3. PositionInv'
      BY <1>2, <2>1, <2>3, <3>0, StreamingSizes, AuthenticatedSizes, SizesAssumption
         DEF acceptPayload, StagingInv, TypeOK, PositionInv, AtBoundary, PayloadPCs, ErasePCs,
             VectorPCs, DataPCs, OTA_PACKAGE_PAYLOAD_OFFSET, progressVars, headerVars, writeVars
    <3>4. VerifiedInv'
      BY <2>3, <3>0 DEF acceptPayload, StagingInv, VerifiedInv, ControlInv, ActivatePCs, progressVars, statusVars
    <3>5. QED BY <3>1, <3>2, <3>3, <3>4 DEF StagingInv
  <2>6. QED BY <2>4, <2>5
<1>3. QED BY <1>1, <1>2 DEF StagingInv, TypeOK

\* Erasing keeps the partition well typed.
LEMMA RangeTypes ==
    ASSUME StagingInv, NEW a \in Nat, NEW n \in Nat
    PROVE  ErasedRange(a, n) \in Content(OtaLength)
  BY DataAssumption DEF StagingInv, TypeOK, Content, ErasedRange

\* Erasing a block: only the erase loop's offset moves.
LEMMA erasePayloadRangeStep ==
    ASSUME StagingInv, erasePayloadRange
    PROVE  StagingInv'
<1> DEFINE size == Min2(payloadSize - eraseOffset, OTA_STAGING_ERASE_BLOCK_SIZE)
<1>0. authenticated /\ pc = "erase"
  BY DEF erasePayloadRange, StagingInv, ControlInv, PayloadPCs, ErasePCs
<1>1. /\ size \in Nat \ {0} /\ eraseOffset + size <= payloadSize
      /\ eraseOffset \in Nat /\ eraseOffset < payloadSize
      /\ ~erased
  BY <1>0, AuthenticatedSizes, SizesAssumption
     DEF StagingInv, TypeOK, PositionInv, ErasePCs, Min2
<1>2. flash' \in Content(OtaLength)
  BY <1>1, RangeTypes DEF erasePayloadRange, StagingInv, TypeOK
<1> HIDE DEF size
<1>3. UNCHANGED <<progressVars, givenVars, headerVars, vectorVars, writeOffset, payloadSha,
                  bootVars, historyVars>>
  BY DEF erasePayloadRange
<1>4. CASE pc' = "idle"
  <2>1. PICK e : fail(e) /\ UNCHANGED erased
    BY <1>4 DEF erasePayloadRange
  <2>2. QED
    BY <1>2, <1>3, <2>1, FailStep DEF StagingInv, TypeOK, headerVars, vectorVars, historyVars
<1>5. CASE pc' # "idle"
  <2> \A e : ~fail(e) BY <1>5 DEF fail, Return
  <2>0. /\ eraseOffset' = eraseOffset + size
        /\ erased' = (eraseOffset + size >= payloadSize)
        /\ IF eraseOffset + size < payloadSize
             THEN pc' = "erasePoll" /\ UNCHANGED left
             ELSE pc' = "vectorsPoll" /\ left' = VectorSize
        /\ UNCHANGED <<statusVars, readyVars, remaining, accepted, todo, readBack,
                       descriptor, previous>>
    BY DEF erasePayloadRange, size
  <2>1. TypeOK'
    BY <1>0, <1>1, <1>2, <1>3, <2>0, AuthenticatedSizes, SizesAssumption
       DEF StagingInv, TypeOK, PCs, PollNext, progressVars, givenVars, headerVars, vectorVars,
           bootVars, historyVars, statusVars, readyVars
  <2>2. ControlInv'
    BY <1>0, <1>3, <1>5, <2>0
       DEF StagingInv, ControlInv, AtBoundary, PayloadPCs, ErasePCs, VectorPCs,
           DataPCs, VerifyPCs, ActivatePCs, HeaderError, statusVars, progressVars, givenVars,
           headerVars
  <2>3. PositionInv'
    <3>1. CASE eraseOffset + size < payloadSize
      BY <1>0, <1>1, <1>3, <2>0, <3>1, SizesAssumption
         DEF StagingInv, TypeOK, PositionInv, AtBoundary, PayloadPCs, ErasePCs,
             VectorPCs, DataPCs, progressVars, vectorVars, headerVars
    <3>2. CASE ~(eraseOffset + size < payloadSize)
      <4>1. pc' = "vectorsPoll" /\ left' = VectorSize
        BY <2>0, <3>2
      <4>2. eraseOffset + size >= payloadSize
        BY <1>1, <3>2 DEF StagingInv, TypeOK
      <4>3. erased' = TRUE
        BY <2>0, <4>2
      <4>4. QED
        BY <1>0, <1>1, <1>3, <2>0, <4>1, <4>3, SizesAssumption
           DEF StagingInv, TypeOK, PositionInv, AtBoundary, PayloadPCs, ErasePCs,
               VectorPCs, DataPCs, progressVars, vectorVars, headerVars
    <3>3. QED BY <3>1, <3>2
  <2>4. VerifiedInv'
    BY <1>0, <1>3, <2>0 DEF StagingInv, VerifiedInv, ControlInv, ActivatePCs, progressVars,
       statusVars
  <2>5. QED BY <2>1, <2>2, <2>3, <2>4 DEF StagingInv
<1>6. QED BY <1>4, <1>5

\* What writePayload has still to write, and where it goes, lies inside the payload.
LEMMA WriteSizes ==
    ASSUME StagingInv, pc \in {"vectorsWrite", "dataWrite"},
           NEW n \in Nat, n <= left
    PROVE  /\ authenticated
           /\ left \in Nat \ {0}
           /\ writeOffset = payloadWritten
           /\ payloadWritten + left <= payloadSize /\ payloadSize <= OtaLength
           /\ \A i \in 0..(n - 1) : Pending(i) \in Bytes
           /\ \A stuck : Written(n, stuck) \in Content(OtaLength)
<1>1. authenticated
  BY DEF StagingInv, ControlInv, PayloadPCs, VectorPCs, DataPCs
<1>2. /\ left \in Nat \ {0}
      /\ writeOffset = payloadWritten
      /\ payloadWritten + left <= payloadSize /\ payloadSize <= OtaLength
  BY <1>1, AuthenticatedSizes, SizesAssumption
     DEF StagingInv, TypeOK, PositionInv, PayloadPCs, VectorPCs, DataPCs, ErasePCs,
         OTA_PACKAGE_PAYLOAD_OFFSET
<1>3. ASSUME NEW i \in 0..(n - 1) PROVE Pending(i) \in Bytes
  <2>1. CASE pc = "vectorsWrite"
    <3>1. VectorSize - left + i \in 0..(VectorSize - 1)
      BY <1>2, <2>1, SizesAssumption DEF StagingInv, PositionInv, VectorPCs
    <3>2. QED BY <2>1, <3>1 DEF Pending, StagingInv, TypeOK, Content
  <2>2. CASE pc = "dataWrite"
    <3>1. packageReceived - OTA_PACKAGE_PAYLOAD_OFFSET + accepted - left + i \in 0..(OtaLength - 1)
      BY <1>2, <2>2, SizesAssumption
         DEF StagingInv, TypeOK, PositionInv, DataPCs, OTA_PACKAGE_PAYLOAD_OFFSET
    <3>2. QED BY <2>2, <3>1 DEF Pending, StagingInv, TypeOK, Content
  <2>3. QED BY <2>1, <2>2
<1>4. ASSUME NEW stuck PROVE Written(n, stuck) \in Content(OtaLength)
  <2>1. ASSUME NEW i \in 0..(OtaLength - 1), i >= writeOffset, i < writeOffset + n
        PROVE  Pending(i - writeOffset) \in Bytes
    BY <1>2, <1>3, <2>1 DEF StagingInv, TypeOK
  <2>2. ASSUME NEW i \in 0..(OtaLength - 1) PROVE flash[i] \in Bytes
    BY <2>2 DEF StagingInv, TypeOK, Content
  <2>3. QED BY <2>1, <2>2 DEF Written, Content
<1>5. QED BY <1>1, <1>2, <1>3, <1>4

\* Writing a block keeps offset, digest and counters together.
LEMMA writePayloadStep ==
    ASSUME StagingInv, writePayload
    PROVE  StagingInv'
<1> DEFINE size == Min2(left, OTA_STAGING_WRITE_BLOCK_SIZE)
<1>0. pc \in {"vectorsWrite", "dataWrite"}
  BY DEF writePayload
<1>1. size \in Nat \ {0} /\ size <= left
  BY <1>0, WriteSizes, SizesAssumption DEF StagingInv, TypeOK, Min2
<1>2. /\ authenticated /\ writeOffset = payloadWritten
      /\ payloadWritten + left <= payloadSize /\ payloadSize <= OtaLength
      /\ payloadSize \in Nat /\ payloadWritten \in Nat /\ left \in Nat
      /\ \A i \in 0..(size - 1) : Pending(i) \in Bytes
  BY <1>0, <1>1, WriteSizes DEF StagingInv, TypeOK
<1> HIDE DEF size
<1>3. UNCHANGED <<packageReceived, payloadVerified, givenVars, headerVars, vectorVars,
                  erased, bootVars, historyVars>>
  BY DEF writePayload
<1>4. CASE pc' = "idle"
  <2>0. PICK n \in 0..size : /\ flash' = Written(n, {})
                             /\ writeOffset' = writeOffset + n
                             /\ \E e : fail(e)
                             /\ UNCHANGED <<payloadSha, payloadWritten>>
    BY <1>0, <1>4 DEF writePayload, size
  <2>1. PICK e : /\ flash' = Written(n, {})
                 /\ writeOffset' = writeOffset + n
                 /\ fail(e)
                 /\ UNCHANGED <<payloadSha, payloadWritten>>
    BY <2>0
  <2>2. flash' \in Content(OtaLength)
    BY <1>0, <1>1, <2>1, WriteSizes DEF StagingInv, TypeOK
  <2>3. writeOffset' \in 0..OtaLength
    BY <1>1, <1>2, <2>1, SizesAssumption
  <2>4. QED
    BY <1>3, <2>1, <2>2, <2>3, FailStep
       DEF StagingInv, TypeOK, headerVars, vectorVars, historyVars, progressVars
<1>5. CASE pc' # "idle"
  <2> \A e : ~fail(e) BY <1>5 DEF fail, Return
  <2>0. /\ \E stuck : flash' = Written(size, stuck)
        /\ writeOffset' = writeOffset + size
        /\ payloadSha' = [i \in 0..(payloadWritten + size - 1) |->
                            IF i < payloadWritten THEN payloadSha[i]
                            ELSE Pending(i - payloadWritten)]
        /\ payloadWritten' = payloadWritten + size
        /\ \/ /\ left > size
              /\ left' = left - size
              /\ pc' = IF pc = "vectorsWrite" THEN "vectorsPoll" ELSE "dataPoll"
           \/ /\ left = size /\ pc = "vectorsWrite"
              /\ left' = todo
              /\ pc' = IF todo = 0 THEN "accepted" ELSE "dataPoll"
           \/ /\ left = size /\ pc = "dataWrite"
              /\ left' = 0
              /\ pc' = "accepted"
        /\ UNCHANGED <<statusVars, readyVars, remaining, accepted, todo, eraseOffset,
                       readBack, descriptor, previous>>
    BY DEF writePayload, size
  <2>a. flash' \in Content(OtaLength)
    BY <1>0, <1>1, <2>0, WriteSizes
  <2>b. payloadSha' \in Content(payloadWritten')
    <3>1. ASSUME NEW i \in 0..(payloadWritten + size - 1), ~(i < payloadWritten)
          PROVE  Pending(i - payloadWritten) \in Bytes
      BY <1>1, <1>2, <3>1 DEF StagingInv, TypeOK
    <3>2. ASSUME NEW i \in 0..(payloadWritten + size - 1), i < payloadWritten
          PROVE  payloadSha[i] \in Bytes
      BY <1>1, <3>2 DEF StagingInv, TypeOK, Content
    <3>3. payloadSha' \in Content(payloadWritten + size)
      <4>1. payloadSha' \in [0..(payloadWritten + size - 1) -> Bytes]
        BY <2>0, <3>1, <3>2
      <4>2. QED BY <1>1, <1>2, <4>1 DEF Content
    <3>4. payloadWritten' = payloadWritten + size
      BY <2>0
    <3>5. QED BY <3>3, <3>4
  <2>c. payloadWritten' \in 0..OtaLength /\ writeOffset' \in 0..OtaLength /\ left' \in Nat
    <3>1. todo \in Nat BY DEF StagingInv, TypeOK
    <3>2. QED BY <1>1, <1>2, <2>0, <3>1, SizesAssumption
  <2>1. TypeOK'
    BY <2>a, <2>b, <2>c, <1>3, <2>0
       DEF StagingInv, TypeOK, PCs, PollNext, givenVars, headerVars, vectorVars,
           bootVars, historyVars, statusVars, readyVars
  <2>2. ControlInv'
    BY <1>0, <1>2, <1>3, <1>5, <2>0
       DEF StagingInv, ControlInv, AtBoundary, PayloadPCs, ErasePCs, VectorPCs,
           DataPCs, VerifyPCs, ActivatePCs, HeaderError, statusVars, givenVars,
           headerVars
  <2>3. PositionInv'
    <3>1. /\ remaining \in Nat /\ accepted \in Nat /\ todo \in Nat /\ packageReceived \in Nat
          /\ OTA_PACKAGE_PAYLOAD_OFFSET \in Nat
      BY SizesAssumption DEF StagingInv, TypeOK, OTA_PACKAGE_PAYLOAD_OFFSET
    <3>2. CASE pc = "vectorsWrite"
      BY <1>1, <1>2, <1>3, <2>0, <3>1, <3>2, SizesAssumption
         DEF StagingInv, PositionInv, AtBoundary, PayloadPCs, ErasePCs,
             VectorPCs, DataPCs, vectorVars, headerVars
    <3>3. CASE pc = "dataWrite"
      <4>1. CASE left > size
       BY <4>1, <1>1, <1>2, <1>3, <2>0, <3>1, <3>3, SizesAssumption
         DEF StagingInv, PositionInv, AtBoundary, PayloadPCs, ErasePCs,
             VectorPCs, DataPCs, vectorVars, headerVars
      <4>2. CASE left = size
       <5>1. pc' = "accepted" BY <4>2, <2>0, <3>3, <1>1, <1>2
       <5>2. QED
       BY <5>1, <4>2, <1>1, <1>2, <1>3, <2>0, <3>1, <3>3, SizesAssumption
         DEF StagingInv, PositionInv, AtBoundary, PayloadPCs, ErasePCs,
             VectorPCs, DataPCs, vectorVars, headerVars
      <4>3. QED 
      BY <4>1, <4>2, <1>1, <1>2, <1>3, <2>0, <3>1, <3>3, SizesAssumption
         DEF StagingInv, PositionInv, AtBoundary, PayloadPCs, ErasePCs,
             VectorPCs, DataPCs, vectorVars, headerVars
    <3>4. QED BY <1>0, <3>2, <3>3
  <2>4. VerifiedInv'
    BY <1>0, <1>3, <2>0 DEF StagingInv, VerifiedInv, ControlInv, ActivatePCs, statusVars
  <2>5. QED BY <2>1, <2>2, <2>3, <2>4 DEF StagingInv
<1>6. QED BY <1>4, <1>5

\* The chunk was accepted.
LEMMA PayloadAcceptedStep ==
    ASSUME StagingInv, PayloadAccepted
    PROVE  StagingInv'
<1>1. TypeOK'
  BY SizesAssumption, DataAssumption
     DEF StagingInv, TypeOK, PCs, States, ControlInv, PositionInv, PayloadPCs,
         OTA_PACKAGE_PAYLOAD_OFFSET, PayloadAccepted, sessionVars, statusVars, givenVars,
         headerVars, vectorVars, writeVars, readyVars, bootVars, historyVars
<1>2. ControlInv'
  BY SizesAssumption
     DEF StagingInv, TypeOK, ControlInv, PositionInv, OTA_PACKAGE_PAYLOAD_OFFSET,
         PayloadAccepted, AtBoundary, PayloadPCs, ErasePCs, VectorPCs, DataPCs,
         VerifyPCs, ActivatePCs, HeaderError, sessionVars, statusVars, givenVars,
         headerVars
<1>3. PositionInv'
  BY SizesAssumption
     DEF StagingInv, TypeOK, PositionInv, ControlInv, PayloadAccepted, AtBoundary,
         PayloadPCs, ErasePCs, VectorPCs, DataPCs, sessionVars, statusVars, headerVars,
         vectorVars, writeVars
<1>4. VerifiedInv'
  BY SizesAssumption
     DEF StagingInv, TypeOK, VerifiedInv, PayloadAccepted, ActivatePCs, sessionVars,
         statusVars, givenVars, headerVars, readyVars
<1>5. QED BY <1>1, <1>2, <1>3, <1>4 DEF StagingInv

\* The chunk is used up.
LEMMA WritePackageReturnsStep ==
    ASSUME StagingInv, WritePackageReturns
    PROVE  StagingInv'
<1>1. TypeOK'
  BY SizesAssumption, DataAssumption, ReturnTypes
     DEF StagingInv, TypeOK, PCs, States, WritePackageReturns, sessionVars, statusVars,
         progressVars, givenVars, headerVars, vectorVars, writeVars, readyVars, bootVars,
         historyVars
<1>2. ControlInv'
  BY SizesAssumption, ReturnTypes
     DEF StagingInv, TypeOK, ControlInv, WritePackageReturns, AtBoundary, PayloadPCs,
         ErasePCs, VectorPCs, DataPCs, VerifyPCs, ActivatePCs, HeaderError, sessionVars,
         statusVars, progressVars, givenVars, headerVars
<1>3. PositionInv'
  BY SizesAssumption, ReturnTypes
     DEF StagingInv, TypeOK, PositionInv, WritePackageReturns, AtBoundary, PayloadPCs,
         ErasePCs, VectorPCs, DataPCs, sessionVars, statusVars, progressVars, headerVars,
         vectorVars, writeVars
<1>4. VerifiedInv'
  BY SizesAssumption, ReturnTypes
     DEF StagingInv, TypeOK, VerifiedInv, WritePackageReturns, ActivatePCs, sessionVars,
         statusVars, progressVars, givenVars, headerVars, readyVars
<1>5. QED BY <1>1, <1>2, <1>3, <1>4 DEF StagingInv

\* Finish: only a complete, authenticated session goes on.
LEMMA OTAStagingFinishStep ==
    ASSUME StagingInv, OTAStagingFinish
    PROVE  StagingInv'
<1>1. CASE pc' = "idle"
  <2>1. PICK e : fail(e)
    BY <1>1 DEF OTAStagingFinish
  <2>2. QED
    BY <1>1, <2>1, FailStep
       DEF StagingInv, TypeOK, ControlInv, OTAStagingFinish, PollNext, sessionVars,
           progressVars, givenVars, headerVars, vectorVars, writeVars, bootVars,
           historyVars
<1>2. CASE pc' # "idle"
  <2> \A e : ~fail(e) BY <1>2 DEF fail, Return
  <2>1. TypeOK'
    BY SizesAssumption, DataAssumption
       DEF StagingInv, TypeOK, PCs, States, PollNext, OTAStagingFinish, sessionVars,
           statusVars, progressVars, givenVars, headerVars, vectorVars, writeVars,
           readyVars, frameVars, bootVars, historyVars
  <2>2. ControlInv'
    BY SizesAssumption
       DEF StagingInv, TypeOK, ControlInv, OTAStagingFinish, AtBoundary, PayloadPCs,
           ErasePCs, VectorPCs, DataPCs, VerifyPCs, ActivatePCs, HeaderError,
           sessionVars, statusVars, progressVars, givenVars, headerVars, frameVars
  <2>3. PositionInv'
    BY SizesAssumption
       DEF StagingInv, TypeOK, PositionInv, OTAStagingFinish, AtBoundary, PayloadPCs,
           ErasePCs, VectorPCs, DataPCs, sessionVars, statusVars, progressVars,
           headerVars, vectorVars, writeVars, frameVars
  <2>4. VerifiedInv'
    BY SizesAssumption
       DEF StagingInv, TypeOK, VerifiedInv, OTAStagingFinish, ActivatePCs, sessionVars,
           statusVars, progressVars, givenVars, headerVars, readyVars, frameVars
  <2>5. QED BY <2>1, <2>2, <2>3, <2>4 DEF StagingInv
<1>3. QED BY <1>1, <1>2

\* The stream's digest is right: read-back starts at offset zero.
LEMMA CheckStreamDigestStep ==
    ASSUME StagingInv, CheckStreamDigest
    PROVE  StagingInv'
<1>1. CASE pc' = "idle"
  <2>1. PICK e : fail(e)
    BY <1>1 DEF CheckStreamDigest
  <2>2. QED
    BY <1>1, <2>1, FailStep
       DEF StagingInv, TypeOK, ControlInv, CheckStreamDigest, PollNext, sessionVars,
           progressVars, givenVars, headerVars, vectorVars, writeVars, bootVars,
           historyVars
<1>2. CASE pc' # "idle"
  <2> \A e : ~fail(e) BY <1>2 DEF fail, Return
  <2>1. TypeOK'
    BY SizesAssumption, DataAssumption
       DEF StagingInv, TypeOK, PCs, States, PollNext, CheckStreamDigest, sessionVars,
           progressVars, givenVars, headerVars, vectorVars, writeVars, readyVars,
           bootVars, historyVars
  <2>2. ControlInv'
    BY SizesAssumption
       DEF StagingInv, TypeOK, ControlInv, CheckStreamDigest, AtBoundary, PayloadPCs,
           ErasePCs, VectorPCs, DataPCs, VerifyPCs, ActivatePCs, HeaderError,
           sessionVars, progressVars, givenVars, headerVars
  <2>3. PositionInv'
    BY SizesAssumption
       DEF StagingInv, TypeOK, PositionInv, CheckStreamDigest, AtBoundary, PayloadPCs,
           ErasePCs, VectorPCs, DataPCs, sessionVars, progressVars, headerVars,
           vectorVars, writeVars
  <2>4. VerifiedInv'
    <3>1. payloadVerified' = 0 /\ payloadSize' = payloadSize /\ pc' = "readPoll" /\ state' = "VERIFYING"
      BY DEF StagingInv, VerifiedInv, CheckStreamDigest, ActivatePCs, progressVars, sessionVars,
             headerVars
    <3>2. payloadSize \in Nat \ {0}
      BY AuthenticatedSizes DEF StagingInv, ControlInv, VerifyPCs, CheckStreamDigest
    <3>3. readBack' = Prefix(flash, payloadVerified)'
      BY <3>1 DEF CheckStreamDigest, Zeros, Prefix
    <3>4. QED BY <3>1, <3>2, <3>3 DEF VerifiedInv, ActivatePCs
  <2>5. QED BY <2>1, <2>2, <2>3, <2>4 DEF StagingInv
<1>3. QED BY <1>1, <1>2

\* Capturing the descriptor reads inside the partition.
LEMMA CaptureTypes ==
    ASSUME StagingInv, NEW a \in Nat, NEW n \in Nat, a + n <= OtaLength
    PROVE  CaptureDescriptor(a, n) \in Content(OTA_IMAGE_DESCRIPTOR_SIZE)
<1> DEFINE start == OTA_IMAGE_DESCRIPTOR_OFFSET
           destination == IF a <= start THEN 0 ELSE a - start
           source == IF a <= start THEN start ELSE a
           copied == IF \/ a <= start /\ a + n > start
                        \/ a > start /\ a < start + OTA_IMAGE_DESCRIPTOR_SIZE
                       THEN Min2(a + n - source, OTA_IMAGE_DESCRIPTOR_SIZE - destination)
                       ELSE 0
<1>1. ASSUME NEW i \in 0..(OTA_IMAGE_DESCRIPTOR_SIZE - 1), i >= destination, i < destination + copied
      PROVE  source + i - destination \in 0..(OtaLength - 1)
  BY <1>1, SizesAssumption DEF Min2
<1>2. ASSUME NEW i \in 0..(OTA_IMAGE_DESCRIPTOR_SIZE - 1), i >= destination, i < destination + copied
      PROVE  flash[source + i - destination] \in Bytes
  <2> HIDE DEF source, destination, copied
  <2>1. QED BY <1>1, <1>2 DEF StagingInv, TypeOK, Content
<1>3. ASSUME NEW i \in 0..(OTA_IMAGE_DESCRIPTOR_SIZE - 1) PROVE descriptor[i] \in Bytes
  BY <1>3 DEF StagingInv, TypeOK, Content
<1>4. CaptureDescriptor(a, n) =
        [i \in 0..(OTA_IMAGE_DESCRIPTOR_SIZE - 1) |->
            IF i >= destination /\ i < destination + copied
              THEN flash[source + i - destination] ELSE descriptor[i]]
  BY DEF CaptureDescriptor
<1> HIDE DEF source, destination, copied
<1>5. QED BY <1>2, <1>3, <1>4 DEF Content

\* Reading a block back extends what is known of the flash.
LEMMA ReadBackBlockStep ==
    ASSUME StagingInv, ReadBackBlock
    PROVE  StagingInv'
<1> DEFINE size == Min2(payloadSize - payloadVerified, OTA_STAGING_READ_BACK_BLOCK_SIZE)
<1>0. pc = "read" /\ authenticated
  BY DEF ReadBackBlock, StagingInv, ControlInv, VerifyPCs
<1>1. /\ size \in Nat \ {0} /\ payloadVerified \in Nat /\ payloadSize \in Nat
      /\ payloadVerified + size <= payloadSize /\ payloadSize <= OtaLength
  BY <1>0, AuthenticatedSizes, SizesAssumption DEF StagingInv, TypeOK, VerifiedInv, Min2
<1> HIDE DEF size
<1>2. UNCHANGED <<packageReceived, payloadWritten, sessionVars, flash, bootVars, historyVars>>
  BY DEF ReadBackBlock
<1>3. CASE pc' = "idle"
  <2>1. PICK e : fail(e) /\ UNCHANGED payloadVerified
    BY <1>3 DEF ReadBackBlock
  <2>2. QED
    BY <1>2, <2>1, FailStep
       DEF StagingInv, TypeOK, sessionVars, givenVars, headerVars, vectorVars, writeVars,
           historyVars, progressVars
<1>4. CASE pc' # "idle"
  <2> \A e : ~fail(e) BY <1>4 DEF fail, Return
  <2>0. /\ readBack' = [i \in 0..(payloadVerified + size - 1) |->
                          IF i < payloadVerified THEN readBack[i] ELSE flash[i]]
        /\ descriptor' = CaptureDescriptor(payloadVerified, size)
        /\ payloadVerified' = payloadVerified + size
        /\ pc' = IF payloadVerified + size < payloadSize THEN "readPoll" ELSE "publish"
        /\ UNCHANGED <<statusVars, readyVars, remaining, accepted, todo, left,
                       eraseOffset, previous>>
    BY DEF ReadBackBlock, size
  <2>1. TypeOK'
    <3>1. descriptor' \in Content(OTA_IMAGE_DESCRIPTOR_SIZE)
      <4>1. payloadVerified + size <= OtaLength
        BY <1>1, SizesAssumption
      <4>2. CaptureDescriptor(payloadVerified, size) \in Content(OTA_IMAGE_DESCRIPTOR_SIZE)
        BY <1>1, <4>1, CaptureTypes
      <4>3. QED BY <2>0, <4>2
    <3>2. payloadVerified' \in 0..OtaLength
      BY <1>1, <2>0, SizesAssumption
    <3>3. QED
      BY <1>2, <2>0, <3>1, <3>2
         DEF StagingInv, TypeOK, PCs, PollNext, sessionVars, givenVars, headerVars, vectorVars,
             writeVars, bootVars, historyVars, statusVars, readyVars
  <2>2. ControlInv'
    BY <1>0, <1>2, <1>4, <2>0
       DEF StagingInv, ControlInv, AtBoundary, PayloadPCs, ErasePCs, VectorPCs, DataPCs,
           VerifyPCs, ActivatePCs, HeaderError, statusVars, sessionVars, givenVars, headerVars
  <2>3. PositionInv'
    BY <2>0 DEF PositionInv, AtBoundary, PayloadPCs, ErasePCs, VectorPCs, DataPCs
  <2>4. VerifiedInv'
    <3>1. readBack' = Prefix(flash, payloadVerified)'
      BY <1>0, <1>1, <1>2, <2>0 DEF StagingInv, VerifiedInv, Prefix
    <3>2. QED
      BY <1>0, <1>1, <1>2, <2>0, <3>1
         DEF StagingInv, VerifiedInv, ControlInv, ActivatePCs, statusVars, sessionVars, headerVars
  <2>5. QED BY <2>1, <2>2, <2>3, <2>4 DEF StagingInv
<1>5. QED BY <1>3, <1>4

\* Publishing: what was read back is the flash, and hashes to the signed digest.
LEMMA PublishStep ==
    ASSUME StagingInv, Publish
    PROVE  StagingInv'
<1>0. /\ pc = "publish" /\ authenticated
      /\ readBack = Prefix(flash, payloadSize)
      /\ payloadSize \in Nat /\ payloadSize <= OtaLength
  BY AuthenticatedSizes DEF Publish, StagingInv, ControlInv, VerifiedInv, VerifyPCs
<1>1. UNCHANGED <<progressVars, sessionVars, flash, bootVars, aborted>>
  BY DEF Publish
<1>2. CASE PublishError # "OK"
  <2>1. fail(PublishError)
    BY <1>2 DEF Publish
  <2>2. QED
    BY <1>1, <2>1, FailStep
       DEF StagingInv, TypeOK, sessionVars, givenVars, headerVars, vectorVars, writeVars,
           progressVars
<1>3. CASE PublishError = "OK"
  <2>0. /\ ready' = [sessionGeneration |-> nextGeneration, payloadSize |-> payloadSize,
                     crc16 |-> Crc(readBack), sha256 |-> Sha(readBack)]
        /\ nextGeneration' = NextGeneration
        /\ state' = "READY"
        /\ Return
    BY <1>3 DEF Publish
  <2>1. TypeOK'
    <3>1. Sha(readBack) \in Digests /\ Crc(readBack) \in Crcs
      <4>1. Prefix(flash, payloadSize) \in Content(payloadSize)
        <5>1. ASSUME NEW i \in 0..(payloadSize - 1) PROVE flash[i] \in Bytes
          BY <1>0, <5>1, SizesAssumption DEF StagingInv, TypeOK, Content
        <5>2. QED BY <5>1 DEF Content, Prefix
      <4>2. QED BY <1>0, <4>1, DataAssumption, SizesAssumption
    <3>2. nextGeneration \in 1..(GenerationLimit - 1)
      BY DEF StagingInv, TypeOK
    <3>3. nextGeneration' \in 1..(GenerationLimit - 1)
      BY <2>0, <3>2, SizesAssumption DEF NextGeneration
    <3>4. ready' \in [sessionGeneration: 0..(GenerationLimit - 1), payloadSize: Nat,
                      crc16: Crcs, sha256: Digests]
      BY <1>0, <2>0, <3>1, <3>2, SizesAssumption
    <3>5. remaining' \in 0..(expectedPackageSize' - packageReceived')
      BY <1>1, <2>0, ReturnTypes DEF StagingInv, TypeOK, progressVars, sessionVars, givenVars
    <3>6. state' \in States /\ eraseOffset' \in 0..OtaLength
      BY <2>0, ReturnTypes, SizesAssumption DEF States
    <3>7. QED
      BY <1>1, <2>0, <3>3, <3>4, <3>5, <3>6, ReturnTypes
         DEF StagingInv, TypeOK, progressVars, sessionVars, givenVars, headerVars, vectorVars,
             writeVars, bootVars
  <2>2. ControlInv'
    BY <1>0, <1>1, <2>0, ReturnTypes
       DEF StagingInv, ControlInv, AtBoundary, PayloadPCs, ErasePCs, VectorPCs, DataPCs,
           VerifyPCs, ActivatePCs, HeaderError, sessionVars, givenVars, headerVars
  <2>3. PositionInv'
    BY <2>0, ReturnTypes DEF PositionInv, AtBoundary, PayloadPCs, ErasePCs, VectorPCs, DataPCs
  <2>4. VerifiedInv'
    BY <1>0, <1>1, <1>3, <2>0, ReturnTypes
       DEF PublishError, VerifiedInv, ActivatePCs, Prefix, sessionVars, givenVars, headerVars
  <2>5. QED BY <2>1, <2>2, <2>3, <2>4 DEF StagingInv
<1>4. QED BY <1>2, <1>3

\* Activate: the flash and the result stay as they were.
LEMMA OTAStagingActivateStep ==
    ASSUME StagingInv, NEW g, NEW d,
           OTAStagingActivate(g, d)
    PROVE  StagingInv'
<1>1. TypeOK'
  BY SizesAssumption, DataAssumption
     DEF StagingInv, TypeOK, PCs, States, OTAStagingActivate, sessionVars, progressVars,
         givenVars, headerVars, vectorVars, writeVars, frameVars, bootVars
<1>2. ControlInv'
  BY SizesAssumption
     DEF StagingInv, TypeOK, ControlInv, OTAStagingActivate, AtBoundary, PayloadPCs,
         ErasePCs, VectorPCs, DataPCs, VerifyPCs, ActivatePCs, HeaderError, sessionVars,
         progressVars, givenVars, headerVars, frameVars
<1>3. PositionInv'
  BY SizesAssumption
     DEF StagingInv, TypeOK, PositionInv, OTAStagingActivate, AtBoundary, PayloadPCs,
         ErasePCs, VectorPCs, DataPCs, sessionVars, progressVars, headerVars, vectorVars,
         writeVars, frameVars
<1>4. VerifiedInv'
  BY SizesAssumption
     DEF StagingInv, TypeOK, VerifiedInv, ControlInv, OTAStagingActivate, ActivatePCs,
         sessionVars, progressVars, givenVars, headerVars, frameVars
<1>5. QED BY <1>1, <1>2, <1>3, <1>4 DEF StagingInv

\* Reading the boot table.
LEMMA ReadBootTableStep ==
    ASSUME StagingInv, ReadBootTable
    PROVE  StagingInv'
<1>1. CASE pc' = "idle"
  <2>1. PICK e : fail(e)
    BY <1>1 DEF ReadBootTable
  <2>2. QED
    BY <1>1, <2>1, FailStep
       DEF StagingInv, TypeOK, ControlInv, ReadBootTable, sessionVars, progressVars,
           givenVars, headerVars, vectorVars, writeVars, bootVars, historyVars
<1>2. CASE pc' # "idle"
  <2> \A e : ~fail(e) BY <1>2 DEF fail, Return
  <2>1. TypeOK'
    BY SizesAssumption, DataAssumption
       DEF StagingInv, TypeOK, PCs, States, ReadBootTable, sessionVars, statusVars,
           progressVars, givenVars, headerVars, vectorVars, writeVars, readyVars,
           bootVars, historyVars
  <2>2. ControlInv'
    BY SizesAssumption
       DEF StagingInv, TypeOK, ControlInv, ReadBootTable, AtBoundary, PayloadPCs,
           ErasePCs, VectorPCs, DataPCs, VerifyPCs, ActivatePCs, HeaderError,
           sessionVars, statusVars, progressVars, givenVars, headerVars
  <2>3. PositionInv'
    BY SizesAssumption
       DEF StagingInv, TypeOK, PositionInv, ReadBootTable, AtBoundary, PayloadPCs,
           ErasePCs, VectorPCs, DataPCs, sessionVars, statusVars, progressVars,
           headerVars, vectorVars, writeVars
  <2>4. VerifiedInv'
    BY SizesAssumption
       DEF StagingInv, TypeOK, VerifiedInv, ReadBootTable, ActivatePCs, sessionVars,
           statusVars, progressVars, givenVars, headerVars, readyVars
  <2>5. QED BY <2>1, <2>2, <2>3, <2>4 DEF StagingInv
<1>3. QED BY <1>1, <1>2

\* Writing the boot table, whatever reaches the copies.
LEMMA WriteBootTableStep ==
    ASSUME StagingInv, WriteBootTable
    PROVE  StagingInv'
<1>1. TypeOK'
  BY SizesAssumption, DataAssumption
     DEF StagingInv, TypeOK, PCs, States, BootTables, Candidate, Copies, TornTable,
         WriteBootTable, sessionVars, statusVars, progressVars, givenVars, headerVars,
         vectorVars, writeVars, readyVars, frameVars, historyVars
<1>2. ControlInv'
  BY SizesAssumption
     DEF StagingInv, TypeOK, ControlInv, WriteBootTable, AtBoundary, PayloadPCs,
         ErasePCs, VectorPCs, DataPCs, VerifyPCs, ActivatePCs, HeaderError, sessionVars,
         statusVars, progressVars, givenVars, headerVars, frameVars
<1>3. PositionInv'
  BY SizesAssumption
     DEF StagingInv, TypeOK, PositionInv, WriteBootTable, AtBoundary, PayloadPCs,
         ErasePCs, VectorPCs, DataPCs, sessionVars, statusVars, progressVars, headerVars,
         vectorVars, writeVars, frameVars
<1>4. VerifiedInv'
  BY SizesAssumption
     DEF StagingInv, TypeOK, VerifiedInv, ControlInv, WriteBootTable, ActivatePCs,
         sessionVars, statusVars, progressVars, givenVars, headerVars, readyVars,
         frameVars
<1>5. QED BY <1>1, <1>2, <1>3, <1>4 DEF StagingInv

\* The candidate is in place, or has to be undone.
LEMMA CheckCandidateStep ==
    ASSUME StagingInv, CheckCandidate
    PROVE  StagingInv'
<1>1. TypeOK'
  BY SizesAssumption, DataAssumption, ReturnTypes
     DEF StagingInv, TypeOK, PCs, States, CheckCandidate, sessionVars, statusVars,
         progressVars, givenVars, headerVars, vectorVars, writeVars, readyVars,
         frameVars, bootVars, historyVars
<1>2. ControlInv'
  BY SizesAssumption, ReturnTypes
     DEF StagingInv, TypeOK, ControlInv, CheckCandidate, AtBoundary, PayloadPCs,
         ErasePCs, VectorPCs, DataPCs, VerifyPCs, ActivatePCs, HeaderError, sessionVars,
         statusVars, progressVars, givenVars, headerVars, frameVars
<1>3. PositionInv'
  BY SizesAssumption, ReturnTypes
     DEF StagingInv, TypeOK, PositionInv, CheckCandidate, AtBoundary, PayloadPCs,
         ErasePCs, VectorPCs, DataPCs, sessionVars, statusVars, progressVars, headerVars,
         vectorVars, writeVars, frameVars
<1>4. VerifiedInv'
  BY SizesAssumption, ReturnTypes
     DEF StagingInv, TypeOK, VerifiedInv, ControlInv, CheckCandidate, ActivatePCs,
         sessionVars, statusVars, progressVars, givenVars, headerVars, readyVars,
         frameVars
<1>5. QED BY <1>1, <1>2, <1>3, <1>4 DEF StagingInv

\* The previous table is back, or it is uncertain.
LEMMA CheckRestoreStep ==
    ASSUME StagingInv, CheckRestore
    PROVE  StagingInv'
<1>1. CASE pc' = "idle"
  <2>1. PICK e : fail(e)
    BY <1>1 DEF CheckRestore
  <2>2. QED
    BY <1>1, <2>1, FailStep
       DEF StagingInv, TypeOK, ControlInv, CheckRestore, sessionVars, progressVars,
           givenVars, headerVars, vectorVars, writeVars, bootVars, historyVars
<1>2. CASE pc' # "idle"
  <2> \A e : ~fail(e) BY <1>2 DEF fail, Return
  <2>1. TypeOK'
    BY SizesAssumption, DataAssumption
       DEF StagingInv, TypeOK, PCs, States, CheckRestore, sessionVars, progressVars,
           givenVars, headerVars, vectorVars, writeVars, bootVars, historyVars
  <2>2. ControlInv'
    BY SizesAssumption
       DEF StagingInv, TypeOK, ControlInv, CheckRestore, AtBoundary, PayloadPCs,
           ErasePCs, VectorPCs, DataPCs, VerifyPCs, ActivatePCs, HeaderError,
           sessionVars, progressVars, givenVars, headerVars
  <2>3. PositionInv'
    BY SizesAssumption
       DEF StagingInv, TypeOK, PositionInv, CheckRestore, AtBoundary, PayloadPCs,
           ErasePCs, VectorPCs, DataPCs, sessionVars, progressVars, headerVars,
           vectorVars, writeVars
  <2>4. VerifiedInv'
    BY SizesAssumption
       DEF StagingInv, TypeOK, VerifiedInv, CheckRestore, ActivatePCs, sessionVars,
           progressVars, givenVars, headerVars
  <2>5. QED BY <2>1, <2>2, <2>3, <2>4 DEF StagingInv
<1>3. QED BY <1>1, <1>2

\* Abort, also from a callback in the middle of a call.
LEMMA OTAStagingAbortStep ==
    ASSUME StagingInv, OTAStagingAbort
    PROVE  StagingInv'
<1>1. TypeOK'
  BY SizesAssumption, DataAssumption
     DEF StagingInv, TypeOK, PCs, States, OTAStagingAbort, sessionVars, progressVars,
         givenVars, headerVars, vectorVars, writeVars, frameVars, bootVars
<1>2. ControlInv'
  BY SizesAssumption
     DEF StagingInv, TypeOK, ControlInv, OTAStagingAbort, AtBoundary, PayloadPCs,
         ErasePCs, VectorPCs, DataPCs, VerifyPCs, ActivatePCs, HeaderError, sessionVars,
         progressVars, givenVars, headerVars, frameVars
<1>3. PositionInv'
  BY SizesAssumption
     DEF StagingInv, TypeOK, PositionInv, OTAStagingAbort, AtBoundary, PayloadPCs,
         ErasePCs, VectorPCs, DataPCs, sessionVars, progressVars, headerVars, vectorVars,
         writeVars, frameVars
<1>4. VerifiedInv'
  BY SizesAssumption
     DEF StagingInv, TypeOK, VerifiedInv, OTAStagingAbort, ActivatePCs, sessionVars,
         progressVars, givenVars, headerVars, frameVars
<1>5. QED BY <1>1, <1>2, <1>3, <1>4 DEF StagingInv

\* Power loss forgets the session.
LEMMA CrashStep ==
    ASSUME StagingInv, Crash
    PROVE  StagingInv'
<1>1. TypeOK'
  <2>1. bootTable' \in BootTables /\ persisted' \in [Copies -> BootTables]
    BY ZeroTypes DEF StagingInv, TypeOK, Crash
  <2>2. /\ remaining' \in 0..(expectedPackageSize' - packageReceived')
        /\ packageReceived' \in 0..expectedPackageSize'
        /\ expectedPackageSize' \in Nat
        /\ eraseOffset' \in 0..OtaLength
        /\ nextGeneration' \in 1..(GenerationLimit - 1)
    BY SizesAssumption, ReturnTypes, ResetTypes DEF Crash
  <2>3. QED
    BY <2>1, <2>2, ReturnTypes, ResetTypes DEF StagingInv, TypeOK, States, Crash
<1>2. ControlInv'
  BY SizesAssumption, ReturnTypes
     DEF StagingInv, TypeOK, ControlInv, ResetSession, OTA_PACKAGE_PAYLOAD_OFFSET, Crash,
         AtBoundary, PayloadPCs, ErasePCs, VectorPCs, DataPCs, VerifyPCs, ActivatePCs,
         HeaderError
<1>3. PositionInv'
  BY SizesAssumption, ReturnTypes
     DEF StagingInv, TypeOK, PositionInv, ResetSession, Crash, AtBoundary, PayloadPCs,
         ErasePCs, VectorPCs, DataPCs
<1>4. VerifiedInv'
  BY SizesAssumption, ReturnTypes
     DEF StagingInv, TypeOK, VerifiedInv, ResetSession, Crash, ActivatePCs
<1>5. QED BY <1>1, <1>2, <1>3, <1>4 DEF StagingInv

-----------------------------------------------------------------------------
(* The theorems. *)

\* The invariant holds when the device starts.
LEMMA InitInv == Init => StagingInv
<1> SUFFICES ASSUME Init PROVE StagingInv
  OBVIOUS
<1>1. TypeOK
  <2>1. payloadSha \in Content(payloadWritten)
    BY ZeroTypes DEF Init
  <2>2. descriptor \in Content(OTA_IMAGE_DESCRIPTOR_SIZE) /\ flash \in Content(OtaLength)
    BY SizesAssumption, DataAssumption DEF Init, Content, Zeros
  <2>3. stream \in [header: HeaderType, body: Content(OtaLength)] /\ publicKey \in Keys
    BY DataAssumption DEF Init
  <2>4. /\ previous \in BootTables /\ bootTable \in BootTables
        /\ persisted \in [Copies -> BootTables]
        /\ vectors \in Content(VectorSize)
        /\ ready \in [sessionGeneration: 0..(GenerationLimit - 1), payloadSize: Nat,
                      crc16: Crcs, sha256: Digests]
    BY ZeroTypes DEF Init
  <2>5. authenticated \in BOOLEAN /\ erased \in BOOLEAN /\ aborted \in BOOLEAN
    BY DEF Init
  <2>6. QED
    BY <2>1, <2>2, <2>3, <2>4, <2>5, SizesAssumption DEF Init, TypeOK, PCs, States
<1>2. ControlInv
  BY SizesAssumption
     DEF Init, ControlInv, AtBoundary, PayloadPCs, ErasePCs, VectorPCs, DataPCs, VerifyPCs,
         ActivatePCs
<1>3. PositionInv
  BY DEF Init, PositionInv, AtBoundary, PayloadPCs, ErasePCs, VectorPCs, DataPCs
<1>4. VerifiedInv
  BY DEF Init, VerifiedInv, ActivatePCs
<1>5. QED BY <1>1, <1>2, <1>3, <1>4 DEF StagingInv

\* A step that changes none of the variables preserves the invariant.
LEMMA StutterInv == StagingInv /\ UNCHANGED vars => StagingInv'
  BY DEF StagingInv, TypeOK, ControlInv, PositionInv, VerifiedInv, AtBoundary, HeaderError,
         Prefix, vars, statusVars, progressVars, sessionVars, givenVars, headerVars, vectorVars,
         writeVars, readyVars, frameVars, bootVars, historyVars

\* Every step preserves the invariant.
LEMMA NextInv == StagingInv /\ [Next]_vars => StagingInv'
<1> SUFFICES ASSUME StagingInv, [Next]_vars PROVE StagingInv'
  OBVIOUS
<1>1. CASE Call
  <2>1. ASSUME NEW size \in 0..MaxChunk, OTAStagingWritePackage(size) PROVE StagingInv'
    <3>1. size \in Nat BY BoundsAssumption
    <3>2. QED BY <2>1, <3>1, OTAStagingWritePackageStep
  <2>2. ASSUME NEW c \in issued, OTAStagingActivate(c.sessionGeneration, c.sha256)
        PROVE  StagingInv'
    BY <2>2, OTAStagingActivateStep
  <2>3. QED
    BY <1>1, <2>1, <2>2, OTAStagingBeginStep, NullArgumentStep, OTAStagingFinishStep DEF Call
<1>2. CASE Engine
  BY <1>2, cancelledStep, CopyHeaderStep, CopySignatureStep, validateHeaderStep,
     VerifySignatureStep, AdmissionStep, acceptPayloadStep, erasePayloadRangeStep,
     writePayloadStep, PayloadAcceptedStep, WritePackageReturnsStep, CheckStreamDigestStep,
     ReadBackBlockStep, PublishStep, ReadBootTableStep, WriteBootTableStep,
     CheckCandidateStep, CheckRestoreStep DEF Engine
<1>3. CASE OTAStagingAbort \/ Crash
  BY <1>3, OTAStagingAbortStep, CrashStep
<1>4. CASE UNCHANGED vars
  BY <1>4, StutterInv
<1>5. QED BY <1>1, <1>2, <1>3, <1>4 DEF Next

\* The inductive invariant holds in every behaviour of the engine.
THEOREM StagingInvariant == Spec => []StagingInv
<1>1. Init => StagingInv BY InitInv
<1>2. StagingInv /\ [Next]_vars => StagingInv' BY NextInv
<1>3. QED BY <1>1, <1>2, PTL DEF Spec

\* No buffer, offset or counter of OTAStaging.cpp leaves its range, for every
\* partition size, block size, package, chunking, fault and crash.
THEOREM TypeCorrect == Spec => []TypeOK
<1>1. StagingInv => TypeOK BY DEF StagingInv
<1>2. QED BY <1>1, StagingInvariant, PTL

\* Whatever is streamed, however it is cut, and whatever the flash does: an image
\* that reaches Ready is in the partition, signed by the given key, and hashes to
\* the digest the header binds.
THEOREM ReadyAuthentic == Spec => []ReadyImageAuthentic
<1>1. StagingInv => ReadyImageAuthentic
  BY DEF StagingInv, ControlInv, VerifiedInv, ReadyImageAuthentic
<1>2. QED BY <1>1, StagingInvariant, PTL
=============================================================================
