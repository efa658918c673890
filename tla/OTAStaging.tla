---------------------------- MODULE OTAStaging ----------------------------
(***************************************************************************)
(* The signed-package staging engine of libraries/OTA (OTAStaging.cpp with *)
(* OTAStagingPlatform.cpp): a caller opens a session, streams a package    *)
(* (header, signature, payload) in chunks of any size, asks for the        *)
(* payload to be verified from flash, and finally activates it by writing  *)
(* a boot-table entry in two parameter partitions.                         *)
(*                                                                         *)
(* One step is one iteration of one of the engine's loops, so that power   *)
(* may be lost (Crash) and a callback may run between any two operations   *)
(* on the flash.  `pc' says where the call in progress stands.             *)
(***************************************************************************)
EXTENDS Integers

CONSTANTS
    OTA_PACKAGE_HEADER_SIZE, OTA_PACKAGE_SIGNATURE_SIZE,
    OTA_IMAGE_DESCRIPTOR_OFFSET, OTA_IMAGE_DESCRIPTOR_SIZE, VectorSize,
    OTA_STAGING_ERASE_BLOCK_SIZE, OTA_STAGING_WRITE_BLOCK_SIZE,
    OTA_STAGING_READ_BACK_BLOCK_SIZE,
    OtaLength, AppLength,       \* lengths of the OTA and application partitions
    Bytes, Erased,              \* byte values, and the value of an erased cell
    StackPointers,              \* aligned stack pointers inside the RAM
    Sha(_), Crc(_),             \* SHA-256 and CRC-16 of a content
    Digests, ZeroDigest, Crcs,
    Keys, ParsableKeys,         \* DER keys with the right prefix; those mbedtls accepts
    Headers, Bodies,            \* what a caller may stream
    PackageSizes,               \* what a caller may declare to OTAStagingBegin
    GenerationLimit,            \* 2^32: where sessionGeneration wraps to zero
    CallbackAborts,             \* TRUE: a callback may call OTAStagingAbort
    MaxSessions, MaxCrashes, MaxChunk

OTA_PACKAGE_PAYLOAD_OFFSET ==
    OTA_PACKAGE_HEADER_SIZE + OTA_PACKAGE_SIGNATURE_SIZE

\* The byte strings of length n, and the first n bytes of one of them.
Content(n) == [0..(n - 1) -> Bytes]
Prefix(f, n) == [i \in 0..(n - 1) |-> f[i]]
Min2(a, b) == IF a < b THEN a ELSE b

\* The header as validateHeader tells headers apart: the verdict on the
\* envelope's fixed fields, on the descriptor's format and on its address, the
\* payload size, the digest and descriptor it binds, and who signed it.
HeaderType ==
    [envelope: {"OK", "PACKAGE_FORMAT", "UNSUPPORTED"},
     payloadSize: Nat,
     image: {"OK", "PACKAGE_FORMAT", "UNSUPPORTED"},
     located: BOOLEAN,
     keyId: Keys,
     sha256: Digests,
     descriptor: Content(OTA_IMAGE_DESCRIPTOR_SIZE),
     signer: Keys]

\* A boot table: no upgrade pending, an entry for the image in the OTA
\* partition, or what a torn write leaves behind.
BootTables == [kind: {"none", "upgrade", "torn"}, length: Nat, crc16: Crcs]
Copies == {1, 2}

ASSUME SizesAssumption ==
    /\ OTA_PACKAGE_HEADER_SIZE \in Nat \ {0}
    /\ OTA_PACKAGE_SIGNATURE_SIZE \in Nat \ {0}
    /\ OTA_IMAGE_DESCRIPTOR_OFFSET \in Nat
    /\ OTA_IMAGE_DESCRIPTOR_SIZE \in Nat \ {0}
    /\ VectorSize \in Nat \ {0, 1}
    /\ VectorSize <= OTA_IMAGE_DESCRIPTOR_OFFSET + OTA_IMAGE_DESCRIPTOR_SIZE
    /\ OTA_STAGING_ERASE_BLOCK_SIZE \in Nat \ {0}
    /\ OTA_STAGING_WRITE_BLOCK_SIZE \in Nat \ {0}
    /\ OTA_STAGING_READ_BACK_BLOCK_SIZE \in Nat \ {0}
    /\ OtaLength \in Nat \ {0}
    /\ AppLength \in Nat \ {0}
    /\ GenerationLimit \in Nat \ {0, 1}

ASSUME DataAssumption ==
    /\ Bytes \subseteq Nat
    /\ 0 \in Bytes
    /\ Erased \in Bytes
    /\ \A n \in 0..OtaLength : \A c \in Content(n) : Sha(c) \in Digests /\ Crc(c) \in Crcs
    /\ ZeroDigest \in Digests
    /\ 0 \in Crcs
    /\ Headers \subseteq HeaderType
    /\ Bodies \subseteq Content(OtaLength)
    /\ PackageSizes \subseteq Nat
    /\ ParsableKeys \subseteq Keys
    /\ CallbackAborts \in BOOLEAN

ASSUME BoundsAssumption ==
    /\ MaxSessions \in Nat
    /\ MaxCrashes \in Nat
    /\ MaxChunk \in Nat

VARIABLES
    \* session.status
    state, lastError, packageReceived, payloadWritten, payloadVerified,
    \* fixed by OTAStagingBegin; `stream' is what the caller is going to send
    expectedPackageSize, publicKey, stream,
    \* the rest of the session
    payloadSize, authenticated, writeOffset, vectors, vectorsSize, erased,
    payloadSha,             \* the content hashed so far (SHA-256 and CRC alike)
    ready, nextGeneration,
    \* the stack frame of the call in progress
    pc, remaining, accepted, todo, left, eraseOffset, readBack, descriptor, previous,
    \* the device: OTA partition, RAM and persisted boot tables, running image
    flash, bootTable, persisted, installed,
    \* history: capabilities handed out, digests passed to accepted Activate
    \* calls, the last one of them, the boot tables when it was called, an
    \* accepted Abort in this session
    issued, approved, asked, before, aborted,
    sessions, crashes

statusVars == <<state, lastError>>
progressVars == <<packageReceived, payloadWritten, payloadVerified>>
givenVars == <<expectedPackageSize, publicKey, stream>>
headerVars == <<payloadSize, authenticated>>
vectorVars == <<vectors, vectorsSize>>
writeVars == <<writeOffset, erased, payloadSha>>
readyVars == <<ready, nextGeneration>>
frameVars == <<remaining, accepted, todo, left, eraseOffset, readBack, descriptor, previous>>
bootVars == <<bootTable, persisted, installed>>
historyVars == <<issued, approved, asked, before, aborted, sessions, crashes>>

sessionVars == <<givenVars, headerVars, vectorVars, writeVars>>
vars == <<statusVars, progressVars, sessionVars, readyVars, pc, frameVars, flash,
          bootVars, historyVars>>

NoTable == [kind |-> "none", length |-> 0, crc16 |-> 0]
TornTable == [kind |-> "torn", length |-> 0, crc16 |-> 0]
Zeros(n) == [i \in 0..(n - 1) |-> 0]
NoReady == [sessionGeneration |-> 0, payloadSize |-> 0, crc16 |-> 0, sha256 |-> ZeroDigest]

-----------------------------------------------------------------------------
(* Returning, failing, and the callbacks.                                  *)

\* A call returns: its stack frame is gone.
Return ==
    /\ pc' = "idle"
    /\ remaining' = 0 /\ accepted' = 0 /\ todo' = 0 /\ left' = 0 /\ eraseOffset' = 0
    /\ readBack' = Zeros(0)
    /\ descriptor' = Zeros(OTA_IMAGE_DESCRIPTOR_SIZE)
    /\ previous' = NoTable

\* fail(error): record it, invalidate the published result and return.
fail(error) ==
    /\ lastError' = error
    /\ state' = IF error = "CANCELLED" THEN "CANCELLED" ELSE "FAILED"
    /\ ready' = [ready EXCEPT !.sessionGeneration = 0]
    /\ UNCHANGED nextGeneration
    /\ Return

\* Where the engine calls cancelled(), and what it does when that returns 0.
PollNext ==
    [writePoll |-> "stream", verifyPoll |-> "verify", admitPoll |-> "admit",
     erasePoll |-> "erase", vectorsPoll |-> "vectorsWrite",
     dataPoll |-> "dataWrite", finishPoll |-> "verifying", readPoll |-> "read"]

cancelled ==
    /\ pc \in DOMAIN PollNext
    /\ \/ fail("CANCELLED")
       \/ pc' = PollNext[pc] /\ UNCHANGED <<statusVars, readyVars, frameVars>>
    /\ UNCHANGED <<progressVars, sessionVars, flash, bootVars, historyVars>>

-----------------------------------------------------------------------------
\* memset of the session, and initializeStatus.
ResetSession ==
    /\ packageReceived' = 0 /\ payloadWritten' = 0 /\ payloadVerified' = 0
    /\ payloadSize' = 0 /\ authenticated' = FALSE
    /\ vectors' = Zeros(VectorSize) /\ vectorsSize' = 0
    /\ writeOffset' = 0 /\ erased' = FALSE /\ payloadSha' = Zeros(0)
    /\ ready' = NoReady
    /\ aborted' = FALSE

(* OTAStagingBegin.  Calls it refuses change nothing.                      *)
OTAStagingBegin(size, key, s) ==
    /\ pc = "idle"
    /\ sessions < MaxSessions
    /\ state \notin {"RECEIVING", "VERIFYING", "ACTIVATING"}
    /\ size >= OTA_PACKAGE_PAYLOAD_OFFSET + 1
    /\ expectedPackageSize' = size /\ publicKey' = key /\ stream' = s
    /\ state' = "RECEIVING" /\ lastError' = "OK"
    /\ ResetSession
    /\ sessions' = sessions + 1
    /\ UNCHANGED <<nextGeneration, pc, frameVars, flash, bootVars, issued, approved,
                   asked, before, crashes>>

\* Mutation: no test for data beyond the declared size.
WritePackage_NoTrailingTest(size) ==
    /\ pc = "idle"
    /\ state = "RECEIVING"
    /\ remaining' = size
    /\ pc' = "writePoll"
    /\ UNCHANGED <<statusVars, readyVars, accepted, todo, left, eraseOffset, readBack,
                   descriptor, previous, progressVars, sessionVars, flash, bootVars,
                   historyVars>>

(* OTAStagingWritePackage: entry checks, then one step per loop iteration. *)
OTAStagingWritePackage(size) ==
    /\ pc = "idle"
    /\ state = "RECEIVING"
    /\ IF size > expectedPackageSize - packageReceived
         THEN fail("TRAILING_DATA")
         ELSE /\ remaining' = size
              /\ pc' = "writePoll"
              /\ UNCHANGED <<statusVars, readyVars, accepted, todo, left, eraseOffset,
                             readBack, descriptor, previous>>
    /\ UNCHANGED <<progressVars, sessionVars, flash, bootVars, historyVars>>

\* A NULL data or result pointer passed to WritePackage or Finish.
NullArgument ==
    /\ pc = "idle"
    /\ state = "RECEIVING"
    /\ fail("INVALID_ARGUMENT")
    /\ UNCHANGED <<progressVars, sessionVars, flash, bootVars, historyVars>>

CopyHeader ==
    /\ pc = "stream" /\ remaining > 0
    /\ packageReceived < OTA_PACKAGE_HEADER_SIZE
    /\ LET copied == Min2(OTA_PACKAGE_HEADER_SIZE - packageReceived, remaining)
       IN  /\ remaining' = remaining - copied
           /\ packageReceived' = packageReceived + copied
    /\ UNCHANGED <<statusVars, payloadWritten, payloadVerified, sessionVars, readyVars, pc,
                   accepted, todo, left, eraseOffset, readBack, descriptor, previous,
                   flash, bootVars, historyVars>>

CopySignature ==
    /\ pc = "stream" /\ remaining > 0
    /\ packageReceived >= OTA_PACKAGE_HEADER_SIZE
    /\ packageReceived < OTA_PACKAGE_PAYLOAD_OFFSET
    /\ LET copied == Min2(OTA_PACKAGE_PAYLOAD_OFFSET - packageReceived, remaining)
       IN  /\ remaining' = remaining - copied
           /\ packageReceived' = packageReceived + copied
           /\ pc' = IF packageReceived + copied = OTA_PACKAGE_PAYLOAD_OFFSET
                      THEN "header" ELSE "stream"
    /\ UNCHANGED <<statusVars, payloadWritten, payloadVerified, sessionVars, readyVars,
                   accepted, todo, left, eraseOffset, readBack, descriptor, previous,
                   flash, bootVars, historyVars>>

-----------------------------------------------------------------------------
(* validateHeader.                                                         *)

\* Its static checks, in the order of the early returns.
HeaderError(h, size, key) ==
    IF h.envelope # "OK" THEN h.envelope
    ELSE IF \/ h.payloadSize < OTA_IMAGE_DESCRIPTOR_OFFSET + OTA_IMAGE_DESCRIPTOR_SIZE
            \/ h.payloadSize > OtaLength
            \/ h.payloadSize > AppLength THEN "IMAGE_BOUNDS"
    ELSE IF h.payloadSize + OTA_PACKAGE_PAYLOAD_OFFSET # size THEN "PACKAGE_SIZE"
    ELSE IF h.image # "OK" THEN h.image
    ELSE IF ~h.located THEN "IMAGE_BOUNDS"
    ELSE IF h.keyId # key THEN "KEY_MISMATCH"
    ELSE "OK"

validateHeader ==
    /\ pc = "header"
    /\ LET error == HeaderError(stream.header, expectedPackageSize, publicKey)
       IN  IF error = "OK"
             THEN pc' = "verifyPoll" /\ UNCHANGED <<statusVars, readyVars, frameVars>>
             ELSE fail(error)
    /\ payloadSize' = IF stream.header.envelope = "OK"
                        THEN stream.header.payloadSize ELSE payloadSize
    /\ UNCHANGED <<progressVars, givenVars, authenticated, vectorVars, writeVars, flash,
                   bootVars, historyVars>>

\* Mutation: mbedtls accepts the key, but its verdict on the signature is dropped.
SignatureError_KeyOnly == IF publicKey \notin ParsableKeys THEN "KEY_FORMAT" ELSE "OK"

\* platform->verifySignature and its time limit.
SignatureError ==
    IF publicKey \notin ParsableKeys THEN "KEY_FORMAT"
    ELSE IF stream.header.signer # publicKey THEN "SIGNATURE"
    ELSE "OK"

VerifySignature ==
    /\ pc = "verify"
    /\ \/ SignatureError # "OK" /\ fail(SignatureError)
       \/ SignatureError = "OK" /\ fail("SIGNATURE_TIMEOUT")
       \/ /\ SignatureError = "OK"
          /\ pc' = "admitPoll"
          /\ UNCHANGED <<statusVars, readyVars, frameVars>>
    /\ UNCHANGED <<progressVars, sessionVars, flash, bootVars, historyVars>>

\* The application's admission callback.
Admission ==
    /\ pc = "admit"
    /\ \/ fail("ADMISSION_REJECTED") /\ UNCHANGED authenticated
       \/ /\ authenticated' = TRUE
          /\ pc' = "stream"
          /\ UNCHANGED <<statusVars, readyVars, frameVars>>
    /\ UNCHANGED <<progressVars, givenVars, payloadSize, vectorVars, writeVars, flash,
                   bootVars, historyVars>>

-----------------------------------------------------------------------------
(* acceptPayload, erasePayloadRange and writePayload.                      *)

\* The stack pointer and reset vector words, one byte each: the reset handler
\* is a Thumb address of a halfword inside the payload.
validateVectors(v, size) ==
    /\ v[0] \in StackPointers
    /\ v[VectorSize \div 2] % 2 = 1
    /\ v[VectorSize \div 2] + 1 <= size

acceptPayload ==
    /\ pc = "stream" /\ remaining > 0
    /\ packageReceived >= OTA_PACKAGE_PAYLOAD_OFFSET
    /\ LET data == packageReceived - OTA_PACKAGE_PAYLOAD_OFFSET
           taken == Min2(remaining, payloadSize - payloadWritten)
           copied == Min2(taken, VectorSize - vectorsSize)
           filled == [i \in 0..(VectorSize - 1) |->
                        IF i >= vectorsSize /\ i < vectorsSize + copied
                          THEN stream.body[data + i - vectorsSize] ELSE vectors[i]]
       IN  \/ /\ erased
              /\ accepted' = taken /\ left' = taken
              /\ pc' = IF taken = 0 THEN "accepted" ELSE "dataPoll"
              /\ UNCHANGED <<statusVars, readyVars, vectorVars, remaining, todo,
                             eraseOffset, readBack, descriptor, previous>>
           \/ /\ ~erased
              /\ vectors' = filled
              /\ vectorsSize' = vectorsSize + copied
              /\ IF vectorsSize + copied = VectorSize /\ ~validateVectors(filled, payloadSize)
                   THEN fail("VECTOR_TABLE")
                   ELSE /\ accepted' = taken
                        /\ todo' = taken - copied
                        /\ eraseOffset' = 0
                        /\ pc' = IF vectorsSize + copied < VectorSize
                                   THEN "accepted" ELSE "erasePoll"
                        /\ UNCHANGED <<statusVars, readyVars, remaining, left, readBack,
                                       descriptor, previous>>
    /\ UNCHANGED <<progressVars, givenVars, headerVars, writeVars, flash, bootVars,
                   historyVars>>

\* MicoFlashErase over [from, from + n).
ErasedRange(from, n) ==
    [i \in 0..(OtaLength - 1) |-> IF i >= from /\ i < from + n THEN Erased ELSE flash[i]]

erasePayloadRange ==
    /\ pc = "erase"
    /\ LET size == Min2(payloadSize - eraseOffset, OTA_STAGING_ERASE_BLOCK_SIZE)
       IN  \/ /\ flash' = ErasedRange(eraseOffset, size)
              /\ eraseOffset' = eraseOffset + size
              /\ erased' = (eraseOffset + size >= payloadSize)
              /\ IF eraseOffset + size < payloadSize
                   THEN pc' = "erasePoll" /\ UNCHANGED left
                   ELSE pc' = "vectorsPoll" /\ left' = VectorSize
              /\ UNCHANGED <<statusVars, readyVars, remaining, accepted, todo, readBack,
                             descriptor, previous>>
           \/ /\ flash' \in {flash, ErasedRange(eraseOffset, size)}
              /\ fail("ERASE")
              /\ UNCHANGED erased
           \/ /\ flash' = ErasedRange(eraseOffset, size)
              /\ fail("ERASE_TIMEOUT")
              /\ UNCHANGED erased
    /\ UNCHANGED <<progressVars, givenVars, headerVars, vectorVars, writeOffset, payloadSha,
                   bootVars, historyVars>>

\* Mutation: the data pointer is not advanced past what was written before.
Pending_NotAdvanced(i) ==
    IF pc = "vectorsWrite" THEN vectors[VectorSize - left + i]
    ELSE stream.body[packageReceived - OTA_PACKAGE_PAYLOAD_OFFSET + i]

\* The i-th byte writePayload has still to write: from session.vectors, or from
\* the caller's chunk, of which the last `left' bytes remain.
Pending(i) ==
    IF pc = "vectorsWrite" THEN vectors[VectorSize - left + i]
    ELSE stream.body[packageReceived - OTA_PACKAGE_PAYLOAD_OFFSET + accepted - left + i]

\* MicoFlashWrite of n bytes at writeOffset: a cell in `stuck' keeps its value.
Written(n, stuck) ==
    [i \in 0..(OtaLength - 1) |->
        IF i >= writeOffset /\ i < writeOffset + n /\ i \notin stuck
          THEN Pending(i - writeOffset) ELSE flash[i]]

writePayload ==
    /\ pc \in {"vectorsWrite", "dataWrite"}
    /\ LET size == Min2(left, OTA_STAGING_WRITE_BLOCK_SIZE)
       IN  \/ /\ \E stuck \in {{}} \cup {{i} : i \in writeOffset..(writeOffset + size - 1)} :
                    flash' = Written(size, stuck)
              /\ writeOffset' = writeOffset + size
              /\ payloadSha' = [i \in 0..(payloadWritten + size - 1) |->
                                  IF i < payloadWritten THEN payloadSha[i]
                                  ELSE Pending(i - payloadWritten)]
              /\ payloadWritten' = payloadWritten + size
              /\ \/ /\ left > size
                    /\ left' = left - size
                    /\ pc' = IF pc = "vectorsWrite" THEN "vectorsPoll" ELSE "dataPoll"
                 \/ /\ left = size /\ pc = "vectorsWrite"
                    /\ left' = todo
                    /\ pc' = IF todo = 0 THEN "accepted" ELSE "dataPoll"
                 \/ /\ left = size /\ pc = "dataWrite"
                    /\ left' = 0
                    /\ pc' = "accepted"
              /\ UNCHANGED <<statusVars, readyVars, remaining, accepted, todo, eraseOffset,
                             readBack, descriptor, previous>>
           \/ \E n \in 0..size, error \in {"WRITE", "SHORT_WRITE", "WRITE_TIMEOUT"} :
                /\ error = "SHORT_WRITE" => n < size
                /\ error = "WRITE_TIMEOUT" => n = size
                /\ flash' = Written(n, {})
                /\ writeOffset' = writeOffset + n
                /\ fail(error)
                /\ UNCHANGED <<payloadSha, payloadWritten>>
    /\ UNCHANGED <<packageReceived, payloadVerified, givenVars, headerVars, vectorVars,
                   erased, bootVars, historyVars>>

\* acceptPayload returned OTA_OK.
PayloadAccepted ==
    /\ pc = "accepted"
    /\ remaining' = remaining - accepted
    /\ packageReceived' = packageReceived + accepted
    /\ pc' = "stream"
    /\ UNCHANGED <<statusVars, payloadWritten, payloadVerified, sessionVars, readyVars,
                   accepted, todo, left, eraseOffset, readBack, descriptor, previous,
                   flash, bootVars, historyVars>>

WritePackageReturns ==
    /\ pc = "stream" /\ remaining = 0
    /\ Return
    /\ UNCHANGED <<statusVars, progressVars, sessionVars, readyVars, flash, bootVars,
                   historyVars>>

-----------------------------------------------------------------------------
(* OTAStagingFinish: completeness, digest of the stream, read-back, publish. *)
OTAStagingFinish ==
    /\ pc = "idle"
    /\ state = "RECEIVING"
    /\ IF \/ packageReceived # expectedPackageSize
          \/ ~authenticated
          \/ payloadWritten # payloadSize
         THEN fail("INCOMPLETE")
         ELSE pc' = "finishPoll" /\ UNCHANGED <<statusVars, readyVars, frameVars>>
    /\ UNCHANGED <<progressVars, sessionVars, flash, bootVars, historyVars>>

\* `descriptor' is an uninitialized buffer until the read-back fills it.
CheckStreamDigest ==
    /\ pc = "verifying"
    /\ IF Sha(payloadSha) # stream.header.sha256
         THEN fail("HASH_MISMATCH")
         ELSE /\ state' = "VERIFYING"
              /\ readBack' = Zeros(0)
              /\ descriptor' \in Content(OTA_IMAGE_DESCRIPTOR_SIZE)
              /\ pc' = "readPoll"
              /\ UNCHANGED <<lastError, readyVars, remaining, accepted, todo, left,
                             eraseOffset, previous>>
    /\ UNCHANGED <<progressVars, sessionVars, flash, bootVars, historyVars>>

\* The descriptor buffer after the block [offset, offset + size) was read: the
\* block that holds the descriptor's first byte fills it from there, a later
\* block that overlaps it continues.
CaptureDescriptor(offset, size) ==
    LET start == OTA_IMAGE_DESCRIPTOR_OFFSET
        destination == IF offset <= start THEN 0 ELSE offset - start
        source == IF offset <= start THEN start ELSE offset
        copied == IF \/ offset <= start /\ offset + size > start
                     \/ offset > start /\ offset < start + OTA_IMAGE_DESCRIPTOR_SIZE
                    THEN Min2(offset + size - source, OTA_IMAGE_DESCRIPTOR_SIZE - destination)
                    ELSE 0
    IN  [i \in 0..(OTA_IMAGE_DESCRIPTOR_SIZE - 1) |->
            IF i >= destination /\ i < destination + copied
              THEN flash[source + i - destination] ELSE descriptor[i]]

ReadBackBlock ==
    /\ pc = "read"
    /\ LET size == Min2(payloadSize - payloadVerified, OTA_STAGING_READ_BACK_BLOCK_SIZE)
       IN  \/ /\ readBack' = [i \in 0..(payloadVerified + size - 1) |->
                                IF i < payloadVerified THEN readBack[i] ELSE flash[i]]
              /\ descriptor' = CaptureDescriptor(payloadVerified, size)
              /\ payloadVerified' = payloadVerified + size
              /\ pc' = IF payloadVerified + size < payloadSize THEN "readPoll" ELSE "publish"
              /\ UNCHANGED <<statusVars, readyVars, remaining, accepted, todo, left,
                             eraseOffset, previous>>
           \/ /\ \/ fail("READ_BACK")
                 \/ fail("READ_BACK_TIMEOUT")
              /\ UNCHANGED payloadVerified
    /\ UNCHANGED <<packageReceived, payloadWritten, sessionVars, flash, bootVars,
                   historyVars>>

\* Mutation: the counter wraps to zero.
NextGeneration_Wraps == (nextGeneration + 1) % GenerationLimit

\* nextGeneration++, skipping zero when it wraps.
NextGeneration ==
    IF nextGeneration + 1 = GenerationLimit THEN 1 ELSE nextGeneration + 1

\* Mutations: the flash is trusted to hold what was streamed; the descriptor in
\* the image is not compared with the signed one.
PublishError_TrustsFlash ==
    IF descriptor # stream.header.descriptor THEN "DESCRIPTOR_MISMATCH" ELSE "OK"
PublishError_NoDescriptor ==
    IF Sha(readBack) # stream.header.sha256 THEN "READ_BACK_HASH_MISMATCH" ELSE "OK"

PublishError ==
    IF Sha(readBack) # stream.header.sha256 THEN "READ_BACK_HASH_MISMATCH"
    ELSE IF Crc(readBack) # Crc(payloadSha) THEN "READ_BACK_CRC_MISMATCH"
    ELSE IF descriptor # stream.header.descriptor THEN "DESCRIPTOR_MISMATCH"
    ELSE "OK"

Publish ==
    /\ pc = "publish"
    /\ IF PublishError # "OK"
         THEN fail(PublishError) /\ UNCHANGED issued
         ELSE /\ ready' = [sessionGeneration |-> nextGeneration,
                           payloadSize |-> payloadSize,
                           crc16 |-> Crc(readBack),
                           sha256 |-> Sha(readBack)]
              /\ nextGeneration' = NextGeneration
              /\ issued' = issued \cup
                    {[sessionGeneration |-> nextGeneration, sha256 |-> Sha(readBack)]}
              /\ state' = "READY" /\ lastError' = "OK"
              /\ Return
    /\ UNCHANGED <<progressVars, sessionVars, flash, bootVars, approved, asked, before,
                   aborted, sessions, crashes>>

-----------------------------------------------------------------------------
\* Mutation: any capability will do, also one of an earlier session.
Activate_AnyCapability(sessionGeneration, expectedSha256) ==
    /\ pc = "idle"
    /\ state = "READY"
    /\ sessionGeneration # 0
    /\ state' = "ACTIVATING"
    /\ ready' = [ready EXCEPT !.sessionGeneration = 0]
    /\ pc' = "readTable"
    /\ approved' = approved \cup {expectedSha256}
    /\ asked' = expectedSha256
    /\ before' = [ram |-> bootTable, copies |-> persisted]
    /\ UNCHANGED <<lastError, progressVars, sessionVars, nextGeneration, frameVars, flash,
                   bootVars, issued, aborted, sessions, crashes>>

(* OTAStagingActivate, with any capability some OTAStagingFinish returned. *)
OTAStagingActivate(sessionGeneration, expectedSha256) ==
    /\ pc = "idle"
    /\ state = "READY"
    /\ sessionGeneration # 0
    /\ sessionGeneration = ready.sessionGeneration
    /\ expectedSha256 = ready.sha256
    /\ state' = "ACTIVATING"
    /\ ready' = [ready EXCEPT !.sessionGeneration = 0]
    /\ pc' = "readTable"
    /\ approved' = approved \cup {expectedSha256}
    /\ asked' = expectedSha256
    /\ before' = [ram |-> bootTable, copies |-> persisted]
    /\ UNCHANGED <<lastError, progressVars, sessionVars, nextGeneration, frameVars, flash,
                   bootVars, issued, aborted, sessions, crashes>>

ReadBootTable ==
    /\ pc = "readTable"
    /\ \/ fail("ACTIVATION")
       \/ /\ previous' = bootTable
          /\ pc' = "writeCandidate"
          /\ UNCHANGED <<statusVars, readyVars, remaining, accepted, todo, left,
                         eraseOffset, readBack, descriptor>>
    /\ UNCHANGED <<progressVars, sessionVars, flash, bootVars, historyVars>>

Candidate == [kind |-> "upgrade", length |-> payloadSize, crc16 |-> ready.crc16]

\* writeBootTable: the RAM table, then each copy - written, torn or untouched.
\* Its result is ignored by OTAStagingActivate.
WriteBootTable ==
    /\ pc \in {"writeCandidate", "restore"}
    /\ LET table == IF pc = "writeCandidate" THEN Candidate ELSE previous
       IN  /\ bootTable' = table
           /\ persisted' \in {p \in [Copies -> {table, TornTable, persisted[1], persisted[2]}] :
                                \A c \in Copies : p[c] \in {table, TornTable, persisted[c]}}
    /\ pc' = IF pc = "writeCandidate" THEN "checkCandidate" ELSE "checkRestore"
    /\ UNCHANGED <<statusVars, progressVars, sessionVars, readyVars, frameVars, flash,
                   installed, historyVars>>

\* Mutation: only the first copy is read.
PersistedIs_FirstCopy(table) == persisted[1] = table

\* readPersistedBootTable succeeded and returned `table'.
PersistedIs(table) == persisted[1] = persisted[2] /\ persisted[1] = table

CheckCandidate ==
    /\ pc = "checkCandidate"
    /\ \/ /\ PersistedIs(Candidate)
          /\ state' = "ACTIVATED" /\ lastError' = "OK"
          /\ UNCHANGED readyVars
          /\ Return
       \/ /\ pc' = "restore"       \* different, unreadable or too late
          /\ UNCHANGED <<statusVars, readyVars, frameVars>>
    /\ UNCHANGED <<progressVars, sessionVars, flash, bootVars, historyVars>>

\* Mutation: the restored table is not read back.
CheckRestore_Assumed ==
    /\ pc = "checkRestore"
    /\ fail("ACTIVATION")
    /\ UNCHANGED <<progressVars, sessionVars, flash, bootVars, historyVars>>

CheckRestore ==
    /\ pc = "checkRestore"
    /\ \/ PersistedIs(previous) /\ fail("ACTIVATION")
       \/ fail("ACTIVATION_UNCERTAIN")
    /\ UNCHANGED <<progressVars, sessionVars, flash, bootVars, historyVars>>

-----------------------------------------------------------------------------
\* Mutations: the session goes on; an activated session can be cancelled.
Abort_KeepsState ==
    /\ pc = "idle"
    /\ state \in {"RECEIVING", "VERIFYING", "READY"}
    /\ ready' = [ready EXCEPT !.sessionGeneration = 0]
    /\ aborted' = TRUE
    /\ UNCHANGED <<statusVars, progressVars, sessionVars, nextGeneration, pc, frameVars,
                   flash, bootVars, issued, approved, asked, before, sessions, crashes>>
Abort_AnyState ==
    /\ pc = "idle"
    /\ ready' = [ready EXCEPT !.sessionGeneration = 0]
    /\ state' = "CANCELLED" /\ lastError' = "CANCELLED"
    /\ aborted' = TRUE
    /\ UNCHANGED <<progressVars, sessionVars, nextGeneration, pc, frameVars, flash, bootVars,
                   issued, approved, asked, before, sessions, crashes>>

(* OTAStagingAbort, by the caller between calls or by a callback.          *)
OTAStagingAbort ==
    /\ \/ pc = "idle"
       \/ CallbackAborts /\ pc \in DOMAIN PollNext \cup {"admit"}
    /\ state \in {"RECEIVING", "VERIFYING", "READY"}
    /\ ready' = [ready EXCEPT !.sessionGeneration = 0]
    /\ state' = "CANCELLED" /\ lastError' = "CANCELLED"
    /\ aborted' = TRUE
    /\ UNCHANGED <<progressVars, sessionVars, nextGeneration, pc, frameVars, flash, bootVars,
                   issued, approved, asked, before, sessions, crashes>>

-----------------------------------------------------------------------------
(* Power loss at any point, and the MiCO bootloader (not in this repository): *)
(* it takes the entry of either parameter partition and installs the image    *)
(* the entry describes when its CRC matches.                                  *)
Installable(table) ==
    /\ table.kind = "upgrade"
    /\ table.length <= OtaLength
    /\ Crc(Prefix(flash, table.length)) = table.crc16

Crash ==
    /\ crashes < MaxCrashes
    /\ crashes' = crashes + 1
    /\ \E c \in Copies :
         IF Installable(persisted[c])
           THEN /\ installed' = [length |-> persisted[c].length,
                                 content |-> Prefix(flash, persisted[c].length)]
                /\ persisted' = [k \in Copies |-> NoTable]
                /\ bootTable' = NoTable
           ELSE /\ bootTable' = IF persisted[c].kind = "torn" THEN NoTable ELSE persisted[c]
                /\ UNCHANGED <<installed, persisted>>
    /\ state' = "IDLE" /\ lastError' = "OK"
    /\ expectedPackageSize' = 0
    /\ ResetSession
    /\ nextGeneration' = 1
    /\ Return
    /\ UNCHANGED <<publicKey, stream, flash, issued, approved, asked, before, sessions>>

-----------------------------------------------------------------------------
Init ==
    /\ state = "IDLE" /\ lastError = "OK"
    /\ packageReceived = 0 /\ payloadWritten = 0 /\ payloadVerified = 0
    /\ expectedPackageSize = 0
    /\ publicKey \in Keys
    /\ \E b \in Bodies, h \in Headers : stream = [body |-> b, header |-> h]
    /\ payloadSize = 0 /\ authenticated = FALSE
    /\ vectors = Zeros(VectorSize) /\ vectorsSize = 0
    /\ writeOffset = 0 /\ erased = FALSE /\ payloadSha = Zeros(0)
    /\ ready = NoReady /\ nextGeneration = 1
    /\ pc = "idle"
    /\ remaining = 0 /\ accepted = 0 /\ todo = 0 /\ left = 0 /\ eraseOffset = 0
    /\ readBack = Zeros(0)
    /\ descriptor = Zeros(OTA_IMAGE_DESCRIPTOR_SIZE)
    /\ previous = NoTable
    /\ flash = [i \in 0..(OtaLength - 1) |-> Erased]
    /\ bootTable = NoTable /\ persisted = [c \in Copies |-> NoTable]
    /\ installed = [length |-> 0, content |-> Zeros(0)]
    /\ issued = {} /\ approved = {} /\ asked = ZeroDigest
    /\ before = [ram |-> NoTable, copies |-> [c \in Copies |-> NoTable]]
    /\ aborted = FALSE /\ sessions = 0 /\ crashes = 0

\* The calls of the application, none of which it has to make.
Call ==
    \/ \E size \in PackageSizes, key \in Keys, h \in Headers, b \in Bodies :
         OTAStagingBegin(size, key, [body |-> b, header |-> h])
    \/ \E size \in 0..MaxChunk : OTAStagingWritePackage(size)
    \/ NullArgument
    \/ OTAStagingFinish
    \/ \E c \in issued : OTAStagingActivate(c.sessionGeneration, c.sha256)

\* The steps of a call in progress.
Engine ==
    \/ cancelled
    \/ CopyHeader \/ CopySignature
    \/ validateHeader \/ VerifySignature \/ Admission
    \/ acceptPayload \/ erasePayloadRange \/ writePayload
    \/ PayloadAccepted \/ WritePackageReturns
    \/ CheckStreamDigest \/ ReadBackBlock \/ Publish
    \/ ReadBootTable \/ WriteBootTable \/ CheckCandidate \/ CheckRestore

Next == Call \/ Engine \/ OTAStagingAbort \/ Crash

Spec == Init /\ [][Next]_vars

\* A call in progress runs on: the engine is one thread and its callbacks return.
FairSpec == Spec /\ WF_vars(Engine)

-----------------------------------------------------------------------------
(* Properties.                                                             *)

States == {"IDLE", "RECEIVING", "VERIFYING", "READY", "ACTIVATING", "ACTIVATED",
           "FAILED", "CANCELLED"}
PCs == {"idle", "stream", "header", "verify", "admit", "accepted", "erase",
        "vectorsWrite", "dataWrite", "verifying", "read", "publish", "readTable",
        "writeCandidate", "checkCandidate", "restore", "checkRestore"}
       \cup DOMAIN PollNext

\* Types, and the bounds that keep every buffer and flash access of
\* OTAStaging.cpp inside its object: what was hashed has the length written,
\* the vectors never overflow their buffer, and no offset passes the partition.
TypeOK ==
    /\ state \in States
    /\ pc \in PCs
    /\ packageReceived \in 0..expectedPackageSize
    /\ payloadWritten \in 0..OtaLength
    /\ payloadVerified \in 0..OtaLength
    /\ expectedPackageSize \in Nat
    /\ publicKey \in Keys
    /\ stream \in [header: HeaderType, body: Content(OtaLength)]
    /\ payloadSize \in Nat
    /\ authenticated \in BOOLEAN
    /\ writeOffset \in 0..OtaLength
    /\ vectors \in Content(VectorSize)
    /\ vectorsSize \in 0..VectorSize
    /\ erased \in BOOLEAN
    /\ payloadSha \in Content(payloadWritten)
    /\ ready \in [sessionGeneration: 0..(GenerationLimit - 1), payloadSize: Nat,
                  crc16: Crcs, sha256: Digests]
    /\ nextGeneration \in 1..(GenerationLimit - 1)
    /\ remaining \in 0..(expectedPackageSize - packageReceived)
    /\ accepted \in Nat
    /\ todo \in Nat
    /\ left \in Nat
    /\ eraseOffset \in 0..OtaLength
    /\ descriptor \in Content(OTA_IMAGE_DESCRIPTOR_SIZE)
    /\ previous \in BootTables
    /\ flash \in Content(OtaLength)
    /\ bootTable \in BootTables
    /\ persisted \in [Copies -> BootTables]
    /\ aborted \in BOOLEAN

\* The published image is the image that was signed: in Ready, the header was
\* signed by the key given to Begin, fits both partitions, and the bytes now in
\* the OTA partition hash to the digest the header binds (OTAStagingFinish).
ReadyImageAuthentic ==
    state = "READY" =>
        /\ stream.header.signer = publicKey
        /\ HeaderError(stream.header, expectedPackageSize, publicKey) = "OK"
        /\ ready.payloadSize = stream.header.payloadSize
        /\ Sha(Prefix(flash, ready.payloadSize)) = stream.header.sha256
        /\ ready.sha256 = stream.header.sha256
        /\ ready.crc16 = Crc(Prefix(flash, ready.payloadSize))

\* The descriptor inside the staged image equals the signed one, however the
\* read-back blocks cut it (OTAStagingFinish captures it block by block).
ReadyDescriptorMatches ==
    state = "READY" =>
        \A i \in 0..(OTA_IMAGE_DESCRIPTOR_SIZE - 1) :
            flash[OTA_IMAGE_DESCRIPTOR_OFFSET + i] = stream.header.descriptor[i]

\* Activated is durable: both parameter partitions hold the entry of the image
\* whose digest the caller asked for, and that image is in the partition.
ActivatedDurable ==
    state = "ACTIVATED" =>
        /\ Sha(Prefix(flash, payloadSize)) = asked
        /\ \A c \in Copies : persisted[c] = [kind |-> "upgrade", length |-> payloadSize,
                                            crc16 |-> Crc(Prefix(flash, payloadSize))]

\* OTA_ERROR_ACTIVATION, unlike ACTIVATION_UNCERTAIN, promises that the boot
\* entry is the previous one ("On failure it restores and verifies the previous
\* entry", libraries/OTA/README.md): the RAM table is back, and the copies were
\* not touched or both hold that table (OTAStagingActivate).
FailedActivationHarmless ==
    lastError = "ACTIVATION" =>
        /\ bootTable = before.ram
        /\ \/ persisted = before.copies
           \/ \A c \in Copies : persisted[c] = before.ram

\* What the bootloader installs, whenever power fails: only an image whose
\* digest the application passed to an accepted OTAStagingActivate.
InstalledWasApproved ==
    installed.length # 0 => Sha(installed.content) \in approved

\* Between two calls the stream is where the caller thinks it is: everything
\* received is written and hashed, or waits in the vectors buffer; how the
\* package was cut into chunks does not matter (OTAStagingWritePackage).
StreamConsistent ==
    (pc = "idle" /\ state = "RECEIVING" /\ authenticated) =>
        /\ packageReceived = OTA_PACKAGE_PAYLOAD_OFFSET + payloadWritten
                               + IF erased THEN 0 ELSE vectorsSize
        /\ payloadSha = Prefix(stream.body, payloadWritten)
        /\ writeOffset = payloadWritten

\* The flash is touched only for a package that passed every check on the header,
\* the signature and the vectors ("complete before the OTA partition is erased",
\* OTAStaging.h), and only inside the payload's range.
FlashOnlyAfterChecks ==
    [][flash' # flash =>
        /\ authenticated
        /\ stream.header.signer = publicKey
        /\ HeaderError(stream.header, expectedPackageSize, publicKey) = "OK"
        /\ vectors = Prefix(stream.body, VectorSize)
        /\ validateVectors(vectors, payloadSize)
        /\ \A i \in 0..(OtaLength - 1) : flash'[i] # flash[i] => i < payloadSize]_vars

\* A session that was aborted stays aborted: it is never published or activated
\* ("Cancel and invalidate the current receiving or ready session", OTAStaging.h).
AbortIsFinal == aborted => state \notin {"READY", "ACTIVATING", "ACTIVATED"}

\* OTAStaging implements OTAContract when no callback aborts the session it is
\* called from: the states are the contract's phases, ready.sha256 is the
\* certificate while the session is Ready.
Contract == INSTANCE OTAContract WITH
    NoDigest <- ZeroDigest,
    phase <- state,
    certified <- IF state = "READY" THEN ready.sha256 ELSE ZeroDigest,
    attempted <- approved,
    running <- IF installed.length = 0 THEN ZeroDigest ELSE Sha(installed.content)
ImplementsContract == Contract!ContractSpec

\* Every call returns: no loop of the engine spins for ever (the write loop
\* makes progress only because the chunk never exceeds the payload's rest).
CallsReturn == (pc # "idle") ~> (pc = "idle")

-----------------------------------------------------------------------------
(* The inductive invariant behind the safety properties.                   *)

ErasePCs == {"erasePoll", "erase"}
VectorPCs == {"vectorsPoll", "vectorsWrite"}
DataPCs == {"dataPoll", "dataWrite"}
PayloadPCs == {"accepted"} \cup ErasePCs \cup VectorPCs \cup DataPCs
VerifyPCs == {"verifying", "readPoll", "read", "publish"}
ActivatePCs == {"readTable", "writeCandidate", "checkCandidate", "restore", "checkRestore"}
\* The session is open to the caller, or a WritePackage call is between chunks.
AtBoundary == pc \in {"writePoll", "stream"} \/ (pc = "idle" /\ state = "RECEIVING")

\* Which states go with which calls, and what authentication established.
ControlInv ==
    /\ pc = "idle" => remaining = 0
    /\ state \in {"IDLE", "READY", "ACTIVATED"} => pc = "idle"
    /\ state = "ACTIVATING" <=> pc \in ActivatePCs
    /\ state = "VERIFYING" => pc \in {"readPoll", "read", "publish"}
    /\ authenticated => /\ stream.header.signer = publicKey
                        /\ HeaderError(stream.header, expectedPackageSize, publicKey) = "OK"
                        /\ payloadSize = stream.header.payloadSize
    /\ pc \in {"verifyPoll", "verify", "admitPoll", "admit"} =>
            /\ HeaderError(stream.header, expectedPackageSize, publicKey) = "OK"
            /\ payloadSize = stream.header.payloadSize
    /\ pc \in {"admitPoll", "admit"} => stream.header.signer = publicKey
    /\ pc \in PayloadPCs \cup {"finishPoll"} \cup VerifyPCs => authenticated
    /\ state \in {"READY", "ACTIVATING", "ACTIVATED"} => authenticated
    /\ AtBoundary => (authenticated <=> packageReceived >= OTA_PACKAGE_PAYLOAD_OFFSET)
    /\ pc \in {"header", "verifyPoll", "verify", "admitPoll", "admit"} =>
            ~authenticated /\ packageReceived = OTA_PACKAGE_PAYLOAD_OFFSET
    /\ (pc \in PayloadPCs) => packageReceived >= OTA_PACKAGE_PAYLOAD_OFFSET

\* Where in the payload the engine is: what was received is written, or waits in
\* the vectors buffer, or is the part of the chunk still to be written.
PositionInv ==
    /\ (AtBoundary \/ pc \in {"header", "verifyPoll", "verify", "admitPoll", "admit"}) =>
            (~authenticated => payloadWritten = 0 /\ writeOffset = 0 /\ vectorsSize = 0 /\ ~erased)
    /\ (AtBoundary /\ authenticated) =>
            packageReceived = OTA_PACKAGE_PAYLOAD_OFFSET + payloadWritten
                              + IF erased THEN 0 ELSE vectorsSize
    /\ pc = "accepted" =>
            /\ accepted <= remaining
            /\ packageReceived + accepted = OTA_PACKAGE_PAYLOAD_OFFSET + payloadWritten
                                            + IF erased THEN 0 ELSE vectorsSize
    /\ (AtBoundary \/ pc = "accepted") =>
            IF erased THEN vectorsSize = VectorSize
            ELSE vectorsSize < VectorSize /\ payloadWritten = 0
    /\ (AtBoundary \/ pc \in PayloadPCs) => writeOffset = payloadWritten
    /\ pc \in ErasePCs \cup VectorPCs =>
            /\ vectorsSize = VectorSize
            /\ accepted <= remaining
            /\ packageReceived - OTA_PACKAGE_PAYLOAD_OFFSET + accepted = VectorSize + todo
    /\ pc \in ErasePCs => ~erased /\ payloadWritten = 0 /\ eraseOffset < payloadSize
    /\ pc \in VectorPCs => erased /\ left \in 1..VectorSize /\ payloadWritten + left = VectorSize
    /\ pc \in DataPCs =>
            /\ erased /\ vectorsSize = VectorSize
            /\ accepted <= remaining
            /\ left >= 1
            /\ packageReceived - OTA_PACKAGE_PAYLOAD_OFFSET + accepted = payloadWritten + left

\* What the read-back has seen is what is in the flash, and stays there while
\* the result is published and activated.
VerifiedInv ==
    /\ (pc \notin {"readPoll", "read", "publish"} /\ (pc \notin ActivatePCs)
            /\ (pc = "idle" => state = "RECEIVING")) => payloadVerified = 0
    /\ pc \in {"readPoll", "read", "publish"} => readBack = Prefix(flash, payloadVerified)
    /\ pc \in {"readPoll", "read"} => payloadVerified < payloadSize
    /\ pc = "publish" => payloadVerified = payloadSize
    /\ state \in {"READY", "ACTIVATING", "ACTIVATED"} =>
            /\ ready.payloadSize = payloadSize
            /\ ready.sha256 = stream.header.sha256
            /\ Sha(Prefix(flash, payloadSize)) = stream.header.sha256
            /\ ready.crc16 = Crc(Prefix(flash, payloadSize))

\* Why ReadyImageAuthentic holds: types, control, position and read-back
\* together are preserved by every step of OTAStaging.cpp.
StagingInv == TypeOK /\ ControlInv /\ PositionInv /\ VerifiedInv

\* What an activation has to remember: whose digest it was called with, and the
\* entry it puts back when the candidate cannot be verified.
ActivationInv ==
    /\ state \in {"ACTIVATING", "ACTIVATED"} => asked = ready.sha256 /\ asked \in approved
    /\ state = "ACTIVATED" => \A c \in Copies : persisted[c] = Candidate
    /\ pc = "readTable" => persisted = before.copies /\ bootTable = before.ram
    /\ pc \in ActivatePCs \ {"readTable"} => previous = before.ram
    /\ pc = "checkRestore" => bootTable = before.ram
    /\ lastError = "ACTIVATION" => state = "FAILED" /\ pc = "idle"
    /\ FailedActivationHarmless

\* A boot entry names the length and the CRC of an image that was approved.
ApprovedEntry(table) ==
    table.kind = "upgrade" =>
        /\ table.length \in 1..OtaLength
        /\ \E c \in Content(table.length) : Crc(c) = table.crc16 /\ Sha(c) \in approved
EntriesInv ==
    /\ ApprovedEntry(bootTable)
    /\ ApprovedEntry(previous)
    /\ \A c \in Copies : ApprovedEntry(persisted[c])

\* The bootloader tells images apart by length and a CRC of 16 bits only: what is
\* in the partition does not share the CRC of an approved image by chance.
CrcTellsApart ==
    \A n \in 1..OtaLength : \A c \in Content(n) :
        Sha(c) \in approved /\ Crc(c) = Crc(Prefix(flash, n)) => Sha(c) = Sha(Prefix(flash, n))

\* The session is where the call in progress left it when no callback aborts it.
SessionInv ==
    /\ aborted => pc = "idle" /\ state = "CANCELLED"
    /\ pc \in {"readPoll", "read", "publish"} => state = "VERIFYING"
    /\ pc \notin {"idle", "readPoll", "read", "publish"} \cup ActivatePCs => state = "RECEIVING"

\* What was hashed and what is kept of the vector table are the caller's bytes;
\* what was erased had an accepted vector table.
ContentInv ==
    /\ payloadSha = Prefix(stream.body, payloadWritten)
    /\ \A i \in 0..(vectorsSize - 1) : vectors[i] = stream.body[i]
    /\ erased \/ pc \in ErasePCs =>
            vectorsSize = VectorSize /\ validateVectors(vectors, payloadSize)

\* The descriptor buffer holds the part of the descriptor read back so far.
DescriptorInv ==
    /\ pc \in {"readPoll", "read", "publish"} =>
            \A i \in 0..(OTA_IMAGE_DESCRIPTOR_SIZE - 1) :
                OTA_IMAGE_DESCRIPTOR_OFFSET + i < payloadVerified =>
                    descriptor[i] = flash[OTA_IMAGE_DESCRIPTOR_OFFSET + i]
    /\ ReadyDescriptorMatches
=============================================================================
