------------------------------ MODULE AudioV2 ------------------------------
(***************************************************************************)
(* libraries/AudioV2/src/AudioClassV2.cpp: recording into and playing from *)
(* the application's buffer, chunk by chunk, from the interrupt that ends  *)
(* a DMA transfer.  The caller's stop() and the second half of startPlay   *)
(* run with the interrupt enabled; the interrupt calls stop() itself when  *)
(* the buffer ends.  A transfer is one chunk and is started anew each time *)
(* (DMA_NORMAL).                                                           *)
(*                                                                         *)
(* Positions are offsets from the start of the application's buffer.  A    *)
(* start call is made when no transfer runs, as every example does after   *)
(* stop() or the end of the buffer.                                        *)
(***************************************************************************)
EXTENDS Integers

CONSTANTS
    WAVE_HEADER_SIZE, AUDIO_CHUNK_SIZE,
    SampleSize,         \* bytes of one sample of one channel
    BufferSizes         \* sizes of the buffers the application passes

ASSUME AudioAssumption ==
    /\ WAVE_HEADER_SIZE \in Nat /\ SampleSize \in Nat \ {0}
    /\ AUDIO_CHUNK_SIZE \in {2 * SampleSize * n : n \in 1..AUDIO_CHUNK_SIZE}
    /\ BufferSizes \subseteq Nat

VARIABLES
    audioState,
    audioBuffer,            \* is it not NULL
    audioBufferSize, recordCursor, playCursor,
    dma,                    \* the transfer under way
    header,                 \* data_chunk_size of the buffer's header
    touched,                \* end of the last access to the buffer
    audioCall,              \* where the caller's thread is
    atStop,                 \* history: recordCursor when stop was called
    mono                    \* history: the buffer has been converted

buffers == <<audioBuffer, audioBufferSize>>
cursors == <<recordCursor, playCursor>>
wave == <<header, atStop, mono>>
audioVars == <<audioState, buffers, cursors, dma, wave, touched, audioCall>>

None == -1
Returned == [at |-> "idle"]

\* The constructor calls format.
AudioInit ==
    /\ audioState = "INIT" /\ dma = "off"
    /\ audioBuffer = FALSE /\ audioBufferSize = 0
    /\ recordCursor = 0 /\ playCursor = 0
    /\ header = None /\ touched = 0 /\ audioCall = Returned /\ atStop = None /\ mono = FALSE

ReadyToStart == audioCall = Returned /\ dma = "off"

format ==
    /\ ReadyToStart
    /\ audioState' = "INIT"
    /\ UNCHANGED <<buffers, cursors, dma, wave, touched, audioCall>>

NewBuffer(size) ==
    /\ audioBuffer' = TRUE /\ audioBufferSize' = size
    /\ header' = None /\ atStop' = None /\ mono' = FALSE

startRecord(size) ==
    /\ ReadyToStart /\ size >= WAVE_HEADER_SIZE
    /\ NewBuffer(size)
    /\ recordCursor' = WAVE_HEADER_SIZE /\ touched' = 0
    /\ audioState' = "RECORDING" /\ dma' = "in"
    /\ UNCHANGED <<playCursor, audioCall>>

\* The first chunk is played from the buffer itself, before the cursor moves on.
startPlay(size) ==
    /\ ReadyToStart /\ size >= WAVE_HEADER_SIZE + AUDIO_CHUNK_SIZE
    /\ NewBuffer(size)
    /\ playCursor' = WAVE_HEADER_SIZE /\ touched' = WAVE_HEADER_SIZE + AUDIO_CHUNK_SIZE
    /\ audioState' = "PLAYING" /\ dma' = "out"
    /\ audioCall' = [at |-> "load"]
    /\ UNCHANGED recordCursor

\* _playCursor += AUDIO_CHUNK_SIZE is a load and a store.
PlayLoad ==
    /\ audioCall.at = "load"
    /\ audioCall' = [at |-> "advance", cur |-> playCursor]
    /\ UNCHANGED <<audioState, buffers, cursors, dma, wave, touched>>

PlayAdvance ==
    /\ audioCall.at = "advance"
    /\ playCursor' = audioCall.cur + AUDIO_CHUNK_SIZE
    /\ audioCall' = Returned
    /\ UNCHANGED <<audioState, buffers, recordCursor, dma, wave, touched>>

\* startRecord and startPlay with a callback work on the library's own buffers.
startWithCallback(state, direction) ==
    /\ ReadyToStart
    /\ audioBuffer' = FALSE
    /\ audioState' = state /\ dma' = direction
    /\ UNCHANGED <<audioBufferSize, cursors, wave, touched, audioCall>>

-----------------------------------------------------------------------------
(* stop(), step by step in the caller's thread.                            *)
Running == audioState \in {"RECORDING", "PLAYING"}
Finish == audioState' = IF audioState = "RECORDING" THEN "RECORDING_FINISH" ELSE "PLAYING_FINISH"

\* Mutation: the state is changed before the header is written.
stop_StateFirst ==
    /\ audioCall = Returned /\ Running
    /\ Finish
    /\ atStop' = recordCursor
    /\ audioCall' = [at |-> "dma"]
    /\ UNCHANGED <<buffers, cursors, dma, header, mono, touched>>

\* Outside of a recording or playback it does nothing.
stop ==
    /\ audioCall = Returned /\ Running
    /\ IF audioState = "RECORDING" /\ audioBuffer
         THEN audioCall' = [at |-> "header", cur |-> recordCursor] /\ atStop' = recordCursor
         ELSE audioCall' = [at |-> "finish"] /\ UNCHANGED atStop
    /\ UNCHANGED <<audioState, buffers, cursors, dma, header, mono, touched>>

StopHeader ==
    /\ audioCall.at = "header"
    /\ header' = audioCall.cur - WAVE_HEADER_SIZE
    /\ touched' = WAVE_HEADER_SIZE
    /\ audioCall' = [at |-> "finish"]
    /\ UNCHANGED <<audioState, buffers, cursors, dma, atStop, mono>>

\* The interrupt may have finished in between.
StopFinish ==
    /\ audioCall.at = "finish"
    /\ IF Running THEN Finish /\ audioCall' = [at |-> "dma"]
                  ELSE audioCall' = Returned /\ UNCHANGED audioState
    /\ UNCHANGED <<buffers, cursors, dma, wave, touched>>

StopDMA ==
    /\ audioCall.at = "dma"
    /\ dma' = "off" /\ audioCall' = Returned
    /\ UNCHANGED <<audioState, buffers, cursors, wave, touched>>

-----------------------------------------------------------------------------
(* The interrupts.                                                         *)

\* stop() called from an interrupt.
StopInside ==
    /\ Finish /\ dma' = "off"
    /\ IF audioState = "RECORDING" /\ audioBuffer
         THEN /\ header' = recordCursor - WAVE_HEADER_SIZE
              /\ touched' = WAVE_HEADER_SIZE
              /\ atStop' = IF audioCall = Returned THEN recordCursor ELSE atStop
         ELSE UNCHANGED <<header, touched, atStop>>

\* A callback may call stop(); the transfer is started again all the same.
Callback(direction) ==
    /\ dma' = direction
    /\ Finish \/ UNCHANGED audioState
    /\ UNCHANGED <<header, touched, atStop>>

NoRoom(cursor) == cursor + AUDIO_CHUNK_SIZE > audioBufferSize

RecordChunk ==
    IF NoRoom(recordCursor) THEN StopInside /\ UNCHANGED recordCursor
    ELSE /\ touched' = recordCursor + AUDIO_CHUNK_SIZE
         /\ recordCursor' = recordCursor + AUDIO_CHUNK_SIZE
         /\ dma' = "in"
         /\ UNCHANGED <<audioState, header, atStop>>

BSP_AUDIO_IN_TransferComplete_CallBack ==
    /\ dma = "in"
    /\ IF audioState # "RECORDING" THEN dma' = "off" /\ UNCHANGED <<audioState, recordCursor, header, touched, atStop>>
       ELSE IF audioBuffer THEN RecordChunk
       ELSE Callback("in") /\ UNCHANGED recordCursor
    /\ UNCHANGED <<buffers, playCursor, audioCall, mono>>

PlayChunk ==
    IF NoRoom(playCursor) THEN StopInside /\ UNCHANGED playCursor
    ELSE /\ touched' = playCursor + AUDIO_CHUNK_SIZE
         /\ playCursor' = playCursor + AUDIO_CHUNK_SIZE
         /\ dma' = "out"
         /\ UNCHANGED <<audioState, header, atStop>>

BSP_AUDIO_OUT_TransferComplete_CallBack ==
    /\ dma = "out"
    /\ IF audioState # "PLAYING" THEN dma' = "off" /\ UNCHANGED <<audioState, playCursor, header, touched, atStop>>
       ELSE IF audioBuffer THEN PlayChunk
       ELSE Callback("out") /\ UNCHANGED playCursor
    /\ UNCHANGED <<buffers, recordCursor, audioCall, mono>>

-----------------------------------------------------------------------------
getCurrentSize == recordCursor

\* Sample 0 stays, sample 1 is dropped, every second one from there on is moved up.
MonoSize(size) ==
    LET frame == 2 * SampleSize
        moved == (size - WAVE_HEADER_SIZE - 1) \div frame   \* iterations of the copy loop
    IN  WAVE_HEADER_SIZE + SampleSize * (1 + (IF size = WAVE_HEADER_SIZE THEN 0 ELSE moved))

\* Called with a finished recording and getCurrentSize().
convertToMono ==
    /\ audioCall = Returned /\ dma = "off" /\ ~mono
    /\ audioState = "RECORDING_FINISH" /\ audioBuffer
    /\ mono' = TRUE
    /\ header' = MonoSize(getCurrentSize) - WAVE_HEADER_SIZE
    /\ touched' = getCurrentSize
    /\ UNCHANGED <<audioState, buffers, cursors, dma, atStop, audioCall>>

-----------------------------------------------------------------------------
AudioNext ==
    \/ format
    \/ \E size \in BufferSizes : startRecord(size) \/ startPlay(size)
    \/ startWithCallback("RECORDING", "in") \/ startWithCallback("PLAYING", "out")
    \/ PlayLoad \/ PlayAdvance
    \/ stop \/ StopHeader \/ StopFinish \/ StopDMA
    \/ BSP_AUDIO_IN_TransferComplete_CallBack
    \/ BSP_AUDIO_OUT_TransferComplete_CallBack
    \/ convertToMono

AudioSpec == AudioInit /\ [][AudioNext]_audioVars

-----------------------------------------------------------------------------
(* Types.                                                                  *)
AudioTypeOK ==
    /\ audioState \in {"INIT", "RECORDING", "PLAYING", "RECORDING_FINISH", "PLAYING_FINISH"}
    /\ audioBuffer \in BOOLEAN /\ mono \in BOOLEAN
    /\ audioBufferSize \in Nat /\ recordCursor \in Nat /\ playCursor \in Nat /\ touched \in Nat
    /\ dma \in {"off", "in", "out"}
    /\ header \in Nat \cup {None} /\ atStop \in Nat \cup {None}
    /\ audioCall.at \in {"idle", "load", "advance", "header", "finish", "dma"}

(* Neither the interrupts, nor stop() between two of them, nor a playback  *)
(* whose cursor the interrupt moved while startPlay was moving it, reach   *)
(* behind the end of the application's buffer.                             *)
AudioInBuffer == audioBuffer => touched <= audioBufferSize

(* A recording that ended has a header, however the caller's stop() and    *)
(* the one of the interrupt overlap: it covers all that had been recorded  *)
(* when stop() was called, and nothing that was never recorded.            *)
HeaderHonest ==
    audioState = "RECORDING_FINISH" /\ audioBuffer /\ audioCall = Returned /\ ~mono =>
        /\ header # None
        /\ atStop - WAVE_HEADER_SIZE <= header
        /\ header <= recordCursor - WAVE_HEADER_SIZE

(* What the interrupts, start and stop leave in the application's buffer:  *)
(* a recording under its header, and nothing behind its end.               *)
AudioSound == AudioInBuffer /\ HeaderHonest

-----------------------------------------------------------------------------
(* The inductive invariant: the cursors' place in the application's        *)
(* buffer, and what the header covers while a stop() is under way.         *)
CallTypedAudio ==
    \/ audioCall = Returned
    \/ audioCall \in [at : {"load", "finish", "dma"}] \cup [at : {"advance", "header"}, cur : Nat]
Recorded == audioBuffer /\ audioState \in {"RECORDING", "RECORDING_FINISH"}
CursorKnown ==
    /\ audioBuffer => WAVE_HEADER_SIZE <= audioBufferSize
    /\ Recorded => WAVE_HEADER_SIZE <= recordCursor /\ recordCursor <= audioBufferSize
CallKnownAudio ==
    /\ audioCall.at \in {"load", "advance"} => audioState \in {"PLAYING", "PLAYING_FINISH"}
    /\ audioCall.at = "dma" => ~Running
    /\ audioCall.at = "header" =>
          /\ Recorded /\ audioCall.cur = atStop
          /\ atStop \in Nat /\ WAVE_HEADER_SIZE <= atStop /\ atStop <= recordCursor
HeaderCovers ==
    /\ header # None
    /\ atStop - WAVE_HEADER_SIZE <= header
    /\ header <= recordCursor - WAVE_HEADER_SIZE
HeaderKnown ==
    /\ Recorded /\ ~mono /\ audioCall.at = "finish" => HeaderCovers
    /\ Recorded /\ ~mono /\ audioState = "RECORDING_FINISH" /\ audioCall.at # "header"
          => HeaderCovers

AudioInv ==
    /\ AudioTypeOK /\ CallTypedAudio /\ CursorKnown /\ CallKnownAudio /\ HeaderKnown
    /\ AudioInBuffer

=============================================================================
