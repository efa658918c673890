---------------------- MODULE DevKitMQTTClient_proofs ----------------------
(***************************************************************************)
(* Events of the IoT Hub client are freed once and by their owner, and a   *)
(* send that returns true was confirmed, for every number of calls,        *)
(* retries, re-connections and events.  The proof has one lemma for each   *)
(* part of MQTTInv, and in it one step for each group of actions.          *)
(***************************************************************************)
EXTENDS DevKitMQTTClient, FiniteSetTheorems, TLAPS

\* The place of a call keeps telling which call it is.
LEMMA CallKept ==
    ASSUME MQTTInv, Next
    PROVE  CallKnown'
  <1> USE DEF staticVars, clientVars, frameVars, worldVars, historyVars, boundVars,
            MQTTInv, CallKnown, SendOps, SendWaits
  <1>1. CASE Application
    BY <1>1 DEF Application, DevKitMQTTClient_Send, DevKitMQTTClient_Init,
         DevKitMQTTClient_ReceiveEvent, DevKitMQTTClient_Check,
         DevKitMQTTClient_Reset, DevKitMQTTClient_Close, Call, Destroy
  <1>2. CASE LinkUp \/ LinkDown \/ ReceiveMessage
    BY <1>2 DEF LinkUp, LinkDown, ReceiveMessage
  <1>3. CASE Confirm
    BY <1>3 DEF Confirm, Confirmation, Working, WorkPCs
  <1>4. CASE DoWorkReturns
    BY <1>4 DEF DoWorkReturns, WorkPCs
  <1>5. CASE CheckConnectionSkips
    BY <1>5 DEF CheckConnectionSkips, AfterCheck
  <1>6. CASE CheckConnectionReconnects
    BY <1>6 DEF CheckConnectionReconnects, Destroy
  <1>7. CASE CreateClient \/ InitWait \/ InitTimesOut
    BY <1>7 DEF CreateClient, InitWait, InitTimesOut, InitReturns, Return,
         AfterCheck
  <1>8. CASE Generate
    BY <1>8 DEF Generate, SendReturns, Return
  <1>9. CASE NumberEvent
    BY <1>9 DEF NumberEvent, SendReturns, Return
  <1>10. CASE Submit
    BY <1>10 DEF Submit, SendReturns, Return
  <1>11. CASE WaitForConfirmation \/ SendTimesOut
    BY <1>11 DEF WaitForConfirmation, SendTimesOut, SendReturns, Return
  <1>12. CASE \/ ReceiveStarts \/ ReceiveTest \/ ReceiveTimesOut
              \/ CheckStarts \/ CheckTest \/ ResetReturns
    BY <1>12 DEF ReceiveStarts, ReceiveTest, ReceiveTimesOut, CheckStarts,
         CheckTest, ResetReturns, Return
  <1>13. QED
    BY <1>1, <1>2, <1>3, <1>4, <1>5, <1>6, <1>7, <1>8, <1>9, <1>10,
       <1>11, <1>12 DEF Next, Library, Code, TimeUp

\* Every id given out has an event allocated for it.
LEMMA IdsKept ==
    ASSUME MQTTInv, Next
    PROVE  IdsBehindEvents'
  <1> USE DEF staticVars, clientVars, frameVars, worldVars, historyVars, boundVars,
            MQTTInv, IdsBehindEvents, TypeOK
  <1>1. CASE Application
    BY <1>1 DEF Application, DevKitMQTTClient_Send, DevKitMQTTClient_Init,
         DevKitMQTTClient_ReceiveEvent, DevKitMQTTClient_Check,
         DevKitMQTTClient_Reset, DevKitMQTTClient_Close, Call, Destroy
  <1>2. CASE LinkUp \/ LinkDown \/ ReceiveMessage
    BY <1>2 DEF LinkUp, LinkDown, ReceiveMessage
  <1>3. CASE Confirm
    BY <1>3 DEF Confirm, Confirmation, Working, WorkPCs
  <1>4. CASE DoWorkReturns
    BY <1>4 DEF DoWorkReturns, WorkPCs
  <1>5. CASE CheckConnectionSkips
    BY <1>5 DEF CheckConnectionSkips, AfterCheck
  <1>6. CASE CheckConnectionReconnects
    BY <1>6 DEF CheckConnectionReconnects, Destroy
  <1>7. CASE CreateClient \/ InitWait \/ InitTimesOut
    BY <1>7 DEF CreateClient, InitWait, InitTimesOut, InitReturns, Return,
         AfterCheck
  <1>8. CASE Generate
    BY <1>8 DEF Generate, SendReturns, Return
  <1>9. CASE NumberEvent
    BY <1>9 DEF NumberEvent, SendReturns, Return
  <1>10. CASE Submit
    BY <1>10 DEF Submit, SendReturns, Return
  <1>11. CASE WaitForConfirmation \/ SendTimesOut
    BY <1>11 DEF WaitForConfirmation, SendTimesOut, SendReturns, Return
  <1>12. CASE \/ ReceiveStarts \/ ReceiveTest \/ ReceiveTimesOut
              \/ CheckStarts \/ CheckTest \/ ResetReturns
    BY <1>12 DEF ReceiveStarts, ReceiveTest, ReceiveTimesOut, CheckStarts,
         CheckTest, ResetReturns, Return
  <1>13. QED
    BY <1>1, <1>2, <1>3, <1>4, <1>5, <1>6, <1>7, <1>8, <1>9, <1>10,
       <1>11, <1>12 DEF Next, Library, Code, TimeUp

\* What the low-level client holds stays alive, alone and due for a reset.
LEMMA PendingKept ==
    ASSUME MQTTInv, Next
    PROVE  PendingKnown'
  <1> USE DEF staticVars, clientVars, frameVars, worldVars, historyVars, boundVars,
            MQTTInv, PendingKnown, TypeOK, Events, SendWaits, InitPCs
  <1>1. CASE Application
    BY <1>1 DEF Application, DevKitMQTTClient_Send, DevKitMQTTClient_Init,
         DevKitMQTTClient_ReceiveEvent, DevKitMQTTClient_Check,
         DevKitMQTTClient_Reset, DevKitMQTTClient_Close, Call, Destroy, Free
  <1>2. CASE LinkUp \/ LinkDown \/ ReceiveMessage
    BY <1>2 DEF LinkUp, LinkDown, ReceiveMessage
  <1>3. CASE Confirm
    BY <1>3 DEF Confirm, Confirmation, Working, WorkPCs, Free, FreedKnown
  <1>4. CASE DoWorkReturns
    BY <1>4 DEF DoWorkReturns, WorkPCs
  <1>5. CASE CheckConnectionSkips
    BY <1>5 DEF CheckConnectionSkips, AfterCheck
  <1>6. CASE CheckConnectionReconnects
    BY <1>6 DEF CheckConnectionReconnects, Destroy, Free
  <1>7. CASE CreateClient \/ InitWait \/ InitTimesOut
    BY <1>7 DEF CreateClient, InitWait, InitTimesOut, InitReturns, Return,
         AfterCheck
  <1>8. CASE Generate
    BY <1>8 DEF Generate, SendReturns, Return
  <1>9. CASE NumberEvent
    <2>1. pc = "number" /\ op \in SendOps /\ pending' = pending /\ allocated' = allocated
      BY <1>9 DEF NumberEvent, CallKnown, SendWaits
    <2>2. CASE pc' = "checkConnection"
      BY <1>9, <2>1, <2>2 DEF NumberEvent, SendReturns, Return
    <2>3. CASE pc' # "checkConnection"
      <3>1. /\ pc' \in {"generate", "idle"} /\ resetClient' = resetClient /\ handle' = handle
            /\ Free({event.event})
        BY <1>9, <2>3 DEF NumberEvent, SendReturns, Return
      <3>2. QED
        BY <2>1, <3>1, ConstantsAssumption DEF Free, UnsentOwned, FreedKnown
    <2>4. QED
      BY <2>2, <2>3
  <1>10. CASE Submit
    BY <1>10 DEF Submit, SendReturns, Return, Free, UnsentOwned, CallKnown, SendOps
  <1>11. CASE WaitForConfirmation \/ SendTimesOut
    BY <1>11 DEF WaitForConfirmation, SendTimesOut, SendReturns, Return, WaitsForOwn
  <1>12. CASE \/ ReceiveStarts \/ ReceiveTest \/ ReceiveTimesOut
              \/ CheckStarts \/ CheckTest \/ ResetReturns
    BY <1>12 DEF ReceiveStarts, ReceiveTest, ReceiveTimesOut, CheckStarts,
         CheckTest, ResetReturns, Return
  <1>13. QED
    BY <1>1, <1>2, <1>3, <1>4, <1>5, <1>6, <1>7, <1>8, <1>9, <1>10,
       <1>11, <1>12 DEF Next, Library, Code, TimeUp

\* An event not yet sent stays the call's own.
LEMMA UnsentKept ==
    ASSUME MQTTInv, Next
    PROVE  UnsentOwned'
  <1> USE DEF staticVars, clientVars, frameVars, worldVars, historyVars, boundVars,
            MQTTInv, UnsentOwned, CallKnown, TypeOK, SendWaits, InitPCs, SendOps,
            EVENT_CONFIRMED, EVENT_FAILED
  <1>1. CASE Application
    BY <1>1 DEF Application, DevKitMQTTClient_Send, DevKitMQTTClient_Init,
         DevKitMQTTClient_ReceiveEvent, DevKitMQTTClient_Check,
         DevKitMQTTClient_Reset, DevKitMQTTClient_Close, Call, Destroy,
         PendingKnown, FreedKnown, Free, Events
  <1>2. CASE LinkUp \/ LinkDown \/ ReceiveMessage
    <2>1. UNCHANGED <<op, pc, event, mine, allocated, freed, pending, currentTrackingId>>
      BY <1>2, Zenon DEF LinkUp, LinkDown, ReceiveMessage
    <2>2. QED
      BY <2>1
  <1>3. CASE Confirm
    BY <1>3 DEF Confirm, Confirmation, Working, WorkPCs, PendingKnown, FreedKnown,
         Free, Events
  <1>4. CASE DoWorkReturns
    BY <1>4 DEF DoWorkReturns, WorkPCs
  <1>5. CASE CheckConnectionSkips
    BY <1>5 DEF CheckConnectionSkips, AfterCheck
  <1>6. CASE CheckConnectionReconnects
    <2>1. /\ UNCHANGED <<op, event, mine, allocated>> /\ pc = "checkConnection"
          /\ pending' = {} /\ pc' = "create"
          /\ currentTrackingId' \in {currentTrackingId, EVENT_FAILED}
          /\ freed' = freed \/ \E answered \in SUBSET pending : Free({p.event : p \in answered})
      BY <1>6 DEF CheckConnectionReconnects, Destroy, PendingKnown
    <2>2. QED
      BY <2>1, ConstantsAssumption DEF Free, Events
  <1>7. CASE CreateClient \/ InitWait \/ InitTimesOut
    BY <1>7 DEF CreateClient, InitWait, InitTimesOut, InitReturns, Return,
         AfterCheck
  <1>8. CASE Generate
    <2>1. CASE pc' = "number"
      <3>1. /\ event'.event = allocated + 1 /\ allocated' = allocated + 1
            /\ mine' = mine \cup {allocated + 1} /\ allocated < MaxEvents
            /\ freed' = freed /\ pending' = pending
        BY <1>8, <2>1 DEF Generate, SendReturns, Return
      <3>2. QED
        BY <2>1, <3>1, ConstantsAssumption DEF FreedKnown, PendingKnown, Events
    <2>2. CASE pc' # "number"
      BY <1>8, <2>2 DEF Generate, SendReturns, Return
    <2>3. QED
      BY <2>1, <2>2
  <1>9. CASE NumberEvent
    <2>1. CASE pc' = "checkConnection"
      <3>1. /\ event'.event = event.event /\ currentTrackingId' = trackingId
            /\ UNCHANGED <<mine, allocated, freed, pending>> /\ pc = "number"
        BY <1>9, <2>1 DEF NumberEvent, SendReturns, Return, TrackedEvents
      <3>2. QED
        BY <2>1, <3>1
    <2>2. CASE pc' # "checkConnection"
      BY <1>9, <2>2 DEF NumberEvent, SendReturns, Return
    <2>3. QED
      BY <2>1, <2>2
  <1>10. CASE Submit
    BY <1>10 DEF Submit, SendReturns, Return, PendingKnown, FreedKnown, Free, Events
  <1>11. CASE WaitForConfirmation \/ SendTimesOut
    BY <1>11 DEF WaitForConfirmation, SendTimesOut, SendReturns, Return
  <1>12. CASE \/ ReceiveStarts \/ ReceiveTest \/ ReceiveTimesOut
              \/ CheckStarts \/ CheckTest \/ ResetReturns
    BY <1>12 DEF ReceiveStarts, ReceiveTest, ReceiveTimesOut, CheckStarts,
         CheckTest, ResetReturns, Return
  <1>13. QED
    BY <1>1, <1>2, <1>3, <1>4, <1>5, <1>6, <1>7, <1>8, <1>9, <1>10,
       <1>11, <1>12 DEF Next, Library, Code, TimeUp

\* A call waits for its own event, and a confirmation it sees is that event's.
LEMMA WaitKept ==
    ASSUME MQTTInv, Next
    PROVE  WaitsForOwn'
  <1> USE DEF staticVars, clientVars, frameVars, worldVars, historyVars, boundVars,
            MQTTInv, WaitsForOwn, SendWaits, EVENT_CONFIRMED, EVENT_FAILED, TypeOK
  <1>1. CASE Application
    BY <1>1 DEF Application, DevKitMQTTClient_Send, DevKitMQTTClient_Init,
         DevKitMQTTClient_ReceiveEvent, DevKitMQTTClient_Check,
         DevKitMQTTClient_Reset, DevKitMQTTClient_Close, Call, Destroy
  <1>2. CASE LinkUp \/ LinkDown \/ ReceiveMessage
    <2>1. UNCHANGED <<pc, event, mine, confirmed, pending, currentTrackingId>>
      BY <1>2, Zenon DEF LinkUp, LinkDown, ReceiveMessage
    <2>2. QED
      BY <2>1
  <1>3. CASE Confirm
    BY <1>3 DEF Confirm, Confirmation, Working, WorkPCs, PendingKnown
  <1>4. CASE DoWorkReturns
    BY <1>4 DEF DoWorkReturns, WorkPCs
  <1>5. CASE CheckConnectionSkips
    BY <1>5 DEF CheckConnectionSkips, AfterCheck
  <1>6. CASE CheckConnectionReconnects
    BY <1>6 DEF CheckConnectionReconnects, Destroy
  <1>7. CASE CreateClient \/ InitWait \/ InitTimesOut
    BY <1>7 DEF CreateClient, InitWait, InitTimesOut, InitReturns, Return,
         AfterCheck, CallKnown, SendOps
  <1>8. CASE Generate
    BY <1>8 DEF Generate, SendReturns, Return
  <1>9. CASE NumberEvent
    BY <1>9 DEF NumberEvent, SendReturns, Return
  <1>10. CASE Submit
    BY <1>10 DEF Submit, SendReturns, Return, PendingKnown, UnsentOwned, CallKnown
  <1>11. CASE WaitForConfirmation \/ SendTimesOut
    BY <1>11 DEF WaitForConfirmation, SendTimesOut, SendReturns, Return
  <1>12. CASE \/ ReceiveStarts \/ ReceiveTest \/ ReceiveTimesOut
              \/ CheckStarts \/ CheckTest \/ ResetReturns
    BY <1>12 DEF ReceiveStarts, ReceiveTest, ReceiveTimesOut, CheckStarts,
         CheckTest, ResetReturns, Return
  <1>13. QED
    BY <1>1, <1>2, <1>3, <1>4, <1>5, <1>6, <1>7, <1>8, <1>9, <1>10,
       <1>11, <1>12 DEF Next, Library, Code, TimeUp

\* A send that returns true returns it for a confirmed event of its own.
LEMMA TrueKept ==
    ASSUME MQTTInv, Next
    PROVE  SendTrueMeansConfirmed'
  <1> USE DEF staticVars, clientVars, frameVars, worldVars, historyVars, boundVars,
            MQTTInv, SendTrueMeansConfirmed, CallKnown, SendOps, SendWaits
  <1>1. CASE Application
    BY <1>1 DEF Application, DevKitMQTTClient_Send, DevKitMQTTClient_Init,
         DevKitMQTTClient_ReceiveEvent, DevKitMQTTClient_Check,
         DevKitMQTTClient_Reset, DevKitMQTTClient_Close, Call, Destroy
  <1>2. CASE LinkUp \/ LinkDown \/ ReceiveMessage
    BY <1>2 DEF LinkUp, LinkDown, ReceiveMessage
  <1>3. CASE Confirm
    BY <1>3 DEF Confirm, Confirmation, Working, WorkPCs
  <1>4. CASE DoWorkReturns
    BY <1>4 DEF DoWorkReturns, WorkPCs
  <1>5. CASE CheckConnectionSkips
    BY <1>5 DEF CheckConnectionSkips, AfterCheck
  <1>6. CASE CheckConnectionReconnects
    BY <1>6 DEF CheckConnectionReconnects, Destroy
  <1>7. CASE CreateClient \/ InitWait \/ InitTimesOut
    BY <1>7 DEF CreateClient, InitWait, InitTimesOut, InitReturns, Return,
         AfterCheck
  <1>8. CASE Generate
    BY <1>8 DEF Generate, SendReturns, Return
  <1>9. CASE NumberEvent
    BY <1>9 DEF NumberEvent, SendReturns, Return
  <1>10. CASE Submit
    BY <1>10 DEF Submit, SendReturns, Return
  <1>11. CASE WaitForConfirmation \/ SendTimesOut
    BY <1>11 DEF WaitForConfirmation, SendTimesOut, SendReturns, Return, WaitsForOwn
  <1>12. CASE \/ ReceiveStarts \/ ReceiveTest \/ ReceiveTimesOut
              \/ CheckStarts \/ CheckTest \/ ResetReturns
    BY <1>12 DEF ReceiveStarts, ReceiveTest, ReceiveTimesOut, CheckStarts,
         CheckTest, ResetReturns, Return
  <1>13. QED
    BY <1>1, <1>2, <1>3, <1>4, <1>5, <1>6, <1>7, <1>8, <1>9, <1>10,
       <1>11, <1>12 DEF Next, Library, Code, TimeUp

\* Freeing events that are alive keeps every count at one at most.
LEMMA FreeAlive ==
    ASSUME MQTTInv, NEW s, Free(s),
           \A e \in s : e \in 1..allocated /\ freed[e] = 0
    PROVE  \A e \in Events : freed'[e] <= 1 /\ (e > allocated => freed'[e] = 0)
  BY DEF MQTTInv, TypeOK, FreedKnown, Free, Events

\* What a step frees is the call's unsent event or what the low-level client
\* holds, and in the step that allocates nothing is freed.
LEMMA WhatIsFreed ==
    ASSUME MQTTInv, Next
    PROVE  \/ freed' = freed
           \/ /\ allocated' = allocated
              /\ \E s : Free(s) /\ \A e \in s : e \in 1..allocated /\ freed[e] = 0
  <1> USE DEF staticVars, clientVars, frameVars, worldVars, historyVars, boundVars
  <1>1. CASE DevKitMQTTClient_Close \/ CheckConnectionReconnects
    <2>1. /\ allocated' = allocated
          /\ \/ freed' = freed
             \/ \E answered \in SUBSET pending : Free({p.event : p \in answered})
      BY <1>1, Zenon DEF DevKitMQTTClient_Close, CheckConnectionReconnects, Destroy
    <2>2. CASE freed' = freed
      BY <2>2
    <2>3. ASSUME NEW answered \in SUBSET pending, Free({p.event : p \in answered})
          PROVE  \E s : Free(s) /\ \A e \in s : e \in 1..allocated /\ freed[e] = 0
      <3>1. \A e \in {p.event : p \in answered} : e \in 1..allocated /\ freed[e] = 0
        BY DEF MQTTInv, PendingKnown
      <3>2. QED
        BY <2>3, <3>1
    <2>4. QED
      BY <2>1, <2>2, <2>3
  <1>2. CASE Confirm
    <2>1. PICK p \in pending : Free({p.event})
      BY <1>2 DEF Confirm, Confirmation
    <2>2. \A e \in {p.event} : e \in 1..allocated /\ freed[e] = 0
      BY <2>1 DEF MQTTInv, PendingKnown
    <2>3. allocated' = allocated
      BY <1>2 DEF Confirm
    <2>4. QED
      BY <2>1, <2>2, <2>3
  <1>3. CASE NumberEvent \/ Submit
    <2>1. pc \in {"number", "submit"} /\ allocated' = allocated
      BY <1>3 DEF NumberEvent, Submit
    <2>2. freed' = freed \/ Free({event.event})
      BY <1>3 DEF NumberEvent, Submit
    <2>3. \A e \in {event.event} : e \in 1..allocated /\ freed[e] = 0
      BY <2>1 DEF MQTTInv, UnsentOwned, CallKnown
    <2>4. QED
      BY <2>1, <2>2, <2>3
  <1>4. CASE ~(\/ DevKitMQTTClient_Close \/ CheckConnectionReconnects \/ Confirm
               \/ NumberEvent \/ Submit)
    <2>1. freed' = freed
      BY <1>4, Zenon DEF Next, Application, Library, Code, TimeUp,
          DevKitMQTTClient_Send, DevKitMQTTClient_Init,
          DevKitMQTTClient_ReceiveEvent, DevKitMQTTClient_Check,
          DevKitMQTTClient_Reset, LinkUp, LinkDown, ReceiveMessage, DoWorkReturns,
          CheckConnectionSkips, CreateClient, InitWait, InitTimesOut, Generate,
          WaitForConfirmation, SendTimesOut, ReceiveStarts, ReceiveTest,
          ReceiveTimesOut, CheckStarts, CheckTest, ResetReturns
    <2>2. QED
      BY <2>1
  <1>5. QED
    BY <1>1, <1>2, <1>3, <1>4

\* The allocation count grows by one or not at all.
LEMMA AllocatedGrows ==
    ASSUME MQTTInv, Next
    PROVE  allocated' = allocated \/ (allocated < MaxEvents /\ allocated' = allocated + 1)
  BY Zenon DEF staticVars, clientVars, frameVars, worldVars, historyVars, boundVars,
         Next, Application, Library, Code, TimeUp, DevKitMQTTClient_Send,
         DevKitMQTTClient_Init, DevKitMQTTClient_ReceiveEvent,
         DevKitMQTTClient_Check, DevKitMQTTClient_Reset, DevKitMQTTClient_Close,
         LinkUp, LinkDown, ReceiveMessage, Confirm, DoWorkReturns,
         CheckConnectionSkips, CheckConnectionReconnects, CreateClient, InitWait,
         InitTimesOut, Generate, NumberEvent, Submit, WaitForConfirmation,
         SendTimesOut, ReceiveStarts, ReceiveTest, ReceiveTimesOut, CheckStarts,
         CheckTest, ResetReturns, Call

\* Only allocated events were freed, and none twice.
LEMMA FreedKept ==
    ASSUME MQTTInv, Next
    PROVE  FreedKnown'
  <1>1. CASE freed' = freed
    BY <1>1, AllocatedGrows, ConstantsAssumption DEF MQTTInv, TypeOK, FreedKnown, Events
  <1>2. CASE freed' # freed
    <2>1. PICK s : Free(s) /\ \A e \in s : e \in 1..allocated /\ freed[e] = 0
      BY <1>2, WhatIsFreed
    <2>2. allocated' = allocated
      BY <1>2, WhatIsFreed
    <2>3. QED
      BY <2>1, <2>2, FreeAlive DEF FreedKnown
  <1>3. QED
    BY <1>1, <1>2

\* The steps of the counters and of the frame of a call: what each may become.
LEMMA HowItMoves ==
    ASSUME MQTTInv, Next
    PROVE  /\ \/ trackingId' = trackingId \/ trackingId' = 0
              \/ pc = "number" /\ trackingId' = trackingId + 1
           /\ currentTrackingId' \in {currentTrackingId, EVENT_CONFIRMED, EVENT_FAILED, trackingId}
           /\ \/ receiveContext' = receiveContext
              \/ receiveContext < MaxMessages /\ receiveContext' = receiveContext + 1
           /\ \/ event' \in {event, NoEvent}
              \/ pc = "number" /\ event' = [event EXCEPT !.trackingId = trackingId]
              \/ /\ allocated < MaxEvents
                 /\ \E type \in Types :
                      event' = [event |-> allocated + 1, type |-> type, trackingId |-> -1]
           /\ \/ attempt' \in {attempt, 0}
              \/ attempt + 1 < SEND_EVENT_RETRY_COUNT /\ attempt' = attempt + 1
           /\ count' \in {count, 0, receiveContext, count + 1}
           /\ confirmed' = confirmed \/ \E p \in pending : confirmed' = confirmed \cup {p.event}
           /\ \/ mine' \in {mine, {}}
              \/ allocated < MaxEvents /\ mine' = mine \cup {allocated + 1}
           /\ freed' = freed \/ \E s : Free(s)
           /\ calls' = calls \/ (calls < MaxCalls /\ calls' = calls + 1)
           /\ reconnects' = reconnects
                \/ (reconnects < MaxReconnects /\ reconnects' = reconnects + 1)
  <1> USE DEF staticVars, clientVars, frameVars, worldVars, historyVars, boundVars,
            Next, Application, Library, Code, TimeUp, DevKitMQTTClient_Send,
            DevKitMQTTClient_Init, DevKitMQTTClient_ReceiveEvent,
            DevKitMQTTClient_Check, DevKitMQTTClient_Reset, DevKitMQTTClient_Close,
            LinkUp, LinkDown, ReceiveMessage, Confirm, DoWorkReturns,
            CheckConnectionSkips, CheckConnectionReconnects, CreateClient, InitWait,
            InitTimesOut, Generate, NumberEvent, Submit, WaitForConfirmation,
            SendTimesOut, ReceiveStarts, ReceiveTest, ReceiveTimesOut, CheckStarts,
            CheckTest, ResetReturns, Call, Destroy, Confirmation, InitReturns,
            Return, SendReturns
  <1>1. \/ trackingId' = trackingId \/ trackingId' = 0
        \/ pc = "number" /\ trackingId' = trackingId + 1
    BY Zenon
  <1>2. currentTrackingId' \in {currentTrackingId, EVENT_CONFIRMED, EVENT_FAILED, trackingId}
    BY Zenon
  <1>3. \/ receiveContext' = receiveContext
        \/ receiveContext < MaxMessages /\ receiveContext' = receiveContext + 1
    BY Zenon
  <1>4. \/ event' \in {event, NoEvent}
        \/ pc = "number" /\ event' = [event EXCEPT !.trackingId = trackingId]
        \/ /\ allocated < MaxEvents
           /\ \E type \in Types :
                event' = [event |-> allocated + 1, type |-> type, trackingId |-> -1]
    BY Zenon DEF Types
  <1>5. \/ attempt' \in {attempt, 0}
        \/ attempt + 1 < SEND_EVENT_RETRY_COUNT /\ attempt' = attempt + 1
    BY Zenon
  <1>6. count' \in {count, 0, receiveContext, count + 1}
    BY Zenon
  <1>7. confirmed' = confirmed \/ \E p \in pending : confirmed' = confirmed \cup {p.event}
    BY Zenon
  <1>8. \/ mine' \in {mine, {}}
        \/ allocated < MaxEvents /\ mine' = mine \cup {allocated + 1}
    BY Zenon
  <1>9. freed' = freed \/ \E s : Free(s)
    BY Zenon
  <1>10. calls' = calls \/ (calls < MaxCalls /\ calls' = calls + 1)
    BY Zenon
  <1>11. reconnects' = reconnects
          \/ (reconnects < MaxReconnects /\ reconnects' = reconnects + 1)
    BY Zenon
  <1>12. QED
    BY <1>1, <1>2, <1>3, <1>4, <1>5, <1>6, <1>7, <1>8, <1>9, <1>10,
       <1>11, Zenon

\* The flags stay flags.
LEMMA FlagsKept ==
    ASSUME MQTTInv, Next
    PROVE  /\ handle' \in BOOLEAN /\ clientConnected' \in BOOLEAN /\ resetClient' \in BOOLEAN
           /\ registered' \in BOOLEAN /\ confirmedLink' \in BOOLEAN /\ result' \in BOOLEAN
  <1> USE DEF MQTTInv, TypeOK, staticVars, clientVars, frameVars, worldVars,
            historyVars, boundVars, Next, Application, Library, Code, TimeUp,
            DevKitMQTTClient_Send, DevKitMQTTClient_Init,
            DevKitMQTTClient_ReceiveEvent, DevKitMQTTClient_Check,
            DevKitMQTTClient_Reset, DevKitMQTTClient_Close, LinkUp, LinkDown,
            ReceiveMessage, Confirm, DoWorkReturns, CheckConnectionSkips,
            CheckConnectionReconnects, CreateClient, InitWait, InitTimesOut,
            Generate, NumberEvent, Submit, WaitForConfirmation, SendTimesOut,
            ReceiveStarts, ReceiveTest, ReceiveTimesOut, CheckStarts, CheckTest,
            ResetReturns, Call, Destroy, Confirmation, InitReturns, Return,
            SendReturns
  <1>1. handle' \in BOOLEAN
    BY Zenon
  <1>2. clientConnected' \in BOOLEAN
    BY Zenon
  <1>3. resetClient' \in BOOLEAN
    BY Zenon
  <1>4. registered' \in BOOLEAN
    BY Zenon
  <1>5. confirmedLink' \in BOOLEAN
    BY Zenon
  <1>6. result' \in BOOLEAN
    BY Zenon
  <1>7. QED
    BY <1>1, <1>2, <1>3, <1>4, <1>5, <1>6, Zenon

\* The places a call can be at.
LEMMA PlacesKept ==
    ASSUME MQTTInv, Next
    PROVE  /\ link' \in {"up", "down"} /\ pending' \subseteq TrackedEvents
           /\ op' \in Ops /\ pc' \in PCs
  <1> USE DEF MQTTInv, TypeOK, staticVars, clientVars, frameVars, worldVars,
            historyVars, boundVars, Next, Application, Library, Code, TimeUp,
            DevKitMQTTClient_Send, DevKitMQTTClient_Init,
            DevKitMQTTClient_ReceiveEvent, DevKitMQTTClient_Check,
            DevKitMQTTClient_Reset, DevKitMQTTClient_Close, LinkUp, LinkDown,
            ReceiveMessage, Confirm, DoWorkReturns, CheckConnectionSkips,
            CheckConnectionReconnects, CreateClient, InitWait, InitTimesOut,
            Generate, NumberEvent, Submit, WaitForConfirmation, SendTimesOut,
            ReceiveStarts, ReceiveTest, ReceiveTimesOut, CheckStarts, CheckTest,
            ResetReturns, Call, Destroy, Confirmation, InitReturns, Return,
            SendReturns
  <1>1. link' \in {"up", "down"}
    BY Zenon
  <1>2. pending' \subseteq TrackedEvents
    BY Zenon
  <1>3. op' \in Ops
    BY Zenon DEF Ops
  <1>4. pc' \in PCs
    <2>1. CASE Application \/ Library
      BY <2>1, Zenon DEF PCs
    <2>2. CASE DoWorkReturns
      BY <2>2 DEF PCs, WorkPCs
    <2>3. CASE Code /\ ~DoWorkReturns
      BY <2>3, Zenon DEF PCs, AfterCheck, WorkPCs
    <2>4. CASE TimeUp
      BY <2>4, Zenon DEF PCs, AfterCheck, WorkPCs
    <2>5. QED
      BY <2>1, <2>2, <2>3, <2>4
  <1>5. QED
    BY <1>1, <1>2, <1>3, <1>4, Zenon

\* The types are kept.
LEMMA TypeKept ==
    ASSUME MQTTInv, Next
    PROVE  TypeOK'
  <1> USE ConstantsAssumption DEF MQTTInv, TypeOK
  <1>1. trackingId' \in 0..MaxEvents /\ allocated' \in 0..MaxEvents
    BY HowItMoves, AllocatedGrows DEF IdsBehindEvents
  <1>2. currentTrackingId' \in (-1..MaxEvents) \cup {EVENT_CONFIRMED, EVENT_FAILED}
    BY HowItMoves DEF EVENT_CONFIRMED, EVENT_FAILED
  <1>3. receiveContext' \in 0..MaxMessages /\ count' \in Nat
    BY HowItMoves
  <1>4. event' \in TrackedEvents
    <2>1. NoEvent \in TrackedEvents
      BY DEF NoEvent, TrackedEvents, Types
    <2>2. [event EXCEPT !.trackingId = trackingId] \in TrackedEvents
      BY DEF TrackedEvents
    <2>3. allocated < MaxEvents =>
            \A type \in Types :
              [event |-> allocated + 1, type |-> type, trackingId |-> -1] \in TrackedEvents
      BY DEF TrackedEvents
    <2>4. QED
      BY <2>1, <2>2, <2>3, HowItMoves
  <1>5. attempt' \in 0..(SEND_EVENT_RETRY_COUNT - 1)
    BY HowItMoves
  <1>6. confirmed' \subseteq Events /\ mine' \subseteq Events
    <2>1. \A p \in pending : p.event \in Events
      BY DEF PendingKnown, Events
    <2>2. allocated < MaxEvents => allocated + 1 \in Events
      BY DEF Events
    <2>3. QED
      BY <2>1, <2>2, HowItMoves
  <1>7. freed' \in [Events -> Nat]
    BY HowItMoves DEF Free
  <1>8. calls' \in 0..MaxCalls /\ reconnects' \in 0..MaxReconnects
    BY HowItMoves
  <1>9. QED
    BY <1>1, <1>2, <1>3, <1>4, <1>5, <1>6, <1>7, <1>8, FlagsKept, PlacesKept, Zenon

\* The client starts with nothing allocated, held or awaited.
LEMMA StartsWell == Init => MQTTInv
  <1> SUFFICES ASSUME Init PROVE MQTTInv
    OBVIOUS
  <1>1. /\ handle \in BOOLEAN /\ clientConnected \in BOOLEAN /\ resetClient \in BOOLEAN
        /\ registered \in BOOLEAN /\ confirmedLink \in BOOLEAN /\ result \in BOOLEAN
    BY Zenon DEF Init
  <1>2. TypeOK
    <2>1. /\ trackingId \in 0..MaxEvents /\ receiveContext \in 0..MaxMessages
          /\ currentTrackingId \in (-1..MaxEvents) \cup {EVENT_CONFIRMED, EVENT_FAILED}
          /\ link \in {"up", "down"} /\ pending \subseteq TrackedEvents
          /\ op \in Ops /\ pc \in PCs /\ event \in TrackedEvents
      BY ConstantsAssumption DEF Init, Ops, PCs, NoEvent, TrackedEvents, Types
    <2>2. /\ attempt \in 0..(SEND_EVENT_RETRY_COUNT - 1) /\ count \in Nat
          /\ confirmed \subseteq Events /\ mine \subseteq Events
          /\ allocated \in 0..MaxEvents /\ freed \in [Events -> Nat]
          /\ calls \in 0..MaxCalls /\ reconnects \in 0..MaxReconnects
      BY ConstantsAssumption DEF Init
    <2>3. QED
      BY <1>1, <2>1, <2>2, Zenon DEF TypeOK
  <1>3. CallKnown /\ IdsBehindEvents /\ FreedKnown /\ PendingKnown
    BY DEF Init, CallKnown, IdsBehindEvents, FreedKnown, PendingKnown, SendWaits, InitPCs
  <1>4. UnsentOwned /\ WaitsForOwn /\ SendTrueMeansConfirmed
    BY DEF Init, UnsentOwned, WaitsForOwn, SendTrueMeansConfirmed, SendOps, SendWaits, InitPCs
  <1>5. QED
    BY <1>2, <1>3, <1>4 DEF MQTTInv

\* The inductive invariant of the client: who owns each event at each place of
\* every API call, through time-outs, retries, re-connections and close.
THEOREM ClientInvariant == Spec => []MQTTInv
  <1>1. MQTTInv /\ [Next]_vars => MQTTInv'
    <2> SUFFICES ASSUME MQTTInv, [Next]_vars PROVE MQTTInv'
      OBVIOUS
    <2>1. CASE Next
      BY <2>1, TypeKept, CallKept, IdsKept, FreedKept, PendingKept, UnsentKept, WaitKept,
         TrueKept DEF MQTTInv
    <2>2. CASE UNCHANGED vars
      <3>1. TypeOK'
        BY <2>2, Zenon DEF MQTTInv, TypeOK, vars, staticVars, clientVars, frameVars,
                    worldVars, historyVars, boundVars
      <3>2. /\ CallKnown' /\ IdsBehindEvents' /\ FreedKnown' /\ PendingKnown'
            /\ UnsentOwned' /\ WaitsForOwn' /\ SendTrueMeansConfirmed'
        BY <2>2 DEF MQTTInv, CallKnown, IdsBehindEvents, FreedKnown, PendingKnown,
                    UnsentOwned, WaitsForOwn, SendTrueMeansConfirmed, vars, staticVars, clientVars, frameVars,
                    worldVars, historyVars, boundVars
      <3>3. QED
        BY <3>1, <3>2 DEF MQTTInv
    <2>3. QED
      BY <2>1, <2>2
  <1>2. QED
    BY <1>1, StartsWell, PTL DEF Spec

\* An EVENT_INSTANCE is freed at most once and never while the low-level client
\* holds it as the context of its callback; the client never holds two, and one
\* that was given up on is reset before the next event is sent.
THEOREM EventsOwned == Spec => []EventOwned
  <1>1. MQTTInv => EventOwned
    <2> SUFFICES ASSUME MQTTInv PROVE EventOwned
      OBVIOUS
    <2>1. EventFreedOnce
      BY DEF MQTTInv, FreedKnown, PendingKnown, EventFreedOnce
    <2>2. Cardinality(pending) <= 1
      <3>1. CASE pending = {}
        BY <3>1, FS_EmptySet
      <3>2. CASE pending # {}
        <4>1. PICK p \in pending : TRUE
          BY <3>2
        <4>2. pending = {p}
          BY <4>1 DEF MQTTInv, PendingKnown
        <4>3. Cardinality(pending) = 1
          BY <4>2, FS_Singleton
        <4>4. QED
          BY <4>3
      <3>3. QED
        BY <3>1, <3>2
    <2>3. pc = "idle" /\ pending # {} => resetClient
      BY DEF MQTTInv, PendingKnown, SendWaits
    <2>4. QED
      BY <2>1, <2>2, <2>3 DEF MQTTInv, EventOwned, AbandonedMeansReset
  <1>2. QED
    BY <1>1, ClientInvariant, PTL

\* A send that returns true was confirmed by the hub's answer to one of its own
\* events, although a new client numbers its events from zero again.
THEOREM TrueMeansConfirmed == Spec => []SendTrueMeansConfirmed
  <1>1. MQTTInv => SendTrueMeansConfirmed
    BY DEF MQTTInv
  <1>2. QED
    BY <1>1, ClientInvariant, PTL
=============================================================================
