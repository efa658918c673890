------------------------- MODULE DevKitMQTTClient -------------------------
(***************************************************************************)
(* The MQTT client of libraries/AzureIoT (DevKitMQTTClient.cpp): one       *)
(* application thread sends events, reports states, polls for messages and *)
(* re-connects, on top of the Azure IoT low-level client, whose callbacks  *)
(* run inside IoTHubClient_LL_DoWork and IoTHubClient_LL_Destroy.          *)
(*                                                                         *)
(* `op' is the API call in progress, `pc' where it stands.  Wi-Fi may come *)
(* and go, and time may run out, at every test the code makes of them.     *)
(***************************************************************************)
EXTENDS Integers, FiniteSets

CONSTANTS
    SEND_EVENT_RETRY_COUNT,
    CheckRounds,        \* DoWork calls of one DevKitMQTTClient_Check (5)
    MaxCalls, MaxEvents, MaxMessages, MaxReconnects

EVENT_CONFIRMED == -2
EVENT_FAILED == -3

Types == {"MESSAGE", "STATE"}
SendOps == {"SendEvent", "ReportState", "SendEventInstance"}
Ops == SendOps \cup {"Init", "ReceiveEvent", "Check", "Close", "Reset", "none"}
Events == 1..MaxEvents
NoEvent == [event |-> 0, type |-> "MESSAGE", trackingId |-> -1]

ASSUME ConstantsAssumption ==
    /\ SEND_EVENT_RETRY_COUNT \in Nat \ {0}
    /\ CheckRounds \in Nat \ {0}
    /\ MaxCalls \in Nat /\ MaxEvents \in Nat /\ MaxMessages \in Nat /\ MaxReconnects \in Nat

VARIABLES
    \* the statics of DevKitMQTTClient.cpp; `handle' is iotHubClientHandle # NULL
    handle, trackingId, currentTrackingId, clientConnected, resetClient, receiveContext,
    \* the low-level client: its link, whether the status callback was set, whether
    \* this client ever reported that it is connected, events it still holds
    link, registered, confirmedLink, pending,
    \* the call in progress
    op, pc, event, attempt, count,
    \* the hub, and the heap: how often each event was freed
    confirmed, allocated, freed,
    \* history: the events of the last call, and what the call returned
    mine, result,
    calls, reconnects

staticVars == <<handle, trackingId, currentTrackingId, clientConnected, resetClient,
                receiveContext>>
clientVars == <<link, registered, confirmedLink, pending>>
frameVars == <<op, event, attempt, count>>
worldVars == <<confirmed, allocated, freed>>
historyVars == <<mine, result>>
boundVars == <<calls, reconnects>>
vars == <<staticVars, clientVars, frameVars, pc, worldVars, historyVars, boundVars>>

Init ==
    /\ handle = FALSE /\ trackingId = 0 /\ currentTrackingId = -1
    /\ clientConnected = FALSE /\ resetClient = FALSE /\ receiveContext = 0
    /\ link = "down" /\ registered = FALSE /\ confirmedLink = FALSE /\ pending = {}
    /\ op = "none" /\ pc = "idle" /\ event = NoEvent /\ attempt = 0 /\ count = 0
    /\ confirmed = {} /\ allocated = 0 /\ freed = [e \in Events |-> 0]
    /\ mine = {} /\ result = FALSE
    /\ calls = 0 /\ reconnects = 0

Return(value) ==
    /\ pc' = "idle" /\ result' = value
    /\ event' = NoEvent /\ attempt' = 0 /\ count' = 0
    /\ UNCHANGED op

\* FreeEventInstance
Free(events) == freed' = [e \in Events |-> IF e \in events THEN freed[e] + 1 ELSE freed[e]]

-----------------------------------------------------------------------------
(* The API calls.                                                          *)
Call(name, target, value) ==
    /\ pc = "idle" /\ calls < MaxCalls
    /\ calls' = calls + 1
    /\ op' = name /\ pc' = target
    /\ mine' = {} /\ result' = value
    /\ UNCHANGED <<event, attempt, count>>

DevKitMQTTClient_Send ==
    /\ \E name \in SendOps : Call(name, "generate", FALSE)
    /\ UNCHANGED <<staticVars, clientVars, worldVars, reconnects>>

\* Init of a client that exists returns true at once.
DevKitMQTTClient_Init ==
    /\ IF handle THEN Call("Init", "idle", TRUE) ELSE Call("Init", "create", FALSE)
    /\ UNCHANGED <<staticVars, clientVars, worldVars, reconnects>>

DevKitMQTTClient_ReceiveEvent ==
    /\ Call("ReceiveEvent", "checkConnection", FALSE)
    /\ UNCHANGED <<staticVars, clientVars, worldVars, reconnects>>

\* Without a handle, Wi-Fi or the interval elapsed, Check does nothing.
DevKitMQTTClient_Check ==
    /\ handle
    /\ Call("Check", "checkConnection", FALSE)
    /\ UNCHANGED <<staticVars, clientVars, worldVars, reconnects>>

DevKitMQTTClient_Reset ==
    /\ Call("Reset", "checkConnection", FALSE)
    /\ resetClient' = TRUE
    /\ UNCHANGED <<handle, trackingId, currentTrackingId, clientConnected, receiveContext,
                   clientVars, worldVars, reconnects>>

\* IoTHubClient_LL_Destroy: a pending message is answered with
\* BECAUSE_DESTROY; a pending state is answered or dropped without a callback.
Destroy ==
    /\ handle' = FALSE
    /\ link' = "down" /\ registered' = FALSE /\ confirmedLink' = FALSE /\ pending' = {}
    /\ \E answered \in SUBSET pending :
         /\ \A p \in pending : p.type = "MESSAGE" => p \in answered
         /\ Free({p.event : p \in answered})
    /\ currentTrackingId' =
         IF \E p \in pending : p.type = "MESSAGE" /\ p.trackingId = currentTrackingId
           THEN EVENT_FAILED ELSE currentTrackingId

DevKitMQTTClient_Close ==
    /\ handle
    /\ Call("Close", "idle", FALSE)
    /\ Destroy
    /\ UNCHANGED <<trackingId, clientConnected, resetClient, receiveContext, confirmed, allocated, reconnects>>

-----------------------------------------------------------------------------
(* CheckConnection, and DevKitMQTTClient_Init when it is reached from there. *)

\* Where the caller goes on after CheckConnection.
AfterCheck ==
    CASE op \in SendOps -> "submit"
      [] op = "ReceiveEvent" -> "receive"
      [] op = "Check" -> "rounds"
      [] OTHER -> "return"

\* No reset asked for, or no Wi-Fi: nothing happens.
CheckConnectionSkips ==
    /\ pc = "checkConnection"
    /\ pc' = AfterCheck
    /\ UNCHANGED <<staticVars, clientVars, frameVars, worldVars, historyVars, boundVars>>

CheckConnectionReconnects ==
    /\ pc = "checkConnection"
    /\ resetClient
    /\ reconnects < MaxReconnects
    /\ reconnects' = reconnects + 1
    /\ IF handle THEN Destroy
       ELSE UNCHANGED <<handle, clientVars, freed, currentTrackingId>>
    /\ resetClient' = FALSE
    /\ pc' = "create"
    /\ UNCHANGED <<trackingId, clientConnected, receiveContext, frameVars, confirmed, allocated, historyVars, calls>>

\* The value Init returns is only used by the application's own call.
InitReturns(value) ==
    /\ IF op = "Init" THEN Return(value)
       ELSE pc' = AfterCheck /\ UNCHANGED <<frameVars, result>>

\* Creating the client and setting its options: the handle may be missing, or
\* an option refused before or after the status callback was set.
CreateClient ==
    /\ pc = "create"
    /\ trackingId' = 0
    /\ \/ /\ InitReturns(FALSE)
          /\ UNCHANGED <<handle, registered, resetClient>>
       \/ /\ handle' = TRUE /\ registered' \in BOOLEAN
          /\ InitReturns(FALSE)
          /\ UNCHANGED resetClient
       \/ /\ handle' = TRUE /\ registered' = TRUE
          /\ resetClient' = FALSE
          /\ pc' = "initWork"
          /\ UNCHANGED <<frameVars, result>>
    /\ UNCHANGED <<currentTrackingId, clientConnected, receiveContext, link, confirmedLink,
                   pending, worldVars, mine, boundVars>>

\* One turn of the wait for the connection.
InitWait ==
    /\ pc = "initTest"
    /\ \/ clientConnected /\ InitReturns(TRUE)
       \/ ~clientConnected /\ resetClient /\ InitReturns(FALSE)
       \/ /\ ~clientConnected /\ ~resetClient
          /\ pc' = "initWork"
          /\ UNCHANGED <<frameVars, result>>
    /\ UNCHANGED <<staticVars, clientVars, worldVars, mine, boundVars>>

\* CONNECT_TIMEOUT_MS have passed.
InitTimesOut ==
    /\ pc = "initTest"
    /\ ~clientConnected /\ ~resetClient
    /\ resetClient' = TRUE
    /\ InitReturns(FALSE)
    /\ UNCHANGED <<handle, trackingId, currentTrackingId, clientConnected, receiveContext,
                   clientVars, worldVars, mine, boundVars>>

-----------------------------------------------------------------------------
(* What IoTHubClient_LL_DoWork may do before it returns.                   *)
WorkPCs == {"initWork", "sendWork", "receiveWork", "checkWork"}
Working == pc \in WorkPCs /\ handle

\* ConnectionStatusCallback(AUTHENTICATED, OK)
LinkUp ==
    /\ Working /\ link = "down"
    /\ link' = "up"
    /\ clientConnected' = (clientConnected \/ registered)
    /\ confirmedLink' = (confirmedLink \/ registered)
    /\ UNCHANGED <<handle, trackingId, currentTrackingId, resetClient, receiveContext,
                   registered, pending, frameVars, pc, worldVars, historyVars, boundVars>>

\* ConnectionStatusCallback(UNAUTHENTICATED, reason): an expired token or a lost
\* network ask for a reset, the other reasons do not.
LinkDown ==
    /\ Working
    /\ link' = "down"
    /\ IF registered
         THEN clientConnected' = FALSE /\ resetClient' \in {resetClient, TRUE}
         ELSE UNCHANGED <<clientConnected, resetClient>>
    /\ UNCHANGED <<handle, trackingId, currentTrackingId, receiveContext, registered,
                   confirmedLink, pending, frameVars, pc, worldVars, historyVars, boundVars>>

\* Mutation: any answer counts as a confirmation.
Confirmation_AnyResult(p, ok) ==
    /\ currentTrackingId' = IF currentTrackingId # p.trackingId THEN currentTrackingId
                            ELSE EVENT_CONFIRMED
    /\ Free({p.event})

\* SendConfirmationCallback and ReportConfirmationCallback: a failed report does
\* not touch currentTrackingId.
Confirmation(p, ok) ==
    /\ currentTrackingId' =
         IF currentTrackingId # p.trackingId THEN currentTrackingId
         ELSE IF ok THEN EVENT_CONFIRMED
         ELSE IF p.type = "MESSAGE" THEN EVENT_FAILED
         ELSE currentTrackingId
    /\ Free({p.event})

\* The hub answers, or the client gives a message up.
Confirm ==
    /\ Working
    /\ \E p \in pending, ok \in BOOLEAN :
         /\ ok => link = "up"
         /\ Confirmation(p, ok)
         /\ pending' = pending \ {p}
         /\ confirmed' = IF ok THEN confirmed \cup {p.event} ELSE confirmed
    /\ UNCHANGED <<handle, trackingId, clientConnected, resetClient, receiveContext, link,
                   registered, confirmedLink, frameVars, pc, allocated, historyVars, boundVars>>

\* ReceiveMessageCallback accepts a cloud-to-device message.
ReceiveMessage ==
    /\ Working /\ link = "up" /\ registered
    /\ receiveContext < MaxMessages
    /\ receiveContext' = receiveContext + 1
    /\ UNCHANGED <<handle, trackingId, currentTrackingId, clientConnected, resetClient,
                   clientVars, frameVars, pc, worldVars, historyVars, boundVars>>

DoWorkReturns ==
    /\ pc \in WorkPCs
    /\ pc' = [initWork |-> "initTest", sendWork |-> "sendTest",
              receiveWork |-> "receiveTest", checkWork |-> "checkTest"][pc]
    /\ UNCHANGED <<staticVars, clientVars, frameVars, worldVars, historyVars, boundVars>>

-----------------------------------------------------------------------------
(* SendEventOnce, and the retry loop around it.                            *)

\* SendEvent and ReportState try again with a new event, SendEventInstance not.
SendReturns(value) ==
    IF ~value /\ op # "SendEventInstance" /\ attempt + 1 < SEND_EVENT_RETRY_COUNT
      THEN /\ pc' = "generate" /\ attempt' = attempt + 1 /\ event' = NoEvent
           /\ UNCHANGED <<op, count, result>>
      ELSE Return(value)

\* DevKitMQTTClient_Event_Generate: the message may not be created.
Generate ==
    /\ pc = "generate"
    /\ \/ /\ allocated < MaxEvents
          /\ allocated' = allocated + 1
          /\ mine' = mine \cup {allocated + 1}
          /\ \E type \in (IF op = "SendEvent" THEN {"MESSAGE"}
                          ELSE IF op = "ReportState" THEN {"STATE"} ELSE Types) :
               event' = [event |-> allocated + 1, type |-> type, trackingId |-> -1]
          /\ pc' = "number"
          /\ UNCHANGED <<op, attempt, count, result>>
       \/ /\ SendReturns(FALSE)
          /\ UNCHANGED <<allocated, mine>>
    /\ UNCHANGED <<staticVars, clientVars, confirmed, freed, boundVars>>

\* The event gets its number before CheckConnection may re-connect.
NumberEvent ==
    /\ pc = "number"
    /\ \/ /\ handle
          /\ event' = [event EXCEPT !.trackingId = trackingId]
          /\ trackingId' = trackingId + 1
          /\ currentTrackingId' = trackingId
          /\ pc' = "checkConnection"
          /\ UNCHANGED <<op, attempt, count, result, freed>>
       \/ /\ Free({event.event})          \* no client, or no Wi-Fi
          /\ SendReturns(FALSE)
          /\ UNCHANGED <<trackingId, currentTrackingId>>
    /\ UNCHANGED <<handle, clientConnected, resetClient, receiveContext, clientVars,
                   confirmed, allocated, mine, boundVars>>

\* Still disconnected: the event is neither sent nor freed.
Submit ==
    /\ pc = "submit"
    /\ \/ /\ resetClient
          /\ SendReturns(FALSE)
          /\ UNCHANGED <<pending, freed>>
       \/ /\ ~resetClient
          /\ Free({event.event})          \* refused by the client
          /\ SendReturns(FALSE)
          /\ UNCHANGED pending
       \/ /\ ~resetClient /\ handle
          /\ pending' = pending \cup {event}
          /\ pc' = "sendWork"
          /\ UNCHANGED <<frameVars, result, freed>>
    /\ UNCHANGED <<staticVars, link, registered, confirmedLink, confirmed,
                   allocated, mine, boundVars>>

\* EVENT_FAILED is not tested: a refused event waits for the time to run out.
WaitForConfirmation ==
    /\ pc = "sendTest"
    /\ \/ currentTrackingId = EVENT_CONFIRMED /\ SendReturns(TRUE)
       \/ currentTrackingId # EVENT_CONFIRMED /\ resetClient /\ SendReturns(FALSE)
       \/ /\ currentTrackingId # EVENT_CONFIRMED /\ ~resetClient
          /\ pc' = "sendWork"
          /\ UNCHANGED <<frameVars, result>>
    /\ UNCHANGED <<staticVars, clientVars, worldVars, mine, boundVars>>

\* Mutations: the client is not reset; the time-out is only logged.
SendTimesOut_NoReset ==
    /\ pc = "sendTest"
    /\ currentTrackingId # EVENT_CONFIRMED /\ ~resetClient
    /\ SendReturns(FALSE)
    /\ UNCHANGED <<staticVars, clientVars, worldVars, mine, boundVars>>
SendTimesOut_Logs ==
    /\ pc = "sendTest"
    /\ currentTrackingId # EVENT_CONFIRMED /\ ~resetClient
    /\ pc' = "sendWork"
    /\ UNCHANGED <<staticVars, clientVars, frameVars, worldVars, historyVars, boundVars>>

\* EVENT_TIMEOUT_MS have passed: the client is reset; it still holds the event.
SendTimesOut ==
    /\ pc = "sendTest"
    /\ currentTrackingId # EVENT_CONFIRMED /\ ~resetClient
    /\ resetClient' = TRUE
    /\ SendReturns(FALSE)
    /\ UNCHANGED <<handle, trackingId, currentTrackingId, clientConnected, receiveContext,
                   clientVars, worldVars, mine, boundVars>>

-----------------------------------------------------------------------------
(* DevKitMQTTClient_ReceiveEvent, DevKitMQTTClient_Check and Reset.        *)
ReceiveStarts ==
    /\ pc = "receive"
    /\ \/ resetClient /\ Return(FALSE)
       \/ /\ ~resetClient
          /\ count' = receiveContext /\ pc' = "receiveWork"
          /\ UNCHANGED <<op, event, attempt, result>>
    /\ UNCHANGED <<staticVars, clientVars, worldVars, mine, boundVars>>

ReceiveTest ==
    /\ pc = "receiveTest"
    /\ \/ count < receiveContext /\ Return(TRUE)
       \/ count >= receiveContext /\ Return(FALSE)    \* disconnected, or no Wi-Fi
       \/ /\ count >= receiveContext /\ ~resetClient
          /\ pc' = "receiveWork"
          /\ UNCHANGED <<frameVars, result>>
    /\ UNCHANGED <<staticVars, clientVars, worldVars, mine, boundVars>>

\* CHECK_INTERVAL_MS have passed without a message.
ReceiveTimesOut ==
    /\ pc = "receiveTest"
    /\ count >= receiveContext /\ ~resetClient
    /\ resetClient' = TRUE
    /\ Return(FALSE)
    /\ UNCHANGED <<handle, trackingId, currentTrackingId, clientConnected, receiveContext,
                   clientVars, worldVars, mine, boundVars>>

CheckStarts ==
    /\ pc = "rounds"
    /\ \/ resetClient /\ Return(TRUE)
       \/ /\ ~resetClient
          /\ pc' = "checkWork"
          /\ UNCHANGED <<frameVars, result>>
    /\ UNCHANGED <<staticVars, clientVars, worldVars, mine, boundVars>>

CheckTest ==
    /\ pc = "checkTest"
    /\ \/ Return(TRUE)                   \* disconnected, or the last round
       \/ /\ ~resetClient /\ count + 1 < CheckRounds
          /\ count' = count + 1
          /\ pc' = "checkWork"
          /\ UNCHANGED <<op, event, attempt, result>>
    /\ UNCHANGED <<staticVars, clientVars, worldVars, mine, boundVars>>

ResetReturns ==
    /\ pc = "return"
    /\ Return(TRUE)
    /\ UNCHANGED <<staticVars, clientVars, worldVars, mine, boundVars>>

-----------------------------------------------------------------------------
Application ==
    \/ DevKitMQTTClient_Send \/ DevKitMQTTClient_Init \/ DevKitMQTTClient_ReceiveEvent
    \/ DevKitMQTTClient_Check \/ DevKitMQTTClient_Reset \/ DevKitMQTTClient_Close

Library == LinkUp \/ LinkDown \/ Confirm \/ ReceiveMessage

Code ==
    \/ CheckConnectionSkips \/ CheckConnectionReconnects \/ CreateClient \/ InitWait
    \/ DoWorkReturns
    \/ Generate \/ NumberEvent \/ Submit \/ WaitForConfirmation
    \/ ReceiveStarts \/ ReceiveTest \/ CheckStarts \/ CheckTest \/ ResetReturns

TimeUp == InitTimesOut \/ SendTimesOut \/ ReceiveTimesOut

Next == Application \/ Library \/ Code \/ TimeUp

Spec == Init /\ [][Next]_vars

\* The calling thread runs, DoWork returns, and the tick counter advances: a
\* wait whose test is reached again and again finds its time up at last.
FairSpec ==
    /\ Spec
    /\ WF_vars(Code)
    /\ SF_vars(InitTimesOut) /\ SF_vars(SendTimesOut) /\ SF_vars(ReceiveTimesOut)

-----------------------------------------------------------------------------
PCs == WorkPCs \cup {"idle", "generate", "number", "checkConnection", "create", "initTest",
                     "submit", "sendTest", "receive", "receiveTest", "rounds", "checkTest",
                     "return"}
TrackedEvents == [event : 0..MaxEvents, type : Types, trackingId : -1..MaxEvents]

(* Every variable stays in its range. *)
TypeOK ==
    /\ handle \in BOOLEAN /\ clientConnected \in BOOLEAN /\ resetClient \in BOOLEAN
    /\ trackingId \in 0..MaxEvents
    /\ currentTrackingId \in (-1..MaxEvents) \cup {EVENT_CONFIRMED, EVENT_FAILED}
    /\ receiveContext \in 0..MaxMessages
    /\ link \in {"up", "down"} /\ registered \in BOOLEAN /\ confirmedLink \in BOOLEAN
    /\ pending \subseteq TrackedEvents
    /\ op \in Ops /\ pc \in PCs /\ event \in TrackedEvents
    /\ attempt \in 0..(SEND_EVENT_RETRY_COUNT - 1)
    /\ count \in Nat
    /\ confirmed \subseteq Events /\ mine \subseteq Events
    /\ allocated \in 0..MaxEvents /\ freed \in [Events -> Nat]
    /\ result \in BOOLEAN
    /\ calls \in 0..MaxCalls /\ reconnects \in 0..MaxReconnects

(* The EVENT_INSTANCE passed to the low-level client as the callback's     *)
(* context lives exactly until its one callback: nothing the client still  *)
(* holds has been freed, and nothing is freed twice, whether the answer    *)
(* comes in time, after the time-out, or from the client's destruction.    *)
EventFreedOnce ==
    /\ \A e \in Events : freed[e] <= 1
    /\ \A p \in pending : freed[p.event] = 0

(* A client that was given up on is replaced before anything else is sent: *)
(* an event whose confirmation was not awaited leaves resetClient set, so  *)
(* that no call hands a second event to a client that still holds one.     *)
AbandonedMeansReset ==
    /\ Cardinality(pending) <= 1
    /\ pc = "idle" /\ pending # {} => resetClient

(* An event belongs to one side at a time: it is freed at most once and    *)
(* never while the low-level client holds it, and a client that still      *)
(* holds one is not given a second.                                        *)
EventOwned == TypeOK /\ EventFreedOnce /\ AbandonedMeansReset

(* A send that returns true was confirmed by the hub, by the answer to one *)
(* of its own events and not by a late answer to an earlier one, although  *)
(* tracking ids start again at every re-connection.                        *)
SendTrueMeansConfirmed ==
    pc = "idle" /\ op \in SendOps /\ result => mine \cap confirmed # {}

(* A send whose event the hub confirmed while the call was waiting returns *)
(* true.                                                                   *)
ConfirmedIsReported ==
    pc = "idle" /\ op \in SendOps /\ mine \cap confirmed # {} => result

(* DevKitMQTTClient_Init returns true for a client that has connected.     *)
InitTrueMeansConnected ==
    pc = "idle" /\ op = "Init" /\ result => confirmedLink

(* Every call returns: no wait lasts longer than its time-out.             *)
CallsReturn == pc # "idle" ~> pc = "idle"

-----------------------------------------------------------------------------
(* Why EventOwned and SendTrueMeansConfirmed hold, part by part.           *)
SendWaits == {"sendWork", "sendTest"}
InitPCs == {"create", "initWork", "initTest"}

\* Where a call stands tells which call it is.
CallKnown ==
    /\ pc \in SendWaits \cup {"generate", "number", "submit"} => op \in SendOps
    /\ pc \in {"receive", "receiveWork", "receiveTest", "rounds", "checkWork", "checkTest",
               "return"} => op \notin SendOps

\* A tracking id is used once by a client: ids run behind the events allocated.
IdsBehindEvents == trackingId <= allocated /\ (pc = "number" => trackingId < allocated)

\* Only events handed out were freed, and none twice.
FreedKnown == \A e \in Events : freed[e] <= 1 /\ (e > allocated => freed[e] = 0)

\* The low-level client holds one event at most, which is alive; it holds one
\* only while it exists; and outside the wait for its confirmation only when a
\* reset is due.  A client being set up holds none.
PendingKnown ==
    /\ \A p, q \in pending : p = q
    /\ \A p \in pending : p.event \in 1..allocated /\ freed[p.event] = 0
    /\ pending # {} => handle
    /\ pending # {} /\ pc \notin SendWaits => resetClient
    /\ pc \in InitPCs => pending = {}

\* An event that is not yet sent belongs to the call alone, and no answer to an
\* earlier one is mistaken for its own.
UnsentOwned ==
    op \in SendOps /\ pc \in InitPCs \cup {"number", "checkConnection", "submit"} =>
        /\ event.event \in mine /\ event.event \in 1..allocated /\ freed[event.event] = 0
        /\ \A p \in pending : p.event # event.event
        /\ pc # "number" => currentTrackingId # EVENT_CONFIRMED

\* The one a call is waiting for is all the client can hold, and a confirmation
\* is that event's.
WaitsForOwn ==
    pc \in SendWaits =>
        /\ event.event \in mine
        /\ pending \subseteq {event}
        /\ currentTrackingId = EVENT_CONFIRMED => pending = {} /\ event.event \in confirmed

MQTTInv ==
    /\ TypeOK /\ CallKnown /\ IdsBehindEvents /\ FreedKnown /\ PendingKnown
    /\ UnsentOwned /\ WaitsForOwn /\ SendTrueMeansConfirmed

=============================================================================
