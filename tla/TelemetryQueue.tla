--------------------------- MODULE TelemetryQueue ---------------------------
(***************************************************************************)
(* libraries/AzureIoT/platform/telemetry/TelemetryClient.cpp: threads that *)
(* send asynchronously push a heap-allocated message into m_pool, a        *)
(* CircularBuffer that overwrites its oldest entry when it is full; one    *)
(* worker thread takes the messages out while there is a network.  A       *)
(* synchronous send touches neither.                                       *)
(***************************************************************************)
EXTENDS Naturals, Sequences, FiniteSets

CONSTANTS
    Producers,              \* threads that call Send
    MESSAGE_QUEUE_SIZE,
    MaxMessages             \* bound: messages sent

ASSUME TelemetryAssumption ==
    MESSAGE_QUEUE_SIZE \in Nat \ {0} /\ MaxMessages \in Nat /\ IsFiniteSet(Producers)

VARIABLES
    m_pool,                 \* the messages in the buffer, oldest first
    producer,               \* where each producer is, and the message it holds
    telemetry_worker,       \* the message the worker is sending, or none
    rssi,                   \* SystemWiFiRSSI() # 0
    created, freed,         \* messages allocated (1..created), messages deleted
    overwritten,            \* messages the buffer dropped
    raced                   \* history: producers that were overtaken since their test

telemetryVars == <<m_pool, producer, telemetry_worker, rssi, created, freed, overwritten, raced>>

NoMessage == 0
Waiting == [at |-> "idle", msg |-> NoMessage]

TelemetryInit ==
    /\ m_pool = <<>>
    /\ producer = [p \in Producers |-> Waiting]
    /\ telemetry_worker = NoMessage
    /\ rssi \in BOOLEAN
    /\ created = 0 /\ freed = {} /\ overwritten = {} /\ raced = {}

full == Len(m_pool) = MESSAGE_QUEUE_SIZE

\* do_trace_telemetry allocates and formats the message.
Send(p) ==
    /\ producer[p].at = "idle" /\ created < MaxMessages
    /\ created' = created + 1
    /\ producer' = [producer EXCEPT ![p] = [at |-> "test", msg |-> created + 1]]
    /\ UNCHANGED <<m_pool, telemetry_worker, rssi, freed, overwritten, raced>>

\* push_msg, the test: with a full buffer the new message is thrown away.
PushTest(p) ==
    /\ producer[p].at = "test"
    /\ IF full
         THEN /\ producer' = [producer EXCEPT ![p] = Waiting]
              /\ freed' = freed \cup {producer[p].msg}
         ELSE /\ producer' = [producer EXCEPT ![p].at = "push"]
              /\ UNCHANGED freed
    /\ raced' = raced \ {p}
    /\ UNCHANGED <<m_pool, telemetry_worker, rssi, created, overwritten>>

\* push_msg, the push; CircularBuffer::push is a critical section of its own.
Push(p) ==
    /\ producer[p].at = "push"
    /\ m_pool' = Append(IF full THEN Tail(m_pool) ELSE m_pool, producer[p].msg)
    /\ overwritten' = IF full THEN overwritten \cup {Head(m_pool)} ELSE overwritten
    /\ producer' = [producer EXCEPT ![p] = Waiting]
    /\ raced' = raced \cup {q \in Producers \ {p} : producer[q].at = "push"}
    /\ UNCHANGED <<telemetry_worker, rssi, created, freed>>

\* The worker's loop: without a network, and with an empty buffer, it waits.
WorkerPop ==
    /\ telemetry_worker = NoMessage /\ rssi /\ m_pool # <<>>
    /\ telemetry_worker' = Head(m_pool)
    /\ m_pool' = Tail(m_pool)
    /\ UNCHANGED <<producer, rssi, created, freed, overwritten, raced>>

\* send_data_to_ai, whatever its outcome, then delete.
WorkerSent ==
    /\ telemetry_worker # NoMessage
    /\ telemetry_worker' = NoMessage
    /\ freed' = freed \cup {telemetry_worker}
    /\ UNCHANGED <<m_pool, producer, rssi, created, overwritten, raced>>

\* The network comes and goes.
Network ==
    /\ rssi' = ~rssi
    /\ UNCHANGED <<m_pool, producer, telemetry_worker, created, freed, overwritten, raced>>

Worker == WorkerPop \/ WorkerSent

TelemetryNext ==
    \/ \E p \in Producers : Send(p) \/ PushTest(p) \/ Push(p)
    \/ Worker
    \/ Network

TelemetrySpec == TelemetryInit /\ [][TelemetryNext]_telemetryVars

-----------------------------------------------------------------------------
(* Types.                                                                  *)
TelemetryTypeOK ==
    /\ m_pool \in Seq(1..MaxMessages) /\ Len(m_pool) <= MESSAGE_QUEUE_SIZE
    /\ \A p \in Producers : producer[p].at \in {"idle", "test", "push"}
    /\ telemetry_worker \in 0..MaxMessages
    /\ rssi \in BOOLEAN
    /\ created \in 0..MaxMessages
    /\ freed \subseteq 1..created /\ overwritten \subseteq 1..created
    /\ raced \subseteq Producers

(* Every message allocated is in exactly one place: a producer's hand, the *)
(* buffer, the worker's hand, freed, or overwritten in the buffer.  So     *)
(* none is freed twice, sent after it was freed, or sent twice, and none   *)
(* leaks but by being overwritten.                                         *)
MessageAccounted ==
    \A m \in 1..created :
        Cardinality({p \in Producers : producer[p].msg = m})
          + Cardinality({i \in DOMAIN m_pool : m_pool[i] = m})
          + Cardinality({x \in {"worker"} : telemetry_worker = m})
          + Cardinality({x \in {"freed"} : m \in freed})
          + Cardinality({x \in {"lost"} : m \in overwritten}) = 1

(* A message is overwritten, and its memory lost, only when another        *)
(* producer pushed between this one's test for room and its push.          *)
OverwriteNeedsRace ==
    [][\A p \in Producers :
         producer[p].at = "push" /\ producer'[p].at = "idle" /\ overwritten' # overwritten
           => p \in raced]_telemetryVars

\* Messages are cached, and must be sent once the network stays.
TelemetryWaits == m_pool # <<>>

-----------------------------------------------------------------------------
(* The inductive invariant: the places a message can be in exclude each    *)
(* other, each holds a message once, and a producer that was not overtaken *)
(* still has the room it saw.                                              *)
InHand(m) == \E p \in Producers : producer[p].msg = m
Cached(m) == \E i \in DOMAIN m_pool : m_pool[i] = m
ProducersTyped ==
    /\ producer \in [Producers -> [at : {"idle", "test", "push"}, msg : 0..created]]
    /\ \A p \in Producers : producer[p].at = "idle" <=> producer[p].msg = NoMessage
HeldOnce ==
    /\ \A p, q \in Producers : producer[p].msg = producer[q].msg /\ producer[p].msg # NoMessage
                                 => p = q
    /\ \A i, j \in DOMAIN m_pool : m_pool[i] = m_pool[j] => i = j
OnePlace ==
    \A m \in 1..created :
        /\ InHand(m) \/ Cached(m) \/ telemetry_worker = m \/ m \in freed \/ m \in overwritten
        /\ InHand(m) => ~Cached(m)
        /\ InHand(m) \/ Cached(m) => telemetry_worker # m
        /\ InHand(m) \/ Cached(m) \/ telemetry_worker = m => m \notin freed
        /\ InHand(m) \/ Cached(m) \/ telemetry_worker = m \/ m \in freed => m \notin overwritten
RoomSeen ==
    \A p \in Producers :
        producer[p].at = "push" /\ p \notin raced => Len(m_pool) < MESSAGE_QUEUE_SIZE
TelemetryInv ==
    /\ TelemetryTypeOK
    /\ m_pool \in Seq(1..created) /\ telemetry_worker \in 0..created
    /\ ProducersTyped /\ HeldOnce /\ OnePlace /\ RoomSeen

=============================================================================
