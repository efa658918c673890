----------------------------- MODULE TimeSync -----------------------------
(***************************************************************************)
(* Setting the clock: extensions/time/SystemTime.cpp, the list of servers  *)
(* that SyncTime tries in turn at every (re-)connect of the network, over  *)
(* NTPClient.cpp, one exchange with one server.                            *)
(*                                                                         *)
(* Both clocks count seconds modulo TimeWrap, which stands for 2^32: the   *)
(* time stamps of a packet are uint32_t, and so is what the real-time      *)
(* clock keeps.  Time goes on while a request travels.                     *)
(***************************************************************************)
EXTENDS Integers, Sequences

CONSTANTS
    TimeWrap,       \* 2^32
    MaxWait,        \* seconds an exchange takes at most (timeout, DNS)
    ServerLists     \* the lists SetTimeServer is given, split; "" is an empty name

defaultNTPs == <<"pool.ntp.org">>

ASSUME TimeAssumption ==
    /\ TimeWrap \in Nat \ {0} /\ TimeWrap % 2 = 0
    /\ MaxWait \in Nat /\ MaxWait < TimeWrap
    /\ ServerLists \subseteq Seq(STRING)

VARIABLES
    ntpHosts,           \* <<>> is NULL: ntpHostCount is 0 then
    timeSynced,
    serverClock, boardClock,
    \* the call of SyncTime: where it stands, the server it asks, the seconds it
    \* has waited for it
    syncAt, hostIndex, waited,
    pkt                 \* origTm_s, rxTm_s, txTm_s

timeVars == <<ntpHosts, timeSynced, serverClock, boardClock, syncAt, hostIndex, waited, pkt>>

NoStamps == [orig |-> 0, rx |-> 0, tx |-> 0]

TimeInit ==
    /\ ntpHosts = <<>> /\ timeSynced = FALSE
    /\ serverClock = 0 /\ boardClock \in 0..(TimeWrap - 1)
    /\ syncAt = "idle" /\ hostIndex = 0 /\ waited = 0
    /\ pkt = NoStamps

\* The list an allocation leaves behind: calloc may fail.
splitString(list) == {list, <<>>}

SetTimeServer(list) ==
    /\ syncAt = "idle"
    /\ IF list = <<>> THEN UNCHANGED ntpHosts ELSE ntpHosts' \in splitString(list)
    /\ UNCHANGED <<timeSynced, serverClock, boardClock, syncAt, hostIndex, waited, pkt>>

SyncTime ==
    /\ syncAt = "idle" /\ syncAt' = "host"
    /\ IF ntpHosts = <<>> THEN ntpHosts' \in splitString(defaultNTPs) ELSE UNCHANGED ntpHosts
    /\ timeSynced' = FALSE
    /\ hostIndex' = 1
    /\ UNCHANGED <<serverClock, boardClock, waited, pkt>>

\* The end of the list.
SyncFailed ==
    /\ syncAt = "host" /\ hostIndex > Len(ntpHosts)
    /\ syncAt' = "idle" /\ hostIndex' = 0
    /\ UNCHANGED <<ntpHosts, timeSynced, serverClock, boardClock, waited, pkt>>

NextHost ==
    /\ syncAt' = "host" /\ hostIndex' = hostIndex + 1
    /\ waited' = 0 /\ pkt' = NoStamps
    /\ UNCHANGED <<ntpHosts, timeSynced, serverClock, boardClock>>

\* The packet is stamped before the name is resolved.
setTime ==
    /\ syncAt = "host" /\ hostIndex <= Len(ntpHosts)
    /\ IF ntpHosts[hostIndex] = "" THEN NextHost
       ELSE /\ syncAt' = "asked"
            /\ pkt' = [NoStamps EXCEPT !.orig = boardClock]
            /\ UNCHANGED <<ntpHosts, timeSynced, serverClock, boardClock, hostIndex, waited>>

\* NTP_DNS, NTP_CONN or NTP_PRTCL: no such name, nothing sent or received, an
\* answer of another host, a short one, or one of stratum 0.
ExchangeFails ==
    /\ syncAt \in {"asked", "served", "answered"}
    /\ NextHost

\* The server stamps the request, and later its answer.
ServerReceives ==
    /\ syncAt = "asked" /\ syncAt' = "served"
    /\ pkt' = [pkt EXCEPT !.rx = serverClock]
    /\ UNCHANGED <<ntpHosts, timeSynced, serverClock, boardClock, hostIndex, waited>>

ServerAnswers ==
    /\ syncAt = "served" /\ syncAt' = "answered"
    /\ pkt' = [pkt EXCEPT !.tx = serverClock]
    /\ UNCHANGED <<ntpHosts, timeSynced, serverClock, boardClock, hostIndex, waited>>

\* A difference of two uint32_t.
Difference(a, b) == (a - b) % TimeWrap

\* Mutation: the sum is as wide as its terms.
Offset_Narrow(p, dest) ==
    ((Difference(p.rx, p.orig) + Difference(p.tx, dest)) % TimeWrap) \div 2

\* Both differences are non-negative when they are widened to int64_t.
Offset(p, dest) == (Difference(p.rx, p.orig) + Difference(p.tx, dest)) \div 2

Received ==
    /\ syncAt = "answered" /\ syncAt' = "idle"
    /\ boardClock' = (boardClock + Offset(pkt, boardClock)) % TimeWrap
    /\ timeSynced' = TRUE
    /\ hostIndex' = 0 /\ waited' = 0 /\ pkt' = NoStamps
    /\ UNCHANGED <<ntpHosts, serverClock>>

\* A second goes by.
Second ==
    /\ syncAt \notin {"idle", "host"} => waited < MaxWait
    /\ waited' = IF syncAt \in {"idle", "host"} THEN 0 ELSE waited + 1
    /\ serverClock' = (serverClock + 1) % TimeWrap
    /\ boardClock' = (boardClock + 1) % TimeWrap
    /\ UNCHANGED <<ntpHosts, timeSynced, syncAt, hostIndex, pkt>>

TimeNext ==
    \/ \E list \in ServerLists : SetTimeServer(list)
    \/ SyncTime \/ SyncFailed \/ setTime \/ ExchangeFails
    \/ ServerReceives \/ ServerAnswers \/ Received \/ Second

TimeSpec == TimeInit /\ [][TimeNext]_timeVars

-----------------------------------------------------------------------------
(* Types.                                                                  *)
TimeTypeOK ==
    /\ ntpHosts \in ServerLists \union {<<>>, defaultNTPs}
    /\ timeSynced \in BOOLEAN
    /\ {serverClock, boardClock} \subseteq 0..(TimeWrap - 1)
    /\ pkt \in [orig : 0..(TimeWrap - 1), rx : 0..(TimeWrap - 1), tx : 0..(TimeWrap - 1)]
    /\ syncAt \in {"idle", "host", "asked", "served", "answered"}
    /\ hostIndex \in 0..(Len(ntpHosts) + 1) /\ waited \in 0..MaxWait

\* The clocks differ by at most as much as an exchange takes.
ClocksAgree ==
    \/ Difference(serverClock, boardClock) <= MaxWait
    \/ Difference(boardClock, serverClock) <= MaxWait

(* A clock that is wrong is set right: whatever the difference, on         *)
(* whichever side, and wherever either clock wraps, an exchange that       *)
(* NTPClient::setTime calls NTP_OK leaves the clocks in agreement when     *)
(* they were not.  That is all there is: see SyncedMeansRight.             *)
WrongClockSetRight == [][Received /\ ~ClocksAgree => ClocksAgree']_timeVars

(* SystemTime.h says of IsTimeSynced: "Check whether the local time is     *)
(* synced up with Time Server.  @return 0 upon synced".  Does not hold:    *)
(* NTPClient::setTime widens the two differences to int64_t ("Avoid        *)
(* overflow") after they were taken as uint32_t.  When the clock is        *)
(* already right and one leg of the exchange crosses a second, one         *)
(* difference is 0 and the other 2^32 - 1: the clock moves by 2^31 s.      *)
SyncedMeansRight == timeSynced => ClocksAgree

-----------------------------------------------------------------------------
(* The inductive invariant: how the stamps of an exchange relate to the    *)
(* difference of the clocks, which no step but the setting changes; the    *)
(* server that is asked is one of the list.                                *)
Exchanging == {"asked", "served", "answered"}
HostKnown ==
    CASE syncAt = "idle"      -> hostIndex = 0
      [] syncAt = "host"      -> hostIndex \in 1..(Len(ntpHosts) + 1)
      [] syncAt \in Exchanging -> hostIndex \in 1..Len(ntpHosts)
TimeInv ==
    /\ TimeTypeOK /\ HostKnown
    /\ syncAt \notin Exchanging => waited = 0
    /\ syncAt \in Exchanging => Difference(boardClock, pkt.orig) = waited
    /\ syncAt \in {"served", "answered"} =>
          \E a \in 0..MaxWait :
             Difference(pkt.rx, pkt.orig) = (Difference(serverClock, boardClock) + a) % TimeWrap
    /\ syncAt = "answered" =>
          \E c \in 0..waited :
             Difference(pkt.tx, boardClock) = (Difference(serverClock, boardClock) - c) % TimeWrap

=============================================================================
