----------------------------- MODULE WiFiClass -----------------------------
(***************************************************************************)
(* Joining a network and opening one: libraries/WiFi/src/AZ3166WiFi.cpp    *)
(* over extensions/network/SystemWiFi.cpp.  The vendor's EMW10xxInterface  *)
(* has a station and an access point, and its connect and disconnect mean  *)
(* the one that set_interface chose last; WiFiClass keeps flags of its own *)
(* for what it believes to be up.                                          *)
(*                                                                         *)
(* A call is one step: the sketch is one thread.  The synchronisation of   *)
(* the clock and the telemetry a connection starts are TimeSync and        *)
(* TelemetryQueue.                                                         *)
(***************************************************************************)
EXTENDS Naturals

Station == "station"
Soft_AP == "softAP"
Interfaces == {Station, Soft_AP}

VARIABLES
    network,            \* _defaultSystemNetwork: it was created
    chosen, up, signal, \* the driver: interface chosen, interfaces up, RSSI is not 0
    is_wifi_inited, is_station_inited, is_ap_inited,
    current_status,
    stopFailed          \* history: interfaces whose disconnect failed

wifiVars == <<network, chosen, up, signal, is_wifi_inited, is_station_inited, is_ap_inited,
              current_status, stopFailed>>
flagVars == <<is_station_inited, is_ap_inited>>

\* The interface is created once; what it may still be afterwards.
InitSystemWiFi(created) == IF created THEN {TRUE} ELSE BOOLEAN

\* The constructor.
WiFiInit ==
    /\ network \in InitSystemWiFi(FALSE) /\ is_wifi_inited = network
    /\ chosen = Station /\ up = {} /\ signal = FALSE
    /\ is_station_inited = FALSE /\ is_ap_inited = FALSE
    /\ current_status = "WL_IDLE_STATUS"
    /\ stopFailed = {}

-----------------------------------------------------------------------------
(* The driver.                                                             *)

set_interface(i) == chosen' = i

\* connect and disconnect of the interface just chosen.
driver_connect(i, ok) ==
    /\ up' = IF ok THEN up \union {i} ELSE up
    /\ stopFailed' = IF ok THEN stopFailed \ {i} ELSE stopFailed
    /\ signal' \in (IF ok THEN {TRUE} ELSE {signal})
driver_disconnect(is) ==
    \E stopped \in SUBSET is :
        /\ up' = up \ stopped
        /\ stopFailed' = stopFailed \union (is \ stopped)
        /\ signal' = (signal /\ up \ stopped # {})

\* The signal is lost or comes back while an interface is up.
SignalChanges ==
    /\ up # {} /\ signal' = ~signal
    /\ UNCHANGED <<network, chosen, up, is_wifi_inited, flagVars, current_status, stopFailed>>

-----------------------------------------------------------------------------
(* SystemWiFi.cpp.                                                         *)

\* The settings store cannot be read, or holds no SSID; else connect.
SystemWiFiConnect(ok) ==
    \/ ~ok /\ UNCHANGED <<chosen, up, signal, stopFailed>>
    \/ set_interface(Station) /\ driver_connect(Station, ok)

SystemWiFiAPStart(ok) == set_interface(Soft_AP) /\ driver_connect(Soft_AP, ok)

-----------------------------------------------------------------------------
(* WiFiClass.                                                              *)

Began(ok) ==
    /\ is_station_inited' = ok
    /\ current_status' = IF ok THEN "WL_CONNECTED" ELSE "WL_DISCONNECTED"
    /\ UNCHANGED <<network, is_wifi_inited, is_ap_inited>>

\* With the stored network, or with one the sketch names.  A station that was
\* started once is taken for connected.
begin ==
    /\ is_wifi_inited /\ ~is_station_inited
    /\ \E ok \in BOOLEAN : SystemWiFiConnect(ok) /\ Began(ok)
begin_ssid ==
    /\ is_wifi_inited /\ ~is_station_inited
    /\ \E ok \in BOOLEAN : set_interface(Station) /\ driver_connect(Station, ok) /\ Began(ok)

\* InitSystemWiFi creates the network when the constructor could not.
beginAP ==
    /\ ~is_ap_inited
    /\ \E ok \in BOOLEAN :
         /\ network' \in InitSystemWiFi(network)
         /\ ok => network'
         /\ IF network' THEN SystemWiFiAPStart(ok) ELSE UNCHANGED <<chosen, up, signal, stopFailed>>
         /\ is_ap_inited' = ok
         /\ current_status' = IF ok THEN "WL_CONNECTED" ELSE "WL_DISCONNECTED"
    /\ UNCHANGED <<is_wifi_inited, is_station_inited>>

\* What the driver's disconnect returns is ignored.
disconnectAP ==
    /\ IF is_ap_inited
       THEN set_interface(Soft_AP) /\ driver_disconnect({Soft_AP})
       ELSE UNCHANGED <<chosen, up, signal, stopFailed>>
    /\ is_ap_inited' = FALSE
    /\ current_status' = "WL_DISCONNECTED"
    /\ UNCHANGED <<network, is_wifi_inited, is_station_inited>>

\* The station first, then disconnectAP.
disconnect ==
    /\ is_wifi_inited
    /\ LET is == {i \in Interfaces : IF i = Station THEN is_station_inited ELSE is_ap_inited}
       IN  IF is = {} THEN UNCHANGED <<chosen, up, signal, stopFailed>>
           ELSE /\ set_interface(IF is_ap_inited THEN Soft_AP ELSE Station)
                /\ driver_disconnect(is)
    /\ is_station_inited' = FALSE /\ is_ap_inited' = FALSE
    /\ current_status' = "WL_DISCONNECTED"
    /\ UNCHANGED <<network, is_wifi_inited>>

\* Networks were found.
scanNetworks ==
    /\ is_wifi_inited
    /\ current_status' = "WL_SCAN_COMPLETED"
    /\ UNCHANGED <<network, chosen, up, signal, is_wifi_inited, flagVars, stopFailed>>

status ==
    IF signal THEN current_status
    ELSE IF current_status = "WL_CONNECTED" THEN "WL_CONNECTION_LOST" ELSE "WL_DISCONNECTED"

WiFiNext ==
    \/ begin \/ begin_ssid \/ beginAP \/ disconnect \/ disconnectAP \/ scanNetworks
    \/ SignalChanges

WiFiSpec == WiFiInit /\ [][WiFiNext]_wifiVars

-----------------------------------------------------------------------------
(* Types.                                                                  *)
WiFiTypeOK ==
    /\ chosen \in Interfaces /\ up \subseteq Interfaces /\ stopFailed \subseteq Interfaces
    /\ {network, signal, is_wifi_inited, is_station_inited, is_ap_inited} \subseteq BOOLEAN
    /\ current_status \in {"WL_IDLE_STATUS", "WL_CONNECTED", "WL_DISCONNECTED",
                           "WL_SCAN_COMPLETED"}

(* What WiFiClass believes to be up is up, and what it believes to be down *)
(* is down unless the driver refused to stop it: although one driver       *)
(* serves both interfaces and connect and disconnect act on whichever was  *)
(* chosen last, no call stops or starts the other one.  status answers     *)
(* WL_CONNECTED only while an interface is up and there is a signal.       *)
InterfacesAsBelieved ==
    /\ is_station_inited => Station \in up
    /\ is_ap_inited => Soft_AP \in up
    /\ up \subseteq stopFailed \union (IF is_station_inited THEN {Station} ELSE {})
                                \union (IF is_ap_inited THEN {Soft_AP} ELSE {})
    /\ status = "WL_CONNECTED" => up # {} /\ signal

(* The inductive invariant: there is no signal without an interface.       *)
WiFiInv == WiFiTypeOK /\ InterfacesAsBelieved /\ (signal => up # {})

=============================================================================
