--------------------------- MODULE MC_Components ---------------------------
(***************************************************************************)
(* The components that share no state with each other, each with its own   *)
(* small instance: a behaviour is one component's, chosen in the initial   *)
(* state, and the variables of the others never change.                    *)
(***************************************************************************)
EXTENDS RingBufferCalls, EEPROMSettings, TickCounter, TelemetryQueue, AudioV2,
        WebSocketClient, WiFiUDP, MulticastUDP, HTTPServer, BufferedSerial, TimeSync,
        WiFiClass, ConsoleCLI, DPSClient

CONSTANT Components     \* the components this run is about

VARIABLE component

\* A setting over two zones and one over a zone of two blocks that is converted
\* between them.
MC_Layout == [wifi |-> <<"ssid", "pwd">>, iothub |-> <<"conn">>]
MC_ZoneOrder == <<"ssid", "conn", "pwd">>
MC_Blocks == [ssid |-> 1, conn |-> 2, pwd |-> 1]

\* No list, one server, and an empty name in front of one.
MC_ServerLists == {<<>>, <<"a">>, <<"", "a">>}

\* What may be typed in one behaviour.
MC_Keyboards == {{"set_wifissid", " ", "quote", "backslash"}, {"set_wifipwd", "a", " ", "quote"},
                 {"enable_secure", "1", " "}}

Others(name) ==
    /\ component' = component
    /\ name # "ring" => UNCHANGED ringVars
    /\ name # "eeprom" => UNCHANGED eepromVars
    /\ name # "tick" => UNCHANGED tickVars
    /\ name # "telemetry" => UNCHANGED telemetryVars
    /\ name # "audio" => UNCHANGED audioVars
    /\ name # "websocket" => UNCHANGED wsVars
    /\ name # "udp" => UNCHANGED udpVars
    /\ name # "multicast" => UNCHANGED multicastVars
    /\ name # "http" => UNCHANGED httpVars
    /\ name # "serial" => UNCHANGED serialVars
    /\ name # "wifi" => UNCHANGED wifiVars
    /\ name # "time" => UNCHANGED timeVars
    /\ name # "console" => UNCHANGED consoleVars
    /\ name # "dps" => UNCHANGED dpsVars

allVars == <<component, ringVars, eepromVars, tickVars, telemetryVars, audioVars, wsVars,
             udpVars, multicastVars, httpVars, serialVars, timeVars,
             wifiVars, consoleVars, dpsVars>>

RingStep == component = "ring" /\ RingNext /\ Others("ring")
EEPROMStep == component = "eeprom" /\ EEPROMNext /\ Others("eeprom")
TickStep == component = "tick" /\ TickNext /\ Others("tick")
TelemetryStep == component = "telemetry" /\ TelemetryNext /\ Others("telemetry")
AudioStep == component = "audio" /\ AudioNext /\ Others("audio")
WebSocketStep == component = "websocket" /\ WSNext /\ Others("websocket")
UDPStep == component = "udp" /\ UDPNext /\ Others("udp")
MulticastStep == component = "multicast" /\ MulticastNext /\ Others("multicast")
HTTPStep == component = "http" /\ HTTPNext /\ Others("http")
SerialStep == component = "serial" /\ SerialNext /\ Others("serial")
WiFiStep == component = "wifi" /\ WiFiNext /\ Others("wifi")
ConsoleStep == component = "console" /\ ConsoleNext /\ Others("console")
DPSStep == component = "dps" /\ DPSNext /\ Others("dps")
TimeStep == component = "time" /\ TimeNext /\ Others("time")

ComponentsInit ==
    /\ component \in Components
    /\ RingInit /\ EEPROMInit /\ AudioInit /\ UDPInit /\ MulticastInit /\ HTTPInit
    /\ SerialInit /\ DPSInit
    /\ TickInit /\ (component # "tick" => usTicker = 0)
    /\ TelemetryInit /\ (component # "telemetry" => rssi)
    /\ WiFiInit /\ (component # "wifi" => network)
    /\ TimeInit /\ (component # "time" => boardClock = 0)
    /\ ConsoleInit /\ (component # "console" => keyboard = CHOOSE kb \in Keyboards : TRUE)
    /\ WSInit /\ (component # "websocket" => messageType = "Text")

ComponentsNext ==
    \/ RingStep \/ EEPROMStep \/ TickStep \/ TelemetryStep
    \/ AudioStep \/ WebSocketStep \/ UDPStep \/ MulticastStep \/ HTTPStep
    \/ SerialStep \/ TimeStep \/ WiFiStep \/ ConsoleStep \/ DPSStep

\* The threads of a component are scheduled; its environment need not act.
ComponentsFair ==
    /\ WF_allVars(component = "telemetry" /\ Worker /\ Others("telemetry"))
    /\ WF_allVars(component = "http" /\ Caller /\ Others("http"))
    /\ WF_allVars(component = "http" /\ Thread /\ Others("http"))
    /\ WF_allVars(component = "serial" /\ SerialThread /\ Others("serial"))
    /\ WF_allVars(component = "serial" /\ txIrq /\ Others("serial"))
    /\ WF_allVars(component = "serial" /\ Shifted /\ Others("serial"))

ComponentsSpec == ComponentsInit /\ [][ComponentsNext]_allVars /\ ComponentsFair

(* Types, of every component.                                              *)
ComponentsTypeOK ==
    /\ RingTypeOK /\ EEPROMTypeOK /\ TickTypeOK /\ TelemetryTypeOK
    /\ AudioTypeOK /\ WSTypeOK /\ UDPTypeOK /\ MulticastTypeOK /\ HTTPTypeOK
    /\ TimeTypeOK /\ WiFiTypeOK /\ ConsoleTypeOK /\ DPSTypeOK

(* What a component keeps account of is so: every telemetry message is     *)
(* sent, cached or counted as lost; the sockets of the HTTP server, whose  *)
(* numbers other tasks use again at once, are closed once and by their     *)
(* owner; the WiFi interfaces that are believed up or down are; the hub    *)
(* the provisioning service assigned is the one given out.                 *)
ResourcesAccounted ==
    /\ ComponentsTypeOK
    /\ MessageAccounted /\ StoppedMeansReleased /\ ClosesOwnSockets /\ InterfacesAsBelieved
    /\ AssignmentKept

(* What no step may do: write a zone of a setting before the one in front  *)
(* of it was verified, let the time run backwards, report a frame as what  *)
(* it is not, report a datagram as sent that was not, send one with a      *)
(* hole, or overwrite a telemetry message unless two producers raced.      *)
StepsHonest ==
    /\ WrittenInOrder /\ ReadsMonotone /\ WSTypeReported /\ EndPacketHonest /\ DatagramWhole
    /\ OverwriteNeedsRace

\* What a component has yet to do.
Unfinished ==
    \/ component = "telemetry" /\ TelemetryWaits
    \/ component = "serial" /\ SerialWaits
    \/ component = "http" /\ HTTPCallerWaits

(* No wake-up is lost and no call hangs: messages cached by the telemetry  *)
(* are sent once the network stays, what BufferedSerial::write accepted is *)
(* sent although prime and the interrupt handler each leave the work to    *)
(* the other, and the calls that start and stop the HTTP server return.    *)
ComponentsLive == <>[]rssi => (Unfinished ~> ~Unfinished)

=============================================================================
