------------------------------- MODULE MC_Paho -------------------------------
(***************************************************************************)
(* The MQTT library: packets written and read back, filters and names, and *)
(* the client with its broker.  A behaviour is one part's, chosen in the   *)
(* initial state; the variables of the other never change.                 *)
(***************************************************************************)
EXTENDS MQTTPacket, PahoClient

CONSTANT Parts

VARIABLE part

\* Lengths around the boundaries of one, two, three and four bytes.
MC_Lengths == {0, 1, 126, 127, 128, 129, 16381, 16382, 16383, 16384, 2097149, 2097150, 2097151, 2097152,
               268435455}

\* Packets with empty strings, with bytes above 127, with identifiers of one and
\* two bytes, and around the length that takes a second byte.
MC_Strings == {<<>>, <<65>>, <<65, 0, 200>>}
MC_Wills == [topic : {<<65>>}, message : {<<>>, <<66, 67>>}, qos : 0 .. 2, retained : BOOLEAN]
MC_Connects ==
    [type : {"CONNECT"}, dup : {FALSE}, version : {3, 4}, cleansession : BOOLEAN, keepAlive : {0, 60, 65535},
     clientID : {<<>>, <<65>>}, will : {<<>>} \cup { <<w>> : w \in MC_Wills },
     username : {<<>>, << <<65>> >>}, password : {<<>>, << <<66, 67>> >>}]
MC_Publishes ==
    [type : {"PUBLISH"}, dup : BOOLEAN, qos : {1, 2}, retained : BOOLEAN, topic : MC_Strings,
     id : {1, 256, 65535}, payload : MC_Strings]
    \cup [type : {"PUBLISH"}, dup : BOOLEAN, qos : {0}, retained : BOOLEAN, topic : MC_Strings, id : {0},
          payload : MC_Strings \cup { [i \in 1 .. n |-> 7] : n \in 121 .. 127 }]
MC_Filters == { << <<65>> >>, << <<65>>, <<66, 67>> >> }
MC_Packets ==
    MC_Connects \cup MC_Publishes
    \cup [type : {"CONNACK"}, dup : {FALSE}, sessionPresent : BOOLEAN, rc : {0, 5}]
    \cup [type : Acks \ {"UNSUBACK"}, dup : BOOLEAN, id : {1, 256, 65535}]
    \cup { d \in [type : {"SUBSCRIBE"}, dup : BOOLEAN, id : {1, 256}, filters : MC_Filters,
                  qoss : {<<0>>, <<2>>, <<0, 1>>}] : Len(d.filters) = Len(d.qoss) }
    \cup [type : {"UNSUBSCRIBE"}, dup : BOOLEAN, id : {1}, filters : MC_Filters]
    \cup [type : {"SUBACK"}, dup : {FALSE}, id : {1, 300}, granted : {<<0>>, <<128>>, <<1, 2>>, <<0, 1, 2>>}]
    \cup [type : {"UNSUBACK"}, dup : {FALSE}, id : {1, 256}]
    \cup [type : Zeros, dup : {FALSE}]

\* Filters and names of up to five tokens, without empty levels.
Strings(tokens) == UNION { [1 .. n -> tokens] : n \in 1 .. 5 }
NoEmptyLevel(s) == \A i \in DOMAIN s : s[i] = "/" => i > 1 /\ i < Len(s) /\ s[i + 1] # "/"
WildcardsAlone(s) ==
    \A i \in DOMAIN s : s[i] \in {"+", "#"} =>
        (i = 1 \/ s[i - 1] = "/") /\ (i = Len(s) \/ (s[i] = "+" /\ s[i + 1] = "/"))
MC_Probes ==
    { s \in Strings({"a", "b", "/", "+", "#"}) : NoEmptyLevel(s) /\ WildcardsAlone(s) }
        \X { s \in Strings({"a", "b", "/"}) : NoEmptyLevel(s) }
NoProbe == << <<"a">>, <<"a">> >>

MC_Subscriptions == { <<"a", "/", "+">> }
MC_Incoming == { << <<"a", "/", "b">>, 1>> }
MC_Options == { <<TRUE, FALSE>> }

PacketStep == part = "packets" /\ PacketNext /\ UNCHANGED <<part, pahoVars>>
PahoStep == part = "client" /\ PahoNext /\ UNCHANGED <<part, packetVars>>

libraryVars == <<part, packetVars, pahoVars>>
LibraryInit ==
    /\ part \in Parts /\ PacketInit /\ PahoInit
    /\ part # "topics" => probe = NoProbe
    /\ part # "client" => keepAliveInterval = FALSE
LibraryFair ==
    /\ WF_libraryVars(part = "client" /\ MQTTThread /\ UNCHANGED <<part, packetVars>>)
    /\ WF_libraryVars(part = "client" /\ Expires /\ UNCHANGED <<part, packetVars>>)
LibrarySpec == LibraryInit /\ [][PacketStep \/ PahoStep]_libraryVars /\ LibraryFair

=============================================================================
