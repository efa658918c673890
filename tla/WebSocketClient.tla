-------------------------- MODULE WebSocketClient --------------------------
(***************************************************************************)
(* libraries/WebSocket/src/WebSocketClient.cpp: a client that sends and    *)
(* receives WebSocket frames over one TCP socket.  The type of the message *)
(* being sent and of the message being received are the same member,       *)
(* _messageType; close() sends a close frame and leaves the socket open.   *)
(*                                                                         *)
(* The server sends frames as RFC 6455 allows; serverSees is what it makes *)
(* of the client's.  A payload is its length: 0, one the caller's buffer   *)
(* has room for, or one it has not.                                        *)
(***************************************************************************)
EXTENDS Naturals, Sequences

CONSTANT MaxInbox           \* bound: frames on their way to the client

ASSUME WSAssumption == MaxInbox \in Nat

DataTypes == {"Text", "Binary"}
ControlTypes == {"Ping", "Pong", "Close"}
Overrun == "BufferOverrun"
PayloadLengths == 0..2
BufferSize == 1

VARIABLES
    tcpSocket,              \* is _tcpSocket not NULL
    firstFrame, messageType,
    receiveResult,          \* what receive returned, or NULL
    inbox,                  \* the server's frames, oldest first
    serverMsg,              \* the type of the message the server is sending, or none
    serverSees,             \* the type of the message it is receiving; or what went wrong
    disturbed               \* history: _messageType was set within the message being received

link == <<inbox, serverMsg, serverSees>>
wsVars == <<tcpSocket, firstFrame, messageType, receiveResult, link, disturbed>>

NULL == [type |-> "NULL"]

\* The constructor leaves _messageType uninitialised.
WSInit ==
    /\ tcpSocket = FALSE /\ firstFrame = TRUE
    /\ messageType \in DataTypes \cup ControlTypes \cup {Overrun, "Timeout"}
    /\ receiveResult = NULL
    /\ inbox = <<>> /\ serverMsg = "none" /\ serverSees = "none" /\ disturbed = TRUE

\* The destructor, and a client constructed anew.
Renew ==
    /\ tcpSocket' = FALSE /\ firstFrame' = TRUE
    /\ messageType' \in {"Text", messageType}
    /\ receiveResult' = NULL
    /\ inbox' = <<>> /\ serverMsg' = "none" /\ serverSees' = "none" /\ disturbed' = TRUE

(* connect.  A socket that cannot connect is deleted; one whose handshake  *)
(* was refused or could not be sent stays, and a second connect is content *)
(* with it.                                                                *)
connect ==
    /\ ~tcpSocket
    /\ tcpSocket' = TRUE
    /\ serverSees' \in {"none", "refused", "lost"}
    /\ UNCHANGED <<firstFrame, messageType, receiveResult, inbox, serverMsg, disturbed>>

-----------------------------------------------------------------------------
(* External: the server.                                                   *)

\* The server's view of the client's messages, after one more frame.
ServerAfter(seen, op, fin) ==
    IF seen \in {"refused", "lost", "closed", "error"} THEN seen
    ELSE
    CASE op = "Close"       -> "closed"
      [] op \in {"Ping", "Pong"} -> seen
      [] op = "Cont"        -> IF seen = "none" THEN "error" ELSE IF fin THEN "none" ELSE seen
      [] op \in DataTypes   -> IF seen # "none" THEN "error" ELSE IF fin THEN "none" ELSE op

Listening == tcpSocket /\ serverSees \notin {"refused", "lost", "error"} /\ serverMsg # "closed"

ServerSends(op, fin, len) ==
    /\ Listening /\ Len(inbox) < MaxInbox
    /\ op \in DataTypes => serverMsg = "none"
    /\ op = "Cont" => serverMsg # "none"
    /\ op \in ControlTypes => fin
    /\ inbox' = Append(inbox, [op |-> op, fin |-> fin, len |-> len,
                               of |-> IF op = "Cont" THEN serverMsg ELSE op])
    /\ serverMsg' = CASE op = "Close" -> "closed"
                      [] op \in DataTypes \cup {"Cont"} ->
                           IF fin THEN "none" ELSE inbox'[Len(inbox')].of
                      [] OTHER -> serverMsg
    /\ UNCHANGED <<tcpSocket, firstFrame, messageType, receiveResult, serverSees, disturbed>>

-----------------------------------------------------------------------------
(* A frame is written whole, or its bytes are cut off.                     *)
Written(op, fin) == serverSees' \in {ServerAfter(serverSees, op, fin), "lost"}

\* Mutation: the final frame of a message does not reset _firstFrame.
send_NoReset(type, isFinal) ==
    /\ tcpSocket
    /\ IF firstFrame THEN messageType' = type /\ disturbed' = TRUE
                     ELSE UNCHANGED <<messageType, disturbed>>
    /\ firstFrame' = (firstFrame /\ isFinal)
    /\ Written(IF firstFrame THEN type ELSE "Cont", isFinal)
    /\ UNCHANGED <<tcpSocket, receiveResult, inbox, serverMsg>>

\* Text and binary frames.  The state moves on even when the write fails.
send(type, isFinal) ==
    /\ tcpSocket
    /\ IF firstFrame THEN messageType' = type /\ disturbed' = TRUE
                     ELSE UNCHANGED <<messageType, disturbed>>
    /\ firstFrame' = isFinal
    /\ Written(IF firstFrame THEN type ELSE "Cont", isFinal)
    /\ UNCHANGED <<tcpSocket, receiveResult, inbox, serverMsg>>

\* A control frame leaves the message under way alone.
SendControl(type) == Written(type, TRUE) /\ UNCHANGED <<tcpSocket, firstFrame>>

sendPing ==
    /\ tcpSocket
    /\ SendControl("Ping")
    /\ UNCHANGED <<messageType, receiveResult, inbox, serverMsg, disturbed>>

close ==
    /\ tcpSocket
    /\ SendControl("Close")
    /\ UNCHANGED <<messageType, receiveResult, inbox, serverMsg, disturbed>>

-----------------------------------------------------------------------------
(* receive: one frame, and the answer to a ping or a close.                *)

\* A continuation frame keeps the type found.
TypeOf(op, current) == IF op = "Cont" THEN current ELSE op

\* An empty ping is not answered: send refuses an empty payload.
Answer(type, len) ==
    CASE type = "Ping" /\ len > 0 -> SendControl("Pong")
      [] type = "Close" -> SendControl("Close")
      [] OTHER -> UNCHANGED <<tcpSocket, firstFrame, serverSees>>

receive ==
    /\ tcpSocket /\ inbox # <<>> /\ serverSees # "lost"
    /\ LET f == Head(inbox)
           type == IF f.len > BufferSize THEN Overrun ELSE TypeOf(f.op, messageType)
       IN  /\ messageType' = type
           /\ receiveResult' = [type |-> type, op |-> f.op, of |-> f.of,
                                isEndOfMessage |-> f.fin /\ f.op \notin ControlTypes]
           /\ Answer(type, f.len)
           /\ disturbed' = IF f.op \in DataTypes THEN type = Overrun
                           ELSE disturbed \/ f.op \in ControlTypes \/ type = Overrun
    /\ inbox' = Tail(inbox)
    /\ UNCHANGED serverMsg

\* No frame within the time; or the connection fails, before or within a frame.
ReceiveNothing ==
    /\ tcpSocket
    /\ \/ /\ inbox = <<>>
          /\ receiveResult' = [type |-> "Timeout"]
          /\ UNCHANGED <<messageType, inbox, serverSees, disturbed>>
       \/ /\ receiveResult' = NULL
          /\ messageType' \in {messageType} \cup {TypeOf(inbox[i].op, messageType) : i \in 1..Len(inbox)}
          /\ inbox' = <<>> /\ serverSees' = "lost" /\ disturbed' = TRUE
    /\ UNCHANGED <<tcpSocket, firstFrame, serverMsg>>

-----------------------------------------------------------------------------
WSNext ==
    \/ Renew \/ connect
    \/ \E op \in DataTypes \cup ControlTypes \cup {"Cont"}, fin \in BOOLEAN, len \in PayloadLengths :
          ServerSends(op, fin, len)
    \/ \E type \in DataTypes, isFinal \in BOOLEAN : send(type, isFinal)
    \/ sendPing \/ close
    \/ receive \/ ReceiveNothing

WSSpec == WSInit /\ [][WSNext]_wsVars

-----------------------------------------------------------------------------
(* Types.                                                                  *)
WSTypeOK ==
    /\ tcpSocket \in BOOLEAN /\ firstFrame \in BOOLEAN /\ disturbed \in BOOLEAN
    /\ messageType \in DataTypes \cup ControlTypes \cup {Overrun, "Timeout"}
    /\ receiveResult.type \in DataTypes \cup ControlTypes \cup {Overrun, "Timeout", "NULL"}
    /\ Len(inbox) <= MaxInbox
    /\ serverMsg \in DataTypes \cup {"none", "closed"}
    /\ serverSees \in DataTypes \cup {"none", "refused", "lost", "closed", "error"}

(* The frames a server reads form messages: a continuation only within     *)
(* one, a new message only after the last, whatever pings, pongs and       *)
(* closes the application and the answers of receive put in between.       *)
WSStreamLegal == serverSees # "error"

(* A data frame is reported with the type of the server's message it       *)
(* belongs to, as long as nothing else set the one _messageType since the  *)
(* message began: a control frame, an overrun, or a message of our own.    *)
WSTypeReported ==
    [][receive /\ ~disturbed' => receiveResult'.type = receiveResult'.of]_wsVars

-----------------------------------------------------------------------------
(* Why both hold, part by part.                                            *)

\* The client and a server that still listens agree on whether a message of the
\* client's is under way.
SendersAgree ==
    /\ ~tcpSocket => firstFrame /\ serverSees = "none"
    /\ serverSees = "none" => firstFrame
    /\ serverSees \in DataTypes => ~firstFrame

\* A frame on its way, and whether only continuations and control frames came
\* before it.
Frames == [op : DataTypes \cup ControlTypes \cup {"Cont"}, fin : BOOLEAN,
           len : PayloadLengths, of : DataTypes \cup ControlTypes]
Within(first, last) == \A j \in first..last : inbox[j].op \notin DataTypes

\* A frame that starts a message names its type, and the continuations that
\* follow it are its own; as long as nothing disturbed _messageType it is the type
\* of the message the next continuation belongs to.
InboxTyped ==
    /\ inbox \in Seq(Frames)
    /\ serverMsg \in DataTypes \cup {"none", "closed"}
    /\ \A i \in 1..Len(inbox) : inbox[i].op \in DataTypes =>
         /\ inbox[i].of = inbox[i].op
         /\ \A k \in (i + 1)..Len(inbox) :
              inbox[k].op = "Cont" /\ Within(i + 1, k - 1) => inbox[k].of = inbox[i].op
         /\ serverMsg \in DataTypes /\ Within(i + 1, Len(inbox)) => serverMsg = inbox[i].op
    /\ ~disturbed =>
         /\ \A k \in 1..Len(inbox) :
              inbox[k].op = "Cont" /\ Within(1, k - 1) => inbox[k].of = messageType
         /\ serverMsg \in DataTypes /\ Within(1, Len(inbox)) => serverMsg = messageType

WSInv == WSTypeOK /\ WSStreamLegal /\ SendersAgree /\ InboxTyped

=============================================================================
