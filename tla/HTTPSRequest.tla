---------------------------- MODULE HTTPSRequest ----------------------------
(***************************************************************************)
(* HTTPClient, HttpsRequest::send and TLSSocket: a request written to the  *)
(* socket piece by piece, and the answer read buffer by buffer through the *)
(* parser.  The server's answer is cut anywhere and its connection may     *)
(* stay open, close or be reset at any point.  A request is a sequence of  *)
(* lines and body bytes.                                                   *)
(***************************************************************************)
EXTENDS HTTPParser, HTTPUrl

CONSTANTS Methods,                  \* the methods of the HTTPClients
          Requested,                \* the URLs a request is made of
          Bodies,                   \* the bodies of the requests
          HeaderPairs,              \* the headers a sketch sets
          Answers(_),               \* what the server may answer to a request
          HTTP_RECEIVE_BUFFER_SIZE,
          Cuts,                     \* what the network delivers at once, as far as there is so much
          BodyPiece,                \* the 4000 bytes the body is sent in
          SendTries,                \* how often ssl_send tries again after 0 bytes
          MaxSends                  \* the calls of send

ASSUME RequestAssumption ==
    /\ {HTTP_RECEIVE_BUFFER_SIZE, BodyPiece, SendTries} \cup Cuts \subseteq Nat \ {0} /\ MaxSends \in Nat
    /\ Requested \subseteq Urls
    /\ \A b \in Bodies : b \in Seq({ b[i] : i \in DOMAIN b })

VARIABLES method, headers,  \* the HttpHeaderBuilder: the newest header first
          opened,           \* the TCP socket, open since the constructor
          stage,            \* where HttpsRequest::send is
          asked, left,      \* the body of the request, and what is still to be handed to the socket
          pending, tries,   \* what TLSSocket::send has still to send, and ssl_send's attempts
          out,              \* what the server has received
          answer,           \* what it answers
          recved, result, error, sends

target == <<url, parsed_url, method>>
clientVars == <<target, headers, opened, asked, left, pending, tries, out, answer, recved, result,
                error, sends>>
requestVars == <<clientVars, stage, parserVars>>

MinOf(a, b) == IF a < b THEN a ELSE b

NULL == [status_code |-> -1]
NoAnswer == [wire |-> <<>>, legal |-> FALSE, body |-> <<>>, code |-> 0, phrase |-> FALSE, eof |-> FALSE]

\* HTTPClient::init: other schemes get no request object.
HasRequest == Len(url) > 1 /\ url[1] \in {"http", "https"} /\ url[2] = ":"
HasTLS == url[1] = "https"

RequestInit ==
    /\ url \in Urls /\ parsed_url = ParsedUrl(url) /\ method \in Methods
    /\ headers = << <<"Host", parsed_url.host>> >>
    /\ opened = TRUE /\ stage = "idle"
    /\ asked = <<>> /\ left = <<>> /\ pending = <<>> /\ tries = 0 /\ out = <<>>
    /\ answer = NoAnswer /\ wire = <<>> /\ ParserInit
    /\ recved = 0 /\ result = NULL /\ error = 0 /\ sends = 0

(* HttpHeaderBuilder.                                                      *)

\* The list with the header set: replaced where it stands, or put in front.
WithHeader(list, key, value) ==
    IF \E i \in DOMAIN list : list[i][1] = key
    THEN [i \in DOMAIN list |-> IF list[i][1] = key THEN <<key, value>> ELSE list[i]]
    ELSE << <<key, value>> >> \o list

set_header(key, value) ==
    /\ stage = "idle" /\ HasRequest
    /\ headers' = WithHeader(headers, key, value)
    /\ UNCHANGED <<parserVars, target, opened, stage, asked, left, pending, tries, out, answer, recved,
                   result, error, sends>>

BuildHeaders(n) ==
    IF method \in {"POST", "PUT"} THEN WithHeader(headers, "Content-Length", <<n>>) ELSE headers
build(list) ==
    << <<"line", method, parsed_url.path, parsed_url.query>> >>
        \o [i \in DOMAIN list |-> <<"header", list[i][1], list[i][2]>>]
        \o << <<"end">> >>
Ending == << <<"ending">> >>

(* HttpsRequest::send.                                                     *)

Returns(r, e) ==
    /\ stage' = "done" /\ result' = r /\ error' = e
close == opened' = FALSE

\* The call, as far as the connection: a socket that was closed stays closed.
send(body) ==
    /\ stage \in {"idle", "done"} /\ sends < MaxSends /\ url \in Requested
    /\ sends' = sends + 1
    /\ IF HasRequest /\ opened
       THEN stage' = "connect" /\ asked' = body /\ UNCHANGED <<result, error>>
       ELSE Returns(NULL, IF HasRequest THEN -3005 ELSE -1) /\ UNCHANGED asked
    /\ UNCHANGED <<parserVars, target, headers, opened, left, pending, tries, out, answer, recved>>

connect ==
    /\ stage = "connect"
    /\ \/ /\ stage' = "header" /\ left' = asked
          /\ headers' = BuildHeaders(Len(asked)) /\ pending' = build(headers')
          /\ UNCHANGED <<result, error>>
       \/ Returns(NULL, -3004) /\ UNCHANGED <<left, headers, pending>>
    /\ UNCHANGED <<parserVars, target, opened, asked, tries, out, answer, recved, sends>>

\* ssl_send, and TLSSocket::send around it: without TLS it goes on with what is
\* left; with TLS, mbedtls_ssl_write sends it all.
SocketTakes(k) ==
    /\ stage \in {"header", "body", "ending"} /\ k \in 1 .. Len(pending) /\ (HasTLS => k = Len(pending))
    /\ out' = out \o SubSeq(pending, 1, k) /\ pending' = SubSeq(pending, k + 1, Len(pending))
    /\ tries' = 0
    /\ UNCHANGED <<parserVars, target, headers, opened, stage, asked, left, answer, recved, result,
                   error, sends>>
SocketTakesNothing ==
    /\ stage \in {"header", "body", "ending"} /\ pending # <<>> /\ ~HasTLS /\ tries < SendTries - 1
    /\ tries' = tries + 1
    /\ UNCHANGED <<parserVars, target, headers, opened, stage, asked, left, pending, out, answer,
                   recved, result, error, sends>>
SocketFails ==
    /\ stage \in {"header", "body", "ending"} /\ pending # <<>>
    /\ Returns(NULL, -1) /\ close /\ tries' = 0
    /\ UNCHANGED <<parserVars, target, headers, asked, left, pending, out, answer, recved, sends>>

\* Mutation: a last piece that is not whole is dropped.
BodyLoop_LastPieceWhole ==
    /\ stage' = "body" /\ pending' = SubSeq(left, 1, BodyPiece)
    /\ left' = IF Len(left) < 2 * BodyPiece THEN <<>> ELSE SubSeq(left, BodyPiece + 1, Len(left))
    /\ UNCHANGED <<parserVars, answer>>

\* The next piece of the request, or the response and its parser.
BodyLoop ==
    LET n == MinOf(Len(left), BodyPiece)
    IN  /\ stage' = "body"
        /\ pending' = SubSeq(left, 1, n) /\ left' = SubSeq(left, n + 1, Len(left))
        /\ UNCHANGED <<parserVars, answer>>
SendsEnding ==
    stage' = "ending" /\ pending' = Ending /\ UNCHANGED <<left, parserVars, answer>>
CreatesResponse ==
    /\ stage' = "recv"
    /\ answer' \in Answers(out) /\ wire' = answer'.wire
    /\ data' = 1 /\ end' = 0 /\ p' = 1 /\ fresh' = TRUE
    /\ hp' = http_parser_init /\ mark' = NoMarks /\ nparsed' = 0 /\ response' = HttpResponse
    /\ UNCHANGED <<left, pending>>
Sent ==
    /\ stage \in {"header", "body", "ending"} /\ pending = <<>>
    /\ CASE stage # "ending" /\ left # <<>> -> BodyLoop
         [] stage # "ending" /\ left = <<>> -> SendsEnding
         [] stage = "ending" -> CreatesResponse
    /\ UNCHANGED <<target, headers, opened, asked, tries, out, recved, result, error, sends>>

\* A buffer of n tokens arrives; or the server has closed or reset the connection
\* (with TLS an error either way: ssl_recv returns -1 for both).
recv(n) ==
    /\ stage = "recv" /\ end < Len(wire)
    /\ n \in { MinOf(MinOf(HTTP_RECEIVE_BUFFER_SIZE, Len(wire) - end), c) : c \in Cuts }
    /\ execute(n) /\ stage' = "parse" /\ recved' = n
    /\ UNCHANGED <<target, headers, opened, asked, left, pending, tries, out, answer, result, error,
                   sends>>
recvEnds(r) ==
    /\ stage = "recv" /\ r \in (IF HasTLS THEN {-1} ELSE {0, -1})
    /\ recved' = r /\ stage' = "finish"
    /\ UNCHANGED <<parserVars, target, headers, opened, asked, left, pending, tries, out, answer,
                   result, error, sends>>

Parses == stage = "parse" /\ Parse /\ UNCHANGED <<clientVars, stage>>
Parsed ==
    /\ stage = "parse" /\ nparsed # Running
    /\ IF nparsed # recved THEN Returns(NULL, -2101) /\ close
       ELSE /\ stage' = IF response.is_message_completed THEN "finish" ELSE "recv"
            /\ UNCHANGED <<opened, result, error>>
    /\ UNCHANGED <<parserVars, target, headers, asked, left, pending, tries, out, answer, recved, sends>>

\* What finish returns is not looked at.
Finish ==
    /\ stage = "finish" /\ finish /\ close
    /\ IF recved < 0 THEN Returns(NULL, error)
       ELSE Returns([status_code |-> response'.status_code, body |-> response'.body], error)
    /\ UNCHANGED <<target, headers, asked, left, pending, tries, out, answer, recved, sends>>

HTTPSClient ==
    connect \/ Sent \/ Parses \/ Parsed \/ Finish
Network ==
    \/ \E k \in 1 .. Len(pending) : SocketTakes(k)
    \/ SocketTakesNothing \/ SocketFails
Arrives == \E n \in 1 .. HTTP_RECEIVE_BUFFER_SIZE : recv(n)
RequestNext ==
    \/ \E h \in HeaderPairs : set_header(h[1], h[2])
    \/ \E b \in Bodies : send(b)
    \/ HTTPSClient \/ Network \/ Arrives \/ \E r \in {0, -1} : recvEnds(r)

\* The calling thread runs, the network takes and delivers bytes, and a server
\* whose answer ends with the connection closes it.
RequestFair ==
    /\ WF_requestVars(HTTPSClient) /\ WF_requestVars(Network) /\ WF_requestVars(Arrives)
    /\ WF_requestVars(answer.eof /\ end = Len(wire) /\ \E r \in {0, -1} : recvEnds(r))

RequestSpec == RequestInit /\ [][RequestNext]_requestVars /\ RequestFair

-----------------------------------------------------------------------------

(* Whatever the cuts, the body that the response holds is a prefix of the  *)
(* one the server sent, and a response that is complete is the server's:   *)
(* all of its body and its status (when it has a phrase: without one the   *)
(* callback that stores the status is never made).  An answer that is not  *)
(* legal (two lengths, a length and chunks, a number that overflows, a     *)
(* chunk that does not end where it says, a head that is too long) is      *)
(* never complete.                                                         *)
BodyWhole ==
    answer # NoAnswer =>
        /\ Len(response.body) <= Len(answer.body)
        /\ response.body = SubSeq(answer.body, 1, Len(response.body))
        /\ response.is_message_completed =>
             /\ answer.legal
             /\ (answer.eof /\ end < Len(wire)) \/ response.body = answer.body
             /\ answer.phrase => response.status_code = answer.code

(* However few bytes the socket takes at a time, when the client starts to *)
(* read, the server has received the request line, the headers and every   *)
(* byte of the body once and in order; with POST and PUT the length it was *)
(* told is that of the body; and each header was sent once, with the value *)
(* set last.                                                               *)
RequestWhole ==
    stage = "recv" =>
        LET n == Len(headers)
            sent == { out[i] : i \in 2 .. n + 1 }
        IN  /\ out[1] = <<"line", method, parsed_url.path, parsed_url.query>>
            /\ sent = { <<"header", headers[i][1], headers[i][2]>> : i \in 1 .. n }
            /\ \A x, y \in sent : x[2] = y[2] => x = y
            /\ SubSeq(out, n + 2, Len(out)) = << <<"end">> >> \o asked \o Ending
            /\ method \in {"POST", "PUT"} => <<"header", "Content-Length", <<Len(asked)>> >> \in sent

(* The inductive invariant behind it.  No two headers have the same name,  *)
(* and the length that POST and PUT tell is that of the body.              *)
HeadersDiffer == \A i, j \in DOMAIN headers : headers[i][1] = headers[j][1] => i = j
LengthTold ==
    stage \in {"header", "body", "ending", "recv", "parse"} /\ method \in {"POST", "PUT"} =>
        \E i \in DOMAIN headers : headers[i] = <<"Content-Length", <<Len(asked)>> >>

(* What the server has received, what the socket has still to send and     *)
(* what is still to be handed to it are together the request; a socket     *)
(* that may be used for another request has sent nothing.                  *)
SentSoFar ==
    /\ stage = "connect" \/ (stage \in {"idle", "done"} /\ opened) => out = <<>>
    /\ stage \in {"header", "body"} => (out \o pending) \o left = build(headers) \o asked
    /\ stage = "ending" => left = <<>> /\ out \o pending = (build(headers) \o asked) \o Ending
    /\ stage \in {"recv", "parse", "finish"} => out = (build(headers) \o asked) \o Ending
RequestInv == HeadersDiffer /\ LengthTold /\ SentSoFar

(* A call of send returns once the server has answered legally, although   *)
(* the server leaves the connection open (unless the answer ends with it). *)
Sending == stage \notin {"idle", "done"}
SendReturns ==
    (Sending /\ (answer = NoAnswer \/ answer.legal))
        ~> (~Sending \/ (answer # NoAnswer /\ ~answer.legal))

(* A URL put together from its parts is accepted, unless its port is above *)
(* the largest, and the client connects to that host and that port (80 or  *)
(* 443 when the URL names none) and asks for that path and query.  Of any  *)
(* other URL that is accepted, nothing before the path is lost: it is the  *)
(* user and an @ (if any), the host, and either no port or a number.       *)
UrlUnderstood ==
    stage = "idle" =>
    LET r == parsed_url
        parts == { w[2] : w \in { x \in Written : x[1] = url } }
        s == Server(SubSeq(url, Len(r.schema) + 4, Len(url)))
    IN  /\ \A c \in parts :
             /\ r.refused = (c.port > MaxPort)
             /\ ~r.refused =>
                  /\ r.schema = <<c.schema>> /\ r.userinfo = c.userinfo /\ r.host = Bare(c.host)
                  /\ r.port = IF c.port # 0 THEN c.port ELSE IF c.schema = "https" THEN 443 ELSE 80
                  /\ r.path = c.path /\ r.query = c.query
        /\ ~r.refused /\ r.schema # <<>> =>
             \E user \in {<<>>, Append(r.userinfo, "@")}, h \in {r.host, <<"[">> \o r.host \o <<"]">>} :
                LET known == user \o h
                    rest == SubSeq(s, Len(known) + 1, Len(s))
                IN  /\ r.host # <<>> /\ Len(known) <= Len(s) /\ SubSeq(s, 1, Len(known)) = known
                    /\ (user = <<>>) => r.userinfo = <<>>
                    /\ \/ rest = <<>>
                       \/ /\ Len(rest) > 1 /\ rest[1] = ":"
                          /\ \A i \in 2 .. Len(rest) : rest[i] \in DOMAIN Number
                          /\ Value(Tail(rest)) = r.port

(* A response that send returns is one the server finished: "An            *)
(* HttpResponse pointer on success, or NULL on failure."                   *)
ResponseWhole == stage = "done" /\ result # NULL => response.is_message_completed

=============================================================================
