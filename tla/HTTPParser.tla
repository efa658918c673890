----------------------------- MODULE HTTPParser -----------------------------
(***************************************************************************)
(* http_parser_execute for responses, and the HttpResponse its callbacks   *)
(* fill.  The server's bytes arrive in buffers cut anywhere; a step is one *)
(* pass of the parser's loop.  A token stands for characters the parser    *)
(* takes together: the names and values it looks for are cut in two or     *)
(* three, so that a buffer can end inside them.  The callbacks all return  *)
(* 0.  Every character of a value is one that a header may contain.        *)
(***************************************************************************)
EXTENDS Integers, Sequences, FiniteSets

CONSTANTS MaxHeader,    \* HTTP_MAX_HEADER_SIZE
          MaxLength     \* ULLONG_MAX

ASSUME HTTPAssumption == MaxHeader \in Nat \ {0} /\ MaxLength \in Nat /\ MaxLength > 16

VARIABLES wire,         \* the tokens the server sends
          data, end,    \* the first and the last token of the buffer
          p, fresh,     \* the token the loop is at, and whether it is to be counted
          hp,           \* the http_parser
          mark,         \* the marks, 0 for NULL
          nparsed,      \* what http_parser_execute returned, or Running
          response      \* the HttpResponse

buffer == <<wire, data, end>>
parserVars == <<buffer, p, fresh, hp, mark, nparsed, response>>

Running == -1
\* The element of a set that has one.
ValueOf(S) == CHOOSE x \in S : TRUE
None == <<"NULL">>
CR == "CR"
LF == "LF"

(* The classes of characters.                                              *)
Digits == <<"0", "1", "2", "3", "4", "5", "6", "7", "8", "9", "a", "b", "c", "d", "e", "f">>
unhex(t) == IF \E i \in 1 .. 16 : Digits[i] = t THEN (CHOOSE i \in 1 .. 16 : Digits[i] = t) - 1 ELSE -1
IS_NUM(t) == unhex(t) \in 0 .. 9
TOKEN(t) == t \notin {CR, LF, " ", ":", ",", "/", ";"}

(* The states of the loop in which header bytes are counted.               *)
BodyStates == {"s_chunk_data", "s_chunk_data_almost_done", "s_chunk_data_done", "s_body_identity",
               "s_body_identity_eof", "s_message_done"}
PARSING_HEADER(s) == s \notin BodyStates

NoMarks == [status |-> 0, header_field |-> 0, header_value |-> 0, body |-> 0]

\* http_parser_init, for HTTP_RESPONSE.
http_parser_init ==
    [state |-> "s_start_res", header_state |-> "h_general", flags |-> {}, content_length |-> 0,
     nread |-> 0, status_code |-> 0, http_major |-> 0, http_minor |-> 0, http_errno |-> "HPE_OK",
     upgrade |-> FALSE]

HttpResponse ==
    [status_code |-> 0, status_message |-> None, headers |-> <<>>, concat |-> "none",
     body |-> <<>>, is_message_completed |-> FALSE]

ParserInit ==
    /\ data = 1 /\ end = 0 /\ p = 1 /\ fresh = TRUE
    /\ hp = http_parser_init /\ mark = NoMarks /\ nparsed = 0
    /\ response = HttpResponse

(* The HttpResponse.  Part of a name or value that arrives after the first *)
(* replaces it; the first part of a value makes an entry of its own.       *)
set_status(r, piece) ==
    [r EXCEPT !.status_code = hp.status_code,
              !.status_message = IF piece = <<>> THEN @ ELSE piece]

Entry(r, part, piece) ==
    IF piece = <<>> THEN r
    ELSE IF r.concat = part
    THEN [r EXCEPT !.headers[Len(r.headers)][part] = piece]
    ELSE [r EXCEPT !.headers = Append(@, [[key |-> None, value |-> None] EXCEPT ![part] = piece]),
                   !.concat = part]
set_header_field(r, piece) == Entry(r, "key", piece)
set_header_value(r, piece) == Entry(r, "value", piece)
set_body(r, piece) == [r EXCEPT !.body = @ \o piece]
set_message_complete(r) == [r EXCEPT !.is_message_completed = TRUE]

\* HttpResponseParser's callbacks, none of which stops the parser.  A body
\* callback, where the caller gave one, is handed what set_body is here.
on_data(f, piece) ==
    CASE f = "status" -> set_status(response, piece)
      [] f = "header_field" -> set_header_field(response, piece)
      [] f = "header_value" -> set_header_value(response, piece)
      [] f = "body" -> set_body(response, piece)

\* The data callback for the mark of f, if it is set, with what lies before q.
Piece(m, f, q) == SubSeq(wire, m[f], q - 1)
CALLBACK_DATA(m, f, q) == IF m[f] = 0 THEN response ELSE on_data(f, Piece(m, f, q))
MARK(f) == IF mark[f] = 0 THEN [mark EXCEPT ![f] = p] ELSE mark

(* The ways out of a pass.                                                 *)
ch == wire[p]
At(s) == nparsed = Running /\ ~fresh /\ p <= end /\ hp.state = s /\ UNCHANGED buffer
Next1 == p' = p + 1 /\ fresh' = TRUE /\ UNCHANGED nparsed
REEXECUTE == UNCHANGED <<p, fresh, nparsed>>
RETURN(n) == nparsed' = n /\ UNCHANGED <<p, fresh>>
Fails(e) ==
    /\ hp' = [hp EXCEPT !.http_errno = e]
    /\ RETURN(p - data) /\ UNCHANGED <<mark, response>>
\* To another state, with nothing else changed.
UPDATE_STATE(s) == hp' = [hp EXCEPT !.state = s]
Goto(s) == UPDATE_STATE(s) /\ Next1 /\ UNCHANGED <<mark, response>>
\* The data callback for f at p, to state s, and on to the next token.
Report(f, s) ==
    /\ UPDATE_STATE(s) /\ Next1
    /\ response' = CALLBACK_DATA(mark, f, p) /\ mark' = [mark EXCEPT ![f] = 0]

(* A buffer, and the loop over it.                                         *)

MarkedState == [s_header_field |-> "header_field", s_header_value |-> "header_value",
                s_res_status |-> "status"]

\* http_parser_execute(n tokens): after an error it returns 0 at once.
execute(n) ==
    /\ nparsed # Running
    /\ data' = end + 1 /\ end' = end + n /\ p' = end + 1 /\ fresh' = TRUE
    /\ IF hp.http_errno # "HPE_OK" THEN nparsed' = 0 /\ UNCHANGED mark
       ELSE /\ nparsed' = Running
            /\ mark' = IF hp.state \in DOMAIN MarkedState
                       THEN [NoMarks EXCEPT ![MarkedState[hp.state]] = end + 1] ELSE NoMarks
    /\ UNCHANGED <<wire, hp, response>>

\* http_parser_execute(NULL, 0): the server has closed the connection.
finish ==
    /\ nparsed # Running
    /\ IF hp.http_errno # "HPE_OK" \/ hp.state \in {"s_dead", "s_start_res"}
       THEN UNCHANGED <<hp, response>>
       ELSE IF hp.state = "s_body_identity_eof"
       THEN response' = set_message_complete(response) /\ UNCHANGED hp
       ELSE hp' = [hp EXCEPT !.http_errno = "HPE_INVALID_EOF_STATE"] /\ UNCHANGED response
    /\ UNCHANGED <<buffer, p, fresh, mark, nparsed>>

\* The head of the loop: COUNT_HEADER_SIZE(1).
Overflows(n) == hp.nread + n > MaxHeader
NextCharacter ==
    /\ nparsed = Running /\ fresh /\ p <= end
    /\ UNCHANGED buffer
    /\ IF ~PARSING_HEADER(hp.state)
       THEN fresh' = FALSE /\ UNCHANGED <<p, hp, mark, nparsed, response>>
       ELSE IF Overflows(1) THEN Fails("HPE_HEADER_OVERFLOW")
       ELSE /\ hp' = [hp EXCEPT !.nread = @ + 1]
            /\ fresh' = FALSE /\ UNCHANGED <<p, mark, nparsed, response>>

\* The end of the buffer: what is marked is reported as far as it has come.
Marked == { f \in DOMAIN mark : mark[f] # 0 }
EndOfBuffer ==
    /\ nparsed = Running /\ p = end + 1
    /\ response' = IF Marked = {} THEN response
                   ELSE CALLBACK_DATA(mark, CHOOSE f \in Marked : TRUE, p)
    /\ mark' = NoMarks /\ nparsed' = end - data + 1
    /\ UNCHANGED <<buffer, p, fresh, hp>>

(* The status line.                                                        *)

s_dead ==
    /\ At("s_dead")
    /\ IF ch \in {CR, LF} THEN Goto("s_dead") ELSE Fails("HPE_CLOSED_CONNECTION")

s_start_res ==
    /\ At("s_start_res")
    /\ IF ch \notin {"H", CR, LF} THEN Fails("HPE_INVALID_CONSTANT")
       ELSE /\ hp' = [hp EXCEPT !.state = IF ch = "H" THEN "s_res_H" ELSE @,
                                !.flags = {}, !.content_length = MaxLength]
            /\ Next1 /\ UNCHANGED <<mark, response>>

\* The rest of "HTTP/", and the line feeds that only STRICT_CHECK looks at.
Strictly ==
    [s_res_H |-> <<"T", "s_res_HT">>, s_res_HT |-> <<"T", "s_res_HTT">>,
     s_res_HTT |-> <<"P", "s_res_HTTP">>, s_res_HTTP |-> <<"/", "s_res_first_http_major">>,
     s_res_line_almost_done |-> <<LF, "s_header_field_start">>,
     s_header_value_discard_ws_almost_done |-> <<LF, "s_header_value_discard_lws">>]
STRICT_CHECK ==
    \E s \in DOMAIN Strictly :
        /\ At(s)
        /\ IF ch = Strictly[s][1] THEN Goto(Strictly[s][2]) ELSE Fails("HPE_STRICT")

\* A number: its first digit, then more of them up to 999.
First(field, s, error) ==
    IF ~IS_NUM(ch) THEN Fails(error)
    ELSE /\ hp' = [hp EXCEPT ![field] = unhex(ch), !.state = s]
         /\ Next1 /\ UNCHANGED <<mark, response>>
More(field, error) ==
    IF ~IS_NUM(ch) \/ hp[field] * 10 + unhex(ch) > 999 THEN Fails(error)
    ELSE /\ hp' = [hp EXCEPT ![field] = @ * 10 + unhex(ch)]
         /\ Next1 /\ UNCHANGED <<mark, response>>

s_res_http_version ==
    \/ At("s_res_first_http_major") /\ First("http_major", "s_res_http_major", "HPE_INVALID_VERSION")
    \/ /\ At("s_res_http_major")
       /\ IF ch = "." THEN Goto("s_res_first_http_minor") ELSE More("http_major", "HPE_INVALID_VERSION")
    \/ At("s_res_first_http_minor") /\ First("http_minor", "s_res_http_minor", "HPE_INVALID_VERSION")
    \/ /\ At("s_res_http_minor")
       /\ IF ch = " " THEN Goto("s_res_first_status_code") ELSE More("http_minor", "HPE_INVALID_VERSION")

LineEnd == IF ch = CR THEN "s_res_line_almost_done" ELSE "s_header_field_start"
s_res_status_code ==
    \/ /\ At("s_res_first_status_code")
       /\ IF ch = " " THEN Goto("s_res_first_status_code")
          ELSE First("status_code", "s_res_status_code", "HPE_INVALID_STATUS")
    \/ /\ At("s_res_status_code")
       /\ IF ch = " " THEN Goto("s_res_status_start")
          ELSE IF ch \in {CR, LF} THEN Goto(LineEnd)
          ELSE More("status_code", "HPE_INVALID_STATUS")

s_res_status ==
    \/ /\ At("s_res_status_start")
       /\ IF ch \in {CR, LF} THEN Goto(LineEnd)
          ELSE /\ UPDATE_STATE("s_res_status") /\ Next1
               /\ mark' = MARK("status") /\ UNCHANGED response
    \/ /\ At("s_res_status")
       /\ IF ch \in {CR, LF} THEN Report("status", LineEnd) ELSE Goto("s_res_status")

(* The headers.                                                            *)

\* The names that matter, part by part: from one header_state, on a part, to
\* the next; any other part makes the header a general one.
FirstPart == {<<"con", "h_CON">>, <<"proxy-", "h_matching_proxy_connection">>,
              <<"transfer-", "h_matching_transfer_encoding">>, <<"up", "h_matching_upgrade">>}
NamePart ==
    {<<"h_CON", "nec", "h_matching_connection">>, <<"h_CON", "tent-", "h_matching_content_length">>,
     <<"h_matching_connection", "tion", "h_connection">>,
     <<"h_matching_proxy_connection", "connection", "h_connection">>,
     <<"h_matching_content_length", "length", "h_content_length">>,
     <<"h_matching_transfer_encoding", "encoding", "h_transfer_encoding">>,
     <<"h_matching_upgrade", "grade", "h_upgrade">>}
AfterPart(h, t) ==
    IF \E x \in NamePart : x[1] = h /\ x[2] = t
    THEN (CHOOSE x \in NamePart : x[1] = h /\ x[2] = t)[3] ELSE "h_general"

s_header_field_start ==
    /\ At("s_header_field_start")
    /\ CASE ch = CR -> Goto("s_headers_almost_done")
         [] ch = LF -> UPDATE_STATE("s_headers_almost_done") /\ REEXECUTE /\ UNCHANGED <<mark, response>>
         [] ch \notin {CR, LF} /\ ~TOKEN(ch) -> Fails("HPE_INVALID_HEADER_TOKEN")
         [] OTHER ->
              /\ hp' = [hp EXCEPT !.state = "s_header_field",
                          !.header_state = IF \E x \in FirstPart : x[1] = ch
                                           THEN (CHOOSE x \in FirstPart : x[1] = ch)[2] ELSE "h_general"]
              /\ mark' = MARK("header_field") /\ Next1 /\ UNCHANGED response

\* The rest of the name, as far as the buffer has it.  After its last token p
\* points behind the buffer, and so does the error of a name that is too long.
NameEnd ==
    IF \E q \in p .. end : ~TOKEN(wire[q])
    THEN CHOOSE q \in p .. end : ~TOKEN(wire[q]) /\ \A k \in p .. q - 1 : TOKEN(wire[k])
    ELSE end + 1
NameState ==
    LET after[q \in p - 1 .. end] ==
            IF q = p - 1 THEN hp.header_state
            ELSE ValueOf({ AfterPart(h, wire[q]) : h \in {after[q - 1]} })
    IN  after[NameEnd - 1]
s_header_field ==
    /\ At("s_header_field")
    /\ LET q == NameEnd
           h == [hp EXCEPT !.header_state = NameState, !.nread = @ + (q - p)]
       IN  CASE Overflows(q - p) ->
                  /\ hp' = [h EXCEPT !.http_errno = "HPE_HEADER_OVERFLOW"]
                  /\ nparsed' = q - data /\ UNCHANGED <<p, fresh, mark, response>>
             [] ~Overflows(q - p) /\ q = end + 1 ->
                  hp' = h /\ p' = q /\ fresh' = TRUE /\ UNCHANGED <<mark, nparsed, response>>
             [] ~Overflows(q - p) /\ q <= end /\ wire[q] = ":" ->
                  /\ hp' = [h EXCEPT !.state = "s_header_value_discard_ws"]
                  /\ response' = CALLBACK_DATA(mark, "header_field", q)
                  /\ mark' = [mark EXCEPT !.header_field = 0]
                  /\ p' = q + 1 /\ fresh' = TRUE /\ UNCHANGED nparsed
             [] OTHER ->
                  /\ hp' = [h EXCEPT !.http_errno = "HPE_INVALID_HEADER_TOKEN"]
                  /\ nparsed' = q - data /\ UNCHANGED <<p, fresh, mark, response>>

\* The first part of a value.
Connection(t) ==
    CASE t = "keep-" -> "h_matching_connection_keep_alive" [] t = "cl" -> "h_matching_connection_close"
      [] t = "up" -> "h_matching_connection_upgrade" [] OTHER -> "h_matching_connection_token"
ValueStart ==
    LET h == hp.header_state
        to(hs) == /\ hp' = [hp EXCEPT !.state = "s_header_value", !.header_state = hs]
                  /\ mark' = MARK("header_value") /\ Next1 /\ UNCHANGED response
    IN  CASE h = "h_upgrade" ->
               /\ hp' = [hp EXCEPT !.state = "s_header_value", !.header_state = "h_general",
                                   !.flags = @ \cup {"F_UPGRADE"}]
               /\ mark' = MARK("header_value") /\ Next1 /\ UNCHANGED response
          [] h = "h_transfer_encoding" ->
               to(IF ch = "chun" THEN "h_matching_transfer_encoding_chunked" ELSE "h_general")
          [] h = "h_content_length" /\ ~IS_NUM(ch) -> Fails("HPE_INVALID_CONTENT_LENGTH")
          [] h = "h_content_length" /\ IS_NUM(ch) /\ "F_CONTENTLENGTH" \in hp.flags ->
               Fails("HPE_UNEXPECTED_CONTENT_LENGTH")
          [] h = "h_content_length" /\ IS_NUM(ch) /\ "F_CONTENTLENGTH" \notin hp.flags ->
               /\ hp' = [hp EXCEPT !.state = "s_header_value", !.flags = @ \cup {"F_CONTENTLENGTH"},
                                   !.content_length = unhex(ch)]
               /\ mark' = MARK("header_value") /\ Next1 /\ UNCHANGED response
          [] h = "h_connection" -> to(Connection(ch))
          [] h = "h_matching_connection_token_start" -> to(h)
          [] OTHER -> to("h_general")
s_header_value_discard_ws ==
    /\ At("s_header_value_discard_ws")
    /\ CASE ch = " " -> Goto("s_header_value_discard_ws")
         [] ch = CR -> Goto("s_header_value_discard_ws_almost_done")
         [] ch = LF -> Goto("s_header_value_discard_lws")
         [] OTHER -> ValueStart
s_header_value_start == At("s_header_value_start") /\ ValueStart

\* The rest of a value: one part of it, and then all that the buffer has up to
\* the end of the line.
FlagOf == [h_connection_keep_alive |-> "F_CONNECTION_KEEP_ALIVE",
           h_connection_close |-> "F_CONNECTION_CLOSE",
           h_connection_upgrade |-> "F_CONNECTION_UPGRADE",
           h_transfer_encoding_chunked |-> "F_CHUNKED"]
ValuePart(v, t) ==
    LET to(h) == [v EXCEPT !.header_state = h]
        h == v.header_state
    IN  CASE h = "h_content_length" /\ t # " " ->
               IF ~IS_NUM(t) \/ (MaxLength - 10) \div 10 < v.content_length
               THEN [v EXCEPT !.http_errno = "HPE_INVALID_CONTENT_LENGTH"]
               ELSE [v EXCEPT !.content_length = @ * 10 + unhex(t)]
          [] h = "h_matching_transfer_encoding_chunked" ->
               to(IF t = "ked" THEN "h_transfer_encoding_chunked" ELSE "h_general")
          [] h = "h_matching_connection_token_start" /\ t # " " ->
               to(IF TOKEN(t) THEN Connection(t) ELSE "h_general")
          [] h = "h_matching_connection_keep_alive" ->
               to(IF t = "alive" THEN "h_connection_keep_alive" ELSE "h_matching_connection_token")
          [] h = "h_matching_connection_close" ->
               to(IF t = "ose" THEN "h_connection_close" ELSE "h_matching_connection_token")
          [] h = "h_matching_connection_upgrade" ->
               to(IF t = "grade" THEN "h_connection_upgrade" ELSE "h_matching_connection_token")
          [] h = "h_matching_connection_token" /\ t = "," -> to("h_matching_connection_token_start")
          [] h = "h_transfer_encoding_chunked" /\ t # " " -> to("h_general")
          [] h \in DOMAIN FlagOf \ {"h_transfer_encoding_chunked"} /\ t = "," ->
               [v EXCEPT !.header_state = "h_matching_connection_token_start", !.flags = @ \cup {FlagOf[h]}]
          [] h \in DOMAIN FlagOf \ {"h_transfer_encoding_chunked"} /\ t \notin {",", " "} ->
               to("h_matching_connection_token")
          [] OTHER -> v
\* The parser, and the token it stops at, or 0: after one token more, after
\* those up to q, and after the rest of the buffer.
ValueStep(before, q) ==
    IF before.stop # 0 THEN before
    ELSE IF wire[q] \in {CR, LF} THEN [before EXCEPT !.stop = q]
    ELSE LET v == ValuePart(before.hp, wire[q])
         IN  [hp |-> v, stop |-> IF v.http_errno # "HPE_OK" THEN q ELSE 0]
ValueAt[q \in p - 1 .. end] ==
    IF q = p - 1 THEN [hp |-> hp, stop |-> 0]
    ELSE ValueOf({ ValueStep(before, q) : before \in {ValueAt[q - 1]} })
ValueRest ==
    ValueOf({ IF last.stop = 0 THEN [last EXCEPT !.stop = end + 1] ELSE last : last \in {ValueAt[end]} })
s_header_value ==
    /\ At("s_header_value")
    /\ \E rest \in {ValueRest} :
       LET v == rest.hp
           q == rest.stop
           h == [v EXCEPT !.nread = @ + (q - p)]
       IN  CASE v.http_errno # "HPE_OK" ->
                  hp' = v /\ nparsed' = q - data /\ UNCHANGED <<p, fresh, mark, response>>
             [] v.http_errno = "HPE_OK" /\ q = end + 1 /\ ~Overflows(q - p) ->
                  hp' = h /\ p' = q /\ fresh' = TRUE /\ UNCHANGED <<mark, nparsed, response>>
             [] v.http_errno = "HPE_OK" /\ q <= end /\ ~Overflows(q - p) ->
                  /\ hp' = [h EXCEPT !.state = "s_header_almost_done"]
                  /\ response' = CALLBACK_DATA(mark, "header_value", q)
                  /\ mark' = [mark EXCEPT !.header_value = 0]
                  /\ IF wire[q] = CR THEN p' = q + 1 /\ fresh' = TRUE ELSE p' = q /\ fresh' = FALSE
                  /\ UNCHANGED nparsed
             [] OTHER ->    \* of a line that ends with CR the value has been reported
                  /\ hp' = [h EXCEPT !.http_errno = "HPE_HEADER_OVERFLOW"]
                  /\ response' = IF q <= end /\ wire[q] = CR THEN CALLBACK_DATA(mark, "header_value", q)
                                 ELSE response
                  /\ nparsed' = q - data /\ UNCHANGED <<p, fresh, mark>>

s_header_almost_done ==
    /\ At("s_header_almost_done")
    /\ IF ch = LF THEN Goto("s_header_value_lws") ELSE Fails("HPE_LF_EXPECTED")

\* A line that begins with a space goes on with the value; otherwise the header
\* is finished and its flag is set.
Finished == [hp EXCEPT !.state = "s_header_field_start",
                       !.flags = IF hp.header_state \in DOMAIN FlagOf
                                 THEN @ \cup {FlagOf[hp.header_state]} ELSE @]
s_header_value_lws ==
    /\ At("s_header_value_lws")
    /\ IF ch = " " THEN UPDATE_STATE("s_header_value_start") ELSE hp' = Finished
    /\ REEXECUTE /\ UNCHANGED <<mark, response>>

\* The value was empty: its mark is set and reported in one go.
s_header_value_discard_lws ==
    /\ At("s_header_value_discard_lws")
    /\ IF ch = " " THEN Goto("s_header_value_discard_ws")
       ELSE /\ hp' = Finished /\ REEXECUTE /\ UNCHANGED mark
            /\ response' = CALLBACK_DATA(MARK("header_value"), "header_value", p)

(* The end of the headers.                                                 *)

\* Mutation: statuses without a body are not excepted.
http_message_needs_eof_AnyStatus == "F_CHUNKED" \notin hp.flags /\ hp.content_length = MaxLength
http_message_needs_eof ==
    /\ hp.status_code \div 100 # 1 /\ hp.status_code \notin {204, 304}
    /\ "F_CHUNKED" \notin hp.flags /\ hp.content_length = MaxLength
http_should_keep_alive ==
    /\ IF hp.http_major > 0 /\ hp.http_minor > 0 THEN "F_CONNECTION_CLOSE" \notin hp.flags
       ELSE "F_CONNECTION_KEEP_ALIVE" \in hp.flags
    /\ ~http_message_needs_eof
NEW_MESSAGE == IF http_should_keep_alive THEN "s_start_res" ELSE "s_dead"

s_headers_almost_done ==
    /\ At("s_headers_almost_done")
    /\ CASE ch # LF -> Fails("HPE_STRICT")
         [] ch = LF /\ "F_TRAILING" \in hp.flags ->
              UPDATE_STATE("s_message_done") /\ REEXECUTE /\ UNCHANGED <<mark, response>>
         [] ch = LF /\ "F_TRAILING" \notin hp.flags /\ {"F_CHUNKED", "F_CONTENTLENGTH"} \subseteq hp.flags ->
              Fails("HPE_UNEXPECTED_CONTENT_LENGTH")
         [] OTHER ->
              /\ hp' = [hp EXCEPT !.state = "s_headers_done",
                                  !.upgrade = {"F_UPGRADE", "F_CONNECTION_UPGRADE"} \subseteq hp.flags]
              /\ REEXECUTE /\ UNCHANGED <<mark, response>>

\* The message ends here, and its last token is this one.
MessageComplete(h, upgrade) ==
    /\ hp' = [h EXCEPT !.state = NEW_MESSAGE]
    /\ response' = set_message_complete(response) /\ UNCHANGED mark
    /\ IF upgrade THEN RETURN(p - data + 1) ELSE Next1

HasBody == "F_CHUNKED" \in hp.flags \/ hp.content_length \notin {0, MaxLength}

\* Mutation: the count of header bytes goes on into the body.
HeaderCounted_NotReset == hp
HeaderCounted == [hp EXCEPT !.nread = 0]
s_headers_done ==
    /\ At("s_headers_done")
    /\ LET h == HeaderCounted
           to(s) == hp' = [h EXCEPT !.state = s] /\ Next1 /\ UNCHANGED <<mark, response>>
       IN  CASE hp.upgrade /\ ~HasBody -> MessageComplete(h, TRUE)
             [] ~(hp.upgrade /\ ~HasBody) /\ "F_CHUNKED" \in hp.flags -> to("s_chunk_size_start")
             [] HasBody /\ "F_CHUNKED" \notin hp.flags -> to("s_body_identity")
             [] ~hp.upgrade /\ ~HasBody /\ http_message_needs_eof -> to("s_body_identity_eof")
             [] OTHER -> MessageComplete(h, FALSE)

(* The body.                                                               *)

\* Mutation: everything in the buffer belongs to the body.
ToRead_Buffer == end - p + 1

\* As much of the body or the chunk as the buffer has.
ToRead == IF hp.content_length < end - p + 1 THEN hp.content_length ELSE end - p + 1
s_body_identity ==
    /\ At("s_body_identity")
    /\ LET left == hp.content_length - ToRead
       IN  IF left = 0
           THEN /\ hp' = [hp EXCEPT !.content_length = 0, !.state = "s_message_done"]
                /\ p' = p + ToRead - 1 /\ UNCHANGED <<fresh, nparsed>>
                /\ response' = CALLBACK_DATA(MARK("body"), "body", p + ToRead)
                /\ mark' = [mark EXCEPT !.body = 0]
           ELSE /\ hp' = [hp EXCEPT !.content_length = left]
                /\ p' = p + ToRead /\ fresh' = TRUE /\ mark' = MARK("body")
                /\ UNCHANGED <<nparsed, response>>
s_body_identity_eof ==
    /\ At("s_body_identity_eof")
    /\ mark' = MARK("body") /\ p' = end + 1 /\ fresh' = TRUE
    /\ UNCHANGED <<hp, nparsed, response>>
s_message_done == At("s_message_done") /\ MessageComplete(hp, hp.upgrade)

s_chunk_size ==
    \/ /\ At("s_chunk_size_start")
       /\ IF unhex(ch) = -1 THEN Fails("HPE_INVALID_CHUNK_SIZE")
          ELSE /\ hp' = [hp EXCEPT !.content_length = unhex(ch), !.state = "s_chunk_size"]
               /\ Next1 /\ UNCHANGED <<mark, response>>
    \/ /\ At("s_chunk_size")
       /\ CASE ch = CR -> Goto("s_chunk_size_almost_done")
            [] ch \in {";", " "} -> Goto("s_chunk_parameters")
            [] ch \notin {CR, ";", " "} /\ unhex(ch) = -1 -> Fails("HPE_INVALID_CHUNK_SIZE")
            [] unhex(ch) # -1 /\ (MaxLength - 16) \div 16 < hp.content_length ->
                 Fails("HPE_INVALID_CONTENT_LENGTH")
            [] OTHER -> /\ hp' = [hp EXCEPT !.content_length = @ * 16 + unhex(ch)]
                        /\ Next1 /\ UNCHANGED <<mark, response>>
s_chunk_parameters ==
    /\ At("s_chunk_parameters")
    /\ Goto(IF ch = CR THEN "s_chunk_size_almost_done" ELSE "s_chunk_parameters")
s_chunk_size_almost_done ==
    /\ At("s_chunk_size_almost_done")
    /\ IF ch # LF THEN Fails("HPE_STRICT")
       ELSE /\ hp' = [hp EXCEPT !.nread = 0,
                        !.state = IF hp.content_length = 0 THEN "s_header_field_start" ELSE "s_chunk_data",
                        !.flags = IF hp.content_length = 0 THEN @ \cup {"F_TRAILING"} ELSE @]
            /\ Next1 /\ UNCHANGED <<mark, response>>

\* The last part of a chunk is reported at the CR that follows it.
s_chunk_data ==
    /\ At("s_chunk_data")
    /\ hp' = [hp EXCEPT !.content_length = @ - ToRead,
                !.state = IF hp.content_length = ToRead THEN "s_chunk_data_almost_done" ELSE @]
    /\ p' = p + ToRead /\ fresh' = TRUE /\ mark' = MARK("body") /\ UNCHANGED <<nparsed, response>>
s_chunk_data_almost_done ==
    /\ At("s_chunk_data_almost_done")
    /\ IF ch = CR THEN Report("body", "s_chunk_data_done") ELSE Fails("HPE_STRICT")
s_chunk_data_done ==
    /\ At("s_chunk_data_done")
    /\ IF ch # LF THEN Fails("HPE_STRICT")
       ELSE /\ hp' = [hp EXCEPT !.nread = 0, !.state = "s_chunk_size_start"]
            /\ Next1 /\ UNCHANGED <<mark, response>>

Parse ==
    \/ NextCharacter \/ EndOfBuffer
    \/ s_dead \/ s_start_res \/ STRICT_CHECK \/ s_res_http_version \/ s_res_status_code \/ s_res_status
    \/ s_header_field_start \/ s_header_field \/ s_header_value_discard_ws \/ s_header_value_start
    \/ s_header_value \/ s_header_almost_done \/ s_header_value_lws \/ s_header_value_discard_lws
    \/ s_headers_almost_done \/ s_headers_done
    \/ s_body_identity \/ s_body_identity_eof \/ s_message_done
    \/ s_chunk_size \/ s_chunk_parameters \/ s_chunk_size_almost_done
    \/ s_chunk_data \/ s_chunk_data_almost_done \/ s_chunk_data_done

(* The assertions in http_parser_execute: at most one mark is set at the   *)
(* end of a buffer, a chunk's size starts with the first byte counted, a   *)
(* body or chunk that is read has bytes left, a value is never read in a   *)
(* state its first part has left, and chunks come only in chunked messages *)
(* (and a callback is made only without an error).                         *)
ParserAsserts ==
    nparsed = Running =>
        /\ hp.http_errno = "HPE_OK"
        /\ p = end + 1 => Cardinality(Marked) <= 1
        /\ hp.state = "s_chunk_size_start" /\ ~fresh /\ p <= end => hp.nread = 1
        /\ hp.state \in {"s_body_identity", "s_chunk_data"} => hp.content_length \notin {0, MaxLength}
        /\ hp.state = "s_chunk_data_almost_done" => hp.content_length = 0
        /\ hp.state = "s_header_value" => hp.header_state \notin {"h_connection", "h_transfer_encoding"}
        /\ hp.state \in {"s_chunk_size_start", "s_chunk_size", "s_chunk_parameters",
                         "s_chunk_size_almost_done", "s_chunk_data", "s_chunk_data_almost_done",
                         "s_chunk_data_done"} => "F_CHUNKED" \in hp.flags

(* The inductive invariant behind it: what each state of the parser may    *)
(* rely on.  A mark is set only in the states that read what it marks.     *)
ParserFields == DOMAIN http_parser_init
IsParser(h) == DOMAIN h = ParserFields /\ h = [x \in ParserFields |-> h[x]]
MarkingStates ==
    [status |-> {"s_res_status"}, header_field |-> {"s_header_field"},
     header_value |-> {"s_header_value"},
     body |-> {"s_body_identity", "s_body_identity_eof", "s_chunk_data", "s_chunk_data_almost_done"}]
MarksFit == \A f \in DOMAIN NoMarks : mark[f] # 0 => hp.state \in MarkingStates[f]
SizeStates == {"s_chunk_size", "s_chunk_parameters", "s_chunk_size_almost_done"}
ChunkStates ==
    SizeStates \cup {"s_chunk_size_start", "s_chunk_data", "s_chunk_data_almost_done", "s_chunk_data_done"}
StateFits ==
    /\ hp.state = "s_chunk_size_start" => hp.nread = IF nparsed = Running /\ ~fresh THEN 1 ELSE 0
    /\ hp.state \in {"s_body_identity", "s_chunk_data"} => hp.content_length \notin {0, MaxLength}
    /\ hp.state \in SizeStates => hp.content_length # MaxLength
    /\ hp.state = "s_chunk_data_almost_done" => hp.content_length = 0
    /\ hp.state = "s_header_value" => hp.header_state \notin {"h_connection", "h_transfer_encoding"}
    /\ hp.state \in ChunkStates => "F_CHUNKED" \in hp.flags
BufferFits ==
    /\ data \in 1 .. p /\ p \in 1 .. end + 1
    /\ p = end + 1 => fresh
ParserInv ==
    /\ IsParser(hp) /\ hp.content_length \in 0 .. MaxLength
    /\ DOMAIN mark = DOMAIN NoMarks /\ mark = [f \in DOMAIN NoMarks |-> mark[f]]
    /\ end \in Nat
    /\ hp.http_errno = "HPE_OK" => StateFits
    /\ nparsed = Running => hp.http_errno = "HPE_OK" /\ BufferFits /\ MarksFit

=============================================================================
