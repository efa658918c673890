------------------------------ MODULE HTTPUrl ------------------------------
(***************************************************************************)
(* http_parser_parse_url, and the ParsedUrl an HTTPClient is built from.   *)
(* A URL is a sequence of tokens; a token is a character, or a word or a   *)
(* number whose characters are all of one class.                           *)
(***************************************************************************)
EXTENDS Integers, Sequences, FiniteSets

CONSTANTS MaxPort,      \* 0xffff
          Urls          \* the URLs a sketch asks for

ASSUME UrlAssumption == MaxPort \in Nat /\ \A u \in Urls : u # <<>>

VARIABLES url,          \* the URL of an HTTPClient
          parsed_url    \* and its ParsedUrl

(* The classes of characters.  The number 99 is a port above MaxPort.      *)
Number == [n \in {"8", "9", "99"} |-> CASE n = "8" -> 8 [] n = "9" -> 9 [] n = "99" -> 99]
IS_ALPHA(t) == t \in {"http", "https", "fe", "host", "user", "path", "q"}
IS_HEX(t) == t \in {"fe"} \cup DOMAIN Number
IS_ALPHANUM(t) == IS_ALPHA(t) \/ t \in DOMAIN Number
IS_USERINFO_CHAR(t) == IS_ALPHANUM(t) \/ t \in {".", "-", "*", "%", ":"}
IS_HOST_CHAR(t) == IS_ALPHANUM(t) \/ t \in {".", "-"}
IS_URL_CHAR(t) == t \notin {" ", "?", "#"}

(* The fields of a URL.                                                    *)

\* parse_url_char: the state after t.
parse_url_char(s, t) ==
    CASE t = " " -> "s_dead"
      [] s = "s_req_spaces_before_url" /\ t \in {"/", "*"} -> "s_req_path"
      [] s \in {"s_req_spaces_before_url", "s_req_schema"} /\ IS_ALPHA(t) -> "s_req_schema"
      [] s = "s_req_schema" /\ t = ":" -> "s_req_schema_slash"
      [] s = "s_req_schema_slash" /\ t = "/" -> "s_req_schema_slash_slash"
      [] s = "s_req_schema_slash_slash" /\ t = "/" -> "s_req_server_start"
      [] s \in {"s_req_server_with_at", "s_req_server_start", "s_req_server"} /\ t = "/" -> "s_req_path"
      [] s \in {"s_req_server_with_at", "s_req_server_start", "s_req_server", "s_req_path"} /\ t = "?" ->
           "s_req_query_string_start"
      [] s \in {"s_req_server_start", "s_req_server"} /\ t = "@" -> "s_req_server_with_at"
      [] /\ s \in {"s_req_server_with_at", "s_req_server_start", "s_req_server"}
         /\ IS_USERINFO_CHAR(t) \/ t \in {"[", "]"} -> "s_req_server"
      [] s = "s_req_path" /\ IS_URL_CHAR(t) -> "s_req_path"
      [] s \in {"s_req_query_string_start", "s_req_query_string"} /\ (IS_URL_CHAR(t) \/ t = "?") ->
           "s_req_query_string"
      [] s \in {"s_req_path", "s_req_query_string_start", "s_req_query_string", "s_req_fragment_start"}
         /\ t = "#" -> "s_req_fragment_start"
      [] s \in {"s_req_fragment_start", "s_req_fragment"} /\ (IS_URL_CHAR(t) \/ t = "?") -> "s_req_fragment"
      [] s = "s_req_fragment" /\ t = "#" -> "s_req_fragment"
      [] OTHER -> "s_dead"

FieldOf == [s_req_schema |-> "schema", s_req_server_with_at |-> "host", s_req_server |-> "host",
            s_req_path |-> "path", s_req_query_string |-> "query", s_req_fragment |-> "fragment"]

\* The state after every token, and the tokens before the one it dies at.
UrlStates(u) ==
    LET after[i \in 0 .. Len(u)] ==
            IF i = 0 THEN "s_req_spaces_before_url" ELSE parse_url_char(after[i - 1], u[i])
    IN  [i \in 0 .. Len(u) |-> after[i]]
Lowest(S) == CHOOSE i \in S : \A j \in S : i <= j
\* The tokens at the places in S, which follow each other.
Slice(u, S) == IF S = {} THEN <<>> ELSE SubSeq(u, Lowest(S), Lowest(S) + Cardinality(S) - 1)

(* The parts of the host field.                                            *)

\* http_parse_host_char: the state after t.
http_parse_host_char(s, t) ==
    CASE s \in {"userinfo", "userinfo_start"} /\ t = "@" -> "host_start"
      [] s \in {"userinfo", "userinfo_start"} /\ IS_USERINFO_CHAR(t) -> "userinfo"
      [] s = "host_start" /\ t = "[" -> "v6_start"
      [] s \in {"host_start", "host"} /\ IS_HOST_CHAR(t) -> "host"
      [] s \in {"host", "v6_end"} /\ t = ":" -> "port_start"
      [] s \in {"v6", "v6_zone"} /\ t = "]" -> "v6_end"
      [] s \in {"v6", "v6_start"} /\ (IS_HEX(t) \/ t \in {":", "."}) -> "v6"
      [] s = "v6" /\ t = "%" -> "v6_zone_start"
      [] s \in {"v6_zone", "v6_zone_start"} /\ (IS_ALPHANUM(t) \/ t \in {"%", ".", "-"}) -> "v6_zone"
      [] s \in {"port", "port_start"} /\ t \in DOMAIN Number -> "port"
      [] OTHER -> "dead"

\* Mutation: an empty port is accepted.
HostUnfinished_EmptyPort == {"dead", "host_start", "v6_start", "v6", "v6_zone_start", "v6_zone",
                             "userinfo", "userinfo_start"}
HostUnfinished == {"dead", "host_start", "v6_start", "v6", "v6_zone_start", "v6_zone", "port_start",
                   "userinfo", "userinfo_start"}

\* http_parse_host, of the tokens h: what it found, as far as it came.
http_parse_host(h, found_at) ==
    LET after[i \in 0 .. Len(h)] ==
            IF i = 0 THEN IF found_at THEN "userinfo_start" ELSE "host_start"
            ELSE http_parse_host_char(after[i - 1], h[i])
        in(S) == { i \in 1 .. Len(h) : after[i] \in S }
    IN  [failed |-> after[Len(h)] \in HostUnfinished,
         userinfo |-> Slice(h, in({"userinfo"})),
         host |-> IF in({"host", "v6"}) = {} THEN <<>>
                  ELSE Slice(h, in({"host", "v6", "v6_zone_start", "v6_zone"})),
         port |-> Slice(h, in({"port"}))]

(* The URL.  ParsedUrl ignores whether the URL was refused, and takes what *)
(* had been found by then.                                                 *)

\* strtoul.
Value(digits) ==
    LET value[i \in 0 .. Len(digits)] == IF i = 0 THEN 0 ELSE 10 * value[i - 1] + Number[digits[i]]
    IN  value[Len(digits)]

http_parser_parse_url(u) ==
    LET s == UrlStates(u)
        field(f) == Slice(u, { i \in 1 .. Len(u) : s[i] \in DOMAIN FieldOf /\ FieldOf[s[i]] = f })
        found_at == \E i \in 1 .. Len(u) : s[i] = "s_req_server_with_at"
        dead == s[Len(u)] = "s_dead"
        noHost == field("schema") # <<>> /\ field("host") = <<>>
        h == IF dead \/ noHost \/ field("host") = <<>>
             THEN [failed |-> FALSE, userinfo |-> <<>>, host |-> field("host"), port |-> <<>>]
             ELSE http_parse_host(field("host"), found_at)
        refused == dead \/ noHost \/ h.failed \/ Value(h.port) > MaxPort
    IN  [refused |-> refused, schema |-> field("schema"), userinfo |-> h.userinfo, host |-> h.host,
         port |-> IF refused THEN 0 ELSE Value(h.port), path |-> field("path"), query |-> field("query")]

ParsedUrl(u) ==
    LET r == http_parser_parse_url(u)
    IN  [r EXCEPT !.port = IF @ # 0 THEN @ ELSE IF r.schema = <<"https">> THEN 443 ELSE 80]

(* What a URL means: its parts, written one after the other.               *)

UrlParts ==
    [schema : {"http", "https"}, userinfo : {<<>>, <<"user">>, <<"user", ":", "q">>},
     host : {<<"host">>, <<"host", ".", "fe">>, <<"[", "fe", ":", "8", "]">>, <<"[", "fe", "%", "q", "]">>},
     port : {0, 8, 99}, path : {<<>>, <<"/">>, <<"/", "path", ":", "@">>},
     query : {<<>>, <<"q">>, <<"q", "?", "/">>}, fragment : {<<>>, <<"q">>}]
Compose(c) ==
    <<c.schema, ":", "/", "/">>
        \o (IF c.userinfo = <<>> THEN <<>> ELSE Append(c.userinfo, "@"))
        \o c.host
        \o (CASE c.port = 0 -> <<>> [] c.port = 8 -> <<":", "8">> [] c.port = 99 -> <<":", "99">>)
        \o c.path
        \o (IF c.query = <<>> THEN <<>> ELSE <<"?">> \o c.query)
        \o (IF c.fragment = <<>> THEN <<>> ELSE <<"#">> \o c.fragment)
\* A fragment needs a path or a query before it.
Writable == { c \in UrlParts : c.fragment # <<>> => c.path # <<>> \/ c.query # <<>> }
Written == { <<Compose(c), c>> : c \in Writable }
ComposedUrls == { w[1] : w \in Written }

Bare(h) == IF h[1] = "[" THEN SubSeq(h, 2, Len(h) - 1) ELSE h

\* The tokens up to the first that begins the path or the query.
Server(u) ==
    LET stops == { i \in 1 .. Len(u) : u[i] \in {"/", "?"} }
    IN  IF stops = {} THEN u ELSE SubSeq(u, 1, Lowest(stops) - 1)

=============================================================================
