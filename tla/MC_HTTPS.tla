------------------------------ MODULE MC_HTTPS ------------------------------
(***************************************************************************)
(* Instances of HTTPSRequest: the URLs, the requests and the answers of    *)
(* the server, legal ones with the body they carry and broken ones.        *)
(***************************************************************************)
EXTENDS HTTPSRequest

MC_Requested == { <<"http", ":", "/", "/", "host", "/", "path", "?", "q">>,
                  <<"https", ":", "/", "/", "host">>, <<"/", "path">> }
\* URLs with known parts, and every URL with up to three tokens after the scheme.
MC_Rest ==
    UNION { [1 .. n -> {"host", "fe", "8", "99", "[", "]", ":", "@", "/", "?", "#", " ", "%"}] : n \in 0 .. 3 }
MC_Urls == ComposedUrls \cup { <<"http", ":", "/", "/">> \o r : r \in MC_Rest } \cup MC_Requested

MC_Bodies == { <<>>, <<"b1", "b2", "b3">> }
MC_HeaderPairs == { <<"Host", <<"fe">> >>, <<"x", <<"q">> >> }

CRLF == <<CR, LF>>
HTTPVersion(minor) == <<"H", "T", "T", "P", "/", "1", ".", minor, " ">>
StatusLine(code, phrase) == HTTPVersion("1") \o code \o phrase \o CRLF
OK == StatusLine(<<"2", "0", "0", " ">>, <<"O", "K">>)
Field(name, value) == name \o <<":", " ">> \o value \o CRLF
Length(digits) == Field(<<"con", "tent-", "length">>, digits)
Chunked == Field(<<"transfer-", "encoding">>, <<"chun", "ked">>)
Connected(value) == Field(<<"con", "nec", "tion">>, value)
Close == Connected(<<"cl", "ose">>)
Repeat(t, n) == [i \in 1 .. n |-> t]

Legal(code, w, body) ==
    [wire |-> w, legal |-> TRUE, body |-> body, code |-> code, phrase |-> TRUE, eof |-> FALSE]
Broken(w, body) == [Legal(200, w, body) EXCEPT !.legal = FALSE]

MC_Legal ==
    { Legal(200, OK \o Length(<<"3">>) \o CRLF \o <<"b1", CR, "b2">>, <<"b1", CR, "b2">>),
      Legal(200, OK \o Length(<<"1", "0">>) \o Close \o CRLF \o Repeat("b1", 10) \o CRLF, Repeat("b1", 10)),
      Legal(200, OK \o Chunked \o CRLF \o <<"2", ";", "x", CR, LF, "b1", "b2", CR, LF>>
                    \o <<"1", CR, LF, LF, CR, LF, "0", CR, LF>> \o Field(<<"x">>, <<"y">>) \o CRLF,
            <<"b1", "b2", LF>>),
      [Legal(200, OK \o Close \o CRLF \o <<"b1", "b2", "b3">>, <<"b1", "b2", "b3">>) EXCEPT !.eof = TRUE],
      \* values that are empty or go on in the next line
      Legal(204, StatusLine(<<"2", "0", "4", " ">>, <<"N">>) \o <<"x", ":", CR, LF, " ", "y", CR, LF>>
                    \o <<"x", ":", "y", CR, LF, " ", "z", CR, LF, "x", ":", LF, CR, LF>>, <<>>),
      [Legal(304, StatusLine(<<"3", "0", "4">>, <<>>) \o Connected(<<"keep-", "alive", ",", " ", "x">>)
                    \o <<LF>>, <<>>) EXCEPT !.phrase = FALSE],
      Legal(101, StatusLine(<<"1", "0", "1", " ">>, <<"S">>) \o Connected(<<"up", "grade">>)
                    \o Field(<<"up", "grade">>, <<"y">>) \o CRLF, <<>>),
      \* HTTP/1.0, kept alive, with bare line feeds and a name that only begins like another
      Legal(200, <<CR, LF>> \o HTTPVersion("0") \o <<"2", "0", "0", " ", "O", LF, "con", "x", ":", "y", LF>>
                    \o Connected(<<"x", ",", "keep-", "alive">>) \o Length(<<"1", " ">>) \o CRLF \o <<"b1">>,
            <<"b1">>) }
MC_Broken ==
    { Broken(OK \o Length(<<"1">>) \o Chunked \o CRLF, <<>>),
      Broken(OK \o Length(<<"1">>) \o Length(<<"2">>) \o CRLF \o <<"b1">>, <<"b1">>),
      Broken(OK \o Length(<<"1", "0", "0">>) \o CRLF \o <<"b1">>, <<"b1">>),
      Broken(OK \o Length(<<"x">>) \o CRLF, <<>>),
      Broken(OK \o Chunked \o CRLF \o <<"f", "f", CR, LF>>, <<>>),
      Broken(OK \o Chunked \o CRLF \o <<"1", CR, LF, "b1", "b2", CR, LF, "0", CR, LF>>, <<"b1">>),
      Broken(OK \o Chunked \o CRLF \o <<"z">>, <<>>),
      Broken(OK \o Field(<<"x">>, Repeat("y", 30)) \o CRLF, <<>>),
      Broken(OK \o Repeat("y", 30) \o CRLF, <<>>),
      Broken(OK \o <<"x", " ">>, <<>>), Broken(OK \o <<" ">>, <<>>), Broken(OK \o <<"x", ":", "y", CR, "z">>, <<>>),
      Broken(OK \o <<CR, CR>>, <<>>), Broken(<<"b1">>, <<>>), Broken(<<"H", "b1">>, <<>>),
      Broken(<<"H", "T", "T", "P", "/", "x">>, <<>>), Broken(HTTPVersion("1") \o <<"2", "0", "0", "0">>, <<>>) }

\* The answers to one request; any other is answered in short.
MC_Answers(request) ==
    IF request = << <<"line", "GET", <<"/", "path">>, <<"q">> >>, <<"header", "Host", <<"host">> >>,
                    <<"end">>, <<"ending">> >>
    THEN MC_Legal \cup MC_Broken
    ELSE { Legal(204, StatusLine(<<"2", "0", "4", " ">>, <<"N">>) \o CRLF, <<>>) }

=============================================================================
