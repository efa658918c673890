----------------------------- MODULE HTTPServer -----------------------------
(***************************************************************************)
(* extensions/http-server: the caller of app_httpd.cpp (httpd_server_start, *)
(* app_httpd_stop), the server's own thread (httpd.c, httpd_main) with the *)
(* handling of a request (httpd_handle.c, httpd_wsgi.c), and the socket    *)
(* descriptors both share with the rest of the firmware.                   *)
(*                                                                         *)
(* `app' and `th' say where the caller and the thread stand.  The thread   *)
(* can be deleted at any of its steps, so a descriptor is a step in a      *)
(* local variable (thFd) before it is in its global one, and a step closed *)
(* before its global variable is -1.                                       *)
(***************************************************************************)
EXTENDS Integers, FiniteSets, FiniteSetsExt

CONSTANTS
    Fds,            \* descriptors of the TCP/IP stack, lowest free one first
    MaxBacklog,     \* HTTPD_MAX_BACKLOG_CONN
    Polls,          \* num_iterations of the wait for the thread's halt
    Faults          \* the calls that may fail

FaultKinds == {"create", "socket", "bind", "select", "accept", "connect"}

ASSUME HTTPAssumption ==
    /\ Fds \subseteq Nat /\ IsFiniteSet(Fds)
    /\ MaxBacklog \in Nat \ {0}
    /\ Polls \in Nat
    /\ Faults \subseteq FaultKinds

VARIABLES
    httpd_state, httpd_stop_req, http_sockfd, client_sockfd,    \* httpd.c
    is_http_init, is_handlers_registered,                       \* app_httpd.cpp
    all_wsgi_calls,     \* the pages that have a handler
    owner,              \* who opened each descriptor
    listeners, backlog, \* descriptors bound to the port, connections not yet accepted
    peer,               \* the other end of the connection being served
    th, thFd,
    app, wake, polls,
    \* history: a thread was deleted between a descriptor and its variable; a
    \* descriptor was closed that somebody else had opened
    torn, foreign

httpdVars == <<httpd_state, httpd_stop_req, http_sockfd, client_sockfd>>
appVars == <<is_http_init, is_handlers_registered, all_wsgi_calls>>
netVars == <<owner, listeners, backlog, peer>>
httpVars == <<httpdVars, appVars, netVars, th, thFd, app, wake, polls, torn, foreign>>

NoFd == -1
Pages == {"page", "result"}

\* The device after a reset.
HTTPInit ==
    /\ httpd_state = "INACTIVE" /\ httpd_stop_req = FALSE
    /\ http_sockfd = 0 /\ client_sockfd = 0
    /\ is_http_init = FALSE /\ is_handlers_registered = FALSE
    /\ all_wsgi_calls = {}
    /\ owner = [fd \in Fds |-> "free"] /\ listeners = {} /\ backlog = 0 /\ peer = "none"
    /\ th = "none" /\ thFd = NoFd
    /\ app = "idle" /\ wake = NoFd /\ polls = 0
    /\ torn = FALSE /\ foreign = FALSE

-----------------------------------------------------------------------------
(* The TCP/IP stack.                                                       *)
Free == {fd \in Fds : owner[fd] = "free"}
NewFd == Min(Free)
MayFail(fault) == fault \in Faults

Opened(fd, who) == [owner EXCEPT ![fd] = who]

\* What closing the descriptors of a set leaves behind; closing one that is not
\* open does nothing but fail.
Closed(fds) == [fd \in Fds |-> IF fd \in fds THEN "free" ELSE owner[fd]]
CloseAll(fds, who) ==
    /\ owner' = Closed(fds)
    /\ listeners' = listeners \ fds
    /\ backlog' = IF listeners \ fds = {} THEN 0 ELSE backlog
    /\ foreign' = (foreign \/ \E fd \in fds \cap Fds : owner[fd] \notin {who, "free"})

\* Another task opens and closes sockets of its own.
OtherOpens ==
    /\ Free # {}
    /\ owner' = Opened(NewFd, "other")
    /\ UNCHANGED <<httpdVars, appVars, listeners, backlog, peer, th, thFd, app, wake, polls,
                   torn, foreign>>

OtherCloses ==
    /\ \E fd \in Fds : owner[fd] = "other" /\ owner' = Closed({fd})
    /\ UNCHANGED <<httpdVars, appVars, listeners, backlog, peer, th, thFd, app, wake, polls,
                   torn, foreign>>

\* A browser connects; the one being served goes away, or stops answering the
\* keep-alive probes, after which recv fails.
ClientConnects ==
    /\ listeners # {} /\ backlog < MaxBacklog
    /\ backlog' = backlog + 1
    /\ UNCHANGED <<httpdVars, appVars, owner, listeners, peer, th, thFd, app, wake, polls,
                   torn, foreign>>

ClientGoes ==
    /\ peer = "open"
    /\ peer' \in {"closed", "reset"}
    /\ UNCHANGED <<httpdVars, appVars, owner, listeners, backlog, th, thFd, app, wake, polls,
                   torn, foreign>>

-----------------------------------------------------------------------------
(* The server's thread.                                                    *)
AppUnchanged == UNCHANGED <<appVars, app, wake, polls, torn>>
At(from, to) == th = from /\ th' = to

\* httpd_setup_new_socket: socket, then bind and listen; without a socket the
\* thread suspends itself.
SetupSocket ==
    /\ th = "setup"
    /\ \/ /\ Free # {}
          /\ th' = "bind"
          /\ thFd' = NewFd
          /\ owner' = Opened(NewFd, "httpd")
          /\ UNCHANGED httpdVars
       \/ /\ Free = {} \/ MayFail("socket")
          /\ th' = "suspend"
          /\ http_sockfd' = NoFd
          /\ UNCHANGED <<owner, thFd, httpd_state, httpd_stop_req, client_sockfd>>
    /\ UNCHANGED <<listeners, backlog, peer, foreign>>
    /\ AppUnchanged

SetupBind ==
    /\ th = "bind"
    /\ \/ /\ listeners = {}
          /\ th' = "store"
          /\ listeners' = {thFd}
          /\ UNCHANGED <<httpdVars, owner, backlog, thFd, foreign>>
       \/ /\ listeners # {} \/ MayFail("bind")
          /\ th' = "suspend"
          /\ thFd' = NoFd
          /\ CloseAll({thFd}, "httpd")
          /\ http_sockfd' = NoFd
          /\ UNCHANGED <<httpd_state, httpd_stop_req, client_sockfd>>
    /\ UNCHANGED peer
    /\ AppUnchanged

SetupStore ==
    /\ At("store", "select")
    /\ http_sockfd' = thFd
    /\ thFd' = NoFd
    /\ UNCHANGED <<httpd_state, httpd_stop_req, client_sockfd, netVars, foreign>>
    /\ AppUnchanged

\* Where the thread goes that looks at the stop request before it goes on.
Unless(stop, next) ==
    /\ th' = IF stop THEN "suspend" ELSE next
    /\ httpd_stop_req' = FALSE

\* httpd_select on the listening socket: sleeps until a connection is there; a
\* failure suspends the thread before it has seen the request.
Select ==
    /\ th = "select"
    /\ \/ backlog > 0 /\ Unless(httpd_stop_req, "handle")
       \/ MayFail("select") /\ th' = "suspend" /\ UNCHANGED httpd_stop_req
    /\ UNCHANGED <<httpd_state, http_sockfd, client_sockfd, thFd, netVars, foreign>>
    /\ AppUnchanged

\* httpd_handle_client_connection up to accept.
Accept ==
    /\ th = "handle"
    /\ \/ /\ httpd_stop_req
          /\ Unless(TRUE, "suspend")
          /\ UNCHANGED <<client_sockfd, owner, backlog, thFd>>
       \/ /\ ~httpd_stop_req /\ Free # {}
          /\ th' = "accepted"
          /\ thFd' = NewFd
          /\ owner' = Opened(NewFd, "httpd")
          /\ backlog' = backlog - 1
          /\ UNCHANGED <<httpd_stop_req, client_sockfd>>
       \/ /\ ~httpd_stop_req /\ (Free = {} \/ MayFail("accept"))
          /\ th' = "select"
          /\ client_sockfd' = NoFd
          /\ backlog' = backlog - 1
          /\ UNCHANGED <<httpd_stop_req, owner, thFd>>
    /\ UNCHANGED <<httpd_state, http_sockfd, listeners, peer, foreign>>
    /\ AppUnchanged

Accepted ==
    /\ At("accepted", "serve")
    /\ client_sockfd' = thFd
    /\ thFd' = NoFd
    /\ peer' = "open"
    /\ UNCHANGED <<httpd_state, httpd_stop_req, http_sockfd, owner, listeners, backlog, foreign>>
    /\ AppUnchanged

\* The loop's head: select with HTTPD_CLIENT_SOCK_TIMEOUT.  A silent peer is
\* dropped at the time-out.
Serve ==
    /\ th = "serve"
    /\ \/ Unless(httpd_stop_req, "line")
       \/ peer = "open" /\ Unless(httpd_stop_req, "close")
       \/ MayFail("select") /\ th' = "suspend" /\ UNCHANGED httpd_stop_req
    /\ UNCHANGED <<httpd_state, http_sockfd, client_sockfd, thFd, netVars, foreign>>
    /\ AppUnchanged

-----------------------------------------------------------------------------
(* httpd_handle_message.  A status of kNoErr keeps the connection.         *)
Continue(from, places) ==
    /\ th = from
    /\ th' \in places
    /\ UNCHANGED <<httpdVars, thFd, netVars, foreign>>
    /\ AppUnchanged

\* The outcome of httpd_send_error is the status of the message.
Sent == {"serve", "close"}

\* The request line, from a peer that still sends: a GET and a POST with a
\* handler, a request no handler takes, or one that does not parse.
RequestLine ==
    /\ peer = "open"
    /\ \/ "page" \in all_wsgi_calls /\ Continue("line", {"purgeHeaders"})
       \/ "result" \in all_wsgi_calls /\ Continue("line", {"body"})
       \/ Continue("line", {"purgeTags"})
       \/ Continue("line", Sent)

\* web_system_setting_page: httpd_purge_headers, then the page.
HeadersRead == peer = "open" /\ Continue("purgeHeaders", Sent)

\* No handler: httpd_purge_socket_data, then 404 whatever was purged.
TagsRead == peer = "open" /\ Continue("purgeTags", {"serve", "purgeBody"})
BodyPurged == peer = "open" /\ Continue("purgeBody", {"serve"})

\* web_system_setting_result_page refuses the form.
FormRefused == peer = "open" /\ Continue("body", Sent)

\* It stores the settings and restarts the device.
FormStored ==
    /\ peer = "open" /\ th = "body"
    /\ httpd_state' = "INACTIVE" /\ httpd_stop_req' = FALSE
    /\ http_sockfd' = 0 /\ client_sockfd' = 0
    /\ is_http_init' = FALSE /\ is_handlers_registered' = FALSE
    /\ all_wsgi_calls' = {}
    /\ owner' = [fd \in Fds |-> "free"] /\ listeners' = {} /\ backlog' = 0 /\ peer' = "none"
    /\ th' = "none" /\ thFd' = NoFd
    /\ app' = "idle" /\ wake' = NoFd /\ polls' = 0
    /\ torn' = FALSE /\ foreign' = FALSE

\* recv returns 0: the peer closed.  httpd_purge_socket_data takes 0 bytes off
\* what remains and reads again, for ever: nothing for "purgeBody" here.
RecvClosed ==
    /\ peer = "closed"
    /\ \/ Continue("line", {"close"})
       \/ Continue("purgeHeaders", Sent)
       \/ Continue("purgeTags", {"serve", "purgeBody"})
       \/ Continue("body", Sent)

\* recv returns -1: httpd_purge_headers only stops at 0, and goes on with the
\* character it read last: nothing for "purgeHeaders" here.
RecvFails ==
    /\ peer = "reset"
    /\ \/ Continue("line", {"close"})
       \/ Continue("purgeTags", {"serve"})
       \/ Continue("purgeBody", {"serve"})
       \/ Continue("body", Sent)

\* close of the client socket; a failure suspends the thread.
CloseClient ==
    /\ th = "close"
    /\ th' = IF client_sockfd \in Free THEN "suspend" ELSE "clear"
    /\ CloseAll({client_sockfd}, "httpd")
    /\ peer' = "none"
    /\ UNCHANGED <<httpdVars, thFd>>
    /\ AppUnchanged

\* Mutation: the variable keeps the descriptor that was closed.
ClearClient_Forgotten ==
    /\ At("clear", "select")
    /\ UNCHANGED <<httpdVars, thFd, netVars, foreign>>
    /\ AppUnchanged

ClearClient ==
    /\ At("clear", "select")
    /\ client_sockfd' = NoFd
    /\ UNCHANGED <<httpd_state, httpd_stop_req, http_sockfd, thFd, netVars, foreign>>
    /\ AppUnchanged

-----------------------------------------------------------------------------
(* httpd_suspend_thread: httpd_close_sockets, the state, and no more steps. *)
SuspendCloseHttp ==
    /\ th = "suspend"
    /\ th' = IF http_sockfd = NoFd THEN "suspendClient" ELSE "suspendHttp"
    /\ CloseAll({http_sockfd} \ {NoFd}, "httpd")
    /\ UNCHANGED <<httpdVars, thFd, peer>>
    /\ AppUnchanged

SuspendClearHttp ==
    /\ At("suspendHttp", "suspendClient")
    /\ http_sockfd' = NoFd
    /\ UNCHANGED <<httpd_state, httpd_stop_req, client_sockfd, thFd, netVars, foreign>>
    /\ AppUnchanged

SuspendCloseClient ==
    /\ th = "suspendClient"
    /\ th' = IF client_sockfd = NoFd THEN "suspendState" ELSE "suspendClear"
    /\ CloseAll({client_sockfd} \ {NoFd}, "httpd")
    /\ peer' = "none"
    /\ UNCHANGED <<httpdVars, thFd>>
    /\ AppUnchanged

SuspendClearClient ==
    /\ At("suspendClear", "suspendState")
    /\ client_sockfd' = NoFd
    /\ UNCHANGED <<httpd_state, httpd_stop_req, http_sockfd, thFd, netVars, foreign>>
    /\ AppUnchanged

SuspendState ==
    /\ At("suspendState", "suspended")
    /\ httpd_state' = "THREAD_SUSPENDED"
    /\ UNCHANGED <<httpd_stop_req, http_sockfd, client_sockfd, thFd, netVars, foreign>>
    /\ AppUnchanged

-----------------------------------------------------------------------------
(* The caller: httpd_server_start.                                         *)
ThreadUnchanged == UNCHANGED <<th, thFd>>

\* _app_httpd_start initializes once; httpd_init clears the table of handlers.
httpd_server_start ==
    /\ app = "idle"
    /\ app' = "create"
    /\ is_http_init' = TRUE
    /\ IF ~is_http_init /\ httpd_state = "INACTIVE"
         THEN /\ httpd_state' = "INIT_DONE"
              /\ http_sockfd' = NoFd /\ client_sockfd' = NoFd
              /\ all_wsgi_calls' = {}
         ELSE UNCHANGED <<httpd_state, http_sockfd, client_sockfd, all_wsgi_calls>>
    /\ UNCHANGED <<httpd_stop_req, is_handlers_registered, netVars, wake, polls, torn, foreign>>
    /\ ThreadUnchanged

\* httpd_start: "Already started" in every state but INIT_DONE.
AlreadyStarted ==
    /\ app = "create" /\ httpd_state # "INIT_DONE"
    /\ app' = "register"
    /\ UNCHANGED <<httpdVars, appVars, netVars, wake, polls, torn, foreign>>
    /\ ThreadUnchanged

CreateThread ==
    /\ app = "create" /\ httpd_state = "INIT_DONE"
    /\ app' = "running"
    /\ th' = "setup"
    /\ UNCHANGED <<httpdVars, appVars, netVars, thFd, wake, polls, torn, foreign>>

\* httpd_shutdown finds nothing to stop, and leaves the server uninitialized.
CreateFails ==
    /\ app = "create" /\ httpd_state = "INIT_DONE" /\ MayFail("create")
    /\ app' = "idle"
    /\ httpd_state' = "INACTIVE"
    /\ UNCHANGED <<httpd_stop_req, http_sockfd, client_sockfd, appVars, netVars, wake, polls,
                   torn, foreign>>
    /\ ThreadUnchanged

\* The state is set after the thread was created, whatever it did meanwhile.
SetRunning ==
    /\ app = "running"
    /\ app' = "register"
    /\ httpd_state' = "THREAD_RUNNING"
    /\ UNCHANGED <<httpd_stop_req, http_sockfd, client_sockfd, appVars, netVars, wake, polls,
                   torn, foreign>>
    /\ ThreadUnchanged

\* httpd_register_wsgi_handler compares with the entries behind the first free
\* one through null pointers: a handler it takes for known is not stored.
RegisterHandlers ==
    /\ app = "register"
    /\ app' = "idle"
    /\ is_handlers_registered' = TRUE
    /\ IF is_handlers_registered THEN UNCHANGED all_wsgi_calls
       ELSE all_wsgi_calls' \in SUBSET Pages
    /\ UNCHANGED <<httpdVars, is_http_init, netVars, wake, polls, torn, foreign>>
    /\ ThreadUnchanged

-----------------------------------------------------------------------------
(* The caller: app_httpd_stop, which is httpd_thread_cleanup.  Without a   *)
(* thread it changes nothing.                                              *)
app_httpd_stop ==
    /\ app = "idle"
    /\ httpd_state \in {"THREAD_RUNNING", "THREAD_SUSPENDED"}
    /\ app' = IF httpd_state = "THREAD_RUNNING" THEN "connect" ELSE "delete"
    /\ httpd_stop_req' = (httpd_stop_req \/ httpd_state = "THREAD_RUNNING")
    /\ UNCHANGED <<httpd_state, http_sockfd, client_sockfd, appVars, netVars, wake, polls,
                   torn, foreign>>
    /\ ThreadUnchanged

\* tcp_local_connect wakes the thread out of select.
LocalConnect ==
    /\ app = "connect"
    /\ Free # {} /\ listeners # {} /\ backlog < MaxBacklog
    /\ app' = "wait"
    /\ wake' = NewFd
    /\ owner' = Opened(NewFd, "app")
    /\ backlog' = backlog + 1
    /\ polls' = Polls
    /\ UNCHANGED <<httpdVars, appVars, listeners, peer, torn, foreign>>
    /\ ThreadUnchanged

\* No socket after three tries, or no connection: the thread is deleted at once,
\* with the request still set.
LocalConnectFails ==
    /\ app = "connect"
    /\ Free = {} \/ listeners = {} \/ backlog = MaxBacklog \/ MayFail("connect")
    /\ app' = "delete"
    /\ UNCHANGED <<httpdVars, appVars, netVars, wake, polls, torn, foreign>>
    /\ ThreadUnchanged

\* Mutation: the wait has no end.
WaitForHalt_Unbounded ==
    /\ app = "wait" /\ httpd_state # "THREAD_SUSPENDED"
    /\ polls' = polls
    /\ UNCHANGED <<httpdVars, appVars, netVars, app, wake, torn, foreign>>
    /\ ThreadUnchanged

WaitForHalt ==
    /\ app = "wait" /\ httpd_state # "THREAD_SUSPENDED" /\ polls > 0
    /\ polls' = polls - 1
    /\ UNCHANGED <<httpdVars, appVars, netVars, app, wake, torn, foreign>>
    /\ ThreadUnchanged

\* The thread halted, or the time is up and the request is taken back.
HaltOrTimeout ==
    /\ app = "wait"
    /\ httpd_state = "THREAD_SUSPENDED" \/ polls = 0
    /\ app' = "delete"
    /\ httpd_stop_req' = (httpd_stop_req /\ httpd_state = "THREAD_SUSPENDED")
    /\ CloseAll({wake}, "app")
    /\ wake' = NoFd
    /\ polls' = 0
    /\ UNCHANGED <<httpd_state, http_sockfd, client_sockfd, appVars, peer, torn>>
    /\ ThreadUnchanged

\* mico_rtos_delete_thread, wherever the thread stands.
Unrecorded == {"bind", "store", "accepted", "clear", "suspendHttp", "suspendClear"}
DeleteThread ==
    /\ app = "delete"
    /\ app' = "cleanup"
    /\ th' = "none"
    /\ thFd' = NoFd
    /\ torn' = (torn \/ th \in Unrecorded)
    /\ UNCHANGED <<httpdVars, appVars, netVars, wake, polls, foreign>>

Cleanup ==
    /\ app = "cleanup"
    /\ app' = "idle"
    /\ CloseAll({http_sockfd, client_sockfd} \ {NoFd}, "httpd")
    /\ http_sockfd' = NoFd /\ client_sockfd' = NoFd
    /\ peer' = "none"
    /\ httpd_state' = "INIT_DONE"
    /\ UNCHANGED <<httpd_stop_req, appVars, wake, polls, torn>>
    /\ ThreadUnchanged

-----------------------------------------------------------------------------
\* The peer decides when these happen.
FromPeer ==
    \/ RequestLine \/ HeadersRead \/ TagsRead \/ BodyPurged \/ FormRefused \/ FormStored
    \/ ClientConnects \/ ClientGoes

Thread ==
    \/ SetupSocket \/ SetupBind \/ SetupStore
    \/ Select \/ Accept \/ Accepted \/ Serve
    \/ RecvClosed \/ RecvFails
    \/ CloseClient \/ ClearClient
    \/ SuspendCloseHttp \/ SuspendClearHttp \/ SuspendCloseClient \/ SuspendClearClient
    \/ SuspendState

Caller ==
    \/ AlreadyStarted \/ CreateThread \/ CreateFails \/ SetRunning \/ RegisterHandlers
    \/ LocalConnect \/ LocalConnectFails \/ WaitForHalt \/ HaltOrTimeout
    \/ DeleteThread \/ Cleanup

HTTPNext ==
    \/ httpd_server_start \/ app_httpd_stop \/ Caller
    \/ Thread \/ FromPeer
    \/ OtherOpens \/ OtherCloses

HTTPSpec == HTTPInit /\ [][HTTPNext]_httpVars

\* Both threads run: the caller ends the calls it makes, and the server's thread
\* takes the steps that wait for nobody.
HTTPFairSpec == HTTPSpec /\ WF_httpVars(Caller) /\ WF_httpVars(Thread)

-----------------------------------------------------------------------------
ThPCs == {"none", "setup", "bind", "store", "select", "handle", "accepted", "serve", "line",
          "purgeHeaders", "purgeTags", "purgeBody", "body", "close", "clear", "suspend",
          "suspendHttp", "suspendClient", "suspendClear", "suspendState", "suspended"}
AppPCs == {"idle", "create", "running", "register", "connect", "wait", "delete", "cleanup"}

(* Types; a local descriptor is held exactly where the code holds one.     *)
HTTPTypeOK ==
    /\ httpd_state \in {"INACTIVE", "INIT_DONE", "THREAD_RUNNING", "THREAD_SUSPENDED"}
    /\ httpd_stop_req \in BOOLEAN
    /\ http_sockfd \in Fds \cup {NoFd, 0} /\ client_sockfd \in Fds \cup {NoFd, 0}
    /\ is_http_init \in BOOLEAN /\ is_handlers_registered \in BOOLEAN
    /\ all_wsgi_calls \subseteq Pages
    /\ owner \in [Fds -> {"free", "httpd", "app", "other"}]
    /\ listeners \subseteq Fds /\ backlog \in 0..MaxBacklog
    /\ peer \in {"none", "open", "closed", "reset"}
    /\ th \in ThPCs /\ thFd \in Fds \cup {NoFd}
    /\ (thFd # NoFd) = (th \in {"bind", "store", "accepted"})
    /\ app \in AppPCs /\ polls \in 0..Polls
    /\ wake \in Fds \cup {NoFd} /\ (wake # NoFd) = (app = "wait")
    /\ torn \in BOOLEAN /\ foreign \in BOOLEAN

(* httpd_stop leaves no thread and no socket of the server behind, halted  *)
(* or killed, unless the kill hit the thread between a descriptor and the  *)
(* variable that records it.                                               *)
StoppedMeansReleased ==
    app = "idle" /\ httpd_state \in {"INACTIVE", "INIT_DONE"} =>
        /\ th = "none"
        /\ ~torn => \A fd \in Fds : owner[fd] \in {"free", "other"}

(* No descriptor is closed a second time after another task got its        *)
(* number, under the same exception.                                       *)
ClosesOwnSockets == foreign => torn

\* A caller is inside httpd_server_start or app_httpd_stop, which must return
\* whatever the thread is busy with, and even when it suspended itself unnoticed.
HTTPCallerWaits == app # "idle"


-----------------------------------------------------------------------------
(* The inductive invariant: which descriptors the thread and the two       *)
(* variables account for, at each place of the thread; where the state of  *)
(* the server says there is a thread there is one; what listens is the     *)
(* server's, and the caller's socket the caller's.                         *)
Serving == {"serve", "line", "purgeHeaders", "purgeTags", "purgeBody", "body", "close"}
KnownFds ==
    CASE th = "none" -> IF app = "cleanup" THEN {http_sockfd, client_sockfd} \ {NoFd} ELSE {}
      [] th \in {"setup", "suspendClear", "suspendState", "suspended"} -> {}
      [] th \in {"bind", "store"} -> {thFd}
      [] th \in {"select", "handle", "clear"} -> {http_sockfd}
      [] th = "accepted" -> {http_sockfd, thFd}
      [] th \in Serving -> {http_sockfd, client_sockfd}
      [] th = "suspend" -> {http_sockfd, client_sockfd} \ {NoFd}
      [] th \in {"suspendHttp", "suspendClient"} -> {client_sockfd} \ {NoFd}

SocketsHeld == th # "none" \/ ~torn => \A fd \in KnownFds : fd \in Fds /\ owner[fd] = "httpd"
SocketsRecorded == ~torn => \A fd \in Fds : owner[fd] = "httpd" => fd \in KnownFds
SocketsDistinct ==
    /\ th = "accepted" => thFd # http_sockfd
    /\ th \in Serving \cup {"suspend"} => http_sockfd # client_sockfd \/ client_sockfd = NoFd
VariablesCleared ==
    /\ th \in {"setup", "bind", "store", "suspendClient", "suspendClear", "suspendState", "suspended"} =>
          http_sockfd = NoFd
    /\ th \in {"setup", "bind", "store", "select", "handle", "accepted", "suspendState", "suspended"} =>
          client_sockfd = NoFd
    /\ th = "none" /\ httpd_state = "INIT_DONE" => http_sockfd = NoFd /\ client_sockfd = NoFd
StateKnown ==
    /\ httpd_state \in {"INACTIVE", "INIT_DONE"} /\ app # "running" => th = "none"
    /\ httpd_state \in {"THREAD_RUNNING", "THREAD_SUSPENDED"} => th # "none" \/ app = "cleanup"
    /\ app = "running" => th # "none"
    /\ app \in {"connect", "wait", "delete", "cleanup"} =>
          httpd_state \in {"THREAD_RUNNING", "THREAD_SUSPENDED"}
    /\ app = "cleanup" => th = "none"
ListenersKnown ==
    /\ \A fd \in listeners : owner[fd] = "httpd"
    /\ listeners = {} => backlog = 0
    /\ th = "handle" => backlog > 0
    /\ app = "wait" => owner[wake] = "app"
    /\ \A fd \in Fds : owner[fd] = "app" => app = "wait" /\ fd = wake

HTTPInv ==
    /\ HTTPTypeOK /\ StateKnown /\ VariablesCleared
    /\ SocketsHeld /\ SocketsRecorded /\ SocketsDistinct /\ ListenersKnown
    /\ ClosesOwnSockets
=============================================================================
