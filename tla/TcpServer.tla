----------------------------- MODULE TcpServer -----------------------------
(***************************************************************************)
(* One server process and its clients: srv::TCPServer and TCPConnection     *)
(* (tcp_server.hpp, .cpp), the parser of the requests (HttpParser), and the *)
(* loop of DealsServer with its two ways to quit (deals_server.cpp).        *)
(*                                                                          *)
(* A round of process() is: look at the time-outs, poll(), serve every      *)
(* connection with an event, accept one client, remove the dead             *)
(* connections, think about quitting.  The process has one thread, but      *)
(* clients, signals and the clock act between any two steps of a round.     *)
(* The look at the time-outs and the return of poll() are one step: the     *)
(* first reads only the clock and what the server itself keeps, the second  *)
(* only sockets, so what comes between them can be told as before or after. *)
(*                                                                          *)
(* A request is a sequence of pieces, each a sequence of tokens; the client *)
(* sends them one or several at a time.                                     *)
(***************************************************************************)
EXTENDS HttpParser

CONSTANTS
    Clients,             \* every client connects at most once
    Requests,            \* the requests a client may send
    Leavers,             \* clients that may leave before they are answered
    MAX_LIFETIME_SEC,    \* MAX_CONNECTION_LIFETIME_SEC (10)
    MAX_IDLE_SEC,        \* MAX_CONNECTION_IDLE_TIME_SEC (2)
    MaxSignals           \* bound on the signals

ASSUME TcpAssumption ==
    /\ DOMAIN Requests = Clients
    /\ \A c \in Clients : \A r \in Requests[c] : r.pieces \in Seq(Seq(Tokens))
    /\ Leavers \subseteq Clients
    /\ MAX_LIFETIME_SEC \in Nat /\ MAX_IDLE_SEC \in Nat
    /\ MaxSignals \in Nat

VARIABLES
    sock,            \* a client and the socket between it and the server
    queued,          \* clients that wait for accept()
    connections,     \* clients accepted and not yet deleted
    conn,            \* their TCPConnection objects
    serving,         \* between the return of poll() and the end of the round
    revents,         \* the events of poll() that are still to be served
    acceptable,      \* POLLIN on the listening socket
    quit_request, gotQuitSignal,
    running,         \* "up", "ended" (std::exit(0)), "killed" (std::exit(-1))
    signals,         \* what MaxSignals bounds
    owed             \* history: clients with a response that was never sent

vars == <<sock, queued, connections, conn, serving, revents, acceptable, quit_request,
          gotQuitSignal, running, signals, owed>>

NoPieces == [pieces |-> <<>>]

(* The client's end of the connection ("shut": it sent FIN), its request,   *)
(* the number of pieces it has not sent yet and of those in the receive     *)
(* buffer.                                                                  *)
Idle(link) == [link |-> link, request |-> NoPieces, unsent |-> 0, unread |-> 0]

(* connection_alive; data_in, which the last successful read filled; the    *)
(* parser; responses in data_out; seconds since created_time and            *)
(* last_beat_time; how often the request was dispatched (history).          *)
NewConnection(alive) == [alive |-> alive, data_in |-> <<>>, http |-> NewParser, data_out |-> 0,
                         age |-> 0, idle |-> 0, handled |-> 0]

NoEvents == [c \in Clients |-> {}]

TypeOK ==
    /\ \A c \in Clients :
          /\ sock[c].link \in {"none", "open", "shut", "reset", "closed"}
          /\ sock[c].unsent + sock[c].unread \in 0..Len(sock[c].request.pieces)
          /\ conn[c].data_out \in 0..1
          /\ conn[c].age \in 0..(MAX_LIFETIME_SEC + 1)
          /\ conn[c].idle \in 0..(MAX_IDLE_SEC + 1)
    /\ queued \subseteq Clients /\ connections \subseteq Clients
    /\ queued \intersect connections = {}
    /\ serving \in BOOLEAN /\ acceptable \in BOOLEAN
    /\ revents \in [Clients -> SUBSET {"POLLHUP", "POLLIN", "POLLOUT"}]
    /\ quit_request \in BOOLEAN /\ gotQuitSignal \in BOOLEAN
    /\ running \in {"up", "ended", "killed"}
    /\ signals \in 0..MaxSignals
    /\ owed \subseteq Clients

Init ==
    /\ sock = [c \in Clients |-> Idle("none")]
    /\ queued = {} /\ connections = {}
    /\ conn = [c \in Clients |-> NewConnection(FALSE)]
    /\ serving = FALSE /\ revents = NoEvents /\ acceptable = FALSE
    /\ quit_request = FALSE /\ gotQuitSignal = FALSE
    /\ running = "up" /\ signals = 0
    /\ owed = {}

-----------------------------------------------------------------------------
(* Clients, signals and the clock                                           *)

Connect(c) ==
    /\ running = "up" /\ sock[c].link = "none"
    /\ \E r \in Requests[c] :
         sock' = [sock EXCEPT ![c] = [link |-> "open", request |-> r,
                                      unsent |-> Len(r.pieces), unread |-> 0]]
    /\ queued' = queued \union {c}
    /\ UNCHANGED <<connections, conn, serving, revents, acceptable, quit_request,
                   gotQuitSignal, running, signals, owed>>

ClientVars == <<queued, connections, conn, serving, revents, acceptable, quit_request,
                gotQuitSignal, running, signals, owed>>

Send(c) ==
    /\ running = "up" /\ sock[c].link = "open"
    /\ \E n \in 1..sock[c].unsent :
         sock' = [sock EXCEPT ![c].unsent = @ - n, ![c].unread = @ + n]
    /\ UNCHANGED ClientVars

(* The client closes its sending side, or drops the connection and with it  *)
(* what the server has not read.                                            *)
Leave(c) ==
    /\ running = "up" /\ c \in Leavers
    /\ \/ /\ sock[c].link = "open"
          /\ sock' = [sock EXCEPT ![c].link = "shut", ![c].unsent = 0]
       \/ /\ sock[c].link \in {"open", "shut"}
          /\ sock' = [sock EXCEPT ![c].link = "reset", ![c].unsent = 0, ![c].unread = 0]
    /\ UNCHANGED ClientVars

(* signalHandler(): the flag is set, or std::exit(-1) drops everything. *)
FirstSignal ==
    /\ running = "up" /\ signals < MaxSignals /\ ~gotQuitSignal
    /\ signals' = signals + 1
    /\ gotQuitSignal' = TRUE
    /\ UNCHANGED <<sock, queued, connections, conn, serving, revents, acceptable,
                   quit_request, running, owed>>

SecondSignal ==
    /\ running = "up" /\ signals < MaxSignals /\ gotQuitSignal
    /\ signals' = signals + 1
    /\ running' = "killed"
    /\ sock' = [c \in Clients |-> Idle("closed")]
    /\ queued' = {} /\ connections' = {} /\ owed' = {}
    /\ conn' = [c \in Clients |-> NewConnection(FALSE)]
    /\ serving' = FALSE /\ revents' = NoEvents /\ acceptable' = FALSE
    /\ UNCHANGED <<quit_request, gotQuitSignal>>

(* A second passes; beyond the limits it makes no difference. *)
Later(t, limit) == IF t <= limit THEN t + 1 ELSE t

Tick ==
    /\ conn' = [c \in Clients |->
         IF running = "up" /\ c \in connections
         THEN [conn[c] EXCEPT !.age = Later(@, MAX_LIFETIME_SEC),
                              !.idle = Later(@, MAX_IDLE_SEC)]
         ELSE conn[c]]
    /\ UNCHANGED <<sock, queued, connections, serving, revents, acceptable, quit_request,
                   gotQuitSignal, running, signals, owed>>

-----------------------------------------------------------------------------
(* TCPServer::process(): the time-outs and poll()                           *)

(* A slip: the limits are never applied. *)
NeverExpires(c) == FALSE

Expired(c) == conn[c].age > MAX_LIFETIME_SEC \/ conn[c].idle > MAX_IDLE_SEC

(* close() marks the connections past a limit. *)
CloseExpired == [c \in Clients |-> [conn[c] EXCEPT !.alive = @ /\ ~Expired(c)]]

(* What poll() reports of a connection.  POLLOUT is asked for only where    *)
(* something is to be sent; a connection sends once, so there is room in    *)
(* its send buffer.                                                         *)
Events(c) ==
    (IF sock[c].link = "reset" THEN {"POLLHUP"} ELSE {}) \union
    (IF sock[c].unread > 0 \/ sock[c].link = "shut" THEN {"POLLIN"} ELSE {}) \union
    (IF conn[c].data_out > 0 THEN {"POLLOUT"} ELSE {})

SomethingReady == queued # {} \/ \E c \in connections : Events(c) # {}

PollEvents ==
    /\ running = "up" /\ ~serving
    /\ SomethingReady
    /\ conn' = CloseExpired
    /\ revents' = [c \in Clients |-> IF c \in connections THEN Events(c) ELSE {}]
    /\ acceptable' = (queued # {})
    /\ serving' = TRUE
    /\ UNCHANGED <<sock, queued, connections, quit_request, gotQuitSignal, running, signals,
                   owed>>

-----------------------------------------------------------------------------
(* The end of a round                                                       *)

(* A slip: a closed connection is dead, whatever it has to send. *)
IgnoresOutput(k) == k.alive

is_alive(k) == k.alive \/ k.data_out > 0

(* A slip: the process looks for its end only when the signal is new. *)
LeavesAtOnce(conns) == gotQuitSignal /\ conns = {}

(* DealsServer::process() after a round that leaves some connections. *)
MayLeave(conns) == (quit_request \/ gotQuitSignal) /\ conns = {}

(* get_alive_connections(), which deletes the others and so closes their    *)
(* sockets; then the end of DealsServer::process().                         *)
EndRound(conns, k) ==
    LET left == {c \in conns : is_alive(k[c])}
        gone == conns \ left
    IN /\ connections' = left
       /\ conn' = [c \in Clients |-> IF c \in left THEN k[c] ELSE NewConnection(FALSE)]
       /\ sock' = [c \in Clients |-> IF c \in gone THEN Idle("closed") ELSE sock[c]]
       /\ quit_request' = (quit_request \/ gotQuitSignal)
       /\ gotQuitSignal' = FALSE
       /\ running' = IF MayLeave(left) THEN "ended" ELSE "up"
       /\ serving' = FALSE
       /\ acceptable' = FALSE
       /\ UNCHANGED <<revents, signals, owed>>

(* The poll() times out or is interrupted by a signal. *)
PollNothing ==
    /\ running = "up" /\ ~serving
    /\ ~SomethingReady
    /\ EndRound(connections, CloseExpired)
    /\ UNCHANGED queued

Accept(c) ==
    /\ running = "up" /\ serving /\ revents = NoEvents
    /\ acceptable /\ c \in queued
    /\ queued' = queued \ {c}
    /\ EndRound(connections \union {c}, [conn EXCEPT ![c] = NewConnection(TRUE)])

(* Nobody waited when poll() looked, or accept() fails. *)
AcceptNobody ==
    /\ running = "up" /\ serving /\ revents = NoEvents
    /\ EndRound(connections, conn)
    /\ UNCHANGED queued

-----------------------------------------------------------------------------
(* Serving one connection                                                   *)

(* reset() *)
HangUp(c) ==
    /\ "POLLHUP" \in revents[c]
    /\ conn' = [conn EXCEPT ![c].alive = FALSE, ![c].data_out = 0]
    /\ owed' = owed \ {c}
    /\ UNCHANGED <<sock, quit_request>>

(* The bytes in the receive buffer *)
Unread(k) ==
    LET sent == Len(k.request.pieces) - k.unsent
    IN FlattenSeq(SubSeq(k.request.pieces, sent - k.unread + 1, sent))

(* network_read() leaves data_in as it was, and closes the connection, when *)
(* there is nothing to read: the client shut its side, or dropped the       *)
(* connection after poll() had looked and recv() fails.                     *)
network_read(c) ==
    IF sock[c].unread > 0 THEN [conn[c] EXCEPT !.data_in = Unread(sock[c]), !.idle = 0]
                          ELSE [conn[c] EXCEPT !.alive = FALSE]

(* HttpParser::write(get_data()) *)
ParserWrite(k) == [k EXCEPT !.http = Written(@, k.data_in)]

(* close(msg) *)
Answer(k) == [k EXCEPT !.data_out = @ + 1, !.alive = FALSE]

(* The part of on_data() behind the parser: an error, the result of the     *)
(* request, or nothing yet.                                                 *)
Dispatch(k) ==
    IF is_bad_request(k.http) THEN Answer(k)
    ELSE IF k.http.parsing_complete THEN [Answer(k) EXCEPT !.handled = @ + 1]
    ELSE k

(* on_data() answers with 503 without looking at the data, or parses them.  *)
(* Every answer closes the connection.                                      *)
on_data(k) ==
    IF quit_request THEN {Answer(k)} ELSE {Dispatch(w) : w \in {ParserWrite(k)}}

(* GET /quit calls quit(). *)
AsksToQuit(http) == http.request.method = <<"GET">> /\ http.request.path = <<"/quit">>

(* A slip: the output buffer is not cleared. *)
KeepsOutput(k, ok) == [k EXCEPT !.alive = @ /\ ok, !.idle = 0]

(* send() takes the response or a part of it, and the rest is dropped; or   *)
(* it fails.                                                                *)
network_write(k, ok) == [k EXCEPT !.alive = @ /\ ok, !.idle = 0, !.data_out = 0]

(* What network_read() and on_data() make of a connection with input. *)
Input(c) == UNION {on_data(k) : k \in {network_read(c)}}

(* network_read() and on_data() if there is input, then network_write() if  *)
(* there was output when the round began.                                   *)
ReadAndWrite(c) ==
    /\ revents[c] # {} /\ "POLLHUP" \notin revents[c]
    /\ \E k \in IF "POLLIN" \in revents[c] THEN Input(c) ELSE {conn[c]} :
          /\ sock' = IF "POLLIN" \in revents[c] THEN [sock EXCEPT ![c].unread = 0] ELSE sock
          /\ quit_request' = (\/ quit_request
                              \/ k.handled > conn[c].handled /\ AsksToQuit(k.http))
          /\ \/ /\ "POLLOUT" \in revents[c]
                /\ \E ok \in BOOLEAN : conn' = [conn EXCEPT ![c] = network_write(k, ok)]
                /\ owed' = owed \ {c}
             \/ /\ "POLLOUT" \notin revents[c]
                /\ conn' = [conn EXCEPT ![c] = k]
                /\ owed' = IF k.data_out > 0 THEN owed \union {c} ELSE owed

Serve(c) ==
    /\ running = "up" /\ serving
    /\ HangUp(c) \/ ReadAndWrite(c)
    /\ revents' = [revents EXCEPT ![c] = {}]
    /\ UNCHANGED <<queued, connections, serving, acceptable, gotQuitSignal, running, signals>>

ServerStep ==
    \/ PollEvents \/ PollNothing \/ AcceptNobody
    \/ \E c \in Clients : Accept(c) \/ Serve(c)

Next ==
    \/ ServerStep
    \/ \E c \in Clients : Connect(c) \/ Send(c) \/ Leave(c)
    \/ FirstSignal \/ SecondSignal
    \/ Tick

(* The loop of main() goes on, since nothing in it blocks but poll(), which *)
(* returns after POLL_TIMEOUT_MS; and time passes.  Clients do as they like. *)
Spec == Init /\ [][Next]_vars /\ WF_vars(ServerStep) /\ WF_vars(Tick)

-----------------------------------------------------------------------------
(* Properties                                                               *)

(* A response that was written to a connection (the result, an error, 503)  *)
(* is handed to send() before the connection is deleted and before the      *)
(* process ends of itself, unless the client hangs up: close() before the   *)
(* answer, the time-outs and an orderly quit never cut it off (is_alive():  *)
(* "connections often closed with mesage to send").                         *)
ResponsesAreSent ==
    /\ owed \subseteq connections
    /\ running = "ended" => owed = {}

(* A request that is dispatched has arrived completely, and has the method, *)
(* the path, the parameters and the body that its client sent, wherever it  *)
(* was cut and with whatever pauses the pieces came.  (A client that shuts  *)
(* its side has its last piece parsed again, see RequestsHandledOnce.)      *)
DispatchedAsSent ==
    \A c \in connections :
        conn[c].handled > 0 /\ sock[c].link = "open" =>
            LET got == conn[c].http.request
                sent == sock[c].request
            IN /\ sock[c].unsent = 0 /\ sock[c].unread = 0
               /\ got.method = sent.method /\ got.path = sent.path /\ got.params = sent.params
               /\ get_body(conn[c].http) = sent.body

(* Accepted connections end, whatever their clients do or fail to do        *)
(* (MAX_CONNECTION_LIFETIME_SEC, MAX_CONNECTION_IDLE_TIME_SEC): since every *)
(* client connects once, a time comes when the server has none left.        *)
ConnectionsEnd == connections # {} ~> connections = {}

(* A process that was asked to quit, by a signal or by /quit, ends once no  *)
(* new clients come, with connections that were open and idle or half read. *)
QuitEnds == (quit_request \/ gotQuitSignal) ~> running # "up"

(* on_data() is "called each time readable data arrives on a connection     *)
(* socket" (DOCUMENTATION.md): a client that sends one request has it       *)
(* dispatched at most once.                                                 *)
RequestsHandledOnce == \A c \in connections : conn[c].handled <= 1

-----------------------------------------------------------------------------
(* What DispatchedAsSent is promised for.                                   *)

(* The parser that has got the bytes a, in whatever pieces.                 *)
After(a) == Written(NewParser, a)

(* A request that is as long as its headers say.                            *)
Exact(p) ==
    Len(p.msgs) = p.headers_end
                    + (IF p.request.method = <<"GET">> THEN 0 ELSE p.content_length)

(* What a client means by its request: read in one piece, it has the        *)
(* method, the path, the parameters and the body that the client names, and *)
(* nothing comes behind it.  A piece has at least a byte.  A request that   *)
(* is never complete may be anything.                                       *)
ProperRequests ==
    \A c \in Clients : \A r \in Requests[c] :
        LET p == After(FlattenSeq(r.pieces))
        IN  /\ \A i \in DOMAIN r.pieces : r.pieces[i] # <<>>
            /\ p.content_length \in Nat
            /\ p.parsing_complete =>
                  /\ p.request.method = r.method /\ p.request.path = r.path
                  /\ p.request.params = r.params /\ get_body(p) = r.body
                  /\ Exact(p)
=============================================================================
