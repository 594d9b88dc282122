-------------------------- MODULE TcpServerProofs --------------------------
(***************************************************************************)
(* For any number of clients and requests and any limits on time: answers   *)
(* are not lost between on_data() and send(), whatever the parser does, and *)
(* a request is dispatched complete and as it was sent, wherever it is cut. *)
(***************************************************************************)
EXTENDS TcpServer, SequenceTheorems, WellFoundedInduction, TLAPS

(* The fields of a client's end and of a connection.  Nothing is said about *)
(* the request, the bytes and the parser.                                   *)
Socket(k) ==
    k \in [link : {"none", "open", "shut", "reset", "closed"}, request : {k.request},
           unsent : Nat, unread : Nat]

Connection(k) ==
    k \in [alive : BOOLEAN, data_in : {k.data_in}, http : {k.http}, data_out : Nat,
           age : 0..(MAX_LIFETIME_SEC + 1), idle : 0..(MAX_IDLE_SEC + 1), handled : Nat]

Shapes ==
    /\ sock = [c \in Clients |-> sock[c]]
    /\ conn = [c \in Clients |-> conn[c]]
    /\ \A c \in Clients : /\ Socket(sock[c]) /\ Connection(conn[c])
                          /\ sock[c].request.pieces \in Seq(Seq(Tokens))

(* What an answer that waits relies on: its connection is still there and   *)
(* has it, and no event is left for a connection that is gone.  A round     *)
(* that serves a connection with output also writes it, so that a second    *)
(* answer never joins the first.                                            *)
Waiting ==
    /\ \A c \in owed : c \in connections /\ conn[c].data_out > 0
    /\ running = "ended" => owed = {}
    /\ \A c \in Clients : revents[c] # {} =>
          /\ serving /\ c \in connections
          /\ conn[c].data_out > 0 => "POLLOUT" \in revents[c]
    /\ \A c \in queued \union connections : sock[c].link # "none"

ServerInv == TypeOK /\ Shapes /\ Waiting

-----------------------------------------------------------------------------
(* What the operations do to a connection                                   *)

(* The object that the constructor of TCPConnection makes.                  *)
LEMMA NewConnections ==
    ASSUME NEW alive \in BOOLEAN
    PROVE  /\ Connection(NewConnection(alive)) /\ NewConnection(alive).data_out = 0
           /\ NewConnection(alive).http = NewParser /\ NewConnection(alive).handled = 0
           /\ NewConnection(alive).alive = alive
  BY TcpAssumption DEF NewConnection, Connection, TcpAssumption

(* A socket without a request.                                              *)
LEMMA IdleSockets ==
    ASSUME NEW link \in {"none", "open", "shut", "reset", "closed"}
    PROVE  /\ Socket(Idle(link)) /\ Idle(link).link = link
           /\ Idle(link).unsent = 0 /\ Idle(link).unread = 0
           /\ Idle(link).request.pieces = <<>>
  BY DEF Idle, NoPieces, Socket

(* close(msg) adds one answer to data_out.                                  *)
LEMMA Answered ==
    ASSUME NEW k, Connection(k)
    PROVE  /\ Connection(Answer(k)) /\ Answer(k).data_out = k.data_out + 1
           /\ Answer(k).http = k.http /\ Answer(k).handled = k.handled
  <1> DEFINE h == [k EXCEPT !.data_out = @ + 1]
  <1>1. /\ Connection(h) /\ h.data_out = k.data_out + 1
        /\ h.http = k.http /\ h.handled = k.handled
    BY DEF Connection
  <1>2. Answer(k) = [h EXCEPT !.alive = FALSE]
    BY DEF Answer
  <1> HIDE DEF h
  <1>3. /\ Connection([h EXCEPT !.alive = FALSE])
        /\ [h EXCEPT !.alive = FALSE].data_out = h.data_out
        /\ [h EXCEPT !.alive = FALSE].http = h.http
        /\ [h EXCEPT !.alive = FALSE].handled = h.handled
    BY <1>1 DEF Connection
  <1> QED BY <1>1, <1>2, <1>3

(* Behind the parser there is at most one answer, and only a complete       *)
(* request that is not bad is dispatched.                                   *)
LEMMA Dispatched ==
    ASSUME NEW k, Connection(k)
    PROVE  /\ Connection(Dispatch(k))
           /\ Dispatch(k).data_out \in {k.data_out, k.data_out + 1}
           /\ Dispatch(k).http = k.http
           /\ Dispatch(k).handled = IF ~is_bad_request(k.http) /\ k.http.parsing_complete
                                      THEN k.handled + 1 ELSE k.handled
  <1> DEFINE a == Answer(k)
             h == [a EXCEPT !.handled = @ + 1]
  <1>1. /\ Connection(a) /\ a.data_out = k.data_out + 1
        /\ a.http = k.http /\ a.handled = k.handled
    BY Answered
  <1> HIDE DEF a
  <1>2. /\ Connection(h) /\ h.data_out = a.data_out
        /\ h.http = a.http /\ h.handled = a.handled + 1
    BY <1>1 DEF Connection
  <1>3. Dispatch(k) = IF is_bad_request(k.http) THEN a
                      ELSE IF k.http.parsing_complete THEN h ELSE k
    BY DEF Dispatch, a
  <1> HIDE DEF h
  <1> QED  BY <1>1, <1>2, <1>3

(* The parser leaves data_out alone.                                        *)
LEMMA ParserWritten ==
    ASSUME NEW k, Connection(k)
    PROVE  /\ Connection(ParserWrite(k)) /\ ParserWrite(k).data_out = k.data_out
           /\ ParserWrite(k).http = Written(k.http, k.data_in)
           /\ ParserWrite(k).handled = k.handled
  <1> DEFINE w == Written(k.http, k.data_in)
             h == [k EXCEPT !.http = w]
  <1>1. ParserWrite(k) = h
    BY DEF ParserWrite
  <1> HIDE DEF w
  <1>2. Connection(h) /\ h.data_out = k.data_out /\ h.http = w /\ h.handled = k.handled
    BY DEF Connection
  <1> HIDE DEF h
  <1> QED  BY <1>1, <1>2 DEF w

(* on_data() adds at most one answer.                                       *)
LEMMA OnData ==
    ASSUME NEW k, Connection(k), NEW w \in on_data(k)
    PROVE  Connection(w) /\ w.data_out \in {k.data_out, k.data_out + 1}
  <1>1. w = Answer(k) \/ w = Dispatch(ParserWrite(k))
    BY DEF on_data
  <1>2. CASE w = Answer(k)
    BY <1>2, Answered
  <1>3. CASE w = Dispatch(ParserWrite(k))
    <2>1. Connection(ParserWrite(k)) /\ ParserWrite(k).data_out = k.data_out
      BY ParserWritten
    <2> QED  BY <1>3, <2>1, Dispatched
  <1> QED  BY <1>1, <1>2, <1>3

(* network_read() leaves data_out and the parser alone.                     *)
LEMMA NetworkRead ==
    ASSUME NEW c, Connection(conn[c])
    PROVE  /\ Connection(network_read(c)) /\ network_read(c).data_out = conn[c].data_out
           /\ network_read(c).http = conn[c].http /\ network_read(c).handled = conn[c].handled
           /\ sock[c].unread > 0 => network_read(c).data_in = Unread(sock[c])
  <1> DEFINE k == conn[c]
             u == Unread(sock[c])
             h == [k EXCEPT !.data_in = u]
             g == [h EXCEPT !.idle = 0]
             f == [k EXCEPT !.alive = FALSE]
  <1>1. network_read(c) = IF sock[c].unread > 0 THEN g ELSE f
    BY DEF network_read
  <1>2. Connection(k)
    OBVIOUS
  <1> HIDE DEF k, u
  <1>3. /\ Connection(h) /\ h.data_out = k.data_out /\ h.data_in = u
        /\ h.http = k.http /\ h.handled = k.handled
    BY <1>2 DEF Connection
  <1>4. Connection(f) /\ f.data_out = k.data_out /\ f.http = k.http /\ f.handled = k.handled
    BY <1>2 DEF Connection
  <1> HIDE DEF h
  <1>5. /\ Connection(g) /\ g.data_out = h.data_out /\ g.data_in = h.data_in
        /\ g.http = h.http /\ g.handled = h.handled
    <2>1. 0 \in 0..(MAX_IDLE_SEC + 1)
      BY TcpAssumption DEF TcpAssumption
    <2> QED  BY <1>3, <2>1 DEF Connection
  <1> HIDE DEF f, g
  <1> QED  BY <1>1, <1>3, <1>4, <1>5 DEF k, u

(* network_write() empties data_out, and leaves the parser alone.           *)
LEMMA NetworkWritten ==
    ASSUME NEW k, Connection(k), NEW ok \in BOOLEAN
    PROVE  /\ Connection(network_write(k, ok)) /\ network_write(k, ok).data_out = 0
           /\ network_write(k, ok).http = k.http /\ network_write(k, ok).handled = k.handled
  <1> DEFINE h == [k EXCEPT !.alive = @ /\ ok]
             g == [h EXCEPT !.idle = 0]
             f == [g EXCEPT !.data_out = 0]
  <1>1. Connection(h) /\ h.http = k.http /\ h.handled = k.handled
    BY DEF Connection
  <1>2. network_write(k, ok) = f
    BY DEF network_write
  <1> HIDE DEF h
  <1>3. Connection(g) /\ g.http = h.http /\ g.handled = h.handled
    <2>1. 0 \in 0..(MAX_IDLE_SEC + 1)
      BY TcpAssumption DEF TcpAssumption
    <2> QED  BY <1>1, <2>1 DEF Connection
  <1> HIDE DEF g
  <1>4. Connection(f) /\ f.data_out = 0 /\ f.http = g.http /\ f.handled = g.handled
    BY <1>3 DEF Connection
  <1> HIDE DEF f
  <1> QED  BY <1>1, <1>2, <1>3, <1>4

(* A second passes for a connection.                                        *)
LEMMA Aged ==
    ASSUME NEW k, Connection(k)
    PROVE  LET g == [k EXCEPT !.age = Later(@, MAX_LIFETIME_SEC), !.idle = Later(@, MAX_IDLE_SEC)]
           IN  /\ Connection(g) /\ g.data_out = k.data_out
               /\ g.http = k.http /\ g.handled = k.handled
  <1> DEFINE h == [k EXCEPT !.age = Later(@, MAX_LIFETIME_SEC)]
             g == [h EXCEPT !.idle = Later(@, MAX_IDLE_SEC)]
  <1>1. /\ Connection(h) /\ h.data_out = k.data_out /\ h.idle = k.idle
        /\ h.http = k.http /\ h.handled = k.handled
    BY TcpAssumption DEF Connection, Later, TcpAssumption
  <1>2. [k EXCEPT !.age = Later(@, MAX_LIFETIME_SEC), !.idle = Later(@, MAX_IDLE_SEC)] = g
    BY <1>1
  <1> HIDE DEF h
  <1>3. Connection(g) /\ g.data_out = h.data_out /\ g.http = h.http /\ g.handled = h.handled
    BY <1>1, TcpAssumption DEF Connection, Later, TcpAssumption
  <1> QED  BY <1>1, <1>2, <1>3

(* The time-outs leave data_out and the parser alone.                       *)
LEMMA ClosedExpired ==
    ASSUME NEW c \in Clients, Connection(conn[c])
    PROVE  /\ Connection(CloseExpired[c]) /\ CloseExpired[c].data_out = conn[c].data_out
           /\ CloseExpired[c].http = conn[c].http /\ CloseExpired[c].handled = conn[c].handled
  BY DEF Connection, CloseExpired

-----------------------------------------------------------------------------
(* Steps                                                                    *)

(* The server begins without clients.                                       *)
LEMMA InitServer == Init => ServerInv
  <1> SUFFICES ASSUME Init  PROVE ServerInv
    OBVIOUS
  <1>1. \A c \in Clients : sock[c] = Idle("none") /\ conn[c] = NewConnection(FALSE)
    BY DEF Init
  <1>2. Shapes
    <2>1. <<>> \in Seq(Seq(Tokens))
      OBVIOUS
    <2> QED  BY <1>1, <2>1, IdleSockets, NewConnections DEF Init, Shapes
  <1>3. TypeOK
    <2>1. \A c \in Clients :
            /\ sock[c].link \in {"none", "open", "shut", "reset", "closed"}
            /\ sock[c].unsent + sock[c].unread \in 0..Len(sock[c].request.pieces)
      <3>1. /\ Idle("none").link = "none" /\ Idle("none").unsent = 0 /\ Idle("none").unread = 0
            /\ Idle("none").request.pieces = <<>> /\ Len(<<>>) = 0
        BY IdleSockets
      <3>2. Len(Idle("none").request.pieces) = 0
        BY <3>1, Zenon
      <3>3. Idle("none").unsent + Idle("none").unread \in 0..Len(Idle("none").request.pieces)
        <4>1. 0 + 0 \in 0..0
          OBVIOUS
        <4> QED  BY <3>1, <3>2, <4>1, Zenon
      <3> QED  BY <1>1, <3>1, <3>3, Zenon
    <2>2. \A c \in Clients :
            /\ conn[c].data_out \in 0..1
            /\ conn[c].age \in 0..(MAX_LIFETIME_SEC + 1)
            /\ conn[c].idle \in 0..(MAX_IDLE_SEC + 1)
      BY <1>1, TcpAssumption DEF NewConnection, TcpAssumption
    <2>3. revents \in [Clients -> SUBSET {"POLLHUP", "POLLIN", "POLLOUT"}]
      BY DEF Init, NoEvents
    <2>4. signals \in 0..MaxSignals
      BY TcpAssumption DEF Init, TcpAssumption
    <2>5. /\ queued = {} /\ connections = {} /\ owed = {} /\ running = "up"
          /\ serving = FALSE /\ acceptable = FALSE /\ quit_request = FALSE /\ gotQuitSignal = FALSE
      BY DEF Init
    <2> QED  BY <2>1, <2>2, <2>3, <2>4, <2>5 DEF TypeOK
  <1>4. Waiting
    BY DEF Init, Waiting, NoEvents
  <1> QED  BY <1>2, <1>3, <1>4 DEF ServerInv

(* A client does something with its socket only.                            *)
LEMMA SocketStep ==
    ASSUME ServerInv, UNCHANGED <<conn, serving, revents, acceptable, running, owed, connections>>,
           quit_request' \in BOOLEAN, gotQuitSignal' \in BOOLEAN, signals' \in 0..MaxSignals,
           NEW c \in Clients, NEW k, sock' = [sock EXCEPT ![c] = k],
           Socket(k), k.request.pieces \in Seq(Seq(Tokens)),
           k.unsent + k.unread \in 0..Len(k.request.pieces), k.link # "none",
           queued' \subseteq Clients, queued' \subseteq queued \union {c},
           queued' \intersect connections = {}
    PROVE  ServerInv'
  <1>1. /\ sock' = [x \in Clients |-> sock'[x]]
        /\ sock'[c] = k /\ \A x \in Clients : x # c => sock'[x] = sock[x]
    BY DEF ServerInv, Shapes
  <1>2. Shapes'
    BY <1>1 DEF ServerInv, Shapes, Connection, Socket
  <1>3. TypeOK'
    BY <1>1 DEF ServerInv, TypeOK, Socket
  <1>4. Waiting'
    BY <1>1 DEF ServerInv, Waiting, TypeOK
  <1> QED  BY <1>2, <1>3, <1>4 DEF ServerInv

(* A client that connects was neither queued nor accepted before.           *)
LEMMA ConnectStep ==
    ASSUME ServerInv, NEW c \in Clients, Connect(c)  PROVE ServerInv'
  <1>1. PICK r \in Requests[c] :
          sock' = [sock EXCEPT ![c] = [link |-> "open", request |-> r,
                                       unsent |-> Len(r.pieces), unread |-> 0]]
    BY DEF Connect
  <1> DEFINE k == [link |-> "open", request |-> r, unsent |-> Len(r.pieces), unread |-> 0]
  <1>2. r.pieces \in Seq(Seq(Tokens)) /\ Len(r.pieces) \in Nat
    BY TcpAssumption DEF TcpAssumption
  <1>3. /\ Socket(k) /\ k.request.pieces \in Seq(Seq(Tokens))
        /\ k.unsent + k.unread \in 0..Len(k.request.pieces) /\ k.link # "none"
    BY <1>2 DEF Socket
  <1>4. sock' = [sock EXCEPT ![c] = k]
    BY <1>1
  <1>5. c \notin connections
    BY DEF Connect, ServerInv, Waiting
  <1>6. /\ UNCHANGED <<conn, serving, revents, acceptable, running, owed, connections>>
        /\ quit_request' \in BOOLEAN /\ gotQuitSignal' \in BOOLEAN /\ signals' \in 0..MaxSignals
        /\ queued' \subseteq Clients /\ queued' \subseteq queued \union {c}
        /\ queued' \intersect connections = {}
    BY <1>5 DEF Connect, ServerInv, TypeOK
  <1> HIDE DEF k
  <1> QED  BY <1>3, <1>4, <1>6, SocketStep

(* The fields of a socket.                                                  *)
LEMMA SocketFields ==
    ASSUME NEW c \in Clients, ServerInv
    PROVE  /\ Socket(sock[c]) /\ sock = [x \in Clients |-> sock[x]]
           /\ sock[c].unsent \in Nat /\ sock[c].unread \in Nat
           /\ sock[c].link \in {"none", "open", "shut", "reset", "closed"}
           /\ sock[c].request.pieces \in Seq(Seq(Tokens))
           /\ Len(sock[c].request.pieces) \in Nat
           /\ sock[c].unsent + sock[c].unread <= Len(sock[c].request.pieces)
  BY DEF ServerInv, Shapes, TypeOK, Socket

(* The socket of a client changes, and the server does not look.            *)
LEMMA ClientStep ==
    ASSUME ServerInv, NEW c \in Clients, UNCHANGED ClientVars, NEW k,
           sock' = [sock EXCEPT ![c] = k], Socket(k), k.request = sock[c].request,
           k.link # "none", k.unsent + k.unread <= sock[c].unsent + sock[c].unread
    PROVE  ServerInv'
  <1>1. /\ k.request.pieces \in Seq(Seq(Tokens))
        /\ k.unsent + k.unread \in 0..Len(k.request.pieces)
    BY SocketFields DEF Socket
  <1>2. /\ UNCHANGED <<conn, serving, revents, acceptable, running, owed, connections>>
        /\ quit_request' \in BOOLEAN /\ gotQuitSignal' \in BOOLEAN /\ signals' \in 0..MaxSignals
        /\ queued' \subseteq Clients /\ queued' \subseteq queued \union {c}
        /\ queued' \intersect connections = {}
    BY DEF ClientVars, ServerInv, TypeOK
  <1> QED  BY <1>1, <1>2, SocketStep

(* A client sends pieces of its request.                                    *)
LEMMA SendStep ==
    ASSUME ServerInv, NEW c \in Clients, Send(c)  PROVE ServerInv'
  <1>1. PICK n \in 1..sock[c].unsent :
          sock' = [sock EXCEPT ![c].unsent = @ - n, ![c].unread = @ + n]
    BY DEF Send
  <1> DEFINE h == [sock[c] EXCEPT !.unsent = @ - n]
             g == [h EXCEPT !.unread = @ + n]
             s == [sock EXCEPT ![c] = h]
  <1>2. /\ Socket(h) /\ h.unsent = sock[c].unsent - n /\ h.unread = sock[c].unread
        /\ h.request = sock[c].request /\ h.link = sock[c].link
    BY SocketFields DEF Socket
  <1>3. s = [sock EXCEPT ![c].unsent = @ - n]
    BY SocketFields
  <1>4. sock' = [s EXCEPT ![c].unread = @ + n]
    BY <1>1, <1>3
  <1>5. s[c] = h /\ s = [x \in Clients |-> s[x]] /\ \A x \in Clients : x # c => s[x] = sock[x]
    BY SocketFields
  <1> HIDE DEF h, s
  <1>6. sock' = [sock EXCEPT ![c] = g]
    BY <1>4, <1>5, SocketFields
  <1>7. /\ Socket(g) /\ g.unsent = h.unsent /\ g.unread = h.unread + n
        /\ g.request = h.request /\ g.link = h.link
    BY <1>2 DEF Socket
  <1>8. /\ g.unsent + g.unread <= sock[c].unsent + sock[c].unread
        /\ g.request = sock[c].request /\ g.link # "none"
    BY <1>2, <1>7, SocketFields DEF Send
  <1> HIDE DEF g
  <1> QED  BY <1>6, <1>7, <1>8, ClientStep DEF Send

(* A client closes its side, or drops the connection.                       *)
LEMMA LeaveStep ==
    ASSUME ServerInv, NEW c \in Clients, Leave(c)  PROVE ServerInv'
  <1>1. CASE /\ sock[c].link = "open"
             /\ sock' = [sock EXCEPT ![c].link = "shut", ![c].unsent = 0]
    <2> DEFINE h == [sock[c] EXCEPT !.link = "shut"]
               g == [h EXCEPT !.unsent = 0]
               s == [sock EXCEPT ![c] = h]
    <2>1. /\ Socket(h) /\ h.unsent = sock[c].unsent /\ h.unread = sock[c].unread
          /\ h.request = sock[c].request /\ h.link = "shut"
      BY SocketFields DEF Socket
    <2>2. s = [sock EXCEPT ![c].link = "shut"]
      BY SocketFields
    <2>3. sock' = [s EXCEPT ![c].unsent = 0]
      BY <1>1, <2>2
    <2>4. s[c] = h /\ s = [x \in Clients |-> s[x]] /\ \A x \in Clients : x # c => s[x] = sock[x]
      BY SocketFields
    <2> HIDE DEF h, s
    <2>5. sock' = [sock EXCEPT ![c] = g]
      BY <2>3, <2>4, SocketFields
    <2>6. /\ Socket(g) /\ g.unsent = 0 /\ g.unread = h.unread
          /\ g.request = h.request /\ g.link = h.link
      BY <2>1 DEF Socket
    <2>7. /\ g.unsent + g.unread <= sock[c].unsent + sock[c].unread
          /\ g.request = sock[c].request /\ g.link # "none"
      BY <2>1, <2>6, SocketFields
    <2> HIDE DEF g
    <2> QED  BY <2>5, <2>6, <2>7, ClientStep DEF Leave
  <1>2. CASE sock' = [sock EXCEPT ![c].link = "reset", ![c].unsent = 0, ![c].unread = 0]
    <2> DEFINE h == [sock[c] EXCEPT !.link = "reset"]
               g == [h EXCEPT !.unsent = 0]
               f == [g EXCEPT !.unread = 0]
               s == [sock EXCEPT ![c] = h]
               t == [s EXCEPT ![c] = g]
    <2>1. /\ Socket(h) /\ h.request = sock[c].request /\ h.link = "reset"
      BY SocketFields DEF Socket
    <2>2. s = [sock EXCEPT ![c].link = "reset"]
      BY SocketFields
    <2>3. s[c] = h /\ s = [x \in Clients |-> s[x]] /\ \A x \in Clients : x # c => s[x] = sock[x]
      BY SocketFields
    <2>4. sock' = [s EXCEPT ![c].unsent = 0, ![c].unread = 0]
      BY <1>2, <2>2
    <2> HIDE DEF h, s
    <2>5. /\ Socket(g) /\ g.unsent = 0 /\ g.request = h.request /\ g.link = h.link
      BY <2>1 DEF Socket
    <2>6. t = [s EXCEPT ![c].unsent = 0]
      BY <2>3
    <2>7. t[c] = g /\ t = [x \in Clients |-> t[x]] /\ \A x \in Clients : x # c => t[x] = sock[x]
      BY <2>3
    <2>8. sock' = [t EXCEPT ![c].unread = 0]
      BY <2>4, <2>6
    <2> HIDE DEF g, t
    <2>9. sock' = [sock EXCEPT ![c] = f]
      BY <2>7, <2>8, SocketFields
    <2>10. /\ Socket(f) /\ f.unsent = g.unsent /\ f.unread = 0
           /\ f.request = g.request /\ f.link = g.link
      BY <2>5 DEF Socket
    <2>11. /\ f.unsent + f.unread <= sock[c].unsent + sock[c].unread
           /\ f.request = sock[c].request /\ f.link # "none"
      BY <2>1, <2>5, <2>10, SocketFields
    <2> HIDE DEF f
    <2> QED  BY <2>9, <2>10, <2>11, ClientStep DEF Leave
  <1> QED  BY <1>1, <1>2 DEF Leave

(* The fields of a connection.                                              *)
LEMMA ConnectionFields ==
    ASSUME NEW c \in Clients, ServerInv
    PROVE  /\ Connection(conn[c]) /\ conn = [x \in Clients |-> conn[x]]
           /\ conn[c].data_out \in 0..1
  BY DEF ServerInv, Shapes, TypeOK

(* Every step that leaves the sockets and the lists of clients alone, and   *)
(* answers nobody.                                                          *)
LEMMA ConnectionStep ==
    ASSUME ServerInv, UNCHANGED <<sock, queued, connections, running, owed>>,
           conn' = [x \in Clients |-> conn'[x]],
           \A x \in Clients : Connection(conn'[x]) /\ conn'[x].data_out = conn[x].data_out,
           serving' \in BOOLEAN, acceptable' \in BOOLEAN, quit_request' \in BOOLEAN,
           gotQuitSignal' \in BOOLEAN, signals' \in 0..MaxSignals,
           revents' \in [Clients -> SUBSET {"POLLHUP", "POLLIN", "POLLOUT"}],
           \A x \in Clients : revents'[x] # {} =>
              /\ serving' /\ x \in connections
              /\ conn[x].data_out > 0 => "POLLOUT" \in revents'[x]
    PROVE  ServerInv'
  <1>1. Shapes'
    BY DEF ServerInv, Shapes, Socket
  <1>2. \A x \in Clients : /\ conn'[x].data_out \in 0..1
                           /\ conn'[x].age \in 0..(MAX_LIFETIME_SEC + 1)
                           /\ conn'[x].idle \in 0..(MAX_IDLE_SEC + 1)
    BY ConnectionFields DEF Connection
  <1>3. TypeOK'
    BY <1>2 DEF ServerInv, TypeOK
  <1>4. Waiting'
    BY DEF ServerInv, Waiting, TypeOK
  <1> QED  BY <1>1, <1>3, <1>4 DEF ServerInv

(* A second passes for all connections.                                     *)
LEMMA TickStep ==
    ASSUME ServerInv, Tick  PROVE ServerInv'
  <1>1. conn' = [x \in Clients |-> conn'[x]]
    BY DEF Tick
  <1>2. ASSUME NEW x \in Clients
        PROVE  Connection(conn'[x]) /\ conn'[x].data_out = conn[x].data_out
    <2> DEFINE g == [conn[x] EXCEPT !.age = Later(@, MAX_LIFETIME_SEC),
                                    !.idle = Later(@, MAX_IDLE_SEC)]
    <2>1. conn'[x] = g \/ conn'[x] = conn[x]
      BY DEF Tick
    <2>2. Connection(conn[x])
      BY ConnectionFields
    <2>3. Connection(g) /\ g.data_out = conn[x].data_out
      BY <2>2, Aged
    <2> HIDE DEF g
    <2> QED  BY <2>1, <2>2, <2>3
  <1>3. /\ UNCHANGED <<sock, queued, connections, running, owed>>
        /\ serving' \in BOOLEAN /\ acceptable' \in BOOLEAN /\ quit_request' \in BOOLEAN
        /\ gotQuitSignal' \in BOOLEAN /\ signals' \in 0..MaxSignals
        /\ revents' \in [Clients -> SUBSET {"POLLHUP", "POLLIN", "POLLOUT"}]
    BY DEF Tick, ServerInv, TypeOK
  <1>4. \A x \in Clients : revents'[x] # {} =>
              /\ serving' /\ x \in connections
              /\ conn[x].data_out > 0 => "POLLOUT" \in revents'[x]
    BY DEF Tick, ServerInv, Waiting
  <1> QED  BY <1>1, <1>2, <1>3, <1>4, ConnectionStep

(* poll() asks for POLLOUT where there is output.                           *)
LEMMA PollStep ==
    ASSUME ServerInv, PollEvents  PROVE ServerInv'
  <1>1. conn' = [x \in Clients |-> conn'[x]]
    BY DEF PollEvents, CloseExpired
  <1>2. ASSUME NEW x \in Clients
        PROVE  Connection(conn'[x]) /\ conn'[x].data_out = conn[x].data_out
    BY ConnectionFields, ClosedExpired DEF PollEvents
  <1>3. /\ UNCHANGED <<sock, queued, connections, running, owed>>
        /\ serving' \in BOOLEAN /\ acceptable' \in BOOLEAN /\ quit_request' \in BOOLEAN
        /\ gotQuitSignal' \in BOOLEAN /\ signals' \in 0..MaxSignals
    BY DEF PollEvents, ServerInv, TypeOK
  <1>4. revents' \in [Clients -> SUBSET {"POLLHUP", "POLLIN", "POLLOUT"}]
    <2>1. \A x : Events(x) \in SUBSET {"POLLHUP", "POLLIN", "POLLOUT"}
      BY DEF Events
    <2> QED  BY <2>1 DEF PollEvents
  <1>5. \A x \in Clients : revents'[x] # {} =>
              /\ serving' /\ x \in connections
              /\ conn[x].data_out > 0 => "POLLOUT" \in revents'[x]
    BY DEF PollEvents, Events
  <1> QED  BY <1>1, <1>2, <1>3, <1>4, <1>5, ConnectionStep

(* The first signal sets a flag.                                            *)
LEMMA FirstSignalStep ==
    ASSUME ServerInv, FirstSignal  PROVE ServerInv'
  <1>1. Shapes'
    BY DEF FirstSignal, ServerInv, Shapes, Socket, Connection
  <1>2. TypeOK'
    BY TcpAssumption DEF FirstSignal, ServerInv, TypeOK, TcpAssumption
  <1>3. Waiting'
    BY DEF FirstSignal, ServerInv, Waiting
  <1> QED  BY <1>1, <1>2, <1>3 DEF ServerInv

(* The second signal drops everything.                                      *)
LEMMA SecondSignalStep ==
    ASSUME ServerInv, SecondSignal  PROVE ServerInv'
  <1>1. /\ sock' = [c \in Clients |-> Idle("closed")]
        /\ conn' = [c \in Clients |-> NewConnection(FALSE)]
        /\ revents' = NoEvents
        /\ queued' = {} /\ connections' = {} /\ owed' = {} /\ running' = "killed"
        /\ serving' = FALSE /\ acceptable' = FALSE
        /\ UNCHANGED <<quit_request, gotQuitSignal>>
    BY DEF SecondSignal
  <1>2. /\ Socket(Idle("closed")) /\ Idle("closed").link = "closed"
        /\ Idle("closed").unsent = 0 /\ Idle("closed").unread = 0
        /\ Idle("closed").request.pieces = <<>> /\ Len(<<>>) = 0
    BY IdleSockets
  <1>3. \A c \in Clients : sock'[c] = Idle("closed") /\ conn'[c] = NewConnection(FALSE)
    BY <1>1
  <1>4. Shapes'
    <2>1. <<>> \in Seq(Seq(Tokens))
      OBVIOUS
    <2>2. /\ sock' = [c \in Clients |-> sock'[c]] /\ conn' = [c \in Clients |-> conn'[c]]
      BY <1>1
    <2> QED  BY <1>2, <1>3, <2>1, <2>2, NewConnections DEF Shapes
  <1>5. TypeOK'
    <2>1. Len(Idle("closed").request.pieces) = 0
      BY <1>2, Zenon
    <2>2. Idle("closed").unsent + Idle("closed").unread \in 0..Len(Idle("closed").request.pieces)
      BY <1>2, <2>1
    <2>3. \A c \in Clients :
            /\ sock'[c].link \in {"none", "open", "shut", "reset", "closed"}
            /\ sock'[c].unsent + sock'[c].unread \in 0..Len(sock'[c].request.pieces)
      BY <1>2, <1>3, <2>2, Zenon
    <2>4. \A c \in Clients :
            /\ conn'[c].data_out \in 0..1
            /\ conn'[c].age \in 0..(MAX_LIFETIME_SEC + 1)
            /\ conn'[c].idle \in 0..(MAX_IDLE_SEC + 1)
      BY <1>3, TcpAssumption DEF NewConnection, TcpAssumption
    <2>5. revents' \in [Clients -> SUBSET {"POLLHUP", "POLLIN", "POLLOUT"}]
      BY <1>1 DEF NoEvents
    <2>6. signals' \in 0..MaxSignals /\ quit_request' \in BOOLEAN /\ gotQuitSignal' \in BOOLEAN
      BY TcpAssumption DEF SecondSignal, ServerInv, TypeOK, TcpAssumption
    <2> QED  BY <1>1, <2>3, <2>4, <2>5, <2>6 DEF TypeOK
  <1>6. Waiting'
    BY <1>1 DEF Waiting, NoEvents
  <1> QED  BY <1>4, <1>5, <1>6 DEF ServerInv

(* get_alive_connections() deletes no connection that has something to      *)
(* send, and the process does not end while there is one.                   *)
LEMMA EndOfRound ==
    ASSUME ServerInv, revents = NoEvents,
           NEW conns \in SUBSET Clients, connections \subseteq conns,
           NEW k, \A c \in Clients : Connection(k[c]) /\ k[c].data_out \in 0..1,
           \A c \in owed : k[c].data_out > 0,
           EndRound(conns, k),
           queued' \subseteq queued, queued' \intersect conns = {},
           \A c \in conns : sock[c].link # "none"
    PROVE  ServerInv'
  <1> DEFINE left == {c \in conns : is_alive(k[c])}
             gone == conns \ left
  <1>1. /\ connections' = left
        /\ conn' = [c \in Clients |-> IF c \in left THEN k[c] ELSE NewConnection(FALSE)]
        /\ sock' = [c \in Clients |-> IF c \in gone THEN Idle("closed") ELSE sock[c]]
        /\ quit_request' = (quit_request \/ gotQuitSignal)
        /\ gotQuitSignal' = FALSE
        /\ running' = IF MayLeave(left) THEN "ended" ELSE "up"
        /\ serving' = FALSE
        /\ acceptable' = FALSE
        /\ UNCHANGED <<revents, signals, owed>>
    BY DEF EndRound
  <1>2. owed \subseteq left
    BY DEF ServerInv, Waiting, is_alive
  <1>3. left \subseteq conns
    OBVIOUS
  <1> HIDE DEF left
  <1>4. \A c \in Clients : /\ Connection(conn'[c]) /\ conn'[c].data_out \in 0..1
                           /\ c \in left => conn'[c] = k[c]
    <2>1. Connection(NewConnection(FALSE)) /\ NewConnection(FALSE).data_out \in 0..1
      <3>1. Connection(NewConnection(FALSE)) /\ NewConnection(FALSE).data_out = 0
        BY NewConnections
      <3>2. 0 \in 0..1
        OBVIOUS
      <3> QED  BY <3>1, <3>2, Zenon
    <2>2. \A c \in Clients : conn'[c] = IF c \in left THEN k[c] ELSE NewConnection(FALSE)
      BY <1>1
    <2> QED  BY <2>1, <2>2
  <1>5. \A c \in Clients : sock'[c] = Idle("closed") \/ sock'[c] = sock[c]
    BY <1>1
  <1>6. /\ Socket(Idle("closed")) /\ Idle("closed").link = "closed"
        /\ Idle("closed").unsent = 0 /\ Idle("closed").unread = 0
        /\ Idle("closed").request.pieces = <<>> /\ Len(<<>>) = 0
    BY IdleSockets
  <1>7. /\ sock' = [c \in Clients |-> sock'[c]] /\ conn' = [c \in Clients |-> conn'[c]]
    BY <1>1
  <1>8. ASSUME NEW c \in Clients
        PROVE  /\ Socket(sock'[c]) /\ sock'[c].request.pieces \in Seq(Seq(Tokens))
               /\ sock'[c].link \in {"none", "open", "shut", "reset", "closed"}
               /\ sock'[c].unsent + sock'[c].unread \in 0..Len(sock'[c].request.pieces)
               /\ sock[c].link # "none" => sock'[c].link # "none"
    <2>1. CASE sock'[c] = Idle("closed")
      <3>1. <<>> \in Seq(Seq(Tokens)) /\ 0 + 0 \in 0..0
        OBVIOUS
      <3>2. "closed" \in {"none", "open", "shut", "reset", "closed"} /\ "closed" # "none"
        OBVIOUS
      <3> QED  BY <1>6, <2>1, <3>1, <3>2, Zenon
    <2>2. CASE sock'[c] = sock[c]
      BY <2>2 DEF ServerInv, Shapes, TypeOK
    <2> QED  BY <1>5, <2>1, <2>2
  <1>9. Shapes'
    BY <1>4, <1>7, <1>8 DEF Shapes
  <1>10. TypeOK'
    <2>1. \A c \in Clients : /\ conn'[c].age \in 0..(MAX_LIFETIME_SEC + 1)
                             /\ conn'[c].idle \in 0..(MAX_IDLE_SEC + 1)
      BY <1>4 DEF Connection
    <2>2. /\ queued' \subseteq Clients /\ connections' \subseteq Clients
          /\ queued' \intersect connections' = {}
      BY <1>1, <1>3 DEF ServerInv, TypeOK
    <2>3. /\ quit_request' \in BOOLEAN /\ gotQuitSignal' \in BOOLEAN /\ serving' \in BOOLEAN
          /\ acceptable' \in BOOLEAN /\ running' \in {"up", "ended", "killed"}
          /\ signals' \in 0..MaxSignals /\ owed' \subseteq Clients
          /\ revents' \in [Clients -> SUBSET {"POLLHUP", "POLLIN", "POLLOUT"}]
      BY <1>1 DEF ServerInv, TypeOK
    <2> QED  BY <1>4, <1>8, <2>1, <2>2, <2>3 DEF TypeOK
  <1>11. Waiting'
    <2>1. \A c \in owed' : c \in connections' /\ conn'[c].data_out > 0
      BY <1>1, <1>2, <1>4 DEF ServerInv, TypeOK
    <2>2. running' = "ended" => owed' = {}
      BY <1>1, <1>2 DEF MayLeave
    <2>3. \A c \in Clients : revents'[c] = {}
      BY <1>1 DEF NoEvents
    <2>4. \A c \in queued' \union connections' : sock'[c].link # "none"
      <3>1. \A c \in queued' \union connections' : c \in Clients /\ sock[c].link # "none"
        BY <1>1, <1>3 DEF ServerInv, Waiting, TypeOK
      <3> QED  BY <1>8, <3>1
    <2> QED  BY <2>1, <2>2, <2>3, <2>4 DEF Waiting
  <1> QED  BY <1>9, <1>10, <1>11 DEF ServerInv

(* A round in which poll() has nothing to report.                           *)
LEMMA PollNothingStep ==
    ASSUME ServerInv, PollNothing  PROVE ServerInv'
  <1>1. revents = NoEvents
    BY DEF PollNothing, ServerInv, Waiting, TypeOK, NoEvents
  <1>2. \A c \in Clients : Connection(CloseExpired[c]) /\ CloseExpired[c].data_out = conn[c].data_out
    BY ConnectionFields, ClosedExpired
  <1>3. \A c \in Clients : Connection(CloseExpired[c]) /\ CloseExpired[c].data_out \in 0..1
    BY <1>2, ConnectionFields
  <1>4. \A c \in owed : CloseExpired[c].data_out > 0
    BY <1>2 DEF ServerInv, Waiting, TypeOK
  <1>5. /\ queued' \subseteq queued /\ queued' \intersect connections = {}
        /\ connections \in SUBSET Clients /\ connections \subseteq connections
        /\ \A c \in connections : sock[c].link # "none"
    BY DEF PollNothing, ServerInv, TypeOK, Waiting
  <1> QED  BY <1>1, <1>3, <1>4, <1>5, EndOfRound DEF PollNothing

(* A round that ends without a new client.                                  *)
LEMMA AcceptNobodyStep ==
    ASSUME ServerInv, AcceptNobody  PROVE ServerInv'
  <1>1. \A c \in Clients : Connection(conn[c]) /\ conn[c].data_out \in 0..1
    BY ConnectionFields
  <1>2. \A c \in owed : conn[c].data_out > 0
    BY DEF ServerInv, Waiting
  <1>3. /\ queued' \subseteq queued /\ queued' \intersect connections = {}
        /\ connections \in SUBSET Clients /\ connections \subseteq connections
        /\ \A c \in connections : sock[c].link # "none"
    BY DEF AcceptNobody, ServerInv, TypeOK, Waiting
  <1> QED  BY <1>1, <1>2, <1>3, EndOfRound DEF AcceptNobody

(* A round that ends with a new client.                                     *)
LEMMA AcceptStep ==
    ASSUME ServerInv, NEW c \in Clients, Accept(c)  PROVE ServerInv'
  <1> DEFINE k == [conn EXCEPT ![c] = NewConnection(TRUE)]
             conns == connections \union {c}
  <1>1. Connection(NewConnection(TRUE)) /\ NewConnection(TRUE).data_out \in 0..1
    <2>1. Connection(NewConnection(TRUE)) /\ NewConnection(TRUE).data_out = 0
      BY NewConnections
    <2>2. 0 \in 0..1
      OBVIOUS
    <2> QED  BY <2>1, <2>2, Zenon
  <1>2. /\ k[c] = NewConnection(TRUE) /\ \A x \in Clients : x # c => k[x] = conn[x]
    BY ConnectionFields
  <1>3. \A x \in Clients : Connection(k[x]) /\ k[x].data_out \in 0..1
    BY <1>1, <1>2, ConnectionFields
  <1>4. \A x \in owed : k[x].data_out > 0
    BY <1>2 DEF Accept, ServerInv, Waiting, TypeOK
  <1>5. /\ queued' \subseteq queued /\ queued' \intersect conns = {}
        /\ conns \in SUBSET Clients /\ connections \subseteq conns
        /\ \A x \in conns : sock[x].link # "none"
    BY DEF Accept, ServerInv, TypeOK, Waiting
  <1>6. EndRound(conns, k) /\ revents = NoEvents
    BY DEF Accept
  <1> HIDE DEF k, conns
  <1> QED  BY <1>3, <1>4, <1>5, <1>6, EndOfRound

(* Serving a connection: what on_data() answers is owed until the round     *)
(* that writes it.                                                          *)
LEMMA ServeStep ==
    ASSUME ServerInv, NEW c \in Clients, Serve(c)  PROVE ServerInv'
  <1>1. /\ revents' = [revents EXCEPT ![c] = {}]
        /\ UNCHANGED <<queued, connections, serving, acceptable, gotQuitSignal, running, signals>>
    BY DEF Serve
  <1>2. c \in connections /\ running # "ended"
    BY DEF Serve, HangUp, ReadAndWrite, ServerInv, Waiting
  <1>3. Connection(conn[c]) /\ conn = [x \in Clients |-> conn[x]] /\ conn[c].data_out \in 0..1
    BY ConnectionFields
  <1>4. SUFFICES
          ASSUME NEW k, conn' = [conn EXCEPT ![c] = k], Connection(k), k.data_out \in 0..1,
                 owed' \subseteq owed \union {c}, c \in owed' => k.data_out > 0,
                 sock' = sock \/ sock' = [sock EXCEPT ![c].unread = 0],
                 quit_request' \in BOOLEAN
          PROVE  ServerInv'
    <2>1. CASE HangUp(c)
      <3> DEFINE h == [conn[c] EXCEPT !.alive = FALSE]
                 g == [h EXCEPT !.data_out = 0]
                 s == [conn EXCEPT ![c] = h]
      <3>1. Connection(h)
        BY <1>3 DEF Connection
      <3>2. s = [conn EXCEPT ![c].alive = FALSE]
        BY <1>3
      <3>3. conn' = [s EXCEPT ![c].data_out = 0]
        BY <2>1, <3>2 DEF HangUp
      <3>4. s[c] = h /\ s = [x \in Clients |-> s[x]] /\ \A x \in Clients : x # c => s[x] = conn[x]
        BY <1>3
      <3> HIDE DEF h, s
      <3>5. conn' = [conn EXCEPT ![c] = g]
        BY <1>3, <3>3, <3>4
      <3>6. Connection(g) /\ g.data_out = 0
        BY <3>1 DEF Connection
      <3> HIDE DEF g
      <3>7. /\ owed' \subseteq owed \union {c} /\ c \notin owed' /\ sock' = sock
            /\ quit_request' \in BOOLEAN
        BY <2>1 DEF HangUp, ServerInv, TypeOK
      <3>8. g.data_out \in 0..1
        BY <3>6
      <3> QED  BY <1>4, <3>5, <3>6, <3>7, <3>8
    <2>2. CASE ReadAndWrite(c)
      <3>1. PICK k \in IF "POLLIN" \in revents[c] THEN Input(c) ELSE {conn[c]} :
              /\ sock' = IF "POLLIN" \in revents[c] THEN [sock EXCEPT ![c].unread = 0] ELSE sock
              /\ quit_request' = (\/ quit_request
                                  \/ k.handled > conn[c].handled /\ AsksToQuit(k.http))
              /\ \/ /\ "POLLOUT" \in revents[c]
                    /\ \E ok \in BOOLEAN : conn' = [conn EXCEPT ![c] = network_write(k, ok)]
                    /\ owed' = owed \ {c}
                 \/ /\ "POLLOUT" \notin revents[c]
                    /\ conn' = [conn EXCEPT ![c] = k]
                    /\ owed' = IF k.data_out > 0 THEN owed \union {c} ELSE owed
        BY <2>2 DEF ReadAndWrite
      <3>2. /\ Connection(k)
            /\ k.data_out \in {conn[c].data_out, conn[c].data_out + 1}
        <4>1. CASE k = conn[c]
          BY <1>3, <4>1
        <4>2. CASE k \in Input(c)
          <5>1. k \in on_data(network_read(c))
            BY <4>2 DEF Input
          <5>2. Connection(network_read(c)) /\ network_read(c).data_out = conn[c].data_out
            BY <1>3, NetworkRead
          <5> QED  BY <5>1, <5>2, OnData
        <4> QED  BY <3>1, <4>1, <4>2
      <3>3. /\ sock' = sock \/ sock' = [sock EXCEPT ![c].unread = 0]
            /\ quit_request' \in BOOLEAN
        BY <3>1 DEF ServerInv, TypeOK
      <3>4. CASE "POLLOUT" \in revents[c]
        <4>1. PICK ok \in BOOLEAN : conn' = [conn EXCEPT ![c] = network_write(k, ok)]
          BY <3>1, <3>4
        <4>2. Connection(network_write(k, ok)) /\ network_write(k, ok).data_out = 0
          BY <3>2, NetworkWritten
        <4>3. owed' \subseteq owed \union {c} /\ c \notin owed'
          BY <3>1, <3>4
        <4>4. network_write(k, ok).data_out \in 0..1
          BY <4>2
        <4> QED  BY <1>4, <3>3, <4>1, <4>2, <4>3, <4>4
      <3>5. CASE "POLLOUT" \notin revents[c]
        <4>1. conn[c].data_out = 0
          BY <1>3, <2>2, <3>5 DEF ReadAndWrite, ServerInv, Waiting
        <4>2. k.data_out \in 0..1 /\ conn' = [conn EXCEPT ![c] = k]
          BY <3>1, <3>2, <3>5, <4>1
        <4>3. c \notin owed
          BY <4>1 DEF ServerInv, Waiting
        <4>4. owed' \subseteq owed \union {c} /\ (c \in owed' => k.data_out > 0)
          BY <3>1, <3>5, <4>3
        <4> QED  BY <1>4, <3>2, <3>3, <4>2, <4>4
      <3> QED  BY <3>4, <3>5
    <2> QED  BY <2>1, <2>2 DEF Serve
  <1>5. /\ conn' = [x \in Clients |-> conn'[x]]
        /\ conn'[c] = k /\ \A x \in Clients : x # c => conn'[x] = conn[x]
    BY <1>3, <1>4
  <1>6. /\ sock' = [x \in Clients |-> sock'[x]]
        /\ \A x \in Clients :
             /\ Socket(sock'[x]) /\ sock'[x].request = sock[x].request
             /\ sock'[x].link = sock[x].link
             /\ sock'[x].unsent = sock[x].unsent
             /\ sock'[x].unread \in {0, sock[x].unread}
    <2>1. CASE sock' = sock
      BY <2>1 DEF ServerInv, Shapes, Socket
    <2>2. CASE sock' = [sock EXCEPT ![c].unread = 0]
      <3> DEFINE h == [sock[c] EXCEPT !.unread = 0]
      <3>1. /\ Socket(h) /\ h.request = sock[c].request /\ h.link = sock[c].link
            /\ h.unsent = sock[c].unsent /\ h.unread = 0
        BY SocketFields DEF Socket
      <3>2. /\ sock' = [x \in Clients |-> sock'[x]]
            /\ sock'[c] = h /\ \A x \in Clients : x # c => sock'[x] = sock[x]
        BY <2>2, SocketFields
      <3> HIDE DEF h
      <3> QED  BY <3>1, <3>2, SocketFields
    <2> QED  BY <1>4, <2>1, <2>2
  <1>7. Shapes'
    BY <1>4, <1>5, <1>6 DEF ServerInv, Shapes
  <1>8. TypeOK'
    <2>1. \A x \in Clients :
            /\ sock'[x].link \in {"none", "open", "shut", "reset", "closed"}
            /\ sock'[x].unsent + sock'[x].unread \in 0..Len(sock'[x].request.pieces)
      BY <1>6, SocketFields
    <2>2. \A x \in Clients :
            /\ conn'[x].data_out \in 0..1
            /\ conn'[x].age \in 0..(MAX_LIFETIME_SEC + 1)
            /\ conn'[x].idle \in 0..(MAX_IDLE_SEC + 1)
      BY <1>4, <1>5 DEF ServerInv, TypeOK, Connection
    <2>3. /\ revents' \in [Clients -> SUBSET {"POLLHUP", "POLLIN", "POLLOUT"}]
          /\ owed' \subseteq Clients
      BY <1>1, <1>4 DEF ServerInv, TypeOK
    <2> QED  BY <1>1, <1>4, <2>1, <2>2, <2>3 DEF ServerInv, TypeOK
  <1>9. Waiting'
    <2>1. /\ revents'[c] = {} /\ \A x \in Clients : x # c => revents'[x] = revents[x]
      BY <1>1 DEF ServerInv, TypeOK
    <2>2. owed' \subseteq Clients /\ \A x \in owed' : x # c => x \in owed
      BY <1>4 DEF ServerInv, TypeOK
    <2>3. \A x \in owed' : x \in connections' /\ conn'[x].data_out > 0
      BY <1>1, <1>2, <1>4, <1>5, <2>2 DEF ServerInv, Waiting
    <2>4. \A x \in Clients : revents'[x] # {} =>
            /\ serving' /\ x \in connections'
            /\ conn'[x].data_out > 0 => "POLLOUT" \in revents'[x]
      BY <1>1, <1>5, <2>1 DEF ServerInv, Waiting
    <2>5. \A x \in queued' \union connections' : sock'[x].link # "none"
      BY <1>1, <1>6 DEF ServerInv, Waiting, TypeOK
    <2> QED  BY <1>1, <1>2, <2>3, <2>4, <2>5 DEF Waiting
  <1> QED  BY <1>7, <1>8, <1>9 DEF ServerInv

(* The invariant is inductive.                                              *)
LEMMA ServerSteps == ServerInv /\ [Next]_vars => ServerInv'
  <1> SUFFICES ASSUME ServerInv, [Next]_vars  PROVE ServerInv'
    OBVIOUS
  <1>1. CASE ServerStep
    BY <1>1, PollStep, PollNothingStep, AcceptNobodyStep, AcceptStep, ServeStep DEF ServerStep
  <1>2. CASE \E c \in Clients : Connect(c) \/ Send(c) \/ Leave(c)
    BY <1>2, ConnectStep, SendStep, LeaveStep
  <1>3. CASE FirstSignal \/ SecondSignal \/ Tick
    BY <1>3, FirstSignalStep, SecondSignalStep, TickStep
  <1>4. CASE UNCHANGED vars
    <2>1. Shapes'
      BY <1>4 DEF vars, ServerInv, Shapes, Socket, Connection
    <2>2. TypeOK' /\ Waiting'
      BY <1>4 DEF vars, ServerInv, TypeOK, Waiting
    <2> QED  BY <2>1, <2>2 DEF ServerInv
  <1> QED  BY <1>1, <1>2, <1>3, <1>4 DEF Next

(***************************************************************************)
(* The sockets, connections and events keep their types; in particular a    *)
(* connection never has more than one answer in data_out, and a client is   *)
(* never both queued and accepted.                                          *)
(***************************************************************************)
THEOREM ServerTypes == Spec => []TypeOK
  <1>1. ServerInv => TypeOK
    BY DEF ServerInv
  <1> QED  BY InitServer, ServerSteps, <1>1, PTL DEF Spec

(***************************************************************************)
(* Whatever the clients send, whenever they leave, and whatever the limits  *)
(* on time are, an answer that on_data() wrote stays with its connection    *)
(* until network_write() or a hang-up, and the process does not end of      *)
(* itself before.                                                           *)
(***************************************************************************)
THEOREM NoAnswerIsCutOff == Spec => []ResponsesAreSent
  <1>1. ServerInv => ResponsesAreSent
    BY DEF ServerInv, Waiting, ResponsesAreSent
  <1> QED  BY InitServer, ServerSteps, <1>1, PTL DEF Spec

-----------------------------------------------------------------------------
(* The bytes of a request and its pieces                                    *)

(* Among numbers there is a least one.                                      *)
LEMMA LeastNumber ==
    ASSUME NEW T, T \subseteq Nat, T # {}
    PROVE  \E x \in T : \A y \in T : x <= y
  <1> DEFINE R == {ss \in Nat \X Nat : ss[1] < ss[2]}
  <1>1. IsWellFoundedOn(R, Nat)
    BY NatLessThanWellFounded DEF OpToRel
  <1>2. PICK x \in T : \A y \in T : ~(<<y, x>> \in R)
    <2> HIDE DEF R
    <2> QED  BY <1>1, WFMin
  <1>3. \A y \in T : ~(y < x)
    BY <1>2
  <1> QED  BY <1>3

(* Induction up to a bound, over the set of the numbers it is shown for.    *)
LEMMA BoundedInduction ==
    ASSUME NEW L \in Nat, NEW T, 0 \in T, \A n \in 0..(L - 1) : n \in T => n + 1 \in T
    PROVE  \A n \in 0..L : n \in T
  <1> DEFINE M == {n \in 0..L : n \notin T}
  <1> SUFFICES ASSUME M # {}  PROVE FALSE
    OBVIOUS
  <1>1. M \subseteq Nat
    OBVIOUS
  <1>2. PICK x \in M : \A y \in M : x <= y
    <2> HIDE DEF M
    <2> QED  BY <1>1, LeastNumber
  <1>3. x # 0 /\ x \in 0..L /\ x \notin T
    OBVIOUS
  <1>4. x - 1 \in 0..(L - 1) /\ x - 1 \in 0..L /\ x - 1 < x
    BY <1>3
  <1>5. x - 1 \in T
    BY <1>2, <1>4
  <1>6. (x - 1) + 1 = x
    BY <1>3
  <1> QED  BY <1>3, <1>4, <1>5, <1>6

(* Concatenation of texts.                                                  *)
LEMMA Concatenation ==
    /\ <<>> \in Texts
    /\ \A x \in Texts : x \o <<>> = x /\ <<>> \o x = x /\ Len(x) \in Nat
    /\ \A x, y \in Texts : x \o y \in Texts /\ Len(x \o y) = Len(x) + Len(y)
    /\ \A x, y, z \in Texts : (x \o y) \o z = x \o (y \o z)
  <1>1. \A x, y, z \in Texts : (x \o y) \o z = x \o (y \o z)
    <2> SUFFICES ASSUME NEW x \in Seq(Tokens), NEW y \in Seq(Tokens), NEW z \in Seq(Tokens)
                 PROVE  (x \o y) \o z = x \o (y \o z)
      BY Zenon DEF Texts
    <2> QED  BY ConcatAssociative
  <1>2. \A x \in Texts : x \o <<>> = x /\ <<>> \o x = x
    BY ConcatEmptySeq, Zenon DEF Texts
  <1> QED  BY <1>1, <1>2 DEF Texts

(* f[n] are the bytes of the first n pieces.                                *)
IsText(f, s) ==
    /\ f \in [0..Len(s) -> Texts]
    /\ f[0] = <<>>
    /\ \A n \in 1..Len(s) : f[n] = f[n - 1] \o s[n]

(* There is such a function for any pieces.                                 *)
LEMMA TextExists ==
    ASSUME NEW s \in Seq(Texts)
    PROVE  \E f : IsText(f, s)
  <1> DEFINE L == Len(s)
             F(n) == {f \in [0..n -> Texts] : f[0] = <<>> /\ \A m \in 1..n : f[m] = f[m - 1] \o s[m]}
             T == {n \in 0..L : F(n) # {}}
  <1>1. L \in Nat /\ \A n \in 1..L : s[n] \in Texts
    OBVIOUS
  <1>2. 0 \in T
    <2>1. [i \in 0..0 |-> <<>>] \in F(0)
      BY DEF Texts
    <2> HIDE DEF F
    <2> QED  BY <1>1, <2>1
  <1>3. ASSUME NEW n \in 0..(L - 1), n \in T  PROVE n + 1 \in T
    <2>1. PICK f : f \in F(n)
      BY <1>3
    <2> DEFINE g == [i \in 0..(n + 1) |-> IF i = n + 1 THEN f[n] \o s[n + 1] ELSE f[i]]
    <2>2. n \in Nat /\ n + 1 \in 1..L /\ n + 1 \in 0..L
      BY <1>1
    <2>3. f \in [0..n -> Texts] /\ f[0] = <<>> /\ \A m \in 1..n : f[m] = f[m - 1] \o s[m]
      BY <2>1
    <2>4. f[n] \o s[n + 1] \in Texts
      <3>1. f[n] \in Texts /\ s[n + 1] \in Texts
        BY <1>1, <2>2, <2>3
      <3> QED  BY <3>1 DEF Texts
    <2>5. g \in [0..(n + 1) -> Texts] /\ g[0] = <<>>
      BY <2>2, <2>3, <2>4
    <2>6. ASSUME NEW m \in 1..(n + 1)  PROVE g[m] = g[m - 1] \o s[m]
      <3>1. CASE m = n + 1
        BY <2>2, <3>1
      <3>2. CASE m # n + 1
        <4>1. m \in 1..n /\ m \in 0..(n + 1) /\ m - 1 \in 0..(n + 1) /\ m - 1 # n + 1
          BY <2>2, <3>2
        <4> QED  BY <2>3, <3>2, <4>1
      <3> QED  BY <3>1, <3>2
    <2>7. g \in F(n + 1)
      BY <2>5, <2>6
    <2> QED  BY <2>2, <2>7
  <1>4. L \in T
    <2> HIDE DEF T
    <2>1. \A n \in 0..L : n \in T
      BY <1>1, <1>2, <1>3, BoundedInduction
    <2> QED  BY <1>1, <2>1
  <1> QED  BY <1>4 DEF IsText

(* FlattenSeq() finds it.                                                   *)
LEMMA FlattenIsText ==
    ASSUME NEW s \in Seq(Texts), NEW f, IsText(f, s)
    PROVE  FlattenSeq(s) = f[Len(s)]
  <1> DEFINE L == Len(s)
             Step(g) == [i \in 1..L |-> IF i = 1 THEN s[i] ELSE g[i - 1] \o s[i]]
             flatten == CHOOSE g : g = Step(g)
  <1>1. L \in Nat /\ (\A n \in 1..L : s[n] \in Texts) /\ (\A n \in 0..L : f[n] \in Texts)
    BY DEF IsText
  <1>2. CASE L = 0
    <2>1. s = <<>>
      BY <1>2
    <2> QED  BY <1>2, <2>1 DEF FlattenSeq, IsText
  <1>3. CASE L # 0
    <2>1. FlattenSeq(s) = flatten[L]
      BY <1>3 DEF FlattenSeq
    <2> DEFINE g == [i \in 1..L |-> f[i]]
    <2>2. g = Step(g)
      <3>1. ASSUME NEW i \in 1..L
            PROVE  f[i] = IF i = 1 THEN s[i] ELSE g[i - 1] \o s[i]
        <4>1. f[i] = f[i - 1] \o s[i]
          BY DEF IsText
        <4>2. CASE i = 1
          <5>1. f[0] = <<>> /\ s[1] \in Texts /\ 1 - 1 = 0
            BY <1>1, <4>2 DEF IsText
          <5>2. f[1] = s[1]
            BY <4>1, <4>2, <5>1, Concatenation, Zenon
          <5> QED  BY <4>2, <5>2
        <4>3. CASE i # 1
          <5>1. i - 1 \in 1..L
            BY <1>1, <4>3
          <5> QED  BY <4>1, <4>3, <5>1
        <4> QED  BY <4>2, <4>3
      <3> QED  BY <3>1
    <2>3. flatten = Step(flatten)
      BY <2>2
    <2>4. \A i \in 1..L : flatten[i] = IF i = 1 THEN s[i] ELSE flatten[i - 1] \o s[i]
      <3> HIDE DEF flatten
      <3> QED  BY <2>3
    <2> HIDE DEF flatten
    <2> DEFINE T == {n \in 0..L : n = 0 \/ flatten[n] = f[n]}
    <2>5. 0 \in T
      BY <1>1
    <2>6. ASSUME NEW n \in 0..(L - 1), n \in T  PROVE n + 1 \in T
      <3>1. n + 1 \in 1..L /\ n + 1 \in 0..L /\ n \in Nat
        BY <1>1
      <3>2. f[n + 1] = f[n] \o s[n + 1]
        <4>1. f[n + 1] = f[(n + 1) - 1] \o s[n + 1]
          BY <3>1 DEF IsText
        <4>2. (n + 1) - 1 = n
          BY <3>1
        <4> QED  BY <4>1, <4>2
      <3>3. CASE n = 0
        <4>1. s[1] \in Seq(Tokens) /\ f[0] = <<>>
          BY <1>1, <3>1, <3>3 DEF IsText, Texts
        <4>2. f[1] = s[1]
          BY <3>2, <3>3, <4>1, ConcatEmptySeq
        <4>3. flatten[1] = s[1]
          BY <2>4, <3>1, <3>3
        <4> QED  BY <3>1, <3>3, <4>2, <4>3
      <3>4. CASE n # 0
        <4>1. flatten[n] = f[n]
          BY <2>6, <3>4
        <4>2. n + 1 # 1 /\ (n + 1) - 1 = n
          BY <3>1, <3>4
        <4>3. flatten[n + 1] = flatten[n] \o s[n + 1]
          BY <2>4, <3>1, <4>2, Zenon
        <4> QED  BY <3>1, <3>2, <4>1, <4>3
      <3> QED  BY <3>3, <3>4
    <2>7. L \in T
      <3> HIDE DEF T
      <3>1. \A n \in 0..L : n \in T
        BY <1>1, <2>5, <2>6, BoundedInduction
      <3> QED  BY <1>1, <3>1
    <2> QED  BY <1>3, <2>1, <2>7
  <1> QED  BY <1>2, <1>3

(* Some pieces in a row are the bytes between two places.                   *)
LEMMA PiecesInARow ==
    ASSUME NEW s \in Seq(Texts), NEW f, IsText(f, s),
           NEW a \in 0..Len(s), NEW b \in a..Len(s)
    PROVE  /\ FlattenSeq(SubSeq(s, a + 1, b)) \in Texts
           /\ f[a] \o FlattenSeq(SubSeq(s, a + 1, b)) = f[b]
  <1> DEFINE t == SubSeq(s, a + 1, b)
             L == b - a
  <1>1. a \in Nat /\ b \in Nat /\ L \in Nat /\ Len(s) \in Nat
    OBVIOUS
  <1>2. t \in Seq(Texts) /\ Len(t) = L /\ \A i \in 1..L : t[i] = s[a + i]
    <2>1. /\ a + 1 \in 1..(Len(s) + 1) /\ b \in (a + 1) - 1..Len(s)
      BY <1>1
    <2> QED  BY <1>1, <2>1
  <1> HIDE DEF t, L
  <1>3. PICK h : IsText(h, t)
    BY <1>2, TextExists
  <1>4. FlattenSeq(t) = h[L] /\ h[L] \in Texts
    <2>1. FlattenSeq(t) = h[Len(t)]
      BY <1>2, <1>3, FlattenIsText
    <2>2. h \in [0..L -> Texts] /\ L \in 0..L
      BY <1>1, <1>2, <1>3 DEF IsText
    <2> QED  BY <1>2, <2>1, <2>2
  <1> DEFINE T == {j \in 0..L : f[a] \o h[j] = f[a + j]}
  <1>5. f[a] \in Texts
    BY DEF IsText
  <1>6. 0 \in T
    <2>1. h[0] = <<>> /\ a + 0 = a
      BY <1>1, <1>3 DEF IsText
    <2>2. f[a] \o h[0] = f[a + 0]
      BY <1>5, <2>1, Concatenation, Zenon
    <2>3. 0 \in 0..L
      BY <1>1
    <2> QED  BY <2>2, <2>3, Zenon
  <1>7. ASSUME NEW j \in 0..(L - 1), j \in T  PROVE j + 1 \in T
    <2>1. j + 1 \in 1..L /\ j + 1 \in 0..L /\ j \in 0..L /\ (j + 1) - 1 = j
      BY <1>1
    <2>2. h[j + 1] = h[j] \o t[j + 1] /\ h[j] \in Texts
      BY <1>2, <1>3, <2>1 DEF IsText
    <2>3. t[j + 1] = s[a + (j + 1)]
      BY <1>2, <2>1
    <2>4. a + (j + 1) \in 1..Len(s) /\ (a + (j + 1)) - 1 = a + j
      BY <1>1, <2>1 DEF L
    <2>5. f[a + (j + 1)] = f[a + j] \o s[a + (j + 1)] /\ s[a + (j + 1)] \in Texts
      <3>1. f[a + (j + 1)] = f[(a + (j + 1)) - 1] \o s[a + (j + 1)]
        BY <2>4 DEF IsText
      <3>2. s[a + (j + 1)] \in Texts
        BY <2>4
      <3> QED  BY <2>4, <3>1, <3>2, Zenon
    <2>6. f[a] \o h[j + 1] = (f[a] \o h[j]) \o s[a + (j + 1)]
      <3> DEFINE z == s[a + (j + 1)]
      <3>1. z \in Texts /\ h[j + 1] = h[j] \o z
        BY <2>2, <2>3, <2>5, Zenon
      <3> HIDE DEF z
      <3>2. f[a] \o (h[j] \o z) = (f[a] \o h[j]) \o z
        BY <1>5, <2>2, <3>1, Concatenation
      <3> QED  BY <3>1, <3>2, Zenon DEF z
    <2>7. f[a] \o h[j] = f[a + j]
      BY <1>7
    <2> QED  BY <2>1, <2>5, <2>6, <2>7
  <1>8. L \in T
    <2> HIDE DEF T
    <2>1. \A j \in 0..L : j \in T
      BY <1>1, <1>6, <1>7, BoundedInduction
    <2> QED  BY <1>1, <2>1
  <1>9. a + L = b
    BY <1>1 DEF L
  <1> QED  BY <1>4, <1>8, <1>9 DEF t

(* The bytes of the first n pieces.                                         *)
Text(s, n) == FlattenSeq(SubSeq(s, 1, n))

(* What is read of a request grows by the pieces that are read.             *)
LEMMA TextGrows ==
    ASSUME NEW s \in Seq(Texts), NEW a \in 0..Len(s), NEW b \in a..Len(s)
    PROVE  /\ Text(s, a) \in Texts /\ Text(s, b) \in Texts
           /\ FlattenSeq(SubSeq(s, a + 1, b)) \in Texts
           /\ Text(s, a) \o FlattenSeq(SubSeq(s, a + 1, b)) = Text(s, b)
  <1>1. PICK f : IsText(f, s)
    BY TextExists
  <1>2. ASSUME NEW n \in 0..Len(s)  PROVE Text(s, n) = f[n] /\ f[n] \in Texts
    <2>1. 0 \in 0..Len(s) /\ n \in 0..Len(s) /\ 0 + 1 = 1
      OBVIOUS
    <2>2. f[0] = <<>> /\ f[n] \in Texts
      BY <1>1 DEF IsText
    <2>3. Text(s, n) \in Texts /\ f[0] \o Text(s, n) = f[n]
      <3>1. /\ FlattenSeq(SubSeq(s, 0 + 1, n)) \in Texts
            /\ f[0] \o FlattenSeq(SubSeq(s, 0 + 1, n)) = f[n]
        BY <1>1, <2>1, PiecesInARow
      <3> QED  BY <2>1, <3>1, Zenon DEF Text
    <2> QED  BY <2>2, <2>3, Concatenation, Zenon
  <1>3. b \in 0..Len(s)
    OBVIOUS
  <1>4. /\ FlattenSeq(SubSeq(s, a + 1, b)) \in Texts
        /\ f[a] \o FlattenSeq(SubSeq(s, a + 1, b)) = f[b]
    BY <1>1, PiecesInARow
  <1> QED  BY <1>2, <1>3, <1>4, Zenon

(* Nothing is read at first, and all of it in the end.                      *)
LEMMA TextEnds ==
    ASSUME NEW s \in Seq(Texts)
    PROVE  Text(s, 0) = <<>> /\ Text(s, Len(s)) = FlattenSeq(s)
  <1>1. SubSeq(s, 1, Len(s)) = s
    BY SubSeqFull
  <1>2. SubSeq(s, 1, 0) = <<>> /\ Len(<<>>) = 0
    BY SubSeqEmpty
  <1>3. FlattenSeq(<<>>) = <<>>
    BY <1>2 DEF FlattenSeq
  <1> QED  BY <1>1, <1>2, <1>3, Zenon DEF Text

(* More pieces are more bytes.                                              *)
LEMMA MorePieces ==
    ASSUME NEW s \in Seq(Texts), \A i \in 1..Len(s) : s[i] # <<>>,
           NEW a \in 0..Len(s), NEW b \in 0..Len(s), a < b
    PROVE  Len(Text(s, a)) < Len(Text(s, b))
  <1>1. PICK f : IsText(f, s)
    BY TextExists
  <1>2. a \in 0..Len(s) /\ b \in a..Len(s) /\ a + 1 \in a..Len(s) /\ a + 1 \in 0..Len(s)
          /\ a + 1 \in 1..Len(s) /\ b \in (a + 1)..Len(s) /\ Len(s) \in Nat
    OBVIOUS
  <1> DEFINE x == Text(s, a)
             y == FlattenSeq(SubSeq(s, a + 1, a + 1))
             z == FlattenSeq(SubSeq(s, (a + 1) + 1, b))
  <1>3. x \in Texts /\ y \in Texts /\ x \o y = Text(s, a + 1)
    BY <1>2, TextGrows
  <1>4. z \in Texts /\ Text(s, a + 1) \o z = Text(s, b)
    BY <1>2, TextGrows
  <1>5. y = s[a + 1]
    <2> DEFINE t == SubSeq(s, a + 1, a + 1)
    <2>1. s[a + 1] \in Texts /\ a + 1 \in Int /\ \A i \in (a + 1)..(a + 1) : s[i] \in Texts
      BY <1>2
    <2>2. t \in Seq(Texts) /\ Len(t) = 1 /\ t[1] = s[a + 1]
      <3>1. /\ t \in Seq(Texts)
            /\ Len(t) = IF a + 1 <= a + 1 THEN (a + 1) - (a + 1) + 1 ELSE 0
            /\ \A i \in 1..((a + 1) - (a + 1) + 1) : t[i] = s[(a + 1) + i - 1]
        BY <2>1, SubSeqProperties
      <3>2. 1 \in 1..((a + 1) - (a + 1) + 1) /\ (a + 1) + 1 - 1 = a + 1
        BY <2>1
      <3> HIDE DEF t
      <3> QED  BY <2>1, <3>1, <3>2
    <2> HIDE DEF t
    <2>3. PICK h : IsText(h, t)
      BY <2>2, TextExists
    <2>4. FlattenSeq(t) = h[1]
      BY <2>2, <2>3, FlattenIsText
    <2>5. h[0] = <<>> /\ h[1] = h[1 - 1] \o t[1] /\ 1 - 1 = 0
      BY <2>2, <2>3 DEF IsText
    <2> QED  BY <2>1, <2>2, <2>4, <2>5, Concatenation, Zenon DEF t
  <1>6. y # <<>>
    BY <1>2, <1>5
  <1> HIDE DEF x, y, z
  <1>7. Len(y) > 0
    BY <1>3, <1>6 DEF Texts
  <1>8. Text(s, b) = (x \o y) \o z /\ x \o y \in Texts
    BY <1>3, <1>4, Concatenation, Zenon
  <1>9. Len(Text(s, b)) = Len(x \o y) + Len(z) /\ Len(x \o y) = Len(x) + Len(y)
    BY <1>3, <1>4, <1>8, Concatenation
  <1>10. Len(x) \in Nat /\ Len(y) \in Nat /\ Len(z) \in Nat
    BY <1>3, <1>4, Concatenation
  <1> QED  BY <1>7, <1>9, <1>10 DEF x

-----------------------------------------------------------------------------
(* The parser                                                               *)

(* A parser that waits for the end of the headers.                          *)
Waits(a) ==
    [msgs |-> a, headers_written |-> FALSE, headers_end |-> 0, content_length |-> 0,
     request |-> NoRequest, parsing_complete |-> FALSE]

(* A parser that has the headers.                                           *)
Reads(a, h, len, r, done) ==
    [msgs |-> a, headers_written |-> TRUE, headers_end |-> h, content_length |-> len,
     request |-> r, parsing_complete |-> done]

(* What the headers in a text say.                                          *)
HeadersEnd(a) == Min(HeaderEnds(a))
Lines(a) == split_string[SubSeq(a, 1, HeadersEnd(a) - 1), CRLF]
LengthIn(a) == ContentLength[Headers[Tail(Lines(a))]]
RequestIn(a) == Request[split_string[Head(Lines(a)), " "]]
HasHeaders(a) == HeaderEnds(a) # {} /\ Lines(a) # <<>>

BodyIn(a, h, len, r) == r.method = <<"POST">> /\ Len(a) - h >= len
CompleteIn(a, h, len, r) ==
    r.result # "PARSE_ERR" /\ (r.method = <<"GET">> \/ BodyIn(a, h, len, r))

Fields == {"msgs", "headers_written", "headers_end", "content_length", "request",
           "parsing_complete"}

(* write() adds to the bytes of a parser that waits,                        *)
LEMMA WaitsFields ==
    ASSUME NEW a, NEW m
    PROVE  [Waits(a) EXCEPT !.msgs = m] = Waits(m)
  <1> DEFINE p == Waits(a)
             q == Waits(m)
  <1>1. p = [x \in Fields |-> p[x]] /\ q = [x \in Fields |-> q[x]]
    BY DEF Waits, Fields
  <1>2. /\ q.headers_written = p.headers_written
        /\ q.headers_end = p.headers_end
        /\ q.content_length = p.content_length
        /\ q.request = p.request
        /\ q.parsing_complete = p.parsing_complete
        /\ q.msgs = m
    BY DEF Waits
  <1> HIDE DEF p, q
  <1>3. \A x \in Fields : q[x] = IF x = "msgs" THEN m ELSE p[x]
    BY <1>2 DEF Fields
  <1>4. [p EXCEPT !.msgs = m] = [x \in Fields |-> IF x = "msgs" THEN m ELSE p[x]]
    BY <1>1
  <1> QED  BY <1>1, <1>3, <1>4, Zenon DEF p, q

(* to those of one that has the headers,                                    *)
LEMMA ReadsFields ==
    ASSUME NEW a, NEW m, NEW h, NEW len, NEW r, NEW done
    PROVE  [Reads(a, h, len, r, done) EXCEPT !.msgs = m] = Reads(m, h, len, r, done)
  <1> DEFINE p == Reads(a, h, len, r, done)
             q == Reads(m, h, len, r, done)
  <1>1. p = [x \in Fields |-> p[x]] /\ q = [x \in Fields |-> q[x]]
    BY DEF Reads, Fields
  <1>2. /\ q.headers_written = p.headers_written
        /\ q.headers_end = p.headers_end
        /\ q.content_length = p.content_length
        /\ q.request = p.request
        /\ q.parsing_complete = p.parsing_complete
        /\ q.msgs = m
    BY DEF Reads
  <1> HIDE DEF p, q
  <1>3. \A x \in Fields : q[x] = IF x = "msgs" THEN m ELSE p[x]
    BY <1>2 DEF Fields
  <1>4. [p EXCEPT !.msgs = m] = [x \in Fields |-> IF x = "msgs" THEN m ELSE p[x]]
    BY <1>1
  <1> QED  BY <1>1, <1>3, <1>4, Zenon DEF p, q

(* and says when it is complete.                                            *)
LEMMA ReadsComplete ==
    ASSUME NEW a, NEW h, NEW len, NEW r, NEW done, NEW d
    PROVE  [Reads(a, h, len, r, done) EXCEPT !.parsing_complete = d] = Reads(a, h, len, r, d)
  <1> DEFINE p == Reads(a, h, len, r, done)
             q == Reads(a, h, len, r, d)
  <1>1. p = [x \in Fields |-> p[x]] /\ q = [x \in Fields |-> q[x]]
    BY DEF Reads, Fields
  <1>2. /\ q.msgs = p.msgs
        /\ q.headers_written = p.headers_written
        /\ q.headers_end = p.headers_end
        /\ q.content_length = p.content_length
        /\ q.request = p.request
        /\ q.parsing_complete = d
    BY DEF Reads
  <1> HIDE DEF p, q
  <1>3. \A x \in Fields : q[x] = IF x = "parsing_complete" THEN d ELSE p[x]
    BY <1>2 DEF Fields
  <1>4. [p EXCEPT !.parsing_complete = d] = [x \in Fields |-> IF x = "parsing_complete" THEN d ELSE p[x]]
    BY <1>1
  <1> QED  BY <1>1, <1>3, <1>4, Zenon DEF p, q

(* write() to a parser that waits.                                          *)
LEMMA WrittenWaits ==
    ASSUME NEW a, NEW b
    PROVE  Written(Waits(a), b) = Received(Waits(a \o b))
  <1>1. [Waits(a) EXCEPT !.msgs = @ \o b] = Waits(a \o b)
    <2>1. Waits(a).msgs = a
      BY DEF Waits
    <2> QED  BY <2>1, WaitsFields, Zenon
  <1> QED  BY <1>1, Zenon DEF Written

(* write() to a parser that has the headers.                                *)
LEMMA WrittenReads ==
    ASSUME NEW a, NEW b, NEW h, NEW len, NEW r, NEW done
    PROVE  Written(Reads(a, h, len, r, done), b)
             = Reads(a \o b, h, len, r, done \/ BodyIn(a \o b, h, len, r))
  <1> DEFINE p == Reads(a \o b, h, len, r, done)
  <1>1. [Reads(a, h, len, r, done) EXCEPT !.msgs = @ \o b] = p
    <2>1. Reads(a, h, len, r, done).msgs = a
      BY DEF Reads
    <2> DEFINE m == a \o b
    <2> HIDE DEF m
    <2>2. [Reads(a, h, len, r, done) EXCEPT !.msgs = m] = Reads(m, h, len, r, done)
      BY ReadsFields
    <2> QED  BY <2>1, <2>2, Zenon DEF m
  <1>2. p.headers_written = TRUE /\ p.request = r /\ p.msgs = a \o b /\ p.headers_end = h
          /\ p.content_length = len /\ p.parsing_complete = done
    BY DEF Reads
  <1>3. Completed(p) = [p EXCEPT !.parsing_complete = done \/ BodyIn(a \o b, h, len, r)]
    BY <1>2, Zenon DEF Completed, BodyComplete, BodyIn
  <1>4. [p EXCEPT !.parsing_complete = done \/ BodyIn(a \o b, h, len, r)]
          = Reads(a \o b, h, len, r, done \/ BodyIn(a \o b, h, len, r))
    <2> DEFINE d == done \/ BodyIn(a \o b, h, len, r)
               m == a \o b
    <2> HIDE DEF d, m
    <2>1. [Reads(m, h, len, r, done) EXCEPT !.parsing_complete = d] = Reads(m, h, len, r, d)
      BY ReadsComplete
    <2> QED  BY <2>1, Zenon DEF d, m
  <1> HIDE DEF p
  <1>5. Received(p) = Completed(p)
    BY <1>2 DEF Received
  <1> QED  BY <1>1, <1>3, <1>4, <1>5, Zenon DEF Written

(* A parser that is asked for the first time whether it has the headers.    *)
LEMMA FirstReceived ==
    ASSUME NEW a
    PROVE  LET h == HeadersEnd(a) + 1
               len == LengthIn(a)
               r == RequestIn(a)
           IN  Received(Waits(a)) =
                 IF HasHeaders(a) THEN Reads(a, h, len, r, CompleteIn(a, h, len, r))
                 ELSE Waits(a)
  <1> DEFINE h == HeadersEnd(a) + 1
             len == LengthIn(a)
             r == RequestIn(a)
             w == Waits(a)
             p == Reads(a, h, len, r, FALSE)
             g == Reads(a, h, len, r, r.method = <<"GET">>)
  <1>1. w.headers_written = FALSE /\ w.msgs = a
    BY DEF Waits
  <1>2. Received(w) = IF HeaderEnds(a) = {} THEN w ELSE HeadersRead(w, Lines(a))
    BY <1>1 DEF Received, Lines, HeadersEnd
  <1>3. HeadersWritten(w, Lines(a)) = p
    <2>1. HeadersWritten(w, Lines(a)) =
            [w EXCEPT !.headers_written = TRUE, !.headers_end = h, !.content_length = len,
                      !.request = r]
      BY <1>1, Zenon DEF HeadersWritten, HeadersEnd, LengthIn, RequestIn
    <2> HIDE DEF h, len, r
    <2> QED  BY <2>1 DEF Waits, Reads
  <1>4. Begun(p) = Reads(a, h, len, r, CompleteIn(a, h, len, r))
    <2> HIDE DEF h, len, r
    <2>1. p.request = r /\ p.parsing_complete = FALSE
      BY DEF Reads
    <2>2. CASE r.result = "PARSE_ERR"
      <3>1. Begun(p) = p
        BY <2>1, <2>2 DEF Begun, is_bad_request
      <3>2. CompleteIn(a, h, len, r) = FALSE
        BY <2>2 DEF CompleteIn
      <3> QED  BY <3>1, <3>2, Zenon
    <2>3. CASE r.result # "PARSE_ERR"
      <3>1. [p EXCEPT !.parsing_complete = (r.method = <<"GET">>)] = g
        <4> DEFINE d == r.method = <<"GET">>
                   e == FALSE
        <4> HIDE DEF d, e
        <4>1. [Reads(a, h, len, r, e) EXCEPT !.parsing_complete = d] = Reads(a, h, len, r, d)
          BY ReadsComplete
        <4> QED  BY <4>1, Zenon DEF d, e
      <3>2. Begun(p) = Completed(g)
        BY <2>1, <2>3, <3>1, Zenon DEF Begun, is_bad_request
      <3>3. g.request = r /\ g.msgs = a /\ g.headers_end = h /\ g.content_length = len
              /\ g.parsing_complete = (r.method = <<"GET">>)
        BY DEF Reads
      <3>4. Completed(g) =
              [g EXCEPT !.parsing_complete = (r.method = <<"GET">>) \/ BodyIn(a, h, len, r)]
        BY <3>3, Zenon DEF Completed, BodyComplete, BodyIn
      <3>5. [g EXCEPT !.parsing_complete = (r.method = <<"GET">>) \/ BodyIn(a, h, len, r)]
              = Reads(a, h, len, r, (r.method = <<"GET">>) \/ BodyIn(a, h, len, r))
        <4> DEFINE e == r.method = <<"GET">>
                   d == e \/ BodyIn(a, h, len, r)
        <4> HIDE DEF d, e
        <4>1. [Reads(a, h, len, r, e) EXCEPT !.parsing_complete = d] = Reads(a, h, len, r, d)
          BY ReadsComplete
        <4> QED  BY <4>1, Zenon DEF d, e
      <3>6. CompleteIn(a, h, len, r) = ((r.method = <<"GET">>) \/ BodyIn(a, h, len, r))
        BY <2>3 DEF CompleteIn
      <3> QED  BY <3>2, <3>4, <3>5, <3>6, Zenon
    <2> QED  BY <2>2, <2>3
  <1> HIDE DEF h, len, r, p, w
  <1>5. HeadersRead(w, Lines(a)) = IF Lines(a) = <<>> THEN w ELSE Begun(p)
    BY <1>3 DEF HeadersRead
  <1>6. Received(w) = IF HasHeaders(a) THEN Reads(a, h, len, r, CompleteIn(a, h, len, r)) ELSE w
    BY <1>2, <1>4, <1>5 DEF HasHeaders
  <1> QED  BY <1>6, Zenon DEF h, len, r, w

(* The headers of a text are those of every longer one.                     *)
LEMMA HeadersStay ==
    ASSUME NEW a \in Texts, NEW b \in Texts, HasHeaders(a)
    PROVE  /\ HasHeaders(a \o b) /\ HeadersEnd(a \o b) = HeadersEnd(a)
           /\ Lines(a \o b) = Lines(a)
           /\ HeadersEnd(a) \in Nat /\ HeadersEnd(a) + 1 <= Len(a)
  <1> DEFINE ab == a \o b
             S == HeaderEnds(a)
             h == HeadersEnd(a)
  <1>1. /\ ab \in Texts /\ Len(a) \in Nat /\ Len(b) \in Nat /\ Len(ab) = Len(a) + Len(b)
        /\ \A i \in 1..Len(a) : ab[i] = a[i]
    <2>1. \A i \in 1..(Len(a) + Len(b)) : ab[i] = IF i <= Len(a) THEN a[i] ELSE b[i - Len(a)]
      BY ConcatProperties DEF Texts
    <2>2. ab \in Texts /\ Len(a) \in Nat /\ Len(b) \in Nat /\ Len(ab) = Len(a) + Len(b)
      BY Concatenation
    <2> QED  BY <2>1, <2>2
  <1> HIDE DEF ab
  <1>2. S \subseteq Nat /\ S # {}
    BY DEF HeaderEnds, HasHeaders
  <1>3. h \in S /\ \A y \in S : h <= y
    <2>1. \E x \in S : \A y \in S : x <= y
      <3> HIDE DEF S
      <3> QED  BY <1>2, LeastNumber
    <2> HIDE DEF S
    <2>2. Min(S) \in S /\ \A y \in S : Min(S) <= y
      BY <2>1 DEF Min
    <2> QED  BY <2>2 DEF HeadersEnd, S
  <1>4. h \in 1..(Len(a) - 1) /\ a[h] = CRLF /\ a[h + 1] = CRLF
    BY <1>3 DEF HeaderEnds
  <1>5. h \in HeaderEnds(ab)
    <2>1. h \in 1..Len(a) /\ h + 1 \in 1..Len(a) /\ h \in 1..(Len(ab) - 1)
      BY <1>1, <1>4
    <2>2. ab[h] = CRLF /\ ab[h + 1] = CRLF
      BY <1>1, <1>4, <2>1
    <2> HIDE DEF h
    <2> QED  BY <2>1, <2>2 DEF HeaderEnds
  <1>6. ASSUME NEW y \in HeaderEnds(ab)  PROVE h <= y
    <2> HIDE DEF h
    <2>1. y \in 1..(Len(ab) - 1) /\ ab[y] = CRLF /\ ab[y + 1] = CRLF
      BY DEF HeaderEnds
    <2>2. CASE y < h
      <3>1. y \in 1..Len(a) /\ y + 1 \in 1..Len(a) /\ y \in 1..(Len(a) - 1)
        BY <1>1, <1>4, <2>1, <2>2
      <3>2. a[y] = CRLF /\ a[y + 1] = CRLF
        BY <1>1, <2>1, <3>1
      <3>3. y \in S
        BY <3>1, <3>2 DEF HeaderEnds
      <3> QED  BY <1>3, <3>3
    <2> QED  BY <1>1, <1>4, <2>1, <2>2
  <1>7. HeadersEnd(ab) = h
    <2> DEFINE R == HeaderEnds(ab)
    <2>1. R \subseteq Nat
      BY DEF HeaderEnds
    <2> HIDE DEF R, h
    <2>2. Min(R) \in R /\ \A y \in R : Min(R) <= y
      BY <1>5, <1>6 DEF Min, R
    <2>3. Min(R) = h
      BY <1>5, <1>6, <2>1, <2>2 DEF R
    <2> QED  BY <2>3 DEF HeadersEnd, R
  <1>8. SubSeq(ab, 1, h - 1) = SubSeq(a, 1, h - 1)
    <2> HIDE DEF h
    <2>1. h - 1 \in 0..Len(a) /\ h - 1 \in 0..Len(ab) /\ 1 \in Int /\ h - 1 \in Int
      BY <1>1, <1>4
    <2>2. \A i \in 1..(h - 1) : ab[i] = a[i] /\ ab[i] \in Tokens /\ a[i] \in Tokens
      BY <1>1, <1>4, <2>1 DEF Texts
    <2> DEFINE x == SubSeq(ab, 1, h - 1)
               y == SubSeq(a, 1, h - 1)
    <2>3. /\ x \in Seq(Tokens)
          /\ Len(x) = IF 1 <= h - 1 THEN (h - 1) - 1 + 1 ELSE 0
          /\ \A i \in 1..((h - 1) - 1 + 1) : x[i] = ab[1 + i - 1]
      BY <2>1, <2>2, SubSeqProperties
    <2>4. /\ y \in Seq(Tokens)
          /\ Len(y) = IF 1 <= h - 1 THEN (h - 1) - 1 + 1 ELSE 0
          /\ \A i \in 1..((h - 1) - 1 + 1) : y[i] = a[1 + i - 1]
      BY <2>1, <2>2, SubSeqProperties
    <2> HIDE DEF x, y
    <2>5. Len(x) = Len(y) /\ \A i \in 1..Len(x) : x[i] = y[i]
      <3>1. Len(x) = Len(y) /\ Len(x) = h - 1
        BY <1>4, <2>3, <2>4
      <3>2. ASSUME NEW i \in 1..(h - 1)  PROVE x[i] = y[i]
        <4>1. i \in 1..((h - 1) - 1 + 1) /\ 1 + i - 1 = i
          BY <1>4
        <4>2. x[i] = ab[i] /\ y[i] = a[i]
          BY <2>3, <2>4, <4>1
        <4> QED  BY <2>2, <4>2
      <3> QED  BY <3>1, <3>2
    <2>6. x = y
      BY <2>3, <2>4, <2>5, SeqEqual
    <2> QED  BY <2>6 DEF x, y
  <1>9. Lines(ab) = Lines(a)
    BY <1>7, <1>8, Zenon DEF Lines
  <1>10. h \in Nat /\ h + 1 <= Len(a)
    BY <1>1, <1>4
  <1> QED  BY <1>5, <1>7, <1>9, <1>10 DEF ab, HasHeaders

(* The parser of a new connection has got no bytes.                         *)
LEMMA AfterText ==
    ASSUME NEW a \in Texts
    PROVE  After(a) = Received(Waits(a))
  <1>1. NewParser = Waits(<<>>)
    BY DEF NewParser, Waits
  <1>2. <<>> \o a = a
    BY Concatenation
  <1> QED  BY <1>1, <1>2, WrittenWaits, Zenon DEF After

(* write() may get a request in pieces: as long as it is neither complete   *)
(* nor bad, it goes on as if all bytes had come at once.                    *)
THEOREM CutAnywhere ==
    ASSUME NEW a \in Texts, NEW b \in Texts,
           ~After(a).parsing_complete, ~is_bad_request(After(a))
    PROVE  Written(After(a), b) = After(a \o b)
  <1>1. a \o b \in Texts
    BY Concatenation
  <1>2. After(a) = Received(Waits(a)) /\ After(a \o b) = Received(Waits(a \o b))
    BY <1>1, AfterText
  <1>3. CASE ~HasHeaders(a)
    <2>1. After(a) = Waits(a)
      BY <1>2, <1>3, FirstReceived
    <2> QED  BY <1>2, <2>1, WrittenWaits
  <1>4. CASE HasHeaders(a)
    <2> DEFINE h == HeadersEnd(a) + 1
               len == LengthIn(a)
               r == RequestIn(a)
               ab == a \o b
               d == CompleteIn(a, h, len, r)
    <2>1. After(a) = Reads(a, h, len, r, d)
      BY <1>2, <1>4, FirstReceived
    <2>2. HasHeaders(ab) /\ HeadersEnd(ab) + 1 = h /\ LengthIn(ab) = len /\ RequestIn(ab) = r
      BY <1>4, HeadersStay, Zenon DEF LengthIn, RequestIn
    <2>3. After(ab) = Reads(ab, h, len, r, CompleteIn(ab, h, len, r))
      <3>1. Received(Waits(ab)) = Reads(ab, HeadersEnd(ab) + 1, LengthIn(ab), RequestIn(ab),
                CompleteIn(ab, HeadersEnd(ab) + 1, LengthIn(ab), RequestIn(ab)))
        BY <2>2, FirstReceived
      <3> QED  BY <1>2, <2>2, <3>1, Zenon
    <2> HIDE DEF h, len, r, d
    <2>4. After(a).parsing_complete = d /\ After(a).request = r
      BY <2>1 DEF Reads
    <2>5. ~d /\ r.result # "PARSE_ERR"
      BY <2>4 DEF is_bad_request
    <2>6. r.method # <<"GET">>
      BY <2>5 DEF d, CompleteIn
    <2>7. (d \/ BodyIn(ab, h, len, r)) = CompleteIn(ab, h, len, r)
      BY <2>5, <2>6 DEF CompleteIn
    <2>8. Written(Reads(a, h, len, r, d), b) = Reads(ab, h, len, r, d \/ BodyIn(ab, h, len, r))
      BY WrittenReads
    <2> QED  BY <2>1, <2>3, <2>7, <2>8, Zenon
  <1> QED  BY <1>3, <1>4

(* A parser that has the headers, whatever they say.                        *)
HasRead(p) == \E a, h, len, r, d : p = Reads(a, h, len, r, d)

(* A request is bad when its headers are, and so it stays.                  *)
LEMMA BadStays ==
    ASSUME NEW p, HasRead(p), is_bad_request(p), NEW b
    PROVE  HasRead(Written(p, b)) /\ is_bad_request(Written(p, b))
  <1>1. PICK a, h, len, r, d : p = Reads(a, h, len, r, d)
    BY DEF HasRead
  <1> DEFINE ab == a \o b
             e == d \/ BodyIn(ab, h, len, r)
             q == Reads(ab, h, len, r, e)
  <1>2. Written(p, b) = q
    BY <1>1, WrittenReads
  <1> HIDE DEF ab, e
  <1>3. q.request = r /\ p.request = r
    BY <1>1 DEF Reads
  <1>4. HasRead(q)
    BY DEF HasRead
  <1> QED  BY <1>2, <1>3, <1>4, Zenon DEF is_bad_request

(* A parser without headers has nothing to refuse and nothing to dispatch.  *)
LEMMA OnlyWithHeaders ==
    ASSUME NEW a \in Texts, is_bad_request(After(a)) \/ After(a).parsing_complete
    PROVE  HasHeaders(a) /\ HasRead(After(a))
  <1>1. After(a) = Received(Waits(a))
    BY AfterText
  <1>2. CASE HasHeaders(a)
    <2> DEFINE h == HeadersEnd(a) + 1
               len == LengthIn(a)
               r == RequestIn(a)
               d == CompleteIn(a, h, len, r)
    <2>1. After(a) = Reads(a, h, len, r, d)
      BY <1>1, <1>2, FirstReceived
    <2> HIDE DEF h, len, r, d
    <2> QED  BY <1>2, <2>1 DEF HasRead
  <1>3. CASE ~HasHeaders(a)
    <2>1. After(a) = Waits(a)
      BY <1>1, <1>3, FirstReceived
    <2>2. Waits(a).parsing_complete = FALSE /\ Waits(a).request = NoRequest
      BY DEF Waits
    <2>3. NoRequest.result = "PARSE_AWAIT" /\ "PARSE_AWAIT" # "PARSE_ERR"
      BY DEF NoRequest
    <2> QED  BY <2>1, <2>2, <2>3, Zenon DEF is_bad_request
  <1> QED  BY <1>2, <1>3

(* A request that is as long as its headers say is not complete before its  *)
(* last byte.                                                               *)
LEMMA NothingBehind ==
    ASSUME NEW a \in Texts, NEW b \in Texts, After(a).parsing_complete,
           After(a \o b).content_length \in Nat,
           After(a \o b).parsing_complete => Exact(After(a \o b))
    PROVE  Len(a \o b) = Len(a)
  <1> DEFINE ab == a \o b
             h == HeadersEnd(a) + 1
             len == LengthIn(a)
             r == RequestIn(a)
             d == CompleteIn(a, h, len, r)
             e == CompleteIn(ab, h, len, r)
  <1>1. /\ ab \in Texts /\ Len(a) \in Nat /\ Len(b) \in Nat /\ Len(ab) = Len(a) + Len(b)
    BY Concatenation
  <1>2. HasHeaders(a)
    BY OnlyWithHeaders
  <1>3. After(a) = Received(Waits(a)) /\ After(ab) = Received(Waits(ab))
    BY <1>1, AfterText
  <1>4. After(a) = Reads(a, h, len, r, d)
    BY <1>2, <1>3, FirstReceived
  <1>5. /\ HasHeaders(ab) /\ HeadersEnd(ab) + 1 = h /\ LengthIn(ab) = len /\ RequestIn(ab) = r
        /\ h \in Nat /\ h <= Len(a)
    <2>1. /\ HasHeaders(ab) /\ HeadersEnd(ab) = HeadersEnd(a) /\ Lines(ab) = Lines(a)
          /\ HeadersEnd(a) \in Nat /\ HeadersEnd(a) + 1 <= Len(a)
      BY <1>2, HeadersStay
    <2>2. h \in Nat
      BY <2>1
    <2> QED  BY <2>1, <2>2, Zenon DEF LengthIn, RequestIn
  <1>6. After(ab) = Reads(ab, h, len, r, e)
    <2>1. Received(Waits(ab)) = Reads(ab, HeadersEnd(ab) + 1, LengthIn(ab), RequestIn(ab),
              CompleteIn(ab, HeadersEnd(ab) + 1, LengthIn(ab), RequestIn(ab)))
      BY <1>5, FirstReceived
    <2> QED  BY <1>3, <1>5, <2>1, Zenon
  <1> HIDE DEF ab, h, len, r, d, e
  <1>7. After(a).parsing_complete = d
    BY <1>4 DEF Reads
  <1>8. /\ After(ab).parsing_complete = e /\ After(ab).content_length = len
        /\ After(ab).request = r /\ After(ab).msgs = ab /\ After(ab).headers_end = h
    BY <1>6 DEF Reads
  <1>9. len \in Nat
    BY <1>8 DEF ab
  <1>10. /\ r.result # "PARSE_ERR"
         /\ r.method = <<"GET">> \/ (r.method = <<"POST">> /\ Len(a) - h >= len)
    BY <1>7 DEF d, CompleteIn, BodyIn
  <1>11. e
    BY <1>1, <1>5, <1>9, <1>10 DEF e, CompleteIn, BodyIn
  <1>12. Len(ab) = h + (IF r.method = <<"GET">> THEN 0 ELSE len)
    <2>1. Exact(After(ab))
      BY <1>8, <1>11 DEF ab
    <2> QED  BY <1>8, <2>1 DEF Exact
  <1>13. Len(ab) <= Len(a)
    BY <1>1, <1>5, <1>9, <1>10, <1>12
  <1> QED  BY <1>1, <1>13 DEF ab

-----------------------------------------------------------------------------
(* From the socket to the parser                                            *)

(* The number of pieces that the server has read.                           *)
PiecesRead(k) == Len(k.request.pieces) - k.unsent - k.unread

(* Of an accepted client that is still there, the parser has exactly the    *)
(* bytes that were read, unless it was refused; it is dispatched with the   *)
(* last one.                                                                *)
Heard(c) ==
    \/ /\ conn[c].handled > 0
       /\ sock[c].unsent = 0 /\ sock[c].unread = 0
       /\ conn[c].http = After(FlattenSeq(sock[c].request.pieces))
       /\ conn[c].http.parsing_complete
    \/ conn[c].handled = 0 /\ quit_request
    \/ conn[c].handled = 0 /\ HasRead(conn[c].http) /\ is_bad_request(conn[c].http)
    \/ /\ conn[c].handled = 0
       /\ conn[c].http = After(Text(sock[c].request.pieces, PiecesRead(sock[c])))
       /\ ~conn[c].http.parsing_complete /\ ~is_bad_request(conn[c].http)

Delivered(c) ==
    sock[c].link = "open" =>
        /\ sock[c].request \in Requests[c]
        /\ c \in connections => Heard(c)
        /\ c \notin connections => PiecesRead(sock[c]) = 0
        /\ "POLLIN" \in revents[c] => sock[c].unread > 0

(* The argument of the next lemmas: what is not touched stays delivered.    *)
LEMMA SameDelivery ==
    ASSUME NEW c \in Clients, Delivered(c), sock'[c] = sock[c],
           conn'[c].http = conn[c].http, conn'[c].handled = conn[c].handled,
           c \in connections' <=> c \in connections, quit_request => quit_request',
           sock[c].link = "open" /\ "POLLIN" \in revents'[c] =>
               "POLLIN" \in revents[c] \/ sock[c].unread > 0
    PROVE  Delivered(c)'
  <1>1. Heard(c) => Heard(c)'
    BY DEF Heard
  <1> QED  BY <1>1 DEF Delivered

DeliveryInv == \A c \in Clients : Delivered(c)

(* A new parser has got nothing, and says nothing yet.                      *)
LEMMA NothingRead ==
    After(<<>>) = NewParser /\ ~NewParser.parsing_complete /\ ~is_bad_request(NewParser)
  <1>1. <<>> \in Texts
    BY Concatenation
  <1>2. ~HasHeaders(<<>>)
    BY DEF HasHeaders, HeaderEnds
  <1>3. After(<<>>) = Waits(<<>>)
    BY <1>1, <1>2, AfterText, FirstReceived
  <1>4. NewParser = Waits(<<>>)
    BY DEF NewParser, Waits
  <1>5. ~NewParser.parsing_complete /\ NewParser.request.result # "PARSE_ERR"
    BY DEF NewParser, NoRequest
  <1> QED  BY <1>3, <1>4, <1>5 DEF is_bad_request

(* What the parser and the handler make of the bytes of an open socket that *)
(* they had heard of so far.                                                *)
LEMMA Listened ==
    ASSUME ServerInv, ProperRequests, NEW c \in Clients, sock[c].request \in Requests[c],
           sock[c].unread > 0,
           conn[c].http = After(Text(sock[c].request.pieces, PiecesRead(sock[c]))),
           ~conn[c].http.parsing_complete, ~is_bad_request(conn[c].http),
           NEW k, Connection(k), k.http = conn[c].http, k.handled = 0,
           k.data_in = Unread(sock[c])
    PROVE  LET w == Dispatch(ParserWrite(k))
               sent == Len(sock[c].request.pieces) - sock[c].unsent
           IN  /\ w.http = After(Text(sock[c].request.pieces, sent))
               /\ \/ /\ w.handled > 0 /\ sock[c].unsent = 0 /\ w.http.parsing_complete
                     /\ w.http = After(FlattenSeq(sock[c].request.pieces))
                  \/ w.handled = 0 /\ HasRead(w.http) /\ is_bad_request(w.http)
                  \/ w.handled = 0 /\ ~w.http.parsing_complete /\ ~is_bad_request(w.http)
  <1> DEFINE r == sock[c].request
             s == r.pieces
             sent == Len(s) - sock[c].unsent
             n == PiecesRead(sock[c])
             w == Dispatch(ParserWrite(k))
             a == Text(s, n)
             u == Unread(sock[c])
             t == Text(s, sent)
  <1>1. /\ s \in Seq(Texts) /\ Len(s) \in Nat /\ sock[c].unsent \in Nat /\ sock[c].unread \in Nat
        /\ sock[c].unsent + sock[c].unread <= Len(s)
    BY SocketFields DEF Texts
  <1>2. n \in 0..Len(s) /\ sent \in n..Len(s) /\ n = sent - sock[c].unread /\ sent \in 0..Len(s)
    <2> DEFINE len == Len(s)
               f == sock[c].unsent
               g == sock[c].unread
    <2>1. n = len - f - g /\ sent = len - f
      BY DEF PiecesRead
    <2>2. len \in Nat /\ f \in Nat /\ g \in Nat /\ f + g <= len
      BY <1>1
    <2> HIDE DEF len, f, g, n, sent
    <2>3. n \in 0..len /\ sent \in n..len /\ n = sent - g /\ sent \in 0..len
      BY <2>1, <2>2
    <2> QED  BY <2>3 DEF len, g
  <1>3. u = FlattenSeq(SubSeq(s, n + 1, sent))
    <2>1. u = FlattenSeq(SubSeq(s, sent - sock[c].unread + 1, sent))
      BY DEF Unread
    <2> QED  BY <1>2, <2>1, Zenon
  <1> HIDE DEF s, n, sent
  <1>4. a \in Texts /\ t \in Texts /\ u \in Texts /\ a \o u = t
    BY <1>1, <1>2, <1>3, TextGrows
  <1>5. conn[c].http = After(a)
    BY DEF a, s, n
  <1> HIDE DEF a, u, t
  <1>6. Written(After(a), u) = After(t)
    BY <1>4, <1>5, CutAnywhere
  <1>7. /\ Connection(ParserWrite(k)) /\ ParserWrite(k).http = After(t)
        /\ ParserWrite(k).handled = 0
    <2>1. k.http = After(a) /\ k.data_in = u
      BY <1>5 DEF u
    <2> QED  BY <1>6, <2>1, ParserWritten
  <1>8. /\ w.http = After(t)
        /\ w.handled = IF ~is_bad_request(After(t)) /\ After(t).parsing_complete THEN 1 ELSE 0
    <2> DEFINE v == ParserWrite(k)
    <2> HIDE DEF v
    <2>1. Connection(v) /\ v.http = After(t) /\ v.handled = 0
      BY <1>7 DEF v
    <2>2. /\ Dispatch(v).http = v.http
          /\ Dispatch(v).handled = IF ~is_bad_request(v.http) /\ v.http.parsing_complete
                                     THEN v.handled + 1 ELSE v.handled
      BY <2>1, Dispatched
    <2> QED  BY <2>1, <2>2 DEF v
  <1> HIDE DEF w
  <1>9. CASE is_bad_request(After(t))
    <2>1. HasRead(After(t))
      BY <1>4, <1>9, OnlyWithHeaders
    <2>2. w.handled = 0
      BY <1>8, <1>9
    <2> QED  BY <1>8, <1>9, <2>1, <2>2 DEF w, t, sent, s
  <1>10. CASE ~is_bad_request(After(t)) /\ ~After(t).parsing_complete
    <2>1. w.handled = 0
      BY <1>8, <1>10
    <2> QED  BY <1>8, <1>10, <2>1 DEF w, t, sent, s
  <1>11. CASE ~is_bad_request(After(t)) /\ After(t).parsing_complete
    <2> DEFINE all == FlattenSeq(s)
               rest == FlattenSeq(SubSeq(s, sent + 1, Len(s)))
    <2>1. w.handled = 1
      BY <1>8, <1>11
    <2>2. all = Text(s, Len(s))
      BY <1>1, TextEnds
    <2>3. rest \in Texts /\ t \o rest = all
      <3>1. sent \in 0..Len(s) /\ Len(s) \in sent..Len(s)
        BY <1>1, <1>2
      <3>2. rest \in Texts /\ Text(s, sent) \o rest = Text(s, Len(s))
        BY <1>1, <3>1, TextGrows
      <3> QED  BY <2>2, <3>2 DEF t
    <2>4. /\ \A i \in 1..Len(s) : s[i] # <<>>
          /\ After(all).content_length \in Nat
          /\ After(all).parsing_complete => Exact(After(all))
      <3>1. /\ \A i \in DOMAIN s : s[i] # <<>>
            /\ After(all).content_length \in Nat
            /\ After(all).parsing_complete => Exact(After(all))
        BY DEF ProperRequests, s
      <3>2. DOMAIN s = 1..Len(s)
        BY <1>1
      <3> QED  BY <3>1, <3>2
    <2> HIDE DEF all, rest
    <2>5. Len(all) = Len(t)
      BY <1>4, <1>11, <2>3, <2>4, NothingBehind
    <2>6. sent = Len(s)
      <3>1. CASE sent < Len(s)
        <4>1. Len(s) \in 0..Len(s)
          BY <1>1
        <4>2. Len(Text(s, sent)) < Len(Text(s, Len(s)))
          BY <1>1, <1>2, <2>4, <3>1, <4>1, MorePieces
        <4>3. Len(t) < Len(all) /\ Len(t) \in Nat
          BY <1>4, <2>2, <4>2, Concatenation DEF t
        <4> QED  BY <2>5, <4>3
      <3> QED  BY <1>1, <1>2, <3>1
    <2>7. sock[c].unsent = 0
      BY <1>1, <2>6 DEF sent
    <2>8. t = all
      BY <2>2, <2>6 DEF t
    <2>9. w.http = After(all) /\ w.http.parsing_complete
      BY <1>8, <1>11, <2>8
    <2>10. w.handled > 0
      BY <2>1
    <2> QED  BY <1>8, <2>7, <2>9, <2>10 DEF w, t, sent, s, all
  <1> QED  BY <1>9, <1>10, <1>11

(* No client is there at the beginning.                                     *)
LEMMA InitDelivery == Init => DeliveryInv
  <1> SUFFICES ASSUME Init, NEW c \in Clients  PROVE Delivered(c)
    BY DEF DeliveryInv
  <1>1. sock[c] = Idle("none")
    BY DEF Init
  <1>2. sock[c].link # "open"
    BY <1>1, IdleSockets
  <1> QED  BY <1>2 DEF Delivered

(* A client that connects has sent nothing.                                 *)
LEMMA ConnectDelivery ==
    ASSUME ServerInv, DeliveryInv, NEW c \in Clients, Connect(c)  PROVE DeliveryInv'
  <1>1. PICK r \in Requests[c] :
          sock' = [sock EXCEPT ![c] = [link |-> "open", request |-> r,
                                       unsent |-> Len(r.pieces), unread |-> 0]]
    BY DEF Connect
  <1>2. /\ sock'[c].request = r /\ sock'[c].unsent = Len(r.pieces) /\ sock'[c].unread = 0
        /\ \A x \in Clients : x # c => sock'[x] = sock[x]
    BY <1>1, SocketFields
  <1>3. UNCHANGED <<conn, connections, revents, quit_request>>
    BY DEF Connect
  <1>4. c \notin connections /\ revents[c] = {}
    BY DEF Connect, ServerInv, Waiting
  <1>5. Len(r.pieces) \in Nat
    BY TcpAssumption DEF TcpAssumption
  <1>6. PiecesRead(sock'[c]) = 0
    BY <1>2, <1>5 DEF PiecesRead
  <1>7. Delivered(c)'
    <2>1. "POLLIN" \notin revents'[c] /\ c \notin connections'
      BY <1>3, <1>4
    <2> QED  BY <1>2, <1>6, <2>1 DEF Delivered
  <1>8. ASSUME NEW x \in Clients, x # c  PROVE Delivered(x)'
    BY <1>2, <1>3, <1>8, SameDelivery DEF DeliveryInv
  <1> QED  BY <1>7, <1>8 DEF DeliveryInv

(* Sending moves pieces into the receive buffer, and only there.            *)
LEMMA SendDelivery ==
    ASSUME ServerInv, DeliveryInv, NEW c \in Clients, Send(c)  PROVE DeliveryInv'
  <1>1. PICK n \in 1..sock[c].unsent :
          sock' = [sock EXCEPT ![c].unsent = @ - n, ![c].unread = @ + n]
    BY DEF Send
  <1>2. /\ sock'[c].request = sock[c].request /\ sock'[c].unsent = sock[c].unsent - n
        /\ sock'[c].unread = sock[c].unread + n
        /\ \A x \in Clients : x # c => sock'[x] = sock[x]
    <2> DEFINE h == [sock[c] EXCEPT !.unsent = @ - n]
               g == [h EXCEPT !.unread = @ + n]
               s == [sock EXCEPT ![c] = h]
    <2>1. /\ Socket(h) /\ h.unsent = sock[c].unsent - n /\ h.unread = sock[c].unread
          /\ h.request = sock[c].request
      BY SocketFields DEF Socket
    <2>2. s = [sock EXCEPT ![c].unsent = @ - n]
      BY SocketFields
    <2>3. sock' = [s EXCEPT ![c].unread = @ + n]
      BY <1>1, <2>2
    <2>4. s[c] = h /\ s = [x \in Clients |-> s[x]] /\ \A x \in Clients : x # c => s[x] = sock[x]
      BY SocketFields
    <2> HIDE DEF h, s
    <2>5. sock'[c] = g /\ \A x \in Clients : x # c => sock'[x] = s[x]
      BY <2>3, <2>4
    <2>6. g.unsent = h.unsent /\ g.unread = h.unread + n /\ g.request = h.request
      BY <2>1 DEF Socket
    <2> HIDE DEF g
    <2> QED  BY <2>1, <2>4, <2>5, <2>6
  <1>3. UNCHANGED <<conn, connections, revents, quit_request>>
    BY DEF Send, ClientVars
  <1>4. /\ sock[c].unsent \in Nat /\ sock[c].unread \in Nat
        /\ Len(sock[c].request.pieces) \in Nat
    BY SocketFields
  <1>5. PiecesRead(sock'[c]) = PiecesRead(sock[c])
    BY <1>2, <1>4 DEF PiecesRead
  <1>6. sock[c].unsent # 0 /\ (sock[c].unread > 0 => sock'[c].unread > 0)
    BY <1>2, <1>4
  <1>7. Delivered(c)'
    <2>1. Delivered(c) /\ sock[c].link = "open"
      BY DEF DeliveryInv, Send
    <2>2. Heard(c) => Heard(c)'
      BY <1>2, <1>3, <1>5, <1>6 DEF Heard
    <2> QED  BY <1>2, <1>3, <1>5, <1>6, <2>1, <2>2 DEF Delivered
  <1>8. ASSUME NEW x \in Clients, x # c  PROVE Delivered(x)'
    BY <1>2, <1>3, <1>8, SameDelivery DEF DeliveryInv
  <1> QED  BY <1>7, <1>8 DEF DeliveryInv

(* Nothing is said of a client that leaves.                                 *)
LEMMA LeaveDelivery ==
    ASSUME ServerInv, DeliveryInv, NEW c \in Clients, Leave(c)  PROVE DeliveryInv'
  <1>1. UNCHANGED <<conn, connections, revents, quit_request>>
    BY DEF Leave, ClientVars
  <1>2. sock'[c].link # "open" /\ \A x \in Clients : x # c => sock'[x] = sock[x]
    <2> DEFINE f(l) == [sock EXCEPT ![c].link = l]
    <2>1. \E l \in {"shut", "reset"} :
            \/ sock' = [sock EXCEPT ![c].link = l, ![c].unsent = 0]
            \/ sock' = [sock EXCEPT ![c].link = l, ![c].unsent = 0, ![c].unread = 0]
      BY DEF Leave
    <2>2. PICK l \in {"shut", "reset"} :
            \/ sock' = [f(l) EXCEPT ![c].unsent = 0]
            \/ sock' = [f(l) EXCEPT ![c].unsent = 0, ![c].unread = 0]
      BY <2>1
    <2> DEFINE s == f(l)
               h == [s EXCEPT ![c].unsent = 0]
    <2>3. /\ Socket(s[c]) /\ s[c].link = l
          /\ \A x \in Clients : x # c => s[x] = sock[x]
          /\ s = [x \in Clients |-> s[x]]
      BY SocketFields DEF Socket
    <2>4. sock' = h \/ sock' = [h EXCEPT ![c].unread = 0]
      BY <2>2
    <2> HIDE DEF s
    <2>5. /\ Socket(h[c]) /\ h[c].link = l
          /\ \A x \in Clients : x # c => h[x] = sock[x]
          /\ h = [x \in Clients |-> h[x]]
      BY <2>3 DEF Socket
    <2> HIDE DEF h
    <2>6. [h EXCEPT ![c].unread = 0][c].link = l
      BY <2>5 DEF Socket
    <2>7. \A x \in Clients : x # c => [h EXCEPT ![c].unread = 0][x] = sock[x]
      BY <2>5
    <2> QED  BY <2>4, <2>5, <2>6, <2>7
  <1>3. Delivered(c)'
    BY <1>2 DEF Delivered
  <1>4. ASSUME NEW x \in Clients, x # c  PROVE Delivered(x)'
    BY <1>1, <1>2, <1>4, SameDelivery DEF DeliveryInv
  <1> QED  BY <1>3, <1>4 DEF DeliveryInv

(* Time and a first signal change nothing that matters here; the second     *)
(* closes all sockets.                                                      *)
LEMMA QuietDelivery ==
    ASSUME ServerInv, DeliveryInv, FirstSignal \/ SecondSignal \/ Tick \/ UNCHANGED vars
    PROVE  DeliveryInv'
  <1>1. CASE FirstSignal \/ UNCHANGED vars
    <2>1. UNCHANGED <<sock, conn, connections, revents, quit_request>>
      BY <1>1 DEF FirstSignal, vars
    <2> QED  BY <2>1, SameDelivery DEF DeliveryInv
  <1>2. CASE SecondSignal
    <2>1. \A c \in Clients : sock'[c] = Idle("closed")
      BY <1>2 DEF SecondSignal
    <2>2. \A c \in Clients : sock'[c].link # "open"
      BY <2>1, IdleSockets
    <2> QED  BY <2>2 DEF Delivered, DeliveryInv
  <1>3. CASE Tick
    <2>1. UNCHANGED <<sock, connections, revents, quit_request>>
      BY <1>3 DEF Tick
    <2>2. ASSUME NEW x \in Clients
          PROVE  conn'[x].http = conn[x].http /\ conn'[x].handled = conn[x].handled
      <3> DEFINE g == [conn[x] EXCEPT !.age = Later(@, MAX_LIFETIME_SEC),
                                      !.idle = Later(@, MAX_IDLE_SEC)]
      <3>1. conn'[x] = g \/ conn'[x] = conn[x]
        BY <1>3 DEF Tick
      <3>2. g.http = conn[x].http /\ g.handled = conn[x].handled
        BY ConnectionFields, Aged
      <3> HIDE DEF g
      <3> QED  BY <3>1, <3>2
    <2> QED  BY <2>1, <2>2, SameDelivery DEF DeliveryInv
  <1> QED  BY <1>1, <1>2, <1>3

(* poll() reports input of an open socket only where there is some.         *)
LEMMA PollDelivery ==
    ASSUME ServerInv, DeliveryInv, PollEvents  PROVE DeliveryInv'
  <1>1. UNCHANGED <<sock, connections, quit_request>> /\ conn' = CloseExpired
    BY DEF PollEvents
  <1>2. ASSUME NEW x \in Clients
        PROVE  conn'[x].http = conn[x].http /\ conn'[x].handled = conn[x].handled
    BY <1>1, ConnectionFields, ClosedExpired
  <1>3. ASSUME NEW x \in Clients, sock[x].link = "open", "POLLIN" \in revents'[x]
        PROVE  sock[x].unread > 0
    <2>1. "POLLIN" \in Events(x)
      BY <1>3 DEF PollEvents
    <2> QED  BY <1>3, <2>1 DEF Events
  <1> QED  BY <1>1, <1>2, <1>3, SameDelivery DEF DeliveryInv

(* The end of a round closes the sockets of the connections that it         *)
(* deletes; a client that is accepted has not been heard yet.               *)
LEMMA EndDelivery ==
    ASSUME ServerInv, DeliveryInv, revents = NoEvents,
           NEW conns \in SUBSET Clients, NEW k, EndRound(conns, k),
           connections \subseteq conns,
           \A c \in connections : /\ k[c].http = conn[c].http
                                  /\ k[c].handled = conn[c].handled,
           \A c \in conns \ connections : k[c] = NewConnection(TRUE)
    PROVE  DeliveryInv'
  <1> SUFFICES ASSUME NEW c \in Clients  PROVE Delivered(c)'
    BY DEF DeliveryInv
  <1> DEFINE left == {x \in conns : is_alive(k[x])}
             gone == conns \ left
  <1>1. /\ connections' = left
        /\ conn'[c] = IF c \in left THEN k[c] ELSE NewConnection(FALSE)
        /\ sock'[c] = IF c \in gone THEN Idle("closed") ELSE sock[c]
        /\ quit_request => quit_request'
        /\ revents'[c] = {}
    BY DEF EndRound, NoEvents
  <1>2. left \subseteq conns
    OBVIOUS
  <1> HIDE DEF left
  <1>3. CASE c \in gone
    <2>1. sock'[c].link # "open"
      BY <1>1, <1>3, IdleSockets
    <2> QED  BY <2>1 DEF Delivered
  <1>4. CASE c \notin conns
    <2>1. sock'[c] = sock[c] /\ c \notin connections' /\ c \notin connections
      BY <1>1, <1>2, <1>4
    <2> QED  BY <1>1, <2>1 DEF Delivered, DeliveryInv
  <1>5. CASE c \in left /\ c \in connections
    <2>1. /\ sock'[c] = sock[c] /\ conn'[c].http = conn[c].http
          /\ conn'[c].handled = conn[c].handled /\ c \in connections'
      BY <1>1, <1>5
    <2> QED  BY <1>1, <1>5, <2>1, SameDelivery DEF DeliveryInv
  <1>6. CASE c \in left /\ c \notin connections
    <2>1. /\ sock'[c] = sock[c] /\ c \in connections'
          /\ conn'[c].http = NewParser /\ conn'[c].handled = 0
      <3>1. conn'[c] = NewConnection(TRUE) /\ sock'[c] = sock[c] /\ c \in connections'
        BY <1>1, <1>2, <1>6
      <3>2. NewConnection(TRUE).http = NewParser /\ NewConnection(TRUE).handled = 0
        BY NewConnections
      <3> QED  BY <3>1, <3>2
    <2>2. ASSUME sock[c].link = "open"
          PROVE  sock[c].request \in Requests[c] /\ PiecesRead(sock[c]) = 0
      BY <1>6, <2>2 DEF DeliveryInv, Delivered
    <2>3. Text(sock[c].request.pieces, 0) = <<>>
      <3>1. sock[c].request.pieces \in Seq(Texts)
        BY SocketFields DEF Texts
      <3> QED  BY <3>1, TextEnds
    <2>4. ASSUME sock[c].link = "open"  PROVE Heard(c)'
      <3>1. conn'[c].http = After(Text(sock'[c].request.pieces, PiecesRead(sock'[c])))
        BY <2>1, <2>2, <2>3, <2>4, NothingRead
      <3>2. ~conn'[c].http.parsing_complete /\ ~is_bad_request(conn'[c].http)
        BY <2>1, NothingRead
      <3> QED  BY <2>1, <3>1, <3>2 DEF Heard
    <2> QED  BY <1>1, <2>1, <2>2, <2>4 DEF Delivered
  <1> QED  BY <1>3, <1>4, <1>5, <1>6

(* Rounds without an event, and rounds that are over.                       *)
LEMMA RoundDelivery ==
    ASSUME ServerInv, DeliveryInv, PollNothing \/ AcceptNobody \/ \E c \in Clients : Accept(c)
    PROVE  DeliveryInv'
  <1>1. CASE PollNothing
    <2>1. revents = NoEvents
      BY <1>1 DEF PollNothing, ServerInv, Waiting, TypeOK, NoEvents
    <2>2. \A c \in connections : /\ CloseExpired[c].http = conn[c].http
                                 /\ CloseExpired[c].handled = conn[c].handled
      BY ConnectionFields, ClosedExpired DEF ServerInv, TypeOK
    <2>3. connections \in SUBSET Clients /\ EndRound(connections, CloseExpired)
      BY <1>1 DEF PollNothing, ServerInv, TypeOK
    <2> DEFINE k == CloseExpired
    <2> HIDE DEF k
    <2>4. /\ \A c \in connections : /\ k[c].http = conn[c].http
                                    /\ k[c].handled = conn[c].handled
          /\ EndRound(connections, k)
      BY <2>2, <2>3 DEF k
    <2> QED  BY <2>1, <2>3, <2>4, EndDelivery
  <1>2. CASE AcceptNobody
    <2>1. /\ revents = NoEvents /\ connections \in SUBSET Clients
          /\ EndRound(connections, conn)
      BY <1>2 DEF AcceptNobody, ServerInv, TypeOK
    <2> QED  BY <2>1, EndDelivery
  <1>3. ASSUME NEW c \in Clients, Accept(c)  PROVE DeliveryInv'
    <2> DEFINE k == [conn EXCEPT ![c] = NewConnection(TRUE)]
               conns == connections \union {c}
    <2>1. revents = NoEvents /\ conns \in SUBSET Clients /\ c \notin connections
      BY <1>3 DEF Accept, ServerInv, TypeOK
    <2>2. EndRound(conns, k)
      BY <1>3 DEF Accept
    <2>3. k[c] = NewConnection(TRUE) /\ \A x \in Clients : x # c => k[x] = conn[x]
      BY ConnectionFields
    <2>4. /\ connections \subseteq conns
          /\ \A x \in connections : k[x].http = conn[x].http /\ k[x].handled = conn[x].handled
          /\ \A x \in conns \ connections : k[x] = NewConnection(TRUE)
      <3> HIDE DEF k
      <3> QED  BY <2>1, <2>3
    <2> HIDE DEF k, conns
    <2> QED  BY <2>1, <2>2, <2>4, EndDelivery
  <1> QED  BY <1>1, <1>2, <1>3

(* A connection is served: the input that poll() saw is still there, since  *)
(* only the server reads it.                                                *)
LEMMA ServeDelivery ==
    ASSUME ServerInv, ProperRequests, DeliveryInv, NEW c \in Clients, Serve(c)
    PROVE  DeliveryInv'
  <1>1. /\ revents'[c] = {} /\ \A x \in Clients : x # c => revents'[x] = revents[x]
        /\ connections' = connections /\ c \in connections
    BY DEF Serve, HangUp, ReadAndWrite, ServerInv, Waiting, TypeOK
  <1>2. Connection(conn[c]) /\ conn = [x \in Clients |-> conn[x]]
    BY ConnectionFields
  <1>3. CASE HangUp(c)
    <2>1. UNCHANGED <<sock, quit_request>>
      BY <1>3 DEF HangUp
    <2>2. \A x \in Clients : conn'[x].http = conn[x].http /\ conn'[x].handled = conn[x].handled
      <3> DEFINE s == [conn EXCEPT ![c].alive = FALSE]
      <3>1. conn' = [s EXCEPT ![c].data_out = 0]
        BY <1>3 DEF HangUp
      <3>2. /\ Connection(s[c]) /\ s = [x \in Clients |-> s[x]]
            /\ s[c].http = conn[c].http /\ s[c].handled = conn[c].handled
            /\ \A x \in Clients : x # c => s[x] = conn[x]
        BY <1>2 DEF Connection
      <3> HIDE DEF s
      <3>3. /\ conn'[c].http = s[c].http /\ conn'[c].handled = s[c].handled
            /\ \A x \in Clients : x # c => conn'[x] = s[x]
        BY <3>1, <3>2 DEF Connection
      <3> QED  BY <3>2, <3>3
    <2>3. \A x \in Clients : "POLLIN" \in revents'[x] => "POLLIN" \in revents[x]
      BY <1>1
    <2> QED  BY <1>1, <2>1, <2>2, <2>3, SameDelivery DEF DeliveryInv
  <1>4. CASE ReadAndWrite(c)
    <2>1. PICK k \in IF "POLLIN" \in revents[c] THEN Input(c) ELSE {conn[c]} :
            /\ sock' = IF "POLLIN" \in revents[c] THEN [sock EXCEPT ![c].unread = 0] ELSE sock
            /\ quit_request => quit_request'
            /\ \/ \E ok \in BOOLEAN : conn' = [conn EXCEPT ![c] = network_write(k, ok)]
               \/ conn' = [conn EXCEPT ![c] = k]
      BY <1>4 DEF ReadAndWrite
    <2> DEFINE n == network_read(c)
    <2>2. Connection(n) /\ n.http = conn[c].http /\ n.handled = conn[c].handled
      BY <1>2, NetworkRead
    <2>3. "POLLIN" \in revents[c] => k \in on_data(n)
      BY <2>1 DEF Input
    <2>4. sock[c].unread > 0 => n.data_in = Unread(sock[c])
      BY <1>2, NetworkRead
    <2> HIDE DEF n
    <2>5. Connection(k)
      BY <1>2, <2>1, <2>2, <2>3, OnData
    <2>6. /\ conn'[c].http = k.http /\ conn'[c].handled = k.handled
          /\ \A x \in Clients : x # c => conn'[x] = conn[x]
      <3>1. CASE conn' = [conn EXCEPT ![c] = k]
        BY <1>2, <3>1
      <3>2. ASSUME NEW ok \in BOOLEAN, conn' = [conn EXCEPT ![c] = network_write(k, ok)]
            PROVE  /\ conn'[c].http = k.http /\ conn'[c].handled = k.handled
                   /\ \A x \in Clients : x # c => conn'[x] = conn[x]
        <4> DEFINE w == network_write(k, ok)
        <4>1. w.http = k.http /\ w.handled = k.handled
          BY <2>5, NetworkWritten
        <4>2. conn' = [conn EXCEPT ![c] = w]
          BY <3>2
        <4> HIDE DEF w
        <4> QED  BY <1>2, <4>1, <4>2
      <3> QED  BY <2>1, <3>1, <3>2
    <2>7. ASSUME NEW x \in Clients, x # c  PROVE Delivered(x)'
      <3>1. sock'[x] = sock[x]
        BY <2>1, <2>7, SocketFields
      <3> QED  BY <1>1, <2>1, <2>6, <2>7, <3>1, SameDelivery DEF DeliveryInv
    <2>8. CASE "POLLIN" \notin revents[c]
      <3>1. k = conn[c] /\ sock' = sock
        BY <2>1, <2>8
      <3>2. Delivered(c)'
        BY <1>1, <2>1, <2>6, <3>1, SameDelivery DEF DeliveryInv
      <3> QED  BY <2>7, <3>2 DEF DeliveryInv
    <2>9. CASE "POLLIN" \in revents[c]
      <3>1. /\ sock'[c].request = sock[c].request /\ sock'[c].link = sock[c].link
            /\ sock'[c].unsent = sock[c].unsent /\ sock'[c].unread = 0
        <4>1. sock' = [sock EXCEPT ![c].unread = 0]
          BY <2>1, <2>9
        <4> QED  BY <4>1, SocketFields DEF Socket
      <3>2. ASSUME sock[c].link = "open"  PROVE Heard(c)'
        <4>1. Heard(c) /\ sock[c].unread > 0 /\ sock[c].request \in Requests[c]
          BY <1>1, <2>9, <3>2 DEF DeliveryInv, Delivered
        <4>2. conn[c].handled = 0
          BY <4>1 DEF Heard
        <4>3. CASE quit_request
          <5>1. k = Answer(n)
            BY <2>3, <2>9, <4>3 DEF on_data
          <5>2. k.handled = 0
            BY <2>2, <4>2, <5>1, Answered
          <5> QED  BY <2>1, <2>6, <4>3, <5>2 DEF Heard
        <4>4. CASE ~quit_request
          <5>1. k = Dispatch(ParserWrite(n))
            BY <2>3, <2>9, <4>4 DEF on_data
          <5>2. CASE HasRead(conn[c].http) /\ is_bad_request(conn[c].http)
            <6> DEFINE v == ParserWrite(n)
                       p == Written(n.http, n.data_in)
            <6>1. Connection(v) /\ v.http = p /\ v.handled = 0
              BY <2>2, <4>2, ParserWritten
            <6>2. HasRead(p) /\ is_bad_request(p)
              BY <2>2, <5>2, BadStays
            <6> HIDE DEF v, p
            <6>3. Dispatch(v).http = p /\ Dispatch(v).handled = 0
              BY <6>1, <6>2, Dispatched
            <6>4. k.http = p /\ k.handled = 0
              BY <5>1, <6>3 DEF v
            <6> QED  BY <2>6, <6>2, <6>4 DEF Heard
          <5>3. CASE /\ conn[c].http = After(Text(sock[c].request.pieces, PiecesRead(sock[c])))
                     /\ ~conn[c].http.parsing_complete /\ ~is_bad_request(conn[c].http)
            <6> DEFINE sent == Len(sock[c].request.pieces) - sock[c].unsent
            <6>1. n.http = conn[c].http /\ n.handled = 0 /\ n.data_in = Unread(sock[c])
              BY <2>2, <2>4, <4>1, <4>2
            <6>2. /\ k.http = After(Text(sock[c].request.pieces, sent))
                  /\ \/ /\ k.handled > 0 /\ sock[c].unsent = 0 /\ k.http.parsing_complete
                        /\ k.http = After(FlattenSeq(sock[c].request.pieces))
                     \/ k.handled = 0 /\ HasRead(k.http) /\ is_bad_request(k.http)
                     \/ k.handled = 0 /\ ~k.http.parsing_complete /\ ~is_bad_request(k.http)
              BY <2>2, <4>1, <5>1, <5>3, <6>1, Listened
            <6>3. sent = PiecesRead(sock'[c])
              <7>1. Len(sock[c].request.pieces) \in Nat /\ sock[c].unsent \in Nat
                BY SocketFields
              <7> QED  BY <3>1, <7>1 DEF PiecesRead
            <6> HIDE DEF sent
            <6> QED  BY <2>6, <3>1, <6>2, <6>3 DEF Heard
          <5> QED  BY <4>1, <4>2, <4>4, <5>2, <5>3 DEF Heard
        <4> QED  BY <4>3, <4>4
      <3>3. Delivered(c)'
        <4>1. sock[c].link = "open" => sock[c].request \in Requests[c]
          BY DEF DeliveryInv, Delivered
        <4> QED  BY <1>1, <3>1, <3>2, <4>1 DEF Delivered
      <3> QED  BY <2>7, <3>3 DEF DeliveryInv
    <2> QED  BY <2>8, <2>9
  <1> QED  BY <1>3, <1>4 DEF Serve

(* The invariant is inductive, beside the first one.                        *)
LEMMA DeliverySteps ==
    ASSUME ProperRequests, ServerInv, DeliveryInv, [Next]_vars  PROVE DeliveryInv'
  <1>1. CASE ServerStep
    BY <1>1, PollDelivery, RoundDelivery, ServeDelivery DEF ServerStep
  <1>2. CASE \E c \in Clients : Connect(c) \/ Send(c) \/ Leave(c)
    BY <1>2, ConnectDelivery, SendDelivery, LeaveDelivery
  <1>3. CASE FirstSignal \/ SecondSignal \/ Tick \/ UNCHANGED vars
    BY <1>3, QuietDelivery
  <1> QED  BY <1>1, <1>2, <1>3 DEF Next

(***************************************************************************)
(* However the clients cut their requests, however slowly they send the     *)
(* pieces and whatever the server does for others meanwhile: a request that *)
(* on_data() dispatches has arrived to its last byte, and the handler gets  *)
(* the method, the path, the parameters and the body of the whole.          *)
(***************************************************************************)
THEOREM DispatchedRequestsAreWhole ==
    ASSUME ProperRequests  PROVE Spec => []DispatchedAsSent
  <1>1. ServerInv /\ DeliveryInv => DispatchedAsSent
    <2> SUFFICES ASSUME ServerInv, DeliveryInv, NEW c \in connections,
                        conn[c].handled > 0, sock[c].link = "open"
                 PROVE  LET got == conn[c].http.request
                            sent == sock[c].request
                        IN /\ sock[c].unsent = 0 /\ sock[c].unread = 0
                           /\ got.method = sent.method /\ got.path = sent.path
                           /\ got.params = sent.params
                           /\ get_body(conn[c].http) = sent.body
      BY DEF DispatchedAsSent
    <2>1. c \in Clients
      BY DEF ServerInv, TypeOK
    <2>2. Heard(c) /\ sock[c].request \in Requests[c]
      BY <2>1 DEF DeliveryInv, Delivered
    <2>3. /\ sock[c].unsent = 0 /\ sock[c].unread = 0
          /\ conn[c].http = After(FlattenSeq(sock[c].request.pieces))
          /\ conn[c].http.parsing_complete
      BY <2>2 DEF Heard
    <2> QED  BY <2>1, <2>2, <2>3 DEF ProperRequests
  <1>2. Init => ServerInv /\ DeliveryInv
    BY InitServer, InitDelivery
  <1>3. ServerInv /\ DeliveryInv /\ [Next]_vars => ServerInv' /\ DeliveryInv'
    BY ServerSteps, DeliverySteps
  <1> QED  BY <1>1, <1>2, <1>3, PTL DEF Spec
=============================================================================
