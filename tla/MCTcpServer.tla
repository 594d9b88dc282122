--------------------------- MODULE MCTcpServer ---------------------------
(***************************************************************************)
(* Two clients: one posts a deal or sends garbage and may leave at any      *)
(* time, the other asks for /quit, and stays.                               *)
(***************************************************************************)
EXTENDS TcpServer

CONSTANTS Poster, Asker

MCClients == {Poster, Asker}

MCLeavers == {Poster}

MCTokens == {"POST", "GET", " ", "/deals/add", "/quit", "?", "price", "=", "14", "&", "HTTP/1.0",
             CRLF, "host", ":", "deals", "content-length", "two", "deal"}

MCLengths == [two |-> 2]

(* Cut inside of the body.                                                  *)
Post == [method |-> <<"POST">>, path |-> <<"/deals/add">>,
         params |-> <<[name |-> <<"price">>, value |-> <<"14">>]>>,
         body |-> <<"deal", CRLF>>,
         pieces |-> << <<"POST", " ", "/deals/add", "?", "price", "=", "14", " ", "HTTP/1.0",
                         CRLF, "host", ":", "deals", CRLF, "content-length", ":", " ", "two", CRLF,
                         CRLF, "deal">>,
                       <<CRLF>> >>]

(* Cut inside of "\r\n\r\n".                                                *)
Quit == [method |-> <<"GET">>, path |-> <<"/quit">>, params |-> <<>>, body |-> <<>>,
         pieces |-> << <<"GET", " ", "/quit", " ", "HTTP/1.0", CRLF>>, <<CRLF>> >>]

Garbage == [Quit EXCEPT !.pieces = << <<"GET", " ", "/quit", CRLF, CRLF>> >>]

MCRequests == [c \in MCClients |-> IF c = Poster THEN {Post, Garbage} ELSE {Quit}]

(* The requests are among those that DispatchedAsSent is promised for.      *)
ASSUME MCProper == ProperRequests
=============================================================================
