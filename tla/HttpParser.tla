---------------------------- MODULE HttpParser ----------------------------
(***************************************************************************)
(* http::HttpParser: what becomes of the bytes of a request, that come in  *)
(* pieces of any length (http.cpp).                                        *)
(*                                                                         *)
(* Bytes are a sequence of tokens: words, the separators that the parser   *)
(* looks for, and CRLF.  A cut between two tokens of "\r\n\r\n" stands for *)
(* a cut anywhere in it.  Every token of a body counts as one byte.  Names *)
(* of headers are in lower case.                                           *)
(***************************************************************************)
EXTENDS Integers, SequencesExt

CONSTANTS Tokens,    \* the tokens that requests are made of
          Lengths    \* words that stol() reads as the length of a body, and the lengths

CRLF == "CRLF"

Texts == Seq(Tokens)

Objects == [name : Texts, value : Texts]

NoRequest == [method |-> <<>>, path |-> <<>>, params |-> <<>>, result |-> "PARSE_AWAIT"]

NewParser == [msgs |-> <<>>, headers_written |-> FALSE, headers_end |-> 0,
              content_length |-> 0, request |-> NoRequest, parsing_complete |-> FALSE]

(* What stol() makes of the first word of a value.                         *)
stol[word \in Texts] ==
    IF word = <<>> THEN 0 ELSE IF word[1] \in DOMAIN Lengths THEN Lengths[word[1]] ELSE 0

Find(text, w) == {i \in DOMAIN text : text[i] = w}

(* split_string(): the items between the separators, but for an empty one  *)
(* behind the last.                                                        *)
split_string[text \in Texts, w \in Tokens] ==
    LET pos == Min(Find(text, w) \cup {Len(text) + 1})
    IN  IF text = <<>> THEN <<>>
        ELSE <<SubSeq(text, 1, pos - 1)>> \o split_string[SubSeq(text, pos + 1, Len(text)), w]

(* A name, and the value behind the first w.                               *)
Object[text \in Texts, w \in Tokens] ==
    LET pos == Min(Find(text, w) \cup {Len(text) + 1})
    IN  [name |-> SubSeq(text, 1, pos - 1), value |-> SubSeq(text, pos + 1, Len(text))]

(* The places where the headers may end.                                   *)
HeaderEnds(text) == {i \in 1..(Len(text) - 1) : text[i] = CRLF /\ text[i + 1] = CRLF}

(* The space behind ':' is no part of the value.                           *)
WithoutSpace[value \in Texts] ==
    IF value # <<>> /\ Head(value) = " " THEN Tail(value) ELSE value

(* The loop of HttpHeaders::parse() over the lines behind the request line: *)
(* a line without ':' is left out.                                         *)
Headers[lines \in Seq(Texts)] ==
    IF lines = <<>> THEN <<>>
    ELSE (IF ":" \in Range(Head(lines)) THEN <<Object[Head(lines), ":"]>> ELSE <<>>)
         \o Headers[Tail(lines)]

(* The length that the first header of that name tells; one that stol()    *)
(* cannot read is caught and stays 0.                                      *)
ContentLength[headers \in Seq(Objects)] ==
    IF headers = <<>> THEN 0
    ELSE IF Head(headers).name # <<"content-length">> THEN ContentLength[Tail(headers)]
    ELSE stol[SubSeq(WithoutSpace[Head(headers).value], 1, 1)]

(* The loop of URIQueryParams::parse()                                     *)
QueryParams[items \in Seq(Texts)] ==
    IF items = <<>> THEN <<>> ELSE <<Object[Head(items), "="]>> \o QueryParams[Tail(items)]

(* The result of HttpRequest::parse(): an empty address is bad, but leaves *)
(* the method that was read before it.                                     *)
Request[line \in Seq(Texts)] ==
    IF Len(line) # 3 THEN [NoRequest EXCEPT !.result = "PARSE_ERR"]
    ELSE IF line[2] = <<>> THEN [NoRequest EXCEPT !.method = line[1], !.result = "PARSE_ERR"]
    ELSE [method |-> line[1], path |-> Object[line[2], "?"].name,
          params |-> QueryParams[split_string[Object[line[2], "?"].value, "&"]],
          result |-> "PARSE_OK"]

is_bad_request(p) == p.request.result = "PARSE_ERR"

(* write() with the lines of all headers, the first is the request line.   *)
HeadersWritten(p, lines) ==
    [p EXCEPT !.headers_written = TRUE,
              !.headers_end = Min(HeaderEnds(p.msgs)) + 1,
              !.content_length = ContentLength[Headers[Tail(lines)]],
              !.request = Request[split_string[Head(lines), " "]]]

(* A slip in write(): the headers are counted as a part of the body.       *)
BodyCompleteEarly(p) == Len(p.msgs) >= p.content_length

BodyComplete(p) == Len(p.msgs) - p.headers_end >= p.content_length

(* The end of write(): a POST is complete with its body.  Requests that    *)
(* are neither GET nor POST never are.                                     *)
Completed(p) ==
    [p EXCEPT !.parsing_complete = @ \/ (p.request.method = <<"POST">> /\ BodyComplete(p))]

(* The headers have just arrived: a bad request returns at once, a GET is  *)
(* complete with them.                                                     *)
Begun(p) ==
    IF is_bad_request(p) THEN p
    ELSE Completed([p EXCEPT !.parsing_complete = (p.request.method = <<"GET">>)])

(* Without any line the parser waits for ever.                            *)
HeadersRead(p, lines) ==
    IF lines = <<>> THEN p ELSE Begun(HeadersWritten(p, lines))

Received(p) ==
    IF p.headers_written THEN Completed(p)
    ELSE IF HeaderEnds(p.msgs) = {} THEN p
    ELSE HeadersRead(p, split_string[SubSeq(p.msgs, 1, Min(HeaderEnds(p.msgs)) - 1), CRLF])

(* write() *)
Written(p, data) == Received([p EXCEPT !.msgs = @ \o data])

get_body(p) == SubSeq(p.msgs, p.headers_end + 1, Len(p.msgs))
=============================================================================
