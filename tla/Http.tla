----------------------------- MODULE Http -----------------------------
(* One connection from the client's request to the answer: the bytes arrive  *)
(* in pieces, connection::do_read parses what it has read, finds the body    *)
(* behind the head, and has the request handled.  The connection's later     *)
(* life, its peers and the streams are the subject of module Connections.    *)
EXTENDS RequestHandler

CONSTANTS
  Paths,         \* what clients ask for
  HeaderLists,   \* the header lines they send
  Bodies,        \* the bodies they send behind the head
  BadUris,       \* uris that encode no path
  NoisyPaths,    \* the paths whose requests may have a byte changed
  Noise,         \* the bytes it may be changed to
  MaxLong,       \* the largest long
  MaxReads       \* bound: pieces a request arrives in

(* The number some digits stand for.                                         *)
ValueOf(b) == CASE b = "0" -> 0 [] b = "1" -> 1 [] b = "2" -> 2 [] b = "3" -> 3
Stol(digits) == FoldLeft(LAMBDA n, b : 10 * n + ValueOf(b), 0, digits)

(* The headers clients send: a name and a value, which may go on in another  *)
(* line; a length is given in digits, and is one a long can hold.            *)
SentHeader ==
  {h \in [name : Seq(TokenByte), value : Seq(TextByte), more : Seq(TextByte)] :
     /\ h.name # <<>> /\ (h.more # <<>> => h.more[1] # "SP")
     /\ h.name = <<"Content-Length">> =>
          /\ h.value \in Seq(Digit) /\ h.value # <<>> /\ h.more = <<>>
          /\ Stol(h.value) <= MaxLong}

(* "%" and "+" in a path would have to be escaped; here no client does.      *)
PathByte == TextByte \ {"%", "+"}

ASSUME HttpAssumption ==
  /\ MaxReads \in Nat \ {0, 1} /\ MaxLong \in Nat
  /\ {"POST", "Content-Length"} \subseteq Word
  /\ Paths \subseteq Seq(PathByte) /\ HeaderLists \subseteq Seq(SentHeader)
  /\ Bodies \subseteq Seq(Byte) /\ BadUris \subseteq Seq(Byte)
  /\ NoisyPaths \subseteq Seq(Byte) /\ Noise \subseteq Byte

-----------------------------------------------------------------------------
(* What clients send                                                         *)

(* The uris of a path: each of these characters may be escaped or not.       *)
Escapes == [x \in {"SP", "/", "."} |->
              CASE x = "SP" -> {<<"+">>, <<"%", "2", "0">>}
                [] x = "/" -> {<<"/">>, <<"%", "2", "F">>}
                [] x = "." -> {<<".">>, <<"%", "2", "E">>}]
Encodings(path) ==
  FoldLeft(LAMBDA uris, x :
             {uri \o e : uri \in uris, e \in IF x \in DOMAIN Escapes THEN Escapes[x] ELSE {<<x>>}},
           {<<>>}, path)

(* A header line as sent: its value may go on in a second line.              *)
HeaderText(h) == h.name \o <<":", "SP">> \o h.value
                   \o (IF h.more = <<>> THEN <<>> ELSE CRLF \o <<"HT">> \o h.more) \o CRLF
HeadText(uri, headers) ==
  <<"POST", "SP">> \o uri \o <<"SP", "H", "T", "T", "P", "/", "1", ".", "1">> \o CRLF
    \o FoldLeft(LAMBDA text, h : text \o HeaderText(h), <<>>, headers) \o CRLF

VARIABLES
  path, headers, body,  \* what the client means to send
  whole,      \* ... and does send; a byte of it may have been changed
  bytes,      \* the bytes sent
  pos,        \* how many of them were read
  reads,      \* in how many reads (bounded by MaxReads)
  parser,     \* request_parser_ and request_
  conn,       \* "reading"; "waiting" for the rest of a body that is never read;
              \* "answered"; "sse", "blob": a stream; "dead": the thread threw
  reply,      \* reply_
  edits       \* the bodies handed to task::modifyMethod

sentVars == <<path, headers, body, whole, bytes>>
vars == <<sentVars, pos, reads, parser, conn, reply, edits>>

Conn == {"reading", "waiting", "answered", "sse", "blob", "dead"}

TypeOK ==
  /\ pos \in 0..Len(bytes) /\ reads \in 0..MaxReads
  /\ parser \in Parser
  /\ conn \in Conn /\ reply.status \in DOMAIN StatusCode
  /\ Len(edits) <= 1

Send(p, uri, hs, b) ==
  /\ path = p /\ headers = hs /\ body = b
  /\ bytes = HeadText(uri, hs) \o b /\ whole = TRUE

Init ==
  /\ \/ \E p \in Paths : \E uri \in Encodings(p), hs \in HeaderLists, b \in Bodies :
          Send(p, uri, hs, b)
     \/ /\ path = <<>> /\ headers = <<>> /\ body = <<>> /\ whole = FALSE
        /\ \E uri \in BadUris, hs \in HeaderLists : bytes = HeadText(uri, hs)
     \/ \E p \in NoisyPaths, hs \in HeaderLists, b \in Bodies :
          /\ path = p /\ headers = hs /\ body = b /\ whole = FALSE
          /\ LET text == HeadText(p, hs) \o b IN
               \E i \in DOMAIN text, x \in Noise : bytes = [text EXCEPT ![i] = x]
  /\ pos = 0 /\ reads = 0
  /\ parser = Fresh /\ conn = "reading"
  /\ reply = NoReply /\ edits = <<>>

-----------------------------------------------------------------------------
(* The handler of async_read_some                                            *)

(* std::stol: digits behind white space and at most one sign, and whatever   *)
(* follows them; it throws on a text without any, or on a number that no     *)
(* long holds.                                                               *)
Starts(v) ==
  {i \in DOMAIN v : /\ v[i] \in Digit
                    /\ \/ AllIn(Part(v, 1, i - 1), {"SP"})
                       \/ /\ i > 1 /\ v[i - 1] \in {"+", "-"}
                          /\ AllIn(Part(v, 1, i - 2), {"SP"})}
Digits(v) ==
  LET runs == {r \in Starts(v) \X DOMAIN v :
                 r[1] <= r[2] /\ AllIn(Part(v, r[1], r[2]), Digit)}
      longest == CHOOSE r \in runs : \A s \in runs : s[2] <= r[2]
  IN  IF runs = {} THEN <<>> ELSE Part(v, longest[1], longest[2])
Negative(v) == \E i \in Starts(v) : i > 1 /\ v[i - 1] = "-"
Throws(v) ==
  Digits(v) = <<>> \/ Stol(Digits(v)) > IF Negative(v) THEN MaxLong + 1 ELSE MaxLong

(* bsize < std::stol( v ): compared as size_t, where a number below 0 is     *)
(* larger than any read.                                                     *)
Shorter(left, v) == \/ Negative(v) /\ Stol(Digits(v)) > 0
                    \/ Len(left) < Stol(Digits(v))

HasLength(req) == HasHeader(req.headers, <<"Content-Length">>)
Length(req) == FirstHeader(req.headers, <<"Content-Length">>)
LengthDigits(req) == Digits(Length(req))

(* The stream or the answer the first Content-Type of the reply asks for.    *)
Start(rep) ==
  LET type == IF HasHeader(rep.headers, "Content-Type")
                THEN FirstHeader(rep.headers, "Content-Type") ELSE "none"
  IN  CASE type = "text/event-stream" -> "sse"
        [] type = "blob/event-stream" -> "blob"
        [] OTHER -> "answered"

(* connection::sse_start and blob_start: the headers are those of the stream;*)
(* what the handler left as content stays in reply_, and is not sent.        *)
StreamHeaders(type) ==
  <<Header("connection", "keep-alive"), Header("Content-Type", type),
    Header("Cache-Control", "no-cache")>>
Started(rep) ==
  CASE Start(rep) = "sse" -> Reply("ok", rep.content, StreamHeaders("text/event-stream"))
    [] Start(rep) = "blob" -> Reply("ok", rep.content, StreamHeaders("blob/event-stream"))
    [] OTHER -> rep

Handle(req) ==
  /\ reply' = Started(HandleRequest(req))
  /\ conn' = Start(HandleRequest(req))
  /\ edits' = IF UrlDecode(req.uri).ok /\ IsEdit(UrlDecode(req.uri).out)
                THEN Append(edits, req.body) ELSE edits

(* Mutant: the bytes that came are handled as the body, whole or not.        *)
RequestRead_AnyLength(req, left) ==
  Handle([req EXCEPT !.body = IF HasLength(req) THEN left ELSE <<>>])

(* Mutant: a body as long as declared is taken for one too short.            *)
RequestRead_OffByOne(req, left) ==
  IF left = <<>> \/ ~HasLength(req) THEN Handle(req)
  ELSE IF Throws(Length(req)) THEN conn' = "dead" /\ UNCHANGED <<reply, edits>>
  ELSE IF Len(left) <= Stol(LengthDigits(req))
    THEN conn' = "waiting" /\ UNCHANGED <<reply, edits>>
    ELSE Handle([req EXCEPT !.body = left])

(* A head was read, with "left" behind it in the same read.  The body is all *)
(* of left; without anything left the request is handled as one without a    *)
(* body, whatever length it declares.                                        *)
RequestRead(req, left) ==
  \/ /\ left = <<>> \/ ~HasLength(req)
     /\ Handle(req)
  \/ /\ left # <<>> /\ HasLength(req) /\ Throws(Length(req))
     /\ conn' = "dead" /\ UNCHANGED <<reply, edits>>
  \/ /\ left # <<>> /\ HasLength(req) /\ ~Throws(Length(req))
     /\ IF Shorter(left, Length(req))
          THEN conn' = "waiting" /\ UNCHANGED <<reply, edits>>
          ELSE Handle([req EXCEPT !.body = left])

BadRequest ==
  /\ reply' = StockReply("bad_request")
  /\ conn' = "answered" /\ UNCHANGED edits

ReadOn == UNCHANGED <<conn, reply, edits>>

Advance(n) == pos' = pos + n /\ reads' = reads + 1

(* A request that was changed comes in one piece less.                       *)
Pieces == IF whole THEN MaxReads ELSE MaxReads - 1

(* n more bytes arrive and are parsed.                                       *)
OnRead(n) ==
  /\ conn = "reading"
  /\ reads < Pieces - 1 \/ pos + n = Len(bytes)
  /\ Advance(n)
  /\ LET parsed == Parse(parser, Part(bytes, pos + 1, pos + n))
         left == Part(bytes, pos + parsed.n + 1, pos + n)
     IN  /\ parser' = parsed.parser
         /\ \/ parser'.result = "good" /\ RequestRead(parser'.req, left)
            \/ parser'.result = "bad" /\ BadRequest
            \/ parser'.result = "indeterminate" /\ ReadOn
  /\ UNCHANGED sentVars

Next == \E n \in 1..(Len(bytes) - pos) : OnRead(n)

Spec == Init /\ [][Next]_vars

-----------------------------------------------------------------------------
(* What is parsed does not depend on where the reads cut the request: of a   *)
(* request that was not changed, the handler gets the method, the path and   *)
(* the headers the client meant (connection.cpp:61, request_parser.cpp,      *)
(* url_decode).                                                              *)
UnderstoodAsMeant ==
  whole /\ parser.result # "indeterminate" =>
    /\ parser.result = "good"
    /\ parser.req.method = <<"POST">>
    /\ UrlDecode(parser.req.uri) = [ok |-> TRUE, out |-> path]
    /\ parser.req.headers =
         [i \in DOMAIN headers |-> Header(headers[i].name, headers[i].value \o headers[i].more)]

(* Every variable keeps its type.  A request is good exactly when the head   *)
(* of a request was read, and bad only when nothing read so far or later     *)
(* could be one: no head is refused, nothing else is let through             *)
(* (request_parser.cpp).                                                     *)
GoodExactlyForHeads ==
  LET heads == {k \in 1..Len(bytes) : IsHead(Part(bytes, 1, k))} IN
  /\ TypeOK
  /\ parser.result = "good" => \E k \in heads : k <= pos
  /\ parser.result = "bad" => heads = {}
  /\ parser.result = "indeterminate" => \A k \in heads : k > pos

(* An edit is carried out with its whole body or with none, and without it   *)
(* only when the head came without a byte of the body, or declared no length *)
(* (connection.cpp:66-72).                                                   *)
EditWholeOrEmpty ==
  whole /\ edits # <<>> =>
    /\ edits[1] \in {<<>>, body} \cup {Part(body, 1, k) : k \in 1..Len(body)}
    /\ edits[1] # <<>> => Len(edits[1]) >= Stol(LengthDigits(parser.req))
    /\ edits[1] = <<>> =>
         body = <<>> \/ ~HasLength(parser.req) \/ pos = Len(bytes) - Len(body)

(* What a client is to get that asks for a path p and no stream: what the    *)
(* page handler says, where e are the edits it carried out; or the page of   *)
(* that name, a refusal of paths that leave doc_root, or that there is none. *)
Answer(status, content) == [status |-> status, content |-> content]
ApiAnswer(p, e) ==
  CASE e # <<>> -> Answer("ok", <<"method">> \o e[1])
    [] e = <<>> /\ HasText(p, Api(<<"banner">>)) -> Answer("ok", <<"banner">>)
    [] OTHER -> Answer("ok", <<"unknown request">>)
PageNamed(p) == IF p[Len(p)] = "/" THEN p \o <<"index", ".", "html">> ELSE p
PageAnswer(p) ==
  IF p = <<>> \/ p[1] # "/" \/ HasText(p, <<".", ".">>)
    THEN Answer("bad_request", StockPage("bad_request"))
  ELSE IF PageNamed(p) \in Files THEN Answer("ok", <<"page">> \o PageNamed(p))
  ELSE IF PageNamed(p) \in Directories THEN Answer("ok", <<>>)
  ELSE Answer("not_found", StockPage("not_found"))

(* What the client of a request that was not changed gets, by the path it    *)
(* meant: a stream exactly where it asked for one, under the type of that    *)
(* stream and without a length; else the edited method, the banner, the page *)
(* or the refusal, with the length of just that content in front of every    *)
(* other length.  The method is edited by the requests to edit it and by no  *)
(* other (request_handler.cpp, connection.cpp:76-86, 142-151).               *)
AnswerFitsRequest ==
  whole /\ conn \in {"answered", "sse", "blob"} =>
    /\ conn = "blob" <=> HasText(path, Api(<<"blob">>))
    /\ conn = "sse" <=> HasText(path, Api(<<"events">>)) /\ conn # "blob"
    /\ edits # <<>> <=> /\ HasText(path, Api(<<"valueChanged">>))
                        /\ ~HasText(path, Api(<<"events">>))
                        /\ ~HasText(path, Api(<<"banner">>))
    /\ conn = "answered" =>
         /\ Answer(reply.status, reply.content) =
              IF HasText(path, Api(<<>>)) THEN ApiAnswer(path, edits) ELSE PageAnswer(path)
         /\ HasHeader(reply.headers, "Content-Length")
         /\ FirstHeader(reply.headers, "Content-Length") = SizeOf(reply.content)
    /\ conn # "answered" =>
         /\ reply.status = "ok" /\ ~HasHeader(reply.headers, "Content-Length")
         /\ FirstHeader(reply.headers, "Content-Type") =
              IF conn = "sse" THEN "text/event-stream" ELSE "blob/event-stream"

(* When everything the client sent is read, its request is answered, unless  *)
(* the body came in two pieces or is shorter than it declares                *)
(* (connection.cpp:71): a head that was read never waits for more.           *)
WholeRequestAnswered ==
  whole /\ pos = Len(bytes) =>
    \/ conn \in {"answered", "sse", "blob"}
    \/ conn = "waiting" /\ Len(body) < Stol(LengthDigits(parser.req))
=============================================================================
