------------------------------ MODULE Http_proofs ------------------------------
(* Theorems about Http, for every path, header list and body that clients    *)
(* send, every way to cut the request into reads and every set of pages      *)
(* under doc_root.                                                           *)
EXTENDS Http, RequestParser_proofs

-----------------------------------------------------------------------------
(* Texts in paths                                                            *)

(* The paths of the page handler and what the handler looks for in them.     *)
Symbol == Byte \cup {"api$", "events", "banner", "valueChanged", "blob"}

LEMMA TextAt ==
  \A s, t \in Seq(Symbol) :
    HasText(s, t) <=>
      \E i \in 0..(Len(s) - Len(t)) : \A k \in 1..Len(t) : s[i + k] = t[k]
<1> SUFFICES ASSUME NEW s \in Seq(Symbol), NEW t \in Seq(Symbol)
             PROVE  HasText(s, t) <=>
                      \E i \in 0..(Len(s) - Len(t)) : \A k \in 1..Len(t) : s[i + k] = t[k]
  OBVIOUS
<1>1. ASSUME NEW i \in 0..(Len(s) - Len(t))
      PROVE  Part(s, i + 1, i + Len(t)) = t <=> \A k \in 1..Len(t) : s[i + k] = t[k]
  <2>1. Len(s) \in Nat /\ Len(t) \in Nat /\ i \in Nat
    OBVIOUS
  <2>2. \A k \in (i + 1)..(i + Len(t)) : s[k] \in Symbol
    BY <2>1
  <2> DEFINE p == SubSeq(s, i + 1, i + Len(t))
  <2>3. /\ p \in Seq(Symbol) /\ Len(p) = Len(t)
        /\ \A k \in 1..Len(t) : p[k] = s[i + k]
    BY <2>1, <2>2, SubSeqProperties
  <2>4. p = t <=> \A k \in 1..Len(t) : p[k] = t[k]
    BY <2>1, <2>3, SeqEqual
  <2> QED
    BY <2>3, <2>4 DEF Part
<1> QED
  BY <1>1 DEF HasText

LEMMA Texts ==
  /\ Seq(Byte) \subseteq Seq(Symbol)
  /\ Api(<<>>) = <<"/", "api$">>
  /\ \A name \in {"events", "banner", "valueChanged", "blob"} :
       Api(<<name>>) = <<"/", "api$", name>> /\ Api(<<name>>) \in Seq(Symbol)
  /\ Api(<<>>) \in Seq(Symbol) /\ <<".", ".">> \in Seq(Symbol)
<1>1. {"/", "."} \subseteq Symbol /\ Byte \subseteq Symbol
  BY DEF Symbol, Byte, Tspecial, Letter
<1>2. Seq(Byte) \subseteq Seq(Symbol)
  BY <1>1, SeqMonotonic
<1>3. Api(<<>>) = <<"/", "api$">>
  BY DEF Api
<1>4. ASSUME NEW name \in {"events", "banner", "valueChanged", "blob"}
      PROVE  Api(<<name>>) = <<"/", "api$", name>> /\ Api(<<name>>) \in Seq(Symbol)
  <2>1. name \in Symbol /\ "/" \in Symbol /\ "api$" \in Symbol
    BY <1>1 DEF Symbol
  <2> DEFINE s == <<"/", "api$">>
             t == <<name>>
             u == <<"/", "api$", name>>
  <2>2. s \in Seq(Symbol) /\ t \in Seq(Symbol) /\ u \in Seq(Symbol)
    BY <2>1
  <2>3. /\ Len(s) = 2 /\ Len(t) = 1 /\ Len(u) = 3
        /\ s[1] = u[1] /\ s[2] = u[2] /\ t[1] = u[3]
    OBVIOUS
  <2> HIDE DEF s, t, u
  <2>4. /\ s \o t \in Seq(Symbol) /\ Len(s \o t) = 3
        /\ \A k \in 1..3 : (s \o t)[k] = IF k <= 2 THEN s[k] ELSE t[k - 2]
    <3>1. /\ s \o t \in Seq(Symbol) /\ Len(s \o t) = Len(s) + Len(t)
          /\ \A k \in 1..(Len(s) + Len(t)) :
               (s \o t)[k] = IF k <= Len(s) THEN s[k] ELSE t[k - Len(s)]
      BY <2>2, ConcatProperties
    <3> QED
      BY <2>3, <3>1
  <2>5. \A k \in 1..3 : (s \o t)[k] = u[k]
    <3>1. \A k \in 1..3 : k = 1 \/ k = 2 \/ k = 3
      OBVIOUS
    <3> QED
      BY <2>3, <2>4, <3>1
  <2>6. s \o t = u
    BY <2>2, <2>3, <2>4, <2>5, SeqEqual
  <2> QED
    BY <2>2, <2>6 DEF s, t, u, Api
<1>5. /\ <<"/", "api$">> \in Seq(Symbol) /\ <<".", ".">> \in Seq(Symbol)
  <2>1. {"/", "api$", "."} \subseteq Symbol
    BY <1>1 DEF Symbol
  <2> QED
    BY <2>1
<1> QED
  BY <1>2, <1>3, <1>4, <1>5

LEMMA ApiNames ==
  ASSUME NEW s \in Seq(Symbol), NEW name \in {"events", "banner", "valueChanged", "blob"},
         HasText(s, Api(<<name>>))
  PROVE  HasText(s, Api(<<>>))
<1>1. PICK i \in 0..(Len(s) - 3) : s[i + 1] = "/" /\ s[i + 2] = "api$"
  <2>1. Api(<<name>>) = <<"/", "api$", name>> /\ Api(<<name>>) \in Seq(Symbol)
    BY Texts, Zenon
  <2> DEFINE t == <<"/", "api$", name>>
  <2>2. Len(t) = 3 /\ t[1] = "/" /\ t[2] = "api$"
    OBVIOUS
  <2> HIDE DEF t
  <2>3. t \in Seq(Symbol) /\ HasText(s, t)
    BY <2>1 DEF t
  <2>4. PICK i \in 0..(Len(s) - Len(t)) : \A k \in 1..Len(t) : s[i + k] = t[k]
    BY <2>3, TextAt
  <2> QED
    BY <2>2, <2>4
<1>2. Len(Api(<<>>)) = 2 /\ Api(<<>>)[1] = "/" /\ Api(<<>>)[2] = "api$"
  BY Texts
<1>3. i \in 0..(Len(s) - 2) /\ \A k \in 1..2 : s[i + k] = Api(<<>>)[k]
  BY <1>1, <1>2
<1> QED
  BY <1>2, <1>3, Texts, TextAt

-----------------------------------------------------------------------------
(* Headers                                                                   *)

(* A reply whose first two headers are the length and the type of its        *)
(* content.                                                                  *)
Headed(rep, type) ==
  /\ \E n \in Nat : n >= 2 /\ DOMAIN rep.headers = 1..n
  /\ rep.headers[1] = Header("Content-Length", SizeOf(rep.content))
  /\ rep.headers[2].name = "Content-Type" /\ rep.headers[2].value = type

LEMMA FirstOfName ==
  ASSUME NEW rep, NEW type, Headed(rep, type)
  PROVE  /\ HasHeader(rep.headers, "Content-Length")
         /\ FirstHeader(rep.headers, "Content-Length") = SizeOf(rep.content)
         /\ HasHeader(rep.headers, "Content-Type")
         /\ FirstHeader(rep.headers, "Content-Type") = type
<1> DEFINE hs == rep.headers
           FirstAt(i, name) == hs[i].name = name /\ \A j \in 1..(i - 1) : hs[j].name # name
<1>1. PICK n \in Nat : n >= 2 /\ DOMAIN hs = 1..n
  BY DEF Headed
<1>0. /\ 1 \in DOMAIN hs /\ 2 \in DOMAIN hs
      /\ hs[1].name = "Content-Length" /\ hs[1].value = SizeOf(rep.content)
      /\ hs[2].name = "Content-Type" /\ hs[2].value = type
  BY <1>1 DEF Headed, Header
<1>2. \A i \in DOMAIN hs : FirstAt(i, "Content-Length") <=> i = 1
  BY <1>0, <1>1
<1>3. \A i \in DOMAIN hs : FirstAt(i, "Content-Type") <=> i = 2
  BY <1>0, <1>1
<1>4. (CHOOSE i \in DOMAIN hs : FirstAt(i, "Content-Length")) = 1
  BY <1>0, <1>2
<1>5. (CHOOSE i \in DOMAIN hs : FirstAt(i, "Content-Type")) = 2
  BY <1>0, <1>3
<1>6. /\ FirstHeader(hs, "Content-Length") = SizeOf(rep.content)
      /\ FirstHeader(hs, "Content-Type") = type
  BY <1>0, <1>4, <1>5, Zenon DEF FirstHeader
<1> QED
  BY <1>0, <1>6 DEF HasHeader

-----------------------------------------------------------------------------
(* The replies                                                               *)

LEMMA StockHeaded ==
  ASSUME NEW status
  PROVE  /\ Headed(StockReply(status), "text/html")
         /\ StockReply(status).status = status
         /\ StockReply(status).content = StockPage(status)
<1> DEFINE hs == <<Header("Content-Length", SizeOf(StockPage(status))),
                   Header("Content-Type", "text/html")>>
<1>1. /\ DOMAIN hs = 1..2
      /\ hs[1] = Header("Content-Length", SizeOf(StockPage(status)))
      /\ hs[2].name = "Content-Type" /\ hs[2].value = "text/html"
  BY DEF Header
<1>2. /\ StockReply(status).headers = hs /\ StockReply(status).status = status
      /\ StockReply(status).content = StockPage(status)
  BY DEF StockReply, Reply
<1> QED
  BY <1>1, <1>2 DEF Headed

(* The headers of a reply of the page handler: any number, of a few values,  *)
(* behind the length of the content and its type.                            *)
ApiHeader(content) ==
  [name  : {"Content-Length", "Content-Type", "Cache-Control", "connection"},
   value : {SizeOf(content), "text/json", "text/event-stream", "blob/event-stream",
            "blob", "no-cache", "keep-alive"}]
TwoHeaders(hs, content, type) ==
  /\ hs \in Seq(ApiHeader(content)) /\ Len(hs) >= 2
  /\ hs[1] = Header("Content-Length", SizeOf(content))
  /\ hs[2].name = "Content-Type" /\ hs[2].value = type

LEMMA HeadersBehind ==
  ASSUME NEW content, NEW hs, NEW type, TwoHeaders(hs, content, type),
         NEW more \in Seq(ApiHeader(content))
  PROVE  TwoHeaders(hs \o more, content, type)
<1>1. /\ hs \o more \in Seq(ApiHeader(content)) /\ Len(hs \o more) = Len(hs) + Len(more)
      /\ \A i \in 1..(Len(hs) + Len(more)) :
           (hs \o more)[i] = IF i <= Len(hs) THEN hs[i] ELSE more[i - Len(hs)]
  BY ConcatProperties DEF TwoHeaders
<1>2. /\ Len(hs) \in Nat /\ Len(more) \in Nat /\ Len(hs) >= 2
  BY DEF TwoHeaders
<1>3. (hs \o more)[1] = hs[1] /\ (hs \o more)[2] = hs[2]
  BY <1>1, <1>2
<1> QED
  BY <1>1, <1>2, <1>3 DEF TwoHeaders

LEMMA TypeReplaced ==
  ASSUME NEW content, NEW hs, NEW type, TwoHeaders(hs, content, type),
         NEW new \in {"text/event-stream", "blob/event-stream"}
  PROVE  TwoHeaders([hs EXCEPT ![2].value = new], content, new)
<1>1. hs[2] \in ApiHeader(content) /\ 2 \in 1..Len(hs)
  BY DEF TwoHeaders
<1> DEFINE h == [hs[2] EXCEPT !.value = new]
<1>2. h \in ApiHeader(content) /\ h.name = hs[2].name /\ h.value = new
  BY <1>1 DEF ApiHeader
<1>3. [hs EXCEPT ![2].value = new] = [hs EXCEPT ![2] = h]
  OBVIOUS
<1> HIDE DEF h
<1>4. /\ [hs EXCEPT ![2] = h] \in Seq(ApiHeader(content))
      /\ Len([hs EXCEPT ![2] = h]) = Len(hs)
      /\ [hs EXCEPT ![2] = h][1] = hs[1] /\ [hs EXCEPT ![2] = h][2] = h
  BY <1>1, <1>2 DEF TwoHeaders
<1> QED
  BY <1>2, <1>3, <1>4 DEF TwoHeaders

(* The type that the page handler's reply to a path has.                     *)
ApiType(p) == IF HasText(p, Api(<<"blob">>)) THEN "blob/event-stream"
              ELSE IF HasText(p, Api(<<"events">>)) THEN "text/event-stream"
              ELSE "text/json"

LEMMA ApiHeaded ==
  ASSUME NEW p, NEW b
  PROVE  /\ Headed(ApiReply(p, b), ApiType(p))
         /\ ApiReply(p, b).status = "ok" /\ ApiReply(p, b).content = HttpRequest(p, b)
<1> DEFINE content == HttpRequest(p, b)
           length == Header("Content-Length", SizeOf(content))
           json == <<length, Header("Content-Type", "text/json")>>
           blob == <<length, Header("Content-Type", "blob")>>
           events == IF HasText(p, Api(<<"events">>))
                       THEN [json EXCEPT ![2].value = "text/event-stream"] \o KeepOpen ELSE json
           blobs == [events \o blob EXCEPT ![2].value = "blob/event-stream"] \o KeepOpen
           Type == IF HasText(p, Api(<<"events">>)) THEN "text/event-stream" ELSE "text/json"
<1>1. /\ ApiReply(p, b).headers = ApiHeaders(p, content)
      /\ ApiReply(p, b).content = content /\ ApiReply(p, b).status = "ok"
  BY DEF ApiReply, Reply
<1>2. ApiHeaders(p, content) = IF HasText(p, Api(<<"blob">>)) THEN blobs ELSE events
  BY DEF ApiHeaders
<1> HIDE DEF content
<1>3. TwoHeaders(json, content, "text/json")
  BY DEF TwoHeaders, Header, ApiHeader
<1>4. blob \in Seq(ApiHeader(content)) /\ KeepOpen \in Seq(ApiHeader(content))
  BY DEF KeepOpen, Header, ApiHeader
<1> HIDE DEF json, blob
<1>5. TwoHeaders(events, content, Type)
  <2>1. TwoHeaders([json EXCEPT ![2].value = "text/event-stream"] \o KeepOpen, content,
                   "text/event-stream")
    BY <1>3, <1>4, TypeReplaced, HeadersBehind
  <2> QED
    BY <1>3, <2>1
<1> HIDE DEF events, Type
<1>6. TwoHeaders(blobs, content, "blob/event-stream")
  BY <1>4, <1>5, TypeReplaced, HeadersBehind
<1> HIDE DEF blobs
<1>7. TwoHeaders(ApiHeaders(p, content), content, ApiType(p))
  BY <1>2, <1>5, <1>6 DEF ApiType, Type
<1>8. DOMAIN ApiHeaders(p, content) = 1..Len(ApiHeaders(p, content))
  BY <1>7 DEF TwoHeaders
<1>9. Len(ApiHeaders(p, content)) \in Nat
  BY <1>7 DEF TwoHeaders
<1>10. Headed(ApiReply(p, b), ApiType(p))
  BY <1>1, <1>7, <1>8, <1>9 DEF TwoHeaders, Headed
<1> QED
  BY <1>1, <1>10 DEF content

(* A page that is there is sent; no page is a stream.                        *)
LEMMA PageHeaded ==
  ASSUME NEW p
  PROVE  /\ \E type : /\ Headed(PageReply(p), type)
                      /\ type \notin {"text/event-stream", "blob/event-stream"}
         /\ Answer(PageReply(p).status, PageReply(p).content) =
              IF PageNamed(p) \in Files THEN Answer("ok", <<"page">> \o PageNamed(p))
              ELSE IF PageNamed(p) \in Directories THEN Answer("ok", <<>>)
              ELSE Answer("not_found", StockPage("not_found"))
<1> DEFINE page == PageNamed(p)
           content == IF page \in Files THEN <<"page">> \o page ELSE <<>>
           type == ExtensionToType(Extension(page))
           hs == <<Header("Content-Length", SizeOf(content)), Header("Content-Type", type)>>
<1>1. PageReply(p) = IF page \notin Files \cup Directories THEN StockReply("not_found")
                     ELSE Reply("ok", content, hs)
  BY DEF PageReply, PageNamed
<1> HIDE DEF page
<1>2. type \notin {"text/event-stream", "blob/event-stream"}
  BY DEF ExtensionToType, TypeOfExtension
<1>6. content = IF page \in Files THEN <<"page">> \o page ELSE <<>>
  OBVIOUS
<1> HIDE DEF content, type
<1>3. /\ DOMAIN hs = 1..2
      /\ hs[1] = Header("Content-Length", SizeOf(content))
      /\ hs[2].name = "Content-Type" /\ hs[2].value = type
  BY DEF Header
<1> HIDE DEF hs
<1>4. CASE page \in Files \cup Directories
  <2>1. /\ PageReply(p).headers = hs /\ PageReply(p).content = content
        /\ PageReply(p).status = "ok"
    BY <1>1, <1>4 DEF Reply
  <2>2. Headed(PageReply(p), type)
    BY <1>3, <2>1 DEF Headed
  <2> QED
    BY <1>2, <1>4, <1>6, <2>1, <2>2 DEF page
<1>5. CASE page \notin Files \cup Directories
  BY <1>1, <1>5, StockHeaded DEF page
<1> QED
  BY <1>4, <1>5

-----------------------------------------------------------------------------
(* The answer to a request                                                   *)

(* What the page handler says to a request that is no stream, by whether it  *)
(* is one of the edits.                                                      *)
LEMMA ApiSays ==
  ASSUME NEW p, NEW b, ~HasText(p, Api(<<"events">>)),
         NEW e, e = IF IsEdit(p) THEN <<b>> ELSE <<>>
  PROVE  Answer("ok", HttpRequest(p, b)) = ApiAnswer(p, e)
<1>1. e # <<>> <=> IsEdit(p)
  OBVIOUS
<1>2. CASE IsEdit(p)
  <2>1. HttpRequest(p, b) = <<"method">> \o b
    BY <1>2 DEF HttpRequest, IsEdit
  <2>2. e # <<>> /\ e[1] = b
    BY <1>2
  <2> QED
    BY <2>1, <2>2 DEF ApiAnswer
<1>3. CASE ~IsEdit(p) /\ HasText(p, Api(<<"banner">>))
  BY <1>1, <1>3 DEF HttpRequest, ApiAnswer
<1>4. CASE ~IsEdit(p) /\ ~HasText(p, Api(<<"banner">>))
  <2>1. HttpRequest(p, b) = <<"unknown request">>
    BY <1>4 DEF HttpRequest, IsEdit
  <2> QED
    BY <1>1, <1>4, <2>1 DEF ApiAnswer
<1> QED
  BY <1>2, <1>3, <1>4

(* The reply to a request for p whose body is b: its headers, the stream its *)
(* type starts, and what it says when it starts none.                        *)
LEMMA AnswerOf ==
  ASSUME NEW req, NEW p \in Seq(Symbol), UrlDecode(req.uri) = [ok |-> TRUE, out |-> p],
         NEW e, e = IF IsEdit(p) THEN <<req.body>> ELSE <<>>
  PROVE  \E type :
           /\ Headed(HandleRequest(req), type)
           /\ type = "blob/event-stream" <=> HasText(p, Api(<<"blob">>))
           /\ type = "text/event-stream" <=>
                HasText(p, Api(<<"events">>)) /\ ~HasText(p, Api(<<"blob">>))
           /\ type \notin {"text/event-stream", "blob/event-stream"} =>
                Answer(HandleRequest(req).status, HandleRequest(req).content) =
                  IF HasText(p, Api(<<>>)) THEN ApiAnswer(p, e) ELSE PageAnswer(p)
<1>1. UrlDecode(req.uri).ok /\ UrlDecode(req.uri).out = p
  OBVIOUS
<1>3. CASE HasText(p, Api(<<>>))
  <2>1. HandleRequest(req) = ApiReply(p, req.body)
    BY <1>1, <1>3 DEF HandleRequest
  <2>2. /\ Headed(HandleRequest(req), ApiType(p)) /\ HandleRequest(req).status = "ok"
        /\ HandleRequest(req).content = HttpRequest(p, req.body)
    BY <2>1, ApiHeaded
  <2>3. ApiType(p) \notin {"text/event-stream", "blob/event-stream"} =>
          Answer("ok", HttpRequest(p, req.body)) = ApiAnswer(p, e)
    BY ApiSays DEF ApiType
  <2>4. /\ ApiType(p) = "blob/event-stream" <=> HasText(p, Api(<<"blob">>))
        /\ ApiType(p) = "text/event-stream" <=>
             HasText(p, Api(<<"events">>)) /\ ~HasText(p, Api(<<"blob">>))
    BY DEF ApiType
  <2> QED
    BY <1>3, <2>2, <2>3, <2>4
<1>4. CASE ~HasText(p, Api(<<>>))
  <2>1. ~HasText(p, Api(<<"blob">>)) /\ ~HasText(p, Api(<<"events">>))
    BY <1>4, ApiNames
  <2>2. HandleRequest(req) = IF p = <<>> \/ p[1] # "/" \/ HasText(p, <<".", ".">>)
                               THEN StockReply("bad_request") ELSE PageReply(p)
    BY <1>1, <1>4 DEF HandleRequest
  <2>3. CASE p = <<>> \/ p[1] # "/" \/ HasText(p, <<".", ".">>)
    <3>1. /\ Headed(HandleRequest(req), "text/html")
          /\ HandleRequest(req).status = "bad_request"
          /\ HandleRequest(req).content = StockPage("bad_request")
      BY <2>2, <2>3, StockHeaded
    <3>2. PageAnswer(p) = Answer("bad_request", StockPage("bad_request"))
      BY <2>3 DEF PageAnswer
    <3> QED
      BY <1>4, <2>1, <3>1, <3>2
  <2>4. CASE ~(p = <<>> \/ p[1] # "/" \/ HasText(p, <<".", ".">>))
    <3>1. HandleRequest(req) = PageReply(p)
      BY <2>2, <2>4
    <3>2. PageAnswer(p) =
            IF PageNamed(p) \in Files THEN Answer("ok", <<"page">> \o PageNamed(p))
            ELSE IF PageNamed(p) \in Directories THEN Answer("ok", <<>>)
            ELSE Answer("not_found", StockPage("not_found"))
      BY <2>4 DEF PageAnswer
    <3>3. PICK type : /\ Headed(PageReply(p), type)
                      /\ type \notin {"text/event-stream", "blob/event-stream"}
      BY PageHeaded
    <3>4. Answer(PageReply(p).status, PageReply(p).content) = PageAnswer(p)
      BY <3>2, PageHeaded
    <3> QED
      BY <1>4, <2>1, <3>1, <3>3, <3>4
  <2> QED
    BY <2>3, <2>4
<1> QED
  BY <1>3, <1>4

LEMMA StartOf == ASSUME NEW rep PROVE Start(rep) \in {"sse", "blob", "answered"}
BY DEF Start

(* What is sent of a reply: that of the handler, or the headers of a stream. *)
LEMMA SentOf ==
  ASSUME NEW rep, NEW type, Headed(rep, type)
  PROVE  /\ Start(rep) = CASE type = "text/event-stream" -> "sse"
                           [] type = "blob/event-stream" -> "blob"
                           [] OTHER -> "answered"
         /\ Start(rep) = "answered" => Started(rep) = rep
         /\ Start(rep) # "answered" =>
              /\ Started(rep).status = "ok"
              /\ ~HasHeader(Started(rep).headers, "Content-Length")
              /\ FirstHeader(Started(rep).headers, "Content-Type") = type
<1>1. Start(rep) = CASE type = "text/event-stream" -> "sse"
                     [] type = "blob/event-stream" -> "blob"
                     [] OTHER -> "answered"
  BY FirstOfName DEF Start
<1>2. Start(rep) = "answered" => Started(rep) = rep
  BY DEF Started
<1>3. ASSUME Start(rep) # "answered"
      PROVE  /\ Started(rep).status = "ok" /\ Started(rep).headers = StreamHeaders(type)
  <2>1. CASE Start(rep) = "sse"
    BY <1>1, <2>1 DEF Started, Reply
  <2>2. CASE Start(rep) = "blob"
    BY <1>1, <2>2 DEF Started, Reply
  <2> QED
    BY <1>3, <2>1, <2>2, StartOf
<1>4. /\ ~HasHeader(StreamHeaders(type), "Content-Length")
      /\ FirstHeader(StreamHeaders(type), "Content-Type") = type
  <2> DEFINE hs == StreamHeaders(type)
             FirstAt(i) == hs[i].name = "Content-Type"
                             /\ \A j \in 1..(i - 1) : hs[j].name # "Content-Type"
  <2>1. /\ DOMAIN hs = 1..3 /\ hs[1].name = "connection" /\ hs[2].name = "Content-Type"
        /\ hs[2].value = type /\ hs[3].name = "Cache-Control"
    BY DEF StreamHeaders, Header
  <2> HIDE DEF hs
  <2>2. \A i \in 1..3 : i = 1 \/ i = 2 \/ i = 3
    OBVIOUS
  <2>3. ~HasHeader(hs, "Content-Length")
    BY <2>1, <2>2 DEF HasHeader
  <2>4. \A i \in DOMAIN hs : FirstAt(i) <=> i = 2
    BY <2>1, <2>2
  <2>5. (CHOOSE i \in DOMAIN hs : FirstAt(i)) = 2
    BY <2>1, <2>4
  <2>6. FirstHeader(hs, "Content-Type") = type
    BY <2>1, <2>5, Zenon DEF FirstHeader
  <2> QED
    BY <2>3, <2>6 DEF hs
<1> QED
  BY <1>1, <1>2, <1>3, <1>4

-----------------------------------------------------------------------------
(* What clients send, by the laws of the folds it is built with              *)

HeadersText(hs) == FoldLeft(LAMBDA text, h : text \o HeaderText(h), <<>>, hs)
Joined(text, h) == text \o HeaderText(h)
Joining == [a \in Seq(Byte) \X SentHeader |-> Joined(a[1], a[2])]

LEMMA SentHeaders ==
  ASSUME NEW h \in SentHeader
  PROVE  /\ h.name \in Seq(TokenByte) /\ h.value \in Seq(TextByte) /\ h.more \in Seq(TextByte)
         /\ h.name \in Seq(Byte) /\ h.value \in Seq(Byte) /\ h.more \in Seq(Byte)
         /\ h.name # <<>> /\ (h.more # <<>> => h.more[1] # "SP")
<1>1. /\ h.name \in Seq(TokenByte) /\ h.value \in Seq(TextByte) /\ h.more \in Seq(TextByte)
      /\ h.name # <<>> /\ (h.more # <<>> => h.more[1] # "SP")
  BY DEF SentHeader
<1>2. TokenByte \subseteq Byte /\ TextByte \subseteq Byte
  BY Bytes
<1> QED
  BY <1>1, <1>2, SeqMonotonic

LEMMA HeaderTextType == ASSUME NEW h \in SentHeader PROVE HeaderText(h) \in Seq(Byte)
<1> DEFINE sep == <<":", "SP">>
           tab == <<"HT">>
           tail == IF h.more = <<>> THEN <<>> ELSE CRLF \o tab \o h.more
<1>1. /\ h.name \in Seq(Byte) /\ h.value \in Seq(Byte) /\ h.more \in Seq(Byte)
  BY SentHeaders
<1>2. sep \in Seq(Byte) /\ tab \in Seq(Byte) /\ CRLF \in Seq(Byte) /\ <<>> \in Seq(Byte)
  BY Bytes DEF CRLF
<1>3. HeaderText(h) = h.name \o sep \o h.value \o tail \o CRLF
  BY DEF HeaderText
<1> HIDE DEF sep, tab
<1>4. tail \in Seq(Byte)
  <2>1. CRLF \o tab \in Seq(Byte)
    BY <1>2, ConcatProperties
  <2>2. CRLF \o tab \o h.more \in Seq(Byte)
    BY <1>1, <2>1, ConcatProperties
  <2> QED
    BY <1>2, <2>2
<1> HIDE DEF tail
<1>5. h.name \o sep \in Seq(Byte)
  BY <1>1, <1>2, ConcatProperties
<1>6. h.name \o sep \o h.value \in Seq(Byte)
  BY <1>1, <1>5, ConcatProperties
<1>7. h.name \o sep \o h.value \o tail \in Seq(Byte)
  BY <1>4, <1>6, ConcatProperties
<1>8. h.name \o sep \o h.value \o tail \o CRLF \in Seq(Byte)
  BY <1>2, <1>7, ConcatProperties
<1> QED
  BY <1>3, <1>8

LEMMA JoinedType ==
  ASSUME NEW t \in Seq(Byte), NEW h \in SentHeader PROVE Joined(t, h) \in Seq(Byte)
BY HeaderTextType, ConcatProperties DEF Joined

LEMMA HeadersTextWalk ==
  ASSUME NEW s \in Seq(SentHeader)
  PROVE  /\ Folding(Seq(Byte), SentHeader, <<>>, Joining)
         /\ \E h \in [0..Len(s) -> Seq(Byte)] :
              Walk(h, <<>>, Joining, s) /\ HeadersText(s) = h[Len(s)]
<1> DEFINE N == Len(s)
           base == <<>>
           Eq(iter) == iter = [u \in SUBSET (DOMAIN s) |->
                                 IF u = {} THEN base ELSE Joined(iter[u \ {Max(u)}], s[Max(u)])]
           it == CHOOSE iter : Eq(iter)
<1>1. HeadersText(s) = it[DOMAIN s]
  BY DEF HeadersText, FoldLeft, MapThenFoldSet, Joined
<1>2. N \in Nat /\ DOMAIN s = 1..N /\ s \in [1..N -> SentHeader]
  BY LenProperties
<1>3. base \in Seq(Byte)
  OBVIOUS
<1>4. Joining \in [Seq(Byte) \X SentHeader -> Seq(Byte)]
  BY JoinedType DEF Joining
<1>0. \A u \in SUBSET (1..N) : u # {} => Max(u) \in 1..N /\ u \ {Max(u)} \in SUBSET (1..N)
  BY <1>2, MaxProps
<1>5. Eq(it)
  <2> HIDE DEF base, N
  <2>1. PICK f \in [SUBSET (1..N) -> Seq(Byte)] : IsFold(f, base, Joining, s, 1..N)
    BY <1>2, <1>3, <1>4, FoldExists
  <2>2. ASSUME NEW u \in SUBSET (1..N), u # {}
        PROVE  f[u] = Joined(f[u \ {Max(u)}], s[Max(u)])
    <3>1. f[u \ {Max(u)}] \in Seq(Byte) /\ s[Max(u)] \in SentHeader
      BY <1>0, <1>2, <2>2
    <3> QED
      BY <2>1, <2>2, <3>1 DEF IsFold, Joining
  <2>3. f[{}] = base
    BY <2>1 DEF IsFold
  <2>4. Eq(f)
    BY <1>2, <2>2, <2>3
  <2> HIDE DEF Eq
  <2> QED
    BY <2>4
<1> HIDE DEF it, base
<1>6. it[{}] = base
  BY <1>5
<1>7. ASSUME NEW u \in SUBSET (1..N), u # {}, it[u \ {Max(u)}] \in Seq(Byte)
      PROVE  it[u] = Joining[<<it[u \ {Max(u)}], s[Max(u)]>>]
  <2>1. it[u] = Joined(it[u \ {Max(u)}], s[Max(u)])
    BY <1>2, <1>5, <1>7
  <2>2. s[Max(u)] \in SentHeader
    BY <1>0, <1>2, <1>7
  <2> QED
    BY <1>7, <2>1, <2>2 DEF Joining
<1>8. \E h \in [0..N -> Seq(Byte)] : Walk(h, base, Joining, s) /\ h[N] = it[1..N]
  <2>1. FoldsTo(it, Seq(Byte), base, Joining, s)
    BY <1>6, <1>7 DEF FoldsTo
  <2>2. Folding(Seq(Byte), SentHeader, base, Joining)
    BY <1>3, <1>4 DEF Folding
  <2> QED
    BY <2>1, <2>2, FoldWalk
<1> QED
  BY <1>1, <1>2, <1>3, <1>4, <1>8 DEF base, Folding

LEMMA HeadersTextLaws ==
  /\ HeadersText(<<>>) = <<>>
  /\ \A s \in Seq(SentHeader) : HeadersText(s) \in Seq(Byte)
  /\ \A s \in Seq(SentHeader), x \in SentHeader :
       HeadersText(Append(s, x)) = Joined(HeadersText(s), x)
<1>1. HeadersText(<<>>) = <<>>
  <2>1. <<>> \in Seq(SentHeader) /\ Len(<<>>) = 0
    BY EmptySeq
  <2>2. PICK h \in [0..0 -> Seq(Byte)] : Walk(h, <<>>, Joining, <<>>) /\ HeadersText(<<>>) = h[0]
    BY <2>1, HeadersTextWalk
  <2> QED
    BY <2>2 DEF Walk
<1>2. ASSUME NEW s \in Seq(SentHeader) PROVE HeadersText(s) \in Seq(Byte)
  <2>1. PICK h \in [0..Len(s) -> Seq(Byte)] : HeadersText(s) = h[Len(s)]
    BY HeadersTextWalk
  <2>2. Len(s) \in 0..Len(s)
    OBVIOUS
  <2> QED
    BY <2>1, <2>2
<1>3. ASSUME NEW s \in Seq(SentHeader), NEW x \in SentHeader
      PROVE  HeadersText(Append(s, x)) = Joined(HeadersText(s), x)
  <2> SUFFICES ASSUME NEW t, t = Append(s, x) PROVE HeadersText(t) = Joined(HeadersText(s), x)
    OBVIOUS
  <2>1. t \in Seq(SentHeader) /\ Len(s) \in Nat /\ OneLonger(t, s, x)
    BY AppendProps DEF OneLonger
  <2>2. PICK g \in [0..Len(s) -> Seq(Byte)] :
          Walk(g, <<>>, Joining, s) /\ HeadersText(s) = g[Len(s)]
    BY HeadersTextWalk
  <2>3. PICK h \in [0..Len(t) -> Seq(Byte)] :
          Walk(h, <<>>, Joining, t) /\ HeadersText(t) = h[Len(t)]
    BY <2>1, HeadersTextWalk
  <2>4. StepsTo(Joining, g[Len(s)], x, h[Len(t)])
    BY <2>1, <2>2, <2>3, WalkAppend
  <2>5. g[Len(s)] \in Seq(Byte)
    BY <2>1
  <2> QED
    BY <2>2, <2>3, <2>4, <2>5 DEF Joining, StepsTo
<1> QED
  BY <1>1, <1>2, <1>3

Escaped(x) == IF x \in DOMAIN Escapes THEN Escapes[x] ELSE {<<x>>}
UriByte == TextByte \ {"SP"}
Uris == SUBSET Seq(UriByte)
Encoded(uris, x) == {uri \o e : uri \in uris, e \in Escaped(x)}
Encoding == [a \in Uris \X PathByte |-> Encoded(a[1], a[2])]

LEMMA EscapedType == ASSUME NEW x \in PathByte PROVE Escaped(x) \subseteq Seq(UriByte)
<1>1. {"+", "%", "2", "0", "/", "F", ".", "E"} \subseteq UriByte
  BY WordAssumption DEF UriByte, TextByte, Byte, Ctl, Letter, Tspecial, HexLetter, Digit
<1>2. CASE x \in {"SP", "/", "."}
  <2>1. /\ Escapes["SP"] = {<<"+">>, <<"%", "2", "0">>}
        /\ Escapes["/"] = {<<"/">>, <<"%", "2", "F">>}
        /\ Escapes["."] = {<<".">>, <<"%", "2", "E">>}
    BY DEF Escapes
  <2>2. x \in DOMAIN Escapes
    BY <1>2 DEF Escapes
  <2>3. Escaped(x) = Escapes[x]
    BY <2>2 DEF Escaped
  <2>4. /\ {<<"+">>, <<"/">>, <<".">>} \subseteq Seq(UriByte)
        /\ {<<"%", "2", "0">>, <<"%", "2", "F">>, <<"%", "2", "E">>} \subseteq Seq(UriByte)
    BY <1>1
  <2> QED
    BY <1>2, <2>1, <2>3, <2>4
<1>3. CASE x \notin {"SP", "/", "."}
  <2>1. x \in UriByte
    BY <1>3 DEF PathByte, UriByte
  <2> QED
    BY <1>3, <2>1 DEF Escaped, Escapes
<1> QED
  BY <1>2, <1>3

LEMMA EncodedFrom ==
  ASSUME NEW uris, NEW x, NEW z \in Encoded(uris, x)
  PROVE  \E a \in uris : \E e \in Escaped(x) : z = a \o e
BY DEF Encoded

LEMMA EncodedType == ASSUME NEW uris \in Uris, NEW x \in PathByte PROVE Encoded(uris, x) \in Uris
<1>1. ASSUME NEW u \in uris, NEW e \in Escaped(x) PROVE u \o e \in Seq(UriByte)
  <2>1. u \in Seq(UriByte) /\ e \in Seq(UriByte)
    BY EscapedType DEF Uris
  <2> QED
    BY <2>1, ConcatProperties
<1>2. \A z \in Encoded(uris, x) : \E u \in uris, e \in Escaped(x) : z = u \o e
  BY DEF Encoded
<1>3. \A z \in Encoded(uris, x) : z \in Seq(UriByte)
  BY <1>1, <1>2
<1> QED
  BY <1>3 DEF Uris

LEMMA EncodingsWalk ==
  ASSUME NEW s \in Seq(PathByte)
  PROVE  /\ Folding(Uris, PathByte, {<<>>}, Encoding)
         /\ \E h \in [0..Len(s) -> Uris] :
              Walk(h, {<<>>}, Encoding, s) /\ Encodings(s) = h[Len(s)]
<1> DEFINE N == Len(s)
           base == {<<>>}
           Eq(iter) == iter = [u \in SUBSET (DOMAIN s) |->
                                 IF u = {} THEN base ELSE Encoded(iter[u \ {Max(u)}], s[Max(u)])]
           it == CHOOSE iter : Eq(iter)
<1>1. Encodings(s) = it[DOMAIN s]
  BY DEF Encodings, FoldLeft, MapThenFoldSet, Encoded, Escaped
<1>2. N \in Nat /\ DOMAIN s = 1..N /\ s \in [1..N -> PathByte]
  BY LenProperties
<1>3. base \in Uris
  BY EmptySeq DEF Uris
<1>4. Encoding \in [Uris \X PathByte -> Uris]
  BY EncodedType DEF Encoding
<1>0. \A u \in SUBSET (1..N) : u # {} => Max(u) \in 1..N /\ u \ {Max(u)} \in SUBSET (1..N)
  BY <1>2, MaxProps
<1>5. Eq(it)
  <2> HIDE DEF base, N
  <2>1. PICK f \in [SUBSET (1..N) -> Uris] : IsFold(f, base, Encoding, s, 1..N)
    BY <1>2, <1>3, <1>4, FoldExists
  <2>2. ASSUME NEW u \in SUBSET (1..N), u # {}
        PROVE  f[u] = Encoded(f[u \ {Max(u)}], s[Max(u)])
    <3>1. f[u \ {Max(u)}] \in Uris /\ s[Max(u)] \in PathByte
      BY <1>0, <1>2, <2>2
    <3> QED
      BY <2>1, <2>2, <3>1 DEF IsFold, Encoding
  <2>3. f[{}] = base
    BY <2>1 DEF IsFold
  <2>4. Eq(f)
    BY <1>2, <2>2, <2>3
  <2> HIDE DEF Eq
  <2> QED
    BY <2>4
<1> HIDE DEF it, base
<1>6. it[{}] = base
  BY <1>5
<1>7. ASSUME NEW u \in SUBSET (1..N), u # {}, it[u \ {Max(u)}] \in Uris
      PROVE  it[u] = Encoding[<<it[u \ {Max(u)}], s[Max(u)]>>]
  <2>1. it[u] = Encoded(it[u \ {Max(u)}], s[Max(u)])
    BY <1>2, <1>5, <1>7
  <2>2. s[Max(u)] \in PathByte
    BY <1>0, <1>2, <1>7
  <2> QED
    BY <1>7, <2>1, <2>2 DEF Encoding
<1>8. \E h \in [0..N -> Uris] : Walk(h, base, Encoding, s) /\ h[N] = it[1..N]
  <2>1. FoldsTo(it, Uris, base, Encoding, s)
    BY <1>6, <1>7 DEF FoldsTo
  <2>2. Folding(Uris, PathByte, base, Encoding)
    BY <1>3, <1>4 DEF Folding
  <2> QED
    BY <2>1, <2>2, FoldWalk
<1> QED
  BY <1>1, <1>2, <1>3, <1>4, <1>8 DEF base, Folding

LEMMA EncodingsLaws ==
  /\ Encodings(<<>>) = {<<>>}
  /\ \A s \in Seq(PathByte) : Encodings(s) \in Uris
  /\ \A s \in Seq(PathByte), x \in PathByte : Encodings(Append(s, x)) = Encoded(Encodings(s), x)
<1>1. Encodings(<<>>) = {<<>>}
  <2>1. <<>> \in Seq(PathByte) /\ Len(<<>>) = 0
    BY EmptySeq
  <2>2. PICK h \in [0..0 -> Uris] : Walk(h, {<<>>}, Encoding, <<>>) /\ Encodings(<<>>) = h[0]
    BY <2>1, EncodingsWalk
  <2> QED
    BY <2>2 DEF Walk
<1>2. ASSUME NEW s \in Seq(PathByte) PROVE Encodings(s) \in Uris
  <2>1. PICK h \in [0..Len(s) -> Uris] : Encodings(s) = h[Len(s)]
    BY EncodingsWalk
  <2>2. Len(s) \in 0..Len(s)
    OBVIOUS
  <2> QED
    BY <2>1, <2>2
<1>3. ASSUME NEW s \in Seq(PathByte), NEW x \in PathByte
      PROVE  Encodings(Append(s, x)) = Encoded(Encodings(s), x)
  <2> SUFFICES ASSUME NEW t, t = Append(s, x) PROVE Encodings(t) = Encoded(Encodings(s), x)
    OBVIOUS
  <2>1. t \in Seq(PathByte) /\ Len(s) \in Nat /\ OneLonger(t, s, x)
    BY AppendProps DEF OneLonger
  <2>2. PICK g \in [0..Len(s) -> Uris] : Walk(g, {<<>>}, Encoding, s) /\ Encodings(s) = g[Len(s)]
    BY EncodingsWalk
  <2>3. PICK h \in [0..Len(t) -> Uris] : Walk(h, {<<>>}, Encoding, t) /\ Encodings(t) = h[Len(t)]
    BY <2>1, EncodingsWalk
  <2>4. StepsTo(Encoding, g[Len(s)], x, h[Len(t)])
    BY <2>1, <2>2, <2>3, WalkAppend
  <2>5. g[Len(s)] \in Uris
    BY <2>1
  <2> QED
    BY <2>2, <2>3, <2>4, <2>5 DEF Encoding, StepsTo
<1> QED
  BY <1>1, <1>2, <1>3

-----------------------------------------------------------------------------
(* Decoding                                                                  *)

(* What is decoded from position i on, by what f says of the rest.           *)
DecodeAt(in, f, i) ==
  CASE i > Len(in) -> [ok |-> TRUE, out |-> <<>>]
    [] i <= Len(in) /\ in[i] = "%" ->
         IF i + 2 <= Len(in) /\ IsNumber(in[i + 1], in[i + 2])
           THEN Before(CharOf(Number(in[i + 1], in[i + 2])), f[i + 3])
           ELSE Failed
    [] OTHER -> Before(IF in[i] = "+" THEN "SP" ELSE in[i], f[i + 1])
Decodes(f, in) == f = [i \in 1..(Len(in) + 1) |-> DecodeAt(in, f, i)]

LEMMA DecodeExists ==
  ASSUME NEW in \in Seq(Byte) PROVE \E f : Decodes(f, in)
<1> DEFINE L == Len(in)
           Fits(f, n) == \A i \in 1..(L + 1) : i + n > L + 1 => f[i] = DecodeAt(in, f, i)
           P(n) == n <= L + 1 => \E f : f = [i \in 1..(L + 1) |-> f[i]] /\ Fits(f, n)
           T == {n \in Nat : P(n)}
<1>0. L \in Nat
  OBVIOUS
<1>1. P(0)
  <2> DEFINE f == [i \in 1..(L + 1) |-> 0]
  <2>1. f = [i \in 1..(L + 1) |-> f[i]] /\ Fits(f, 0)
    BY <1>0
  <2> HIDE DEF f
  <2> QED
    BY <2>1
<1>2. ASSUME NEW n \in Nat, P(n) PROVE P(n + 1)
  <2> HIDE DEF L
  <2> SUFFICES ASSUME n + 1 <= L + 1
               PROVE  \E f : f = [i \in 1..(L + 1) |-> f[i]] /\ Fits(f, n + 1)
    OBVIOUS
  <2>1. PICK f : f = [i \in 1..(L + 1) |-> f[i]] /\ Fits(f, n)
    BY <1>0, <1>2
  <2> DEFINE k == L + 1 - n
             v == DecodeAt(in, f, k)
             g == [i \in 1..(L + 1) |-> IF i = k THEN v ELSE f[i]]
  <2>2. k \in 1..(L + 1)
    BY <1>0
  <2>3. \A i \in 1..(L + 1) : i > k => g[i] = f[i]
    BY <1>0
  <2>4. ASSUME NEW i \in 1..(L + 1), i >= k
        PROVE  DecodeAt(in, g, i) = DecodeAt(in, f, i)
    <3>1. CASE i > L
      BY <3>1 DEF DecodeAt, L
    <3>2. CASE i <= L /\ i + 2 > L
      <4>1. i + 1 \in 1..(L + 1) /\ i + 1 > k /\ ~(i + 2 <= L) /\ ~(i > L)
        BY <1>0, <2>2, <2>4, <3>2
      <4>2. g[i + 1] = f[i + 1]
        BY <2>3, <4>1
      <4> HIDE DEF g
      <4> QED
        BY <3>2, <4>1, <4>2 DEF DecodeAt, L
    <3>3. CASE i + 2 <= L
      <4>1. /\ i + 1 \in 1..(L + 1) /\ i + 1 > k /\ i + 3 \in 1..(L + 1) /\ i + 3 > k
            /\ ~(i > L) /\ i <= L
        BY <1>0, <2>2, <2>4, <3>3
      <4>2. g[i + 1] = f[i + 1] /\ g[i + 3] = f[i + 3]
        BY <2>3, <4>1
      <4> HIDE DEF g
      <4> QED
        BY <3>3, <4>1, <4>2 DEF DecodeAt, L
    <3> QED
      BY <1>0, <3>1, <3>2, <3>3
  <2>5. Fits(g, n + 1)
    <3> SUFFICES ASSUME NEW i \in 1..(L + 1), i + (n + 1) > L + 1
                 PROVE  g[i] = DecodeAt(in, g, i)
      OBVIOUS
    <3>1. i >= k
      BY <1>0
    <3>2. DecodeAt(in, g, i) = DecodeAt(in, f, i)
      BY <2>4, <3>1
    <3>3. CASE i = k
      BY <3>2, <3>3
    <3>4. CASE i # k
      <4>1. i + n > L + 1 /\ i > k
        BY <1>0, <3>1, <3>4
      <4>2. f[i] = DecodeAt(in, f, i) /\ g[i] = f[i]
        BY <2>1, <2>3, <4>1
      <4> QED
        BY <3>2, <4>2
    <3> QED
      BY <3>3, <3>4
  <2>6. g = [i \in 1..(L + 1) |-> g[i]]
    OBVIOUS
  <2> HIDE DEF g
  <2> QED
    BY <2>5, <2>6
<1> HIDE DEF P
<1>3. T = Nat
  <2>1. T \in SUBSET Nat /\ 0 \in T /\ \A m \in T : m + 1 \in T
    BY <1>1, <1>2
  <2> HIDE DEF T
  <2> QED
    BY <2>1, InductionOnNat
<1>4. P(L + 1)
  BY <1>0, <1>3
<1>5. PICK f : f = [i \in 1..(L + 1) |-> f[i]] /\ Fits(f, L + 1)
  BY <1>0, <1>4 DEF P
<1>6. \A i \in 1..(L + 1) : f[i] = DecodeAt(in, f, i)
  BY <1>0, <1>5
<1>7. Decodes(f, in)
  BY <1>5, <1>6 DEF Decodes
<1> QED
  BY <1>7

LEMMA UrlDecodeIs ==
  ASSUME NEW in \in Seq(Byte) PROVE \E f : Decodes(f, in) /\ UrlDecode(in) = f[1]
<1>1. UrlDecode(in) = (CHOOSE f : Decodes(f, in))[1]
  BY DEF UrlDecode, Decodes, DecodeAt
<1>2. Decodes(CHOOSE f : Decodes(f, in), in)
  BY DecodeExists
<1> QED
  BY <1>1, <1>2

(* What is decoded from a position on does not depend on what is before it.  *)
LEMMA DecodeShift ==
  ASSUME NEW in \in Seq(Byte), NEW v \in Seq(Byte), NEW k \in Nat, Len(in) = Len(v) + k,
         \A i \in 1..Len(v) : in[i + k] = v[i],
         NEW f, NEW g, Decodes(f, in), Decodes(g, v)
  PROVE  f[1 + k] = g[1]
<1> DEFINE L == Len(v)
           P(n) == \A i \in 1..(L + 1) : i + n > L + 1 => f[i + k] = g[i]
           T == {n \in Nat : P(n)}
<1>0. L \in Nat /\ Len(in) = L + k
  OBVIOUS
<1> HIDE DEF L
<1>1. P(0)
  BY <1>0
<1>2. ASSUME NEW n \in Nat, P(n) PROVE P(n + 1)
  <2> SUFFICES ASSUME NEW i \in 1..(L + 1), i + (n + 1) > L + 1 PROVE f[i + k] = g[i]
    OBVIOUS
  <2>1. \A j \in 1..(L + 1) : j > i => f[j + k] = g[j]
    BY <1>0, <1>2
  <2>2. f[i + k] = DecodeAt(in, f, i + k) /\ g[i] = DecodeAt(v, g, i)
    <3>1. i + k \in 1..(Len(in) + 1) /\ i \in 1..(Len(v) + 1)
      BY <1>0 DEF L
    <3> QED
      BY <3>1 DEF Decodes
  <2>3. CASE i > L
    BY <1>0, <2>2, <2>3 DEF DecodeAt, L
  <2>4. CASE i <= L /\ i + 2 > L
    <3>1. i + 1 \in 1..(L + 1) /\ i + 1 > i /\ ~(i + 2 <= L) /\ ~(i > L)
      BY <1>0, <2>4
    <3>2. f[(i + k) + 1] = g[i + 1]
      <4>1. f[(i + 1) + k] = g[i + 1] /\ (i + 1) + k = (i + k) + 1
        BY <1>0, <2>1, <3>1
      <4> QED
        BY <4>1
    <3>3. in[i + k] = v[i]
      BY <1>0, <2>4 DEF L
    <3>4. ~(i + k > Len(in)) /\ i + k <= Len(in) /\ ~((i + k) + 2 <= Len(in))
      BY <1>0, <3>1, <2>4
    <3> QED
      BY <2>2, <2>4, <3>1, <3>2, <3>3, <3>4 DEF DecodeAt, L
  <2>5. CASE i + 2 <= L
    <3>1. /\ i + 1 \in 1..(L + 1) /\ i + 1 > i /\ i + 3 \in 1..(L + 1) /\ i + 3 > i
          /\ ~(i > L) /\ i <= L
      BY <1>0, <2>5
    <3>2. f[(i + k) + 1] = g[i + 1] /\ f[(i + k) + 3] = g[i + 3]
      <4>1. /\ f[(i + 1) + k] = g[i + 1] /\ (i + 1) + k = (i + k) + 1
            /\ f[(i + 3) + k] = g[i + 3] /\ (i + 3) + k = (i + k) + 3
        BY <1>0, <2>1, <3>1
      <4> QED
        BY <4>1
    <3>3. in[i + k] = v[i] /\ in[(i + k) + 1] = v[i + 1] /\ in[(i + k) + 2] = v[i + 2]
      <4>1. i \in 1..Len(v) /\ i + 1 \in 1..Len(v) /\ i + 2 \in 1..Len(v)
        BY <1>0, <2>5 DEF L
      <4>2. (i + 1) + k = (i + k) + 1 /\ (i + 2) + k = (i + k) + 2
        BY <1>0
      <4> QED
        BY <4>1, <4>2
    <3>4. ~(i + k > Len(in)) /\ i + k <= Len(in) /\ (i + k) + 2 <= Len(in)
      BY <1>0, <3>1, <2>5
    <3> QED
      BY <2>2, <2>5, <3>1, <3>2, <3>3, <3>4 DEF DecodeAt, L
  <2> QED
    BY <1>0, <2>3, <2>4, <2>5
<1> HIDE DEF P
<1>3. T = Nat
  <2>1. T \in SUBSET Nat /\ 0 \in T /\ \A m \in T : m + 1 \in T
    BY <1>1, <1>2
  <2> HIDE DEF T
  <2> QED
    BY <2>1, InductionOnNat
<1>4. P(L + 1)
  BY <1>0, <1>3
<1> QED
  BY <1>0, <1>4 DEF P

LEMMA DecodeOne ==
  ASSUME NEW b \in Byte, b # "%", NEW v \in Seq(Byte)
  PROVE  UrlDecode(<<b>> \o v) = Before(IF b = "+" THEN "SP" ELSE b, UrlDecode(v))
<1> DEFINE c == <<b>>
           in == c \o v
<1>1. c \in Seq(Byte) /\ Len(c) = 1 /\ c[1] = b /\ Len(v) \in Nat
  OBVIOUS
<1> HIDE DEF c
<1>2. /\ in \in Seq(Byte) /\ Len(in) = Len(v) + 1 /\ in[1] = b
      /\ \A i \in 1..Len(v) : in[i + 1] = v[i]
  <2>1. /\ in \in Seq(Byte) /\ Len(in) = Len(c) + Len(v)
        /\ \A i \in 1..(Len(c) + Len(v)) : in[i] = IF i <= Len(c) THEN c[i] ELSE v[i - Len(c)]
    <3>1. c \in Seq(Byte) /\ v \in Seq(Byte)
      BY <1>1
    <3> QED
      BY <3>1, ConcatProperties
  <2>2. \A i \in 1..Len(v) : i + 1 \in 1..(1 + Len(v)) /\ (i + 1) - 1 = i /\ ~(i + 1 <= 1)
    BY <1>1
  <2> HIDE DEF in
  <2> QED
    BY <1>1, <2>1, <2>2
<1> HIDE DEF in
<1>3. PICK f : Decodes(f, in) /\ UrlDecode(in) = f[1]
  BY <1>2, UrlDecodeIs
<1>4. PICK g : Decodes(g, v) /\ UrlDecode(v) = g[1]
  BY UrlDecodeIs
<1>5. f[1 + 1] = g[1]
  BY <1>2, <1>3, <1>4, DecodeShift
<1>6. f[1] = DecodeAt(in, f, 1)
  <2>1. 1 \in 1..(Len(in) + 1)
    BY <1>1, <1>2
  <2> QED
    BY <1>3, <2>1 DEF Decodes
<1>7. ~(1 > Len(in)) /\ in[1] # "%"
  BY <1>1, <1>2
<1>8. f[1] = Before(IF b = "+" THEN "SP" ELSE b, g[1])
  BY <1>2, <1>5, <1>6, <1>7 DEF DecodeAt
<1> QED
  BY <1>3, <1>4, <1>8 DEF in, c

LEMMA DecodeEscape ==
  ASSUME NEW a \in Byte, NEW b \in Byte, IsNumber(a, b), NEW v \in Seq(Byte)
  PROVE  UrlDecode(<<"%", a, b>> \o v) = Before(CharOf(Number(a, b)), UrlDecode(v))
<1> DEFINE c == <<"%", a, b>>
           in == c \o v
<1>1. c \in Seq(Byte) /\ Len(c) = 3 /\ c[1] = "%" /\ c[2] = a /\ c[3] = b /\ Len(v) \in Nat
  BY Bytes
<1> HIDE DEF c
<1>2. /\ in \in Seq(Byte) /\ Len(in) = Len(v) + 3 /\ in[1] = "%" /\ in[2] = a /\ in[3] = b
      /\ \A i \in 1..Len(v) : in[i + 3] = v[i]
  <2>1. /\ in \in Seq(Byte) /\ Len(in) = Len(c) + Len(v)
        /\ \A i \in 1..(Len(c) + Len(v)) : in[i] = IF i <= Len(c) THEN c[i] ELSE v[i - Len(c)]
    <3>1. c \in Seq(Byte) /\ v \in Seq(Byte)
      BY <1>1
    <3> QED
      BY <3>1, ConcatProperties
  <2>2. \A i \in 1..Len(v) : i + 3 \in 1..(3 + Len(v)) /\ (i + 3) - 3 = i /\ ~(i + 3 <= 3)
    BY <1>1
  <2> HIDE DEF in
  <2> QED
    BY <1>1, <2>1, <2>2
<1> HIDE DEF in
<1>3. PICK f : Decodes(f, in) /\ UrlDecode(in) = f[1]
  BY <1>2, UrlDecodeIs
<1>4. PICK g : Decodes(g, v) /\ UrlDecode(v) = g[1]
  BY UrlDecodeIs
<1>5. f[1 + 3] = g[1]
  BY <1>2, <1>3, <1>4, DecodeShift
<1>6. f[1] = DecodeAt(in, f, 1)
  <2>1. 1 \in 1..(Len(in) + 1)
    BY <1>1, <1>2
  <2> QED
    BY <1>3, <2>1 DEF Decodes
<1>7. ~(1 > Len(in)) /\ 1 <= Len(in) /\ 1 + 2 <= Len(in)
  BY <1>1, <1>2
<1>8. f[1] = Before(CharOf(Number(a, b)), g[1])
  BY <1>2, <1>5, <1>6, <1>7 DEF DecodeAt
<1> QED
  BY <1>3, <1>4, <1>8 DEF in, c

LEMMA DecodeNothing == UrlDecode(<<>>) = [ok |-> TRUE, out |-> <<>>]
<1>1. <<>> \in Seq(Byte) /\ Len(<<>>) = 0
  OBVIOUS
<1>2. PICK f : Decodes(f, <<>>) /\ UrlDecode(<<>>) = f[1]
  BY <1>1, UrlDecodeIs
<1>3. f[1] = DecodeAt(<<>>, f, 1)
  <2>1. 1 \in 1..(Len(<<>>) + 1)
    BY <1>1
  <2> QED
    BY <1>2, <2>1 DEF Decodes
<1> QED
  BY <1>1, <1>2, <1>3 DEF DecodeAt

(* The escapes of a character stand for it.                                  *)
LEMMA DecodeEscaped ==
  ASSUME NEW x \in PathByte, NEW e \in Escaped(x), NEW v \in Seq(Byte)
  PROVE  UrlDecode(e \o v) = Before(x, UrlDecode(v))
<1>1. /\ Escapes["SP"] = {<<"+">>, <<"%", "2", "0">>}
      /\ Escapes["/"] = {<<"/">>, <<"%", "2", "F">>}
      /\ Escapes["."] = {<<".">>, <<"%", "2", "E">>}
  BY DEF Escapes
<1>2. x \in Byte /\ x # "%" /\ x # "+"
  BY Bytes DEF PathByte
<1>3. {"+", "2", "0", "/", "F", ".", "E"} \subseteq Byte
  BY DEF Byte, Letter, Tspecial, HexLetter, Digit
<1>4. /\ \A c \in {"0", "F", "E"} : IsNumber("2", c)
      /\ CharOf(Number("2", "0")) = "SP" /\ CharOf(Number("2", "F")) = "/"
      /\ CharOf(Number("2", "E")) = "."
  <2>1. /\ HexValue("2") = 2 /\ HexValue("0") = 0 /\ HexValue("F") = 15 /\ HexValue("E") = 14
    BY DEF HexValue
  <2>2. {"2", "0", "F", "E"} \subseteq HexDigit
    BY DEF HexDigit, Digit, HexLetter
  <2>3. Number("2", "0") = 32 /\ Number("2", "F") = 47 /\ Number("2", "E") = 46
    BY <2>1, <2>2 DEF Number
  <2> QED
    BY <2>2, <2>3 DEF IsNumber, CharOf
<1>5. CASE x \notin {"SP", "/", "."}
  <2>1. e = <<x>>
    BY <1>5 DEF Escaped, Escapes
  <2> QED
    BY <1>2, <2>1, DecodeOne
<1>6. CASE x = "SP"
  <2>1. x \in DOMAIN Escapes
    BY <1>6 DEF Escapes
  <2>2. e = <<"+">> \/ e = <<"%", "2", "0">>
    BY <1>1, <1>6, <2>1 DEF Escaped
  <2>3. CASE e = <<"+">>
    BY <1>3, <1>6, <2>3, DecodeOne
  <2>4. CASE e = <<"%", "2", "0">>
    BY <1>3, <1>4, <1>6, <2>4, DecodeEscape
  <2> QED
    BY <2>2, <2>3, <2>4
<1>7. CASE x = "/"
  <2>1. x \in DOMAIN Escapes
    BY <1>7 DEF Escapes
  <2>2. e = <<"/">> \/ e = <<"%", "2", "F">>
    BY <1>1, <1>7, <2>1 DEF Escaped
  <2>3. CASE e = <<"/">>
    BY <1>3, <1>7, <2>3, DecodeOne
  <2>4. CASE e = <<"%", "2", "F">>
    BY <1>3, <1>4, <1>7, <2>4, DecodeEscape
  <2> QED
    BY <2>2, <2>3, <2>4
<1>8. CASE x = "."
  <2>1. x \in DOMAIN Escapes
    BY <1>8 DEF Escapes
  <2>2. e = <<".">> \/ e = <<"%", "2", "E">>
    BY <1>1, <1>8, <2>1 DEF Escaped
  <2>3. CASE e = <<".">>
    BY <1>3, <1>8, <2>3, DecodeOne
  <2>4. CASE e = <<"%", "2", "E">>
    BY <1>3, <1>4, <1>8, <2>4, DecodeEscape
  <2> QED
    BY <2>2, <2>3, <2>4
<1> QED
  BY <1>5, <1>6, <1>7, <1>8

LEMMA BeforeDone ==
  ASSUME NEW x, NEW o
  PROVE  Before(x, [ok |-> TRUE, out |-> o]) = [ok |-> TRUE, out |-> <<x>> \o o]
<1>0. \A k, z : [[ok |-> k, out |-> o] EXCEPT !.out = z] = [ok |-> k, out |-> z]
  OBVIOUS
<1>1. \A z : [[ok |-> TRUE, out |-> o] EXCEPT !.out = z] = [ok |-> TRUE, out |-> z]
  BY <1>0, Zenon
<1> DEFINE r == [ok |-> TRUE, out |-> o]
<1>2. r.out = o /\ \A z : [r EXCEPT !.out = z] = [ok |-> TRUE, out |-> z]
  BY <1>1
<1> HIDE DEF r
<1>3. Before(x, r) = [r EXCEPT !.out = <<x>> \o r.out]
  BY DEF Before
<1> QED
  BY <1>2, <1>3 DEF r

LEMMA JoinedBytes ==
  ASSUME NEW s \in Seq(Byte), NEW t \in Seq(Byte), NEW u \in Seq(Byte)
  PROVE  (s \o t) \o u = s \o (t \o u)
BY ConcatAssociative

(* Whatever is escaped of a path, it is decoded to the path.                 *)
LEMMA DecodeEncoded ==
  ASSUME NEW p \in Seq(PathByte), NEW uri \in Encodings(p)
  PROVE  uri \in Seq(UriByte) /\ UrlDecode(uri) = [ok |-> TRUE, out |-> p]
<1> DEFINE Done(o) == [ok |-> TRUE, out |-> o]
           P(s) == \A u \in Encodings(s), v \in Seq(Byte), o \in Seq(Byte) :
                     UrlDecode(v) = Done(o) => UrlDecode(u \o v) = Done(s \o o)
           T == {s \in Seq(PathByte) : P(s)}
<1>0. PathByte \subseteq Byte /\ UriByte \subseteq Byte
  BY Bytes DEF PathByte, UriByte
<1>1. <<>> \in T
  <2> SUFFICES ASSUME NEW u \in Encodings(<<>>), NEW v \in Seq(Byte), NEW o \in Seq(Byte),
                      UrlDecode(v) = Done(o)
               PROVE  UrlDecode(u \o v) = Done(<<>> \o o)
    BY EmptySeq
  <2>1. u = <<>>
    BY EncodingsLaws
  <2>2. u \o v = v /\ <<>> \o o = o
    BY <2>1, ConcatEmpty
  <2> QED
    BY <2>2
<1>2. ASSUME NEW s \in T, NEW x \in PathByte PROVE Append(s, x) \in T
  <2>0. Append(s, x) \in Seq(PathByte) /\ s \in Seq(PathByte) /\ P(s)
    BY AppendProps
  <2>1. Encodings(Append(s, x)) = Encoded(Encodings(s), x)
    BY <2>0, EncodingsLaws
  <2> SUFFICES ASSUME NEW u \in Encoded(Encodings(s), x), NEW v \in Seq(Byte),
                      NEW o \in Seq(Byte), UrlDecode(v) = Done(o)
               PROVE  UrlDecode(u \o v) = Done(Append(s, x) \o o)
    BY <2>0, <2>1
  <2>9. \E w \in Encodings(s) : \E e \in Escaped(x) : u = w \o e
    <3> HIDE DEF T, Done
    <3> QED
      BY EncodedFrom
  <2>2. PICK w \in Encodings(s), e \in Escaped(x) : u = w \o e
    BY <2>9
  <2>3. w \in Seq(Byte) /\ e \in Seq(Byte) /\ x \in Byte /\ s \in Seq(Byte)
    <3>1. Encodings(s) \in Uris /\ Escaped(x) \subseteq Seq(UriByte)
      BY <2>0, EncodingsLaws, EscapedType
    <3>2. Seq(UriByte) \subseteq Seq(Byte) /\ Seq(PathByte) \subseteq Seq(Byte)
      BY <1>0, SeqMonotonic
    <3> QED
      BY <1>0, <2>0, <3>1, <3>2 DEF Uris
  <2>4. u \o v = w \o (e \o v)
    <3> HIDE DEF T, P, Done
    <3>1. (w \o e) \o v = w \o (e \o v)
      BY <2>3, JoinedBytes, Zenon
    <3> QED
      BY <2>2, <3>1
  <2> DEFINE c == <<x>> \o o
  <2>5. UrlDecode(e \o v) = Done(c)
    <3>1. UrlDecode(e \o v) = Before(x, UrlDecode(v))
      BY DecodeEscaped
    <3>2. Before(x, Done(o)) = Done(c)
      BY BeforeDone
    <3> QED
      BY <3>1, <3>2
  <2>6. c \in Seq(Byte) /\ e \o v \in Seq(Byte)
    <3> DEFINE d == <<x>>
    <3>1. d \in Seq(Byte)
      BY <2>3
    <3> HIDE DEF d
    <3>2. d \o o \in Seq(Byte)
      BY <3>1, ConcatProperties
    <3> QED
      BY <2>3, <3>2, ConcatProperties DEF d
  <2>7. Append(s, x) \o o = s \o c
    <3>1. s \in Seq(Byte) /\ x \in Byte /\ o \in Seq(Byte)
      BY <2>3
    <3> QED
      BY <3>1, AppendConcat
  <2> HIDE DEF c
  <2>8. UrlDecode(w \o (e \o v)) = Done(s \o c)
    BY <2>0, <2>5, <2>6
  <2> QED
    BY <2>4, <2>7, <2>8
<1>3. T = Seq(PathByte)
  <2>1. T \in SUBSET Seq(PathByte)
    OBVIOUS
  <2> HIDE DEF T
  <2> QED
    BY <1>1, <1>2, <2>1, InductionOnSeq
<1>4. uri \in Seq(UriByte) /\ uri \in Seq(Byte) /\ p \in Seq(Byte)
  BY <1>0, EncodingsLaws, SeqMonotonic DEF Uris
<1>5. P(p) /\ <<>> \in Seq(Byte)
  BY <1>3, EmptySeq
<1>6. UrlDecode(uri \o <<>>) = Done(p \o <<>>)
  BY <1>5, DecodeNothing
<1>7. uri \o <<>> = uri /\ p \o <<>> = p
  BY <1>4, ConcatEmpty
<1> QED
  BY <1>4, <1>6, <1>7

-----------------------------------------------------------------------------
(* Reading what clients send                                                 *)

LEMMA ReadsSentHeader ==
  ASSUME NEW m \in Seq(Byte), NEW u \in Seq(Byte), NEW hs \in Seq(HeaderType),
         NEW h \in SentHeader
  PROVE  /\ h.value \o h.more \in Seq(Byte)
         /\ Reads(At("header_line_start", m, u, hs), HeaderText(h),
                  At("header_line_start", m, u, Append(hs, Header(h.name, h.value \o h.more))))
<1> DEFINE A(st, y) == At(st, m, u, Append(hs, Header(h.name, y)))
           start == At("header_line_start", m, u, hs)
           sep == <<":", "SP">>
           tab == <<"HT">>
           first == h.name \o sep \o h.value
           tail == IF h.more = <<>> THEN <<>> ELSE CRLF \o tab \o h.more
<1>0. HeaderText(h) = first \o tail \o CRLF
  BY DEF HeaderText
<1>1. /\ h.name \in Seq(TokenByte) /\ h.value \in Seq(TextByte) /\ h.more \in Seq(TextByte)
      /\ h.name \in Seq(Byte) /\ h.value \in Seq(Byte) /\ h.more \in Seq(Byte)
      /\ h.name # <<>> /\ (h.more # <<>> => h.more[1] # "SP")
  BY SentHeaders
<1>2. h.value \o h.more \in Seq(Byte)
  BY <1>1, ConcatProperties
<1>3. {"header_line_start", "header_lws", "header_value"} \subseteq StateName
  BY DEF StateName
<1>4. /\ start \in Parser /\ start.result = "indeterminate"
      /\ \A st \in StateName, y \in Seq(Byte) :
           A(st, y) \in Parser /\ A(st, y).result = "indeterminate"
  BY <1>1, <1>3, HeadersType, AtType DEF At
<1>5. first \in Seq(Byte) /\ Reads(start, first, A("header_value", h.value))
  BY <1>1, ReadsHeaderLine
<1>6. /\ CRLF \in Seq(Byte)
      /\ \A y \in Seq(Byte) :
           Reads(A("header_value", y), CRLF, A("header_line_start", y))
  BY <1>1, HeadersType, ReadsEndOfLine
<1>7. tab \in Seq(Byte) /\ tab \in Seq(Blank) /\ tab # <<>>
  BY Bytes DEF Blank
<1> HIDE DEF first, tab
<1>8. tail \in Seq(Byte) /\ Reads(A("header_value", h.value), tail,
                                  A("header_value", h.value \o h.more))
  <2>1. CASE h.more = <<>>
    <3>1. h.value \o <<>> = h.value /\ <<>> \in Seq(Byte)
      BY <1>1, ConcatEmpty, EmptySeq
    <3> QED
      BY <1>1, <1>3, <1>4, <2>1, <3>1, ReadsNothing
  <2>2. CASE h.more # <<>>
    <3>1. Reads(A("header_line_start", h.value), tab, A("header_lws", h.value))
      <4>1. Append(hs, Header(h.name, h.value)) # <<>>
        <5>1. Header(h.name, h.value) \in HeaderType
          BY <1>1 DEF Header, HeaderType
        <5> HIDE DEF HeaderType
        <5> QED
          BY <5>1, NotEmpty
      <4> QED
        BY <1>1, <4>1, HeadersType, LineMoves DEF tab
    <3>2. Reads(A("header_lws", h.value), h.more, A("header_value", h.value \o h.more))
      BY <1>1, <2>2, ReadsMore
    <3> HIDE DEF A
    <3>3. Reads(A("header_value", h.value), CRLF \o tab, A("header_lws", h.value))
      BY <1>1, <1>3, <1>4, <1>6, <1>7, <3>1, ReadsThen
    <3>4. CRLF \o tab \in Seq(Byte) /\ CRLF \o tab \o h.more \in Seq(Byte)
      BY <1>1, <1>6, <1>7, ConcatProperties
    <3>5. Reads(A("header_value", h.value), CRLF \o tab \o h.more,
                A("header_value", h.value \o h.more))
      BY <1>1, <1>3, <1>4, <3>2, <3>3, <3>4, ReadsThen
    <3> QED
      BY <2>2, <3>4, <3>5
  <2> QED
    BY <2>1, <2>2
<1> HIDE DEF tail, A, start
<1>9. first \o tail \in Seq(Byte)
  BY <1>5, <1>8, ConcatProperties
<1>10. Reads(start, first \o tail, A("header_value", h.value \o h.more))
  BY <1>1, <1>3, <1>4, <1>5, <1>8, ReadsThen
<1> DEFINE y == h.value \o h.more
           l == first \o tail
<1>12. /\ y \in Seq(Byte) /\ l \in Seq(Byte) /\ CRLF \in Seq(Byte)
       /\ Reads(start, l, A("header_value", y))
       /\ Reads(A("header_value", y), CRLF, A("header_line_start", y))
  BY <1>2, <1>6, <1>9, <1>10
<1> HIDE DEF y, l
<1>13. Reads(start, l \o CRLF, A("header_line_start", y))
  BY <1>3, <1>4, <1>12, ReadsThen
<1>11. Reads(start, first \o tail \o CRLF, A("header_line_start", h.value \o h.more))
  BY <1>13 DEF y, l
<1> QED
  BY <1>0, <1>2, <1>11 DEF A, start

Meant(hs) == [i \in DOMAIN hs |-> Header(hs[i].name, hs[i].value \o hs[i].more)]

LEMMA MeantType ==
  ASSUME NEW hs \in Seq(SentHeader)
  PROVE  /\ Meant(hs) \in Seq(HeaderType)
         /\ \A h \in SentHeader :
              Meant(Append(hs, h)) = Append(Meant(hs), Header(h.name, h.value \o h.more))
<1> DEFINE M(h) == Header(h.name, h.value \o h.more)
<1>1. ASSUME NEW h \in SentHeader PROVE M(h) \in HeaderType
  <2>1. h.name \in Seq(Byte) /\ h.value \o h.more \in Seq(Byte)
    BY SentHeaders, ConcatProperties
  <2> QED
    BY <2>1 DEF Header, HeaderType
<1> HIDE DEF M, HeaderType
<1>2. \A s \in Seq(SentHeader) :
        /\ DOMAIN s = 1..Len(s) /\ Len(s) \in Nat /\ \A i \in 1..Len(s) : s[i] \in SentHeader
  OBVIOUS
<1>3. \A s : Meant(s) = [i \in DOMAIN s |-> M(s[i])]
  BY DEF Meant, M
<1>4. ASSUME NEW s \in Seq(SentHeader)
      PROVE  /\ Meant(s) \in Seq(HeaderType) /\ Len(Meant(s)) = Len(s)
             /\ \A i \in 1..Len(s) : Meant(s)[i] = M(s[i])
  <2>1. Meant(s) = [i \in 1..Len(s) |-> M(s[i])]
    BY <1>2, <1>3
  <2>2. \A i \in 1..Len(s) : M(s[i]) \in HeaderType
    BY <1>1, <1>2
  <2> QED
    BY <1>2, <2>1, <2>2
<1>5. ASSUME NEW h \in SentHeader PROVE Meant(Append(hs, h)) = Append(Meant(hs), M(h))
  <2> DEFINE t == Append(hs, h)
             v == Meant(t)
             w == Append(Meant(hs), M(h))
  <2>1. /\ t \in Seq(SentHeader) /\ Len(t) = Len(hs) + 1 /\ Len(hs) \in Nat
        /\ \A i \in 1..Len(hs) : t[i] = hs[i]
        /\ t[Len(hs) + 1] = h
    BY AppendProps
  <2> HIDE DEF t
  <2>2. /\ v \in Seq(HeaderType) /\ Len(v) = Len(hs) + 1
        /\ \A i \in 1..(Len(hs) + 1) : v[i] = M(t[i])
    BY <1>4, <2>1
  <2>3. /\ w \in Seq(HeaderType) /\ Len(w) = Len(hs) + 1
        /\ \A i \in 1..Len(hs) : w[i] = M(hs[i])
        /\ w[Len(hs) + 1] = M(h)
    <3> DEFINE z == Meant(hs)
    <3>1. z \in Seq(HeaderType) /\ Len(z) = Len(hs) /\ \A i \in 1..Len(hs) : z[i] = M(hs[i])
      BY <1>4
    <3>2. M(h) \in HeaderType
      BY <1>1
    <3> HIDE DEF z
    <3>3. /\ Append(z, M(h)) \in Seq(HeaderType) /\ Len(Append(z, M(h))) = Len(z) + 1
          /\ \A i \in 1..Len(z) : Append(z, M(h))[i] = z[i]
          /\ Append(z, M(h))[Len(z) + 1] = M(h)
      BY <3>1, <3>2, AppendProps
    <3> QED
      BY <3>1, <3>3 DEF z
  <2> HIDE DEF v, w
  <2>4. v = w
    <3>1. \A i \in 1..(Len(hs) + 1) : v[i] = w[i]
      BY <2>1, <2>2, <2>3
    <3> QED
      BY <2>2, <2>3, <3>1, SeqEqual
  <2> QED
    BY <2>4 DEF v, w, t
<1> QED
  BY <1>4, <1>5 DEF M

LEMMA ReadsSentHeaders ==
  ASSUME NEW m \in Seq(Byte), NEW u \in Seq(Byte), NEW hs \in Seq(SentHeader)
  PROVE  Reads(At("header_line_start", m, u, <<>>), HeadersText(hs),
               At("header_line_start", m, u, Meant(hs)))
<1> DEFINE A(s) == At("header_line_start", m, u, s)
           T == {s \in Seq(SentHeader) : Reads(A(<<>>), HeadersText(s), A(Meant(s)))}
<1>1. \A s \in Seq(HeaderType) : A(s) \in Parser /\ A(s).result = "indeterminate"
  BY AtType DEF At, StateName
<1>2. <<>> \in T
  <2>1. HeadersText(<<>>) = <<>>
    BY HeadersTextLaws
  <2>2. Meant(<<>>) = <<>>
    BY DEF Meant
  <2>3. <<>> \in Seq(HeaderType) /\ <<>> \in Seq(SentHeader)
    BY EmptySeq
  <2> QED
    BY <1>1, <2>1, <2>2, <2>3, ReadsNothing
<1>3. ASSUME NEW s \in T, NEW h \in SentHeader PROVE Append(s, h) \in T
  <2>1. Append(s, h) \in Seq(SentHeader) /\ s \in Seq(SentHeader)
    BY AppendProps
  <2>2. HeadersText(Append(s, h)) = HeadersText(s) \o HeaderText(h)
    BY <2>1, HeadersTextLaws DEF Joined
  <2>3. HeadersText(s) \in Seq(Byte) /\ HeaderText(h) \in Seq(Byte)
    BY <2>1, HeadersTextLaws, HeaderTextType
  <2>4. /\ Meant(s) \in Seq(HeaderType) /\ <<>> \in Seq(HeaderType)
        /\ Meant(Append(s, h)) = Append(Meant(s), Header(h.name, h.value \o h.more))
    BY <2>1, MeantType, EmptySeq
  <2>5. Reads(A(Meant(s)), HeaderText(h), A(Meant(Append(s, h))))
    BY <2>4, ReadsSentHeader
  <2>6. Reads(A(<<>>), HeadersText(s), A(Meant(s)))
    OBVIOUS
  <2> HIDE DEF A
  <2>7. Reads(A(<<>>), HeadersText(s) \o HeaderText(h), A(Meant(Append(s, h))))
    BY <1>1, <2>3, <2>4, <2>5, <2>6, ReadsThen
  <2> QED
    BY <2>1, <2>2, <2>7
<1>4. T = Seq(SentHeader)
  <2>1. T \in SUBSET Seq(SentHeader)
    OBVIOUS
  <2> HIDE DEF T
  <2> QED
    BY <1>2, <1>3, <2>1, InductionOnSeq
<1> QED
  BY <1>4

Post == <<"POST">>
One == <<"1">>

LEMMA Sent ==
  /\ Post \in Seq(TokenByte) /\ Post # <<>> /\ One \in Seq(Digit) /\ One # <<>>
  /\ <<"POST", "SP">> = Post \o <<"SP">>
<1>1. "POST" \in TokenByte
  BY HttpAssumption, WordAssumption DEF TokenByte, Byte, Letter, Ctl, Tspecial
<1>2. "1" \in Digit
  BY DEF Digit
<1>3. "POST" \in {"POST", "SP"} /\ "SP" \in {"POST", "SP"}
  OBVIOUS
<1> QED
  BY <1>1, <1>2, <1>3, Pair DEF Post, One

LEMMA VersionText ==
  /\ <<"SP", "H", "T", "T", "P", "/", "1", ".", "1">> = <<"SP">> \o Version(One, One)
  /\ <<"SP", "H", "T", "T", "P", "/", "1", ".", "1">> \in Seq(Byte)
<1> DEFINE h5 == <<"H", "T", "T", "P", "/">>
           h6 == <<"H", "T", "T", "P", "/", "1">>
           h7 == <<"H", "T", "T", "P", "/", "1", ".">>
           h8 == <<"H", "T", "T", "P", "/", "1", ".", "1">>
           h9 == <<"SP", "H", "T", "T", "P", "/", "1", ".", "1">>
           sp == <<"SP">>
<1>0. {"H", "T", "P", "/", "1", ".", "SP"} \subseteq Byte
  BY Bytes
<1>1. h5 \in Seq(Byte) /\ h6 \in Seq(Byte) /\ h7 \in Seq(Byte) /\ h8 \in Seq(Byte)
      /\ h9 \in Seq(Byte) /\ sp \in Seq(Byte)
  BY <1>0
<1>2. /\ Len(h5) = 5 /\ Len(h6) = 6 /\ Len(h7) = 7 /\ Len(h8) = 8 /\ Len(h9) = 9 /\ Len(sp) = 1
      /\ h5[1] = "H" /\ h5[2] = "T" /\ h5[3] = "T" /\ h5[4] = "P" /\ h5[5] = "/"
  OBVIOUS
<1>3. /\ h6[1] = "H" /\ h6[2] = "T" /\ h6[3] = "T" /\ h6[4] = "P" /\ h6[5] = "/" /\ h6[6] = "1"
      /\ h7[1] = "H" /\ h7[2] = "T" /\ h7[3] = "T" /\ h7[4] = "P" /\ h7[5] = "/" /\ h7[6] = "1"
      /\ h7[7] = "."
  OBVIOUS
<1>4. /\ h8[1] = "H" /\ h8[2] = "T" /\ h8[3] = "T" /\ h8[4] = "P" /\ h8[5] = "/" /\ h8[6] = "1"
      /\ h8[7] = "." /\ h8[8] = "1"
      /\ h9[2] = "H" /\ h9[3] = "T" /\ h9[4] = "T" /\ h9[5] = "P" /\ h9[6] = "/" /\ h9[7] = "1"
      /\ h9[8] = "." /\ h9[9] = "1" /\ h9[1] = "SP" /\ sp[1] = "SP"
  OBVIOUS
<1> HIDE DEF h5, h6, h7, h8, h9, sp
<1>5. \A i \in Nat : /\ i \in 1..5 => i = 1 \/ i = 2 \/ i = 3 \/ i = 4 \/ i = 5
                     /\ i \in 1..6 => i \in 1..5 \/ i = 6
                     /\ i \in 1..7 => i \in 1..6 \/ i = 7
                     /\ i \in 1..8 => i \in 1..7 \/ i = 8
  OBVIOUS
<1> DEFINE a == "1"
           d == "."
<1>0a. /\ a \in Byte /\ d \in Byte /\ h6[6] = a /\ h7[7] = d /\ h8[8] = a
       /\ One = <<a>> /\ <<".">> = <<d>>
  BY <1>0, <1>3, <1>4 DEF One
<1> HIDE DEF a, d
<1>6. h5 \o One = h6
  <2>1. \A i \in 1..Len(h5) : h6[i] = h5[i]
    BY <1>2, <1>3, <1>5
  <2>2. Len(h6) = Len(h5) + 1 /\ h6[Len(h5) + 1] = a
    BY <1>2, <1>0a
  <2>3. h5 \o <<a>> = h6
    BY <1>0a, <1>1, <2>1, <2>2, OneMore
  <2> QED
    BY <2>3, <1>0a
<1>7. h6 \o <<".">> = h7
  <2>1. \A i \in 1..Len(h6) : h7[i] = h6[i]
    BY <1>2, <1>3, <1>5
  <2>2. Len(h7) = Len(h6) + 1 /\ h7[Len(h6) + 1] = d
    BY <1>2, <1>0a
  <2>3. h6 \o <<d>> = h7
    BY <1>0a, <1>1, <2>1, <2>2, OneMore
  <2> QED
    BY <2>3, <1>0a
<1>8. h7 \o One = h8
  <2>1. \A i \in 1..Len(h7) : h8[i] = h7[i]
    BY <1>2, <1>3, <1>4, <1>5
  <2>2. Len(h8) = Len(h7) + 1 /\ h8[Len(h7) + 1] = a
    BY <1>2, <1>0a
  <2>3. h7 \o <<a>> = h8
    BY <1>0a, <1>1, <2>1, <2>2, OneMore
  <2> QED
    BY <2>3, <1>0a
<1>9. Version(One, One) = h8
  <2>1. Version(One, One) = h5 \o One \o <<".">> \o One
    BY DEF Version, h5
  <2> QED
    BY <1>6, <1>7, <1>8, <2>1
<1>10. sp \o h8 = h9
  <2>1. /\ sp \o h8 \in Seq(Byte) /\ Len(sp \o h8) = Len(sp) + Len(h8)
        /\ \A i \in 1..(Len(sp) + Len(h8)) :
             (sp \o h8)[i] = IF i <= Len(sp) THEN sp[i] ELSE h8[i - Len(sp)]
    BY <1>1, ConcatProperties
  <2> DEFINE v == sp \o h8
  <2>2. v \in Seq(Byte) /\ Len(v) = 9 /\ v[1] = sp[1] /\ \A i \in 1..8 : v[i + 1] = h8[i]
    BY <1>2, <2>1
  <2> HIDE DEF v
  <2>3. \A i \in 1..8 : h9[i + 1] = h8[i]
    BY <1>4, <1>5
  <2>4. \A i \in 1..9 : v[i] = h9[i]
    <3>1. \A i \in 1..9 : i = 1 \/ (i - 1 \in 1..8 /\ (i - 1) + 1 = i)
      OBVIOUS
    <3> QED
      BY <1>4, <2>2, <2>3, <3>1
  <2>5. v = h9
    BY <1>1, <1>2, <2>2, <2>4, SeqEqual
  <2> QED
    BY <2>5 DEF v
<1> QED
  BY <1>1, <1>9, <1>10 DEF sp, h9

(* The head of a request, however its path is escaped, is understood.        *)
LEMMA ReadsHead ==
  ASSUME NEW uri \in Seq(UriByte), NEW hs \in Seq(SentHeader)
  PROVE  /\ HeadText(uri, hs) \in Seq(Byte) /\ uri \in Seq(Byte)
         /\ Reads(Fresh, HeadText(uri, hs), Good(Post, uri, Meant(hs)))
<1> DEFINE sp == <<"SP">>
           v == Version(One, One)
           post == <<"POST", "SP">>
           version == <<"SP", "H", "T", "T", "P", "/", "1", ".", "1">>
           line == Post \o sp \o uri \o sp \o v \o CRLF
           A(s) == At("header_line_start", Post, uri, s)
<1>1. HeadText(uri, hs) = post \o uri \o version \o CRLF \o HeadersText(hs) \o CRLF
  BY DEF HeadText, HeadersText
<1>2. /\ line \in Seq(Byte) /\ Post \in Seq(Byte) /\ uri \in Seq(Byte)
      /\ Reads(Fresh, line, A(<<>>))
  BY Sent, ReadsRequestLine DEF UriByte
<1>3. /\ v \in Seq(Byte) /\ sp \in Seq(Byte) /\ CRLF \in Seq(Byte) /\ version \in Seq(Byte)
      /\ post = Post \o sp /\ version = sp \o v
  <2>1. v \in Seq(Byte)
    BY <1>2, Sent, ReadsVersion
  <2>2. sp \in Seq(Byte) /\ CRLF \in Seq(Byte)
    BY Bytes DEF CRLF
  <2> QED
    BY <2>1, <2>2, Sent, VersionText
<1> HIDE DEF v, sp, post, version
<1>4. post \o uri \o version \o CRLF = line
  <2>1. Post \o sp \in Seq(Byte) /\ Post \o sp \o uri \in Seq(Byte)
    BY <1>2, <1>3, ConcatProperties
  <2> DEFINE w == Post \o sp \o uri
  <2> HIDE DEF w
  <2>2. w \o (sp \o v) = (w \o sp) \o v
    <3>1. w \in Seq(Byte) /\ sp \in Seq(Byte) /\ v \in Seq(Byte)
      BY <1>3, <2>1 DEF w
    <3> QED
      BY <3>1, ConcatAssociative
  <2> QED
    BY <1>3, <2>2 DEF w
<1> HIDE DEF line
<1>5. HeadersText(hs) \in Seq(Byte) /\ Meant(hs) \in Seq(HeaderType) /\ <<>> \in Seq(HeaderType)
  BY HeadersTextLaws, MeantType, EmptySeq
<1>6. /\ \A s \in Seq(HeaderType) : A(s) \in Parser /\ A(s).result = "indeterminate"
      /\ Fresh \in Parser
  <2>1. Fresh = At("method_start", <<>>, <<>>, <<>>) /\ <<>> \in Seq(Byte)
    BY EmptySeq DEF Fresh, EmptyRequest, At, Filled
  <2>2. "method_start" \in StateName /\ "header_line_start" \in StateName
    BY DEF StateName
  <2>3. Fresh \in Parser
    BY <1>5, <2>1, <2>2, AtType
  <2> QED
    BY <1>2, <2>2, <2>3, AtType DEF At
<1>7. Reads(A(<<>>), HeadersText(hs), A(Meant(hs)))
  BY <1>2, ReadsSentHeaders
<1>8. Reads(A(Meant(hs)), CRLF, Good(Post, uri, Meant(hs)))
  BY <1>2, <1>5, ReadsEndOfLine
<1> HIDE DEF A
<1>9. line \o HeadersText(hs) \in Seq(Byte) /\ line \o HeadersText(hs) \o CRLF \in Seq(Byte)
  BY <1>2, <1>3, <1>5, ConcatProperties
<1>10. Reads(Fresh, line \o HeadersText(hs), A(Meant(hs)))
  BY <1>2, <1>5, <1>6, <1>7, ReadsThen
<1>11. Reads(Fresh, line \o HeadersText(hs) \o CRLF, Good(Post, uri, Meant(hs)))
  BY <1>3, <1>5, <1>6, <1>8, <1>9, <1>10, ReadsThen
<1> QED
  BY <1>1, <1>2, <1>4, <1>9, <1>11

-----------------------------------------------------------------------------
(* The length a request declares                                             *)

Reckon(n, b) == 10 * n + ValueOf(b)
Reckoning == [a \in Nat \X Digit |-> Reckon(a[1], a[2])]

LEMMA ReckonType == ASSUME NEW n \in Nat, NEW b \in Digit PROVE Reckon(n, b) \in Nat
<1>1. ValueOf(b) \in Nat
  BY SMT DEF ValueOf, Digit
<1> QED
  BY <1>1 DEF Reckon

LEMMA StolWalk ==
  ASSUME NEW s \in Seq(Digit)
  PROVE  /\ Folding(Nat, Digit, 0, Reckoning)
         /\ \E h \in [0..Len(s) -> Nat] :
              Walk(h, 0, Reckoning, s) /\ Stol(s) = h[Len(s)]
<1> DEFINE N == Len(s)
           base == 0
           Eq(iter) == iter = [u \in SUBSET (DOMAIN s) |->
                                 IF u = {} THEN base ELSE Reckon(iter[u \ {Max(u)}], s[Max(u)])]
           it == CHOOSE iter : Eq(iter)
<1>1. Stol(s) = it[DOMAIN s]
  BY DEF Stol, FoldLeft, MapThenFoldSet, Reckon
<1>2. N \in Nat /\ DOMAIN s = 1..N /\ s \in [1..N -> Digit]
  BY LenProperties
<1>3. base \in Nat
  OBVIOUS
<1>4. Reckoning \in [Nat \X Digit -> Nat]
  BY ReckonType DEF Reckoning
<1>0. \A u \in SUBSET (1..N) : u # {} => Max(u) \in 1..N /\ u \ {Max(u)} \in SUBSET (1..N)
  BY <1>2, MaxProps
<1>5. Eq(it)
  <2> HIDE DEF base, N
  <2>1. PICK f \in [SUBSET (1..N) -> Nat] : IsFold(f, base, Reckoning, s, 1..N)
    BY <1>2, <1>3, <1>4, FoldExists
  <2>2. ASSUME NEW u \in SUBSET (1..N), u # {}
        PROVE  f[u] = Reckon(f[u \ {Max(u)}], s[Max(u)])
    <3>1. f[u \ {Max(u)}] \in Nat /\ s[Max(u)] \in Digit
      BY <1>0, <1>2, <2>2
    <3> QED
      BY <2>1, <2>2, <3>1 DEF IsFold, Reckoning
  <2>3. f[{}] = base
    BY <2>1 DEF IsFold
  <2>4. Eq(f)
    BY <1>2, <2>2, <2>3
  <2> HIDE DEF Eq
  <2> QED
    BY <2>4
<1> HIDE DEF it, base
<1>6. it[{}] = base
  BY <1>5
<1>7. ASSUME NEW u \in SUBSET (1..N), u # {}, it[u \ {Max(u)}] \in Nat
      PROVE  it[u] = Reckoning[<<it[u \ {Max(u)}], s[Max(u)]>>]
  <2>1. it[u] = Reckon(it[u \ {Max(u)}], s[Max(u)])
    BY <1>2, <1>5, <1>7
  <2>2. s[Max(u)] \in Digit
    BY <1>0, <1>2, <1>7
  <2> QED
    BY <1>7, <2>1, <2>2 DEF Reckoning
<1>8. \E h \in [0..N -> Nat] : Walk(h, base, Reckoning, s) /\ h[N] = it[1..N]
  <2>1. FoldsTo(it, Nat, base, Reckoning, s)
    BY <1>6, <1>7 DEF FoldsTo
  <2>2. Folding(Nat, Digit, base, Reckoning)
    BY <1>3, <1>4 DEF Folding
  <2> QED
    BY <2>1, <2>2, FoldWalk
<1> QED
  BY <1>1, <1>2, <1>3, <1>4, <1>8 DEF base, Folding

LEMMA StolType == ASSUME NEW s \in Seq(Digit) PROVE Stol(s) \in Nat
<1>1. PICK h \in [0..Len(s) -> Nat] : Stol(s) = h[Len(s)]
  BY StolWalk
<1>2. Len(s) \in 0..Len(s)
  OBVIOUS
<1> QED
  BY <1>1, <1>2

(* A text of digits is read as it stands, and is not below 0.                *)
LEMMA DigitsOf ==
  ASSUME NEW v \in Seq(Digit), v # <<>>
  PROVE  Digits(v) = v /\ ~Negative(v)
<1>0. /\ Len(v) \in Nat \ {0} /\ DOMAIN v = 1..Len(v)
      /\ \A i \in 1..Len(v) : v[i] \in Digit
  OBVIOUS
<1>1. "SP" \notin Digit /\ "+" \notin Digit /\ "-" \notin Digit
  BY DEF Digit
<1>2. \A i \in 0..Len(v) : Part(v, 1, i) \in Seq(Digit) /\ Len(Part(v, 1, i)) = i
  BY PrefixType
<1>3. \A i \in 1..Len(v) : AllIn(Part(v, 1, i), Digit)
  <2> TAKE i \in 1..Len(v)
  <2>1. Part(v, 1, i) \in Seq(Digit)
    BY <1>0, <1>2
  <2> QED
    BY <2>1 DEF AllIn
<1>4. \A i \in 1..Len(v) : ~AllIn(Part(v, 1, i), {"SP"})
  <2> SUFFICES ASSUME NEW i \in 1..Len(v), AllIn(Part(v, 1, i), {"SP"}) PROVE FALSE
    OBVIOUS
  <2> DEFINE p == Part(v, 1, i)
  <2>1. p \in Seq(Digit) /\ Len(p) = i
    BY <1>0, <1>2
  <2>2. \A x \in DOMAIN p : p[x] \in {"SP"}
    BY DEF AllIn
  <2> HIDE DEF p
  <2>3. 1 \in DOMAIN p /\ p[1] \in Digit
    BY <1>0, <2>1
  <2> QED
    BY <1>1, <2>2, <2>3
<1>5. Starts(v) = {1}
  <2>1. 1 \in Starts(v)
    <3>1. Part(v, 1, 1 - 1) = <<>>
      BY SubSeqEmpty DEF Part
    <3>2. AllIn(<<>>, {"SP"})
      BY DEF AllIn
    <3> QED
      BY <1>0, <3>1, <3>2 DEF Starts
  <2>2. ASSUME NEW i \in Starts(v), i # 1 PROVE FALSE
    <3>1. i \in 1..Len(v) /\ i - 1 \in 1..Len(v)
      BY <1>0, <2>2 DEF Starts
    <3>2. v[i - 1] \in Digit /\ ~AllIn(Part(v, 1, i - 1), {"SP"})
      BY <1>0, <1>4, <3>1
    <3> QED
      BY <1>1, <2>2, <3>2 DEF Starts
  <2> QED
    BY <2>1, <2>2
<1>6. ~Negative(v)
  BY <1>5 DEF Negative
<1> DEFINE runs == {r \in Starts(v) \X DOMAIN v :
                      r[1] <= r[2] /\ AllIn(Part(v, r[1], r[2]), Digit)}
           longest == CHOOSE r \in runs : \A s \in runs : s[2] <= r[2]
<1>7. runs = {<<1, k>> : k \in 1..Len(v)}
  <2>1. ASSUME NEW r \in runs PROVE r \in {<<1, k>> : k \in 1..Len(v)}
    BY <1>0, <1>5
  <2>2. ASSUME NEW k \in 1..Len(v) PROVE <<1, k>> \in runs
    <3>1. <<1, k>> \in Starts(v) \X DOMAIN v /\ 1 <= k
      BY <1>0, <1>5
    <3> QED
      BY <1>3, <3>1
  <2> HIDE DEF runs
  <2> QED
    BY <2>1, <2>2
<1>8. Digits(v) = IF runs = {} THEN <<>> ELSE Part(v, longest[1], longest[2])
  BY DEF Digits
<1> HIDE DEF runs
<1>9. longest = <<1, Len(v)>>
  <2>1. <<1, Len(v)>> \in runs /\ \A s \in runs : s[2] <= <<1, Len(v)>>[2]
    BY <1>0, <1>7
  <2>2. longest \in runs /\ \A s \in runs : s[2] <= longest[2]
    BY <2>1
  <2>3. PICK k \in 1..Len(v) : longest = <<1, k>>
    BY <1>7, <2>2
  <2>4. Len(v) <= k
    BY <2>1, <2>2, <2>3
  <2> QED
    BY <1>0, <2>3, <2>4
<1>10. Digits(v) = Part(v, 1, Len(v))
  BY <1>0, <1>7, <1>8, <1>9
<1> QED
  BY <1>6, <1>10, PartWhole

(* The length of a request is the value of the first header of that name the *)
(* client sent: a number a long holds, compared as it stands.                *)
LEMMA LengthIsNumber ==
  ASSUME NEW hs \in Seq(SentHeader), NEW req, req.headers = Meant(hs), HasLength(req)
  PROVE  /\ ~Throws(Length(req)) /\ Stol(LengthDigits(req)) \in Nat
         /\ \A left : Shorter(left, Length(req)) <=> Len(left) < Stol(LengthDigits(req))
<1> DEFINE name == <<"Content-Length">>
           ms == Meant(hs)
           FirstAt(i) == ms[i].name = name /\ \A j \in 1..(i - 1) : ms[j].name # name
           c == CHOOSE i \in DOMAIN ms : FirstAt(i)
<1>0. /\ DOMAIN hs = 1..Len(hs) /\ Len(hs) \in Nat
      /\ \A i \in 1..Len(hs) : hs[i] \in SentHeader
  OBVIOUS
<1>1. /\ DOMAIN hs = 1..Len(hs) /\ Len(hs) \in Nat /\ \A i \in 1..Len(hs) : hs[i] \in SentHeader
      /\ DOMAIN ms = 1..Len(hs)
      /\ \A i \in 1..Len(hs) : ms[i].name = hs[i].name /\ ms[i].value = hs[i].value \o hs[i].more
  <2>1. ms = [i \in 1..Len(hs) |-> Header(hs[i].name, hs[i].value \o hs[i].more)]
    BY <1>0 DEF Meant
  <2>2. \A x, y : Header(x, y).name = x /\ Header(x, y).value = y
    BY DEF Header
  <2> HIDE DEF ms
  <2> QED
    BY <1>0, <2>1, <2>2
<1> HIDE DEF ms, name
<1>2. \E i \in 1..Len(hs) : FirstAt(i)
  <2> DEFINE T == {i \in 1..Len(hs) : ms[i].name = name}
  <2>1. PICK i \in 1..Len(hs) : ms[i].name = name
    BY <1>1 DEF HasLength, HasHeader, ms, name
  <2>2. T \in SUBSET Nat /\ T # {}
    BY <1>1, <2>1
  <2>4. PICK k \in T : \A m \in T : m >= k
    <3> HIDE DEF T
    <3> QED
      BY <2>2, Least
  <2>5. \A j \in 1..(k - 1) : j \in 1..Len(hs) /\ ~(j >= k)
    BY <1>1
  <2> QED
    BY <1>1, <2>4, <2>5
<1>3. c \in 1..Len(hs) /\ FirstAt(c)
  BY <1>1, <1>2
<1>4. FirstHeader(req.headers, name) = ms[c].value
  BY DEF FirstHeader, ms
<1>5. hs[c] \in SentHeader /\ hs[c].name = name /\ ms[c].value = hs[c].value \o hs[c].more
  BY <1>1, <1>3
<1> DEFINE v == hs[c].value
<1>6. v \in Seq(Digit) /\ v # <<>> /\ hs[c].more = <<>> /\ Stol(v) <= MaxLong
  BY <1>5 DEF SentHeader, name
<1>7. ms[c].value = v
  BY <1>5, <1>6, ConcatEmpty
<1> HIDE DEF v, c
<1>8. Length(req) = v /\ Digits(v) = v /\ ~Negative(v) /\ Stol(v) \in Nat
  BY <1>4, <1>6, <1>7, DigitsOf, StolType DEF Length, name
<1>9. ~Throws(v)
  BY <1>6, <1>8, HttpAssumption DEF Throws
<1> QED
  BY <1>8, <1>9 DEF LengthDigits, Shorter

-----------------------------------------------------------------------------
(* Requests in pieces                                                        *)

LEMMA HeadTextType ==
  ASSUME NEW uri \in Seq(Byte), NEW hs \in Seq(SentHeader)
  PROVE  HeadText(uri, hs) \in Seq(Byte)
<1> DEFINE post == <<"POST", "SP">>
           version == <<"SP", "H", "T", "T", "P", "/", "1", ".", "1">>
<1>1. HeadText(uri, hs) = post \o uri \o version \o CRLF \o HeadersText(hs) \o CRLF
  BY DEF HeadText, HeadersText
<1>2. post \in Seq(Byte) /\ CRLF \in Seq(Byte) /\ HeadersText(hs) \in Seq(Byte)
  <2>1. "POST" \in Byte
    BY HttpAssumption DEF Byte, Letter
  <2> QED
    BY <2>1, Bytes, HeadersTextLaws DEF CRLF
<1>3. version \in Seq(Byte)
  BY VersionText
<1> HIDE DEF post, version
<1>4. post \o uri \in Seq(Byte)
  BY <1>2, ConcatProperties
<1>5. post \o uri \o version \in Seq(Byte)
  BY <1>3, <1>4, ConcatProperties
<1>6. post \o uri \o version \o CRLF \in Seq(Byte)
  BY <1>2, <1>5, ConcatProperties
<1>7. post \o uri \o version \o CRLF \o HeadersText(hs) \in Seq(Byte)
  BY <1>2, <1>6, ConcatProperties
<1>8. post \o uri \o version \o CRLF \o HeadersText(hs) \o CRLF \in Seq(Byte)
  BY <1>2, <1>7, ConcatProperties
<1> QED
  BY <1>1, <1>8

(* What the first k bytes of a request are, whose head has h bytes: it is    *)
(* understood once its head was read, and undecided before.                  *)
Understood(p, hs, b, uri, bs, k, h) ==
  /\ bs \in Seq(Byte) /\ h \in 0..Len(bs) /\ hs \in Seq(SentHeader)
  /\ UrlDecode(uri) = [ok |-> TRUE, out |-> p]
  /\ k >= h => /\ Parse(Fresh, Part(bs, 1, k)) =
                    [parser |-> Good(Post, uri, Meant(hs)), n |-> h]
               /\ Part(bs, h + 1, k) = Part(b, 1, k - h)
  /\ k < h => Parse(Fresh, Part(bs, 1, k)).parser.result = "indeterminate"

LEMMA WholeRead ==
  ASSUME NEW p \in Paths, NEW hs \in HeaderLists, NEW b \in Bodies,
         NEW uri \in Encodings(p), NEW bs, bs = HeadText(uri, hs) \o b, NEW k \in 0..Len(bs),
         NEW h, h = Len(bs) - Len(b)
  PROVE  Understood(p, hs, b, uri, bs, k, h)
<1> DEFINE head == HeadText(uri, hs)
           q == Good(Post, uri, Meant(hs))
<1>1. /\ p \in Seq(PathByte) /\ hs \in Seq(SentHeader) /\ b \in Seq(Byte)
  BY HttpAssumption
<1>2. uri \in Seq(UriByte) /\ UrlDecode(uri) = [ok |-> TRUE, out |-> p]
  BY <1>1, DecodeEncoded
<1>3. head \in Seq(Byte) /\ Reads(Fresh, head, q) /\ q.result # "indeterminate"
  BY <1>1, <1>2, ReadsHead DEF Good
<1> HIDE DEF head, q
<1>4. bs = head \o b
  BY DEF head
<1>5. /\ bs \in Seq(Byte) /\ Len(bs) = Len(head) + Len(b) /\ Len(head) \in Nat /\ Len(b) \in Nat
      /\ \A i \in 1..(Len(head) + Len(b)) :
           bs[i] = IF i <= Len(head) THEN head[i] ELSE b[i - Len(head)]
  BY <1>1, <1>3, <1>4, ConcatProperties
<1>6. h = Len(head) /\ h \in 0..Len(bs) /\ k \in Nat /\ k <= Len(bs)
  BY <1>5
<1>7. k \in 0..Len(head \o b)
  BY <1>4
<1>8. /\ k >= Len(head) => Parse(Fresh, Part(head \o b, 1, k)) = [parser |-> q, n |-> Len(head)]
      /\ k < Len(head) => Parse(Fresh, Part(head \o b, 1, k)).parser.result = "indeterminate"
  BY <1>1, <1>3, <1>7, FreshType, DecidedOnce
<1>9. k >= Len(head) => Part(head \o b, Len(head) + 1, k) = Part(b, 1, k - Len(head))
  BY <1>1, <1>3, <1>5, <1>6, Behind
<1> QED
  BY <1>1, <1>2, <1>4, <1>5, <1>6, <1>8, <1>9 DEF q, Understood

-----------------------------------------------------------------------------
(* The invariant of the reads: the parser is where one read of all that came *)
(* so far would have left it, and the connection reads on as long as nothing *)
(* is decided.                                                               *)

Meaning ==
  whole => /\ path \in Paths /\ headers \in HeaderLists /\ body \in Bodies
           /\ \E uri \in Encodings(path) : bytes = HeadText(uri, headers) \o body

ReadsInv ==
  /\ pos \in 0..Len(bytes)
  /\ reads \in Nat /\ reads <= Pieces
  /\ pos < Len(bytes) => reads < Pieces

ParserInv ==
  /\ parser = Parse(Fresh, Part(bytes, 1, pos)).parser
  /\ conn = "reading" <=> parser.result = "indeterminate"

OutcomeInv ==
  /\ conn \in Conn /\ reply.status \in DOMAIN StatusCode
  /\ Len(edits) <= 1 /\ (conn = "reading" => edits = <<>>)
  /\ EditWholeOrEmpty
  /\ whole => conn # "dead"
  /\ whole /\ conn = "waiting" =>
       pos - (Len(bytes) - Len(body)) < Stol(LengthDigits(parser.req))

HttpInv == bytes \in Seq(Byte) /\ Meaning /\ ReadsInv /\ ParserInv /\ OutcomeInv

LEMMA NoisyType ==
  ASSUME NEW X, NEW s \in Seq(X), NEW i \in DOMAIN s, NEW x \in X
  PROVE  [s EXCEPT ![i] = x] \in Seq(X)
OBVIOUS

LEMMA BytesInit == Init => bytes \in Seq(Byte) /\ Meaning
<1> SUFFICES ASSUME Init PROVE bytes \in Seq(Byte) /\ Meaning
  OBVIOUS
<1>0. /\ Paths \subseteq Seq(PathByte) /\ HeaderLists \subseteq Seq(SentHeader)
      /\ Bodies \subseteq Seq(Byte) /\ BadUris \subseteq Seq(Byte)
      /\ NoisyPaths \subseteq Seq(Byte) /\ Noise \subseteq Byte
  BY HttpAssumption
<1>1. ASSUME NEW uri \in Seq(Byte), NEW hs \in HeaderLists, NEW b \in Seq(Byte)
      PROVE  HeadText(uri, hs) \in Seq(Byte) /\ HeadText(uri, hs) \o b \in Seq(Byte)
  <2>1. HeadText(uri, hs) \in Seq(Byte)
    BY <1>0, HeadTextType
  <2> QED
    BY <2>1, ConcatProperties
<1>2. ASSUME NEW p \in Paths, NEW uri \in Encodings(p), NEW hs \in HeaderLists,
             NEW b \in Bodies, Send(p, uri, hs, b)
      PROVE  bytes \in Seq(Byte) /\ Meaning
  <2>1. uri \in Seq(Byte)
    <3>1. UriByte \subseteq Byte /\ uri \in Seq(UriByte)
      BY <1>0, Bytes, DecodeEncoded DEF UriByte
    <3> QED
      BY <3>1, SeqMonotonic
  <2> QED
    BY <1>0, <1>1, <1>2, <2>1 DEF Send, Meaning
<1>3. ASSUME NEW uri \in BadUris, NEW hs \in HeaderLists, whole = FALSE,
             bytes = HeadText(uri, hs)
      PROVE  bytes \in Seq(Byte) /\ Meaning
  <2>1. uri \in Seq(Byte) /\ hs \in Seq(SentHeader)
    BY <1>0
  <2> QED
    BY <1>3, <2>1, HeadTextType DEF Meaning
<1>4. ASSUME NEW p \in NoisyPaths, NEW hs \in HeaderLists, NEW b \in Bodies, whole = FALSE,
             NEW text, text = HeadText(p, hs) \o b, NEW i \in DOMAIN text, NEW x \in Noise,
             bytes = [text EXCEPT ![i] = x]
      PROVE  bytes \in Seq(Byte) /\ Meaning
  <2>1. text \in Seq(Byte) /\ x \in Byte
    BY <1>0, <1>1, <1>4
  <2> QED
    BY <1>4, <2>1, NoisyType DEF Meaning
<1> QED
  BY <1>2, <1>3, <1>4 DEF Init

LEMMA HttpInit == Init => HttpInv
<1> SUFFICES ASSUME Init PROVE HttpInv
  OBVIOUS
<1>1. bytes \in Seq(Byte) /\ Meaning
  BY BytesInit
<1>2. Len(bytes) \in Nat /\ pos = 0 /\ reads = 0
  BY <1>1 DEF Init, Send
<1>3. ReadsInv
  BY <1>2, HttpAssumption DEF ReadsInv, Pieces
<1>4. ParserInv
  <2>1. Part(bytes, 1, 0) = <<>>
    BY SubSeqEmpty DEF Part
  <2>2. Parse(Fresh, <<>>) = [parser |-> Fresh, n |-> 0]
    BY FreshType, ParseEmpty
  <2>3. parser = Fresh /\ conn = "reading"
    BY DEF Init
  <2> QED
    BY <1>2, <2>1, <2>2, <2>3, FreshType DEF ParserInv
<1>5. OutcomeInv
  <2>1. conn = "reading" /\ reply.status = "ok" /\ edits = <<>>
    BY DEF Init, NoReply, Reply
  <2>2. "ok" \in DOMAIN StatusCode
    BY DEF StatusCode
  <2> QED
    BY <2>1, <2>2 DEF OutcomeInv, Conn, EditWholeOrEmpty
<1> QED
  BY <1>1, <1>3, <1>4, <1>5 DEF HttpInv

LEMMA ReadsStep ==
  ASSUME HttpInv, NEW n \in 1..(Len(bytes) - pos), OnRead(n)
  PROVE  ReadsInv' /\ pos' = pos + n /\ pos \in Nat /\ n \in Nat /\ pos + n <= Len(bytes)
         /\ bytes' = bytes /\ whole' = whole /\ body' = body
<1>1. /\ bytes' = bytes /\ whole' = whole /\ body' = body
      /\ pos' = pos + n /\ reads' = reads + 1
      /\ reads < Pieces - 1 \/ pos + n = Len(bytes)
  BY DEF OnRead, sentVars, Advance
<1>2. Len(bytes) \in Nat /\ Pieces \in Nat /\ Pieces' = Pieces
  BY <1>1, HttpAssumption DEF HttpInv, Pieces
<1>3. pos \in 0..Len(bytes) /\ reads \in Nat /\ reads <= Pieces
      /\ (pos < Len(bytes) => reads < Pieces)
  BY DEF HttpInv, ReadsInv
<1>4. pos \in Nat /\ n \in Nat /\ n >= 1 /\ pos + n <= Len(bytes) /\ pos < Len(bytes)
  BY <1>2, <1>3
<1>5. ReadsInv'
  BY <1>1, <1>2, <1>3, <1>4 DEF ReadsInv
<1> QED
  BY <1>1, <1>4, <1>5

StatusType == {"ok", "bad_request", "not_found"}

LEMMA StatusOf == ASSUME NEW req PROVE HandleRequest(req).status \in StatusType
<1>1. ASSUME NEW st \in StatusType PROVE StockReply(st).status \in StatusType
  BY DEF StockReply, Reply
<1>2. ASSUME NEW p, NEW b PROVE ApiReply(p, b).status \in StatusType
  BY DEF ApiReply, Reply, StatusType
<1>3. ASSUME NEW p PROVE PageReply(p).status \in StatusType
  BY <1>1 DEF PageReply, Reply, StatusType
<1> QED
  BY <1>1, <1>2, <1>3 DEF HandleRequest, StatusType

(* A read takes the parser where one read of everything would take it.       *)
LEMMA ReadParsed ==
  ASSUME HttpInv, NEW n \in 1..(Len(bytes) - pos), OnRead(n), NEW k, k = pos + n,
         NEW parsed, parsed = Parse(parser, Part(bytes, pos + 1, k))
  PROVE  /\ k \in 0..Len(bytes) /\ pos' = k /\ parser' = parsed.parser
         /\ Parse(Fresh, Part(bytes, 1, k)) = [parser |-> parsed.parser, n |-> pos + parsed.n]
         /\ conn = "reading" /\ parser' \in Parser
<1>1. /\ pos' = pos + n /\ pos \in Nat /\ n \in Nat /\ pos + n <= Len(bytes)
  BY ReadsStep
<1>2. conn = "reading" /\ parser' = parsed.parser
  BY DEF OnRead
<1>3. /\ bytes \in Seq(Byte) /\ parser = Parse(Fresh, Part(bytes, 1, pos)).parser
      /\ parser.result = "indeterminate"
  BY <1>2 DEF HttpInv, ParserInv
<1>4. /\ parser \in Parser /\ Part(bytes, pos + 1, pos + n) \in Seq(Byte)
      /\ Parse(Fresh, Part(bytes, 1, pos + n)) =
              [parser |-> Parse(parser, Part(bytes, pos + 1, pos + n)).parser,
               n |-> pos + Parse(parser, Part(bytes, pos + 1, pos + n)).n]
  BY <1>1, <1>3, PieceParsed
<1>5. parsed.parser \in Parser
  BY <1>4, ParseType
<1> QED
  BY <1>1, <1>2, <1>4, <1>5

(* What a handler may do to a connection that was reading.                   *)
LEMMA HandleDoes ==
  ASSUME NEW req, Handle(req), edits = <<>>
  PROVE  /\ conn' \in {"sse", "blob", "answered"} /\ reply'.status \in DOMAIN StatusCode
         /\ edits' = <<>> \/ edits' = <<req.body>>
<1>1. StatusType \subseteq DOMAIN StatusCode
  BY DEF StatusType, StatusCode
<1>2. reply' = Started(HandleRequest(req)) /\ conn' = Start(HandleRequest(req))
  BY DEF Handle
<1>5. Started(HandleRequest(req)).status \in StatusType
  BY StatusOf DEF Started, Reply, StatusType
<1>3. edits' = edits \/ edits' = Append(edits, req.body)
  BY DEF Handle
<1>4. Append(<<>>, req.body) = <<req.body>>
  OBVIOUS
<1> QED
  BY <1>1, <1>2, <1>3, <1>4, <1>5, StartOf

(* Of a request that was not changed, the head and what came behind it.      *)
LEMMA WholeStep ==
  ASSUME HttpInv, NEW n \in 1..(Len(bytes) - pos), OnRead(n), NEW k, k = pos + n,
         NEW parsed, parsed = Parse(parser, Part(bytes, pos + 1, k)),
         whole, parser'.result # "indeterminate",
         NEW h, h = Len(bytes) - Len(body), NEW left, left = Part(bytes, pos + parsed.n + 1, k)
  PROVE  /\ h \in 0..k /\ k \in Nat /\ k <= Len(bytes) /\ parser'.result = "good"
         /\ parser'.req.headers = Meant(headers) /\ headers \in Seq(SentHeader)
         /\ parser'.req.body = <<>> /\ body \in Seq(Byte)
         /\ left = Part(body, 1, k - h) /\ Len(left) = k - h /\ k - h \in 0..Len(body)
<1>1. /\ k \in 0..Len(bytes) /\ parser' = parsed.parser
      /\ Parse(Fresh, Part(bytes, 1, k)) = [parser |-> parsed.parser, n |-> pos + parsed.n]
  BY ReadParsed
<1>2. /\ path \in Paths /\ headers \in HeaderLists /\ body \in Bodies
      /\ \E uri \in Encodings(path) : bytes = HeadText(uri, headers) \o body
  BY DEF HttpInv, Meaning
<1>3. PICK uri \in Encodings(path) : bytes = HeadText(uri, headers) \o body
  BY <1>2
<1>4. Understood(path, headers, body, uri, bytes, k, h)
  <2>1. path \in Paths /\ headers \in HeaderLists /\ body \in Bodies /\ k \in 0..Len(bytes)
    BY <1>1, <1>2
  <2> QED
    BY <1>3, <2>1, WholeRead
<1>5. k >= h
  BY <1>1, <1>4 DEF Understood
<1>6. [parser |-> parsed.parser, n |-> pos + parsed.n]
        = [parser |-> Good(Post, uri, Meant(headers)), n |-> h]
  BY <1>1, <1>4, <1>5 DEF Understood
<1>7. parsed.parser = Good(Post, uri, Meant(headers)) /\ pos + parsed.n = h
  BY <1>6
<1>8. left = Part(body, 1, k - h)
  BY <1>4, <1>5, <1>7 DEF Understood
<1>9. body \in Seq(Byte)
  BY <1>2, HttpAssumption
<1>10. k - h \in 0..Len(body) /\ Len(bytes) \in Nat /\ Len(body) \in Nat
  <2>1. Len(bytes) \in Nat /\ Len(body) \in Nat
    BY <1>9 DEF HttpInv
  <2> QED
    BY <1>1, <1>4, <1>5, <2>1 DEF Understood
<1>11. Len(left) = k - h
  BY <1>8, <1>9, <1>10, PrefixType
<1> QED
  BY <1>1, <1>4, <1>5, <1>7, <1>8, <1>9, <1>10, <1>11 DEF Good, Filled, Understood

LEMMA BodySet ==
  ASSUME NEW b \in Seq(Byte), NEW m \in 0..Len(b), NEW left, left = Part(b, 1, m)
  PROVE  left \in {<<>>, b} \cup {Part(b, 1, j) : j \in 1..Len(b)}
<1>1. CASE m = 0
  BY <1>1, SubSeqEmpty DEF Part
<1>2. CASE m # 0
  <2>1. m \in 1..Len(b)
    BY <1>2
  <2> QED
    BY <2>1
<1> QED
  BY <1>1, <1>2

LEMMA OnReadStep ==
  ASSUME HttpInv, NEW n \in 1..(Len(bytes) - pos), OnRead(n)
  PROVE  HttpInv'
<1> DEFINE k == pos + n
           parsed == Parse(parser, Part(bytes, pos + 1, k))
           left == Part(bytes, pos + parsed.n + 1, k)
           h == Len(bytes) - Len(body)
           req == parser'.req
<1>1. /\ k \in 0..Len(bytes) /\ pos' = k /\ parser' = parsed.parser
      /\ Parse(Fresh, Part(bytes, 1, k)) = [parser |-> parsed.parser, n |-> pos + parsed.n]
      /\ conn = "reading" /\ parser' \in Parser
  BY ReadParsed
<1>2. /\ ReadsInv' /\ bytes' = bytes /\ whole' = whole /\ body' = body
      /\ path' = path /\ headers' = headers
  BY ReadsStep DEF OnRead, sentVars
<1>3. \/ parser'.result = "good" /\ RequestRead(req, left)
      \/ parser'.result = "bad" /\ BadRequest
      \/ parser'.result = "indeterminate" /\ ReadOn
  BY DEF OnRead
<1>4. edits = <<>> /\ conn \in Conn /\ reply.status \in DOMAIN StatusCode
  BY <1>1 DEF HttpInv, OutcomeInv
<1>5. ASSUME whole, parser'.result # "indeterminate"
      PROVE  /\ h \in 0..k /\ k \in Nat /\ k <= Len(bytes) /\ parser'.result = "good"
             /\ req.headers = Meant(headers) /\ headers \in Seq(SentHeader)
             /\ req.body = <<>> /\ body \in Seq(Byte)
             /\ left = Part(body, 1, k - h) /\ Len(left) = k - h /\ k - h \in 0..Len(body)
  BY <1>5, WholeStep
<1> HIDE DEF left, parsed, req
<1>9. Len(<<>>) <= 1 /\ \A x : Len(<<x>>) <= 1
  OBVIOUS
<1>6. bytes' \in Seq(Byte) /\ Meaning'
  BY <1>2 DEF HttpInv, Meaning
<1>7. ParserInv'
  <2>1. parser' = Parse(Fresh, Part(bytes, 1, k)).parser
    BY <1>1
  <2>2. conn' = "reading" <=> parser'.result = "indeterminate"
    <3>1. CASE parser'.result = "good" /\ RequestRead(req, left)
      BY <1>4, <3>1, HandleDoes DEF RequestRead
    <3>2. CASE parser'.result = "bad" /\ BadRequest
      BY <3>2 DEF BadRequest
    <3>3. CASE parser'.result = "indeterminate" /\ ReadOn
      BY <1>1, <3>3 DEF ReadOn
    <3> QED
      BY <1>3, <3>1, <3>2, <3>3
  <2> QED
    BY <1>1, <1>2, <2>1, <2>2 DEF ParserInv
<1>8. OutcomeInv'
  <2>1. CASE parser'.result = "bad" /\ BadRequest
    <3>1. conn' = "answered" /\ reply'.status = "bad_request" /\ edits' = <<>>
      BY <1>4, <2>1 DEF BadRequest, StockReply, Reply
    <3>2. "bad_request" \in DOMAIN StatusCode
      BY DEF StatusCode
    <3> QED
      BY <3>1, <3>2 DEF OutcomeInv, Conn, EditWholeOrEmpty
  <2>2. CASE parser'.result = "indeterminate" /\ ReadOn
    <3>1. conn' = "reading" /\ reply'.status \in DOMAIN StatusCode /\ edits' = <<>>
      BY <1>1, <1>4, <2>2 DEF ReadOn
    <3> QED
      BY <3>1 DEF OutcomeInv, Conn, EditWholeOrEmpty
  <2>3. ASSUME parser'.result = "good", left = <<>> \/ ~HasLength(req), Handle(req)
        PROVE  OutcomeInv'
    <3>1. /\ conn' \in {"sse", "blob", "answered"} /\ reply'.status \in DOMAIN StatusCode
          /\ edits' = <<>> \/ edits' = <<req.body>>
      BY <1>4, <2>3, HandleDoes
    <3>2. Len(edits') <= 1
      BY <1>9, <3>1
    <3>3. EditWholeOrEmpty'
      <4> SUFFICES ASSUME whole, edits' # <<>>
                   PROVE  /\ edits'[1] = <<>>
                          /\ body = <<>> \/ ~HasLength(req) \/ k = h
        BY <1>1, <1>2 DEF EditWholeOrEmpty, req
      <4>1. edits'[1] = req.body
        BY <3>1
      <4>2. req.body = <<>> /\ (left = <<>> => k - h = 0) /\ k \in Nat /\ h \in Nat
        BY <1>5, <2>3
      <4> QED
        BY <2>3, <4>1, <4>2
    <3> QED
      BY <3>1, <3>2, <3>3 DEF OutcomeInv, Conn
  <2>4. ASSUME parser'.result = "good", HasLength(req), Throws(Length(req)),
               conn' = "dead", UNCHANGED <<reply, edits>>
        PROVE  OutcomeInv'
    <3>1. ~whole
      BY <1>5, <2>4, LengthIsNumber
    <3> QED
      BY <1>2, <1>4, <2>4, <3>1 DEF OutcomeInv, Conn, EditWholeOrEmpty
  <2>5. ASSUME parser'.result = "good", HasLength(req), Shorter(left, Length(req)),
               conn' = "waiting", UNCHANGED <<reply, edits>>
        PROVE  OutcomeInv'
    <3>1. whole => k - h < Stol(LengthDigits(req))
      BY <1>5, <2>5, LengthIsNumber
    <3> QED
      BY <1>1, <1>2, <1>4, <2>5, <3>1 DEF OutcomeInv, Conn, EditWholeOrEmpty, req
  <2>6. ASSUME parser'.result = "good", left # <<>>, HasLength(req),
               ~Shorter(left, Length(req)), Handle([req EXCEPT !.body = left])
        PROVE  OutcomeInv'
    <3>0. [req EXCEPT !.body = left].body = left
      BY <1>1 DEF Parser, Request, req
    <3> DEFINE new == [req EXCEPT !.body = left]
    <3> HIDE DEF new
    <3>1. /\ conn' \in {"sse", "blob", "answered"} /\ reply'.status \in DOMAIN StatusCode
          /\ edits' = <<>> \/ edits' = <<left>>
      <4>1. Handle(new) /\ new.body = left
        BY <2>6, <3>0 DEF new
      <4> QED
        BY <1>4, <4>1, HandleDoes
    <3>2. Len(edits') <= 1
      BY <1>9, <3>1
    <3>3. EditWholeOrEmpty'
      <4> SUFFICES ASSUME whole, edits' # <<>>
                   PROVE  /\ edits'[1] \in {<<>>, body} \cup {Part(body, 1, j) : j \in 1..Len(body)}
                          /\ Len(edits'[1]) >= Stol(LengthDigits(req))
                          /\ edits'[1] # <<>>
        BY <1>1, <1>2 DEF EditWholeOrEmpty, req
      <4>1. edits'[1] = left
        BY <3>1
      <4>2. left \in {<<>>, body} \cup {Part(body, 1, j) : j \in 1..Len(body)}
        BY <1>5, <2>6, BodySet
      <4>3. Len(left) >= Stol(LengthDigits(req))
        <5>1. /\ Stol(LengthDigits(req)) \in Nat
              /\ ~(Len(left) < Stol(LengthDigits(req)))
          BY <1>5, <2>6, LengthIsNumber
        <5>2. Len(left) \in Nat
          BY <1>5, <2>6
        <5> QED
          BY <5>1, <5>2
      <4> QED
        BY <2>6, <4>1, <4>2, <4>3
    <3> QED
      BY <3>1, <3>2, <3>3 DEF OutcomeInv, Conn
  <2> QED
    BY <1>3, <2>1, <2>2, <2>3, <2>4, <2>5, <2>6 DEF RequestRead
<1> QED
  BY <1>2, <1>6, <1>7, <1>8 DEF HttpInv

LEMMA HttpStep == HttpInv /\ [Next]_vars => HttpInv'
<1> SUFFICES ASSUME HttpInv, [Next]_vars PROVE HttpInv'
  OBVIOUS
<1>1. CASE UNCHANGED vars
  BY <1>1 DEF vars, sentVars, HttpInv, Meaning, ReadsInv, ParserInv, OutcomeInv,
              EditWholeOrEmpty, Pieces
<1>2. ASSUME NEW n \in 1..(Len(bytes) - pos), OnRead(n) PROVE HttpInv'
  BY <1>2, OnReadStep
<1> QED
  BY <1>1, <1>2 DEF Next

(* At every point of a run the parser of the connection is what one parse of *)
(* all bytes read so far gives, these bytes are a prefix of the request sent, *)
(* and the outcome is that of the head the request begins with.              *)
THEOREM HttpCorrect == Spec => []HttpInv
BY HttpInit, HttpStep, PTL DEF Spec

(* Every variable keeps its type, whatever the clients send: the parser in   *)
(* the states of request_parser.cpp, one edit at most for a request.         *)
THEOREM HttpTypes == Spec => []TypeOK
<1>1. HttpInv => TypeOK
  <2> SUFFICES ASSUME HttpInv PROVE TypeOK
    OBVIOUS
  <2>1. pos \in 0..Len(bytes) /\ reads \in 0..MaxReads
    BY HttpAssumption DEF HttpInv, ReadsInv, Pieces
  <2>2. parser \in Parser
    <3>1. Part(bytes, 1, pos) \in Seq(Byte)
      BY <2>1, PrefixType DEF HttpInv
    <3> QED
      BY <3>1, FreshType, ParseType DEF HttpInv, ParserInv
  <2> QED
    BY <2>1, <2>2 DEF TypeOK, HttpInv, OutcomeInv
<1> QED
  BY <1>1, HttpCorrect, PTL

(* A request as the client meant it, in whatever pieces it comes: once       *)
(* something is decided, the head was read, the request is good and its      *)
(* parts are the client's.                                                   *)
LEMMA Decided ==
  ASSUME HttpInv, whole, parser.result # "indeterminate"
  PROVE  /\ \E uri \in Encodings(path) : parser = Good(Post, uri, Meant(headers))
         /\ parser.result = "good" /\ headers \in Seq(SentHeader) /\ body \in Seq(Byte)
         /\ UrlDecode(parser.req.uri) = [ok |-> TRUE, out |-> path]
<1>1. /\ path \in Paths /\ headers \in HeaderLists /\ body \in Bodies
      /\ \E uri \in Encodings(path) : bytes = HeadText(uri, headers) \o body
  BY DEF HttpInv, Meaning
<1>2. PICK uri \in Encodings(path) : bytes = HeadText(uri, headers) \o body
  BY <1>1
<1>3. pos \in 0..Len(bytes) /\ parser = Parse(Fresh, Part(bytes, 1, pos)).parser
  BY DEF HttpInv, ReadsInv, ParserInv
<1> DEFINE h == Len(bytes) - Len(body)
<1> HIDE DEF h
<1>4. Understood(path, headers, body, uri, bytes, pos, h)
  BY <1>1, <1>2, <1>3, WholeRead DEF h
<1>5. pos \in Nat /\ h \in Nat
  BY <1>3, <1>4 DEF Understood
<1>6. pos >= h
  BY <1>3, <1>4, <1>5 DEF Understood
<1>7. parser = Good(Post, uri, Meant(headers))
  BY <1>3, <1>4, <1>6 DEF Understood
<1>8. parser.result = "good" /\ parser.req.uri = uri
  BY <1>7 DEF Good, Filled
<1> QED
  BY <1>1, <1>4, <1>7, <1>8, HttpAssumption DEF Understood

(* What is parsed does not depend on where the reads cut the request, on how *)
(* its path is escaped or on how its headers are folded: the handler gets    *)
(* the method, the path and the headers the client meant.                    *)
THEOREM Understands == Spec => []UnderstoodAsMeant
<1>1. HttpInv => UnderstoodAsMeant
  <2> SUFFICES ASSUME HttpInv, whole, parser.result # "indeterminate" PROVE UnderstoodAsMeant
    BY DEF UnderstoodAsMeant
  <2>1. /\ \E uri \in Encodings(path) : parser = Good(Post, uri, Meant(headers))
        /\ parser.result = "good"
        /\ UrlDecode(parser.req.uri) = [ok |-> TRUE, out |-> path]
    BY Decided
  <2>2. parser.req.method = <<"POST">> /\ parser.req.headers = Meant(headers)
    BY <2>1 DEF Good, Filled, Post
  <2> QED
    BY <2>1, <2>2 DEF UnderstoodAsMeant, Meant
<1> QED
  BY <1>1, HttpCorrect, PTL

(* An edit is carried out with as much of the body as the request declares,  *)
(* or with none, and with none only when no byte of it came with the head or *)
(* no length was declared.                                                   *)
THEOREM EditsWholeOrEmpty == Spec => []EditWholeOrEmpty
<1>1. HttpInv => EditWholeOrEmpty
  BY DEF HttpInv, OutcomeInv
<1> QED
  BY <1>1, HttpCorrect, PTL

(* When everything was read, the request is answered, or what came behind    *)
(* the head is shorter than declared: nothing else keeps a client waiting,   *)
(* and no request that was meant so ends the thread.                         *)
THEOREM WholeRequestsAnswered == Spec => []WholeRequestAnswered
<1>1. HttpInv => WholeRequestAnswered
  <2> SUFFICES ASSUME HttpInv, whole, pos = Len(bytes) PROVE WholeRequestAnswered
    BY DEF WholeRequestAnswered
  <2>1. PICK uri \in Encodings(path) : bytes = HeadText(uri, headers) \o body
    BY DEF HttpInv, Meaning
  <2>2. /\ path \in Paths /\ headers \in HeaderLists /\ body \in Bodies /\ body \in Seq(Byte)
        /\ bytes \in Seq(Byte)
    BY HttpAssumption DEF HttpInv, Meaning
  <2>3. Len(bytes) \in Nat /\ Len(body) \in Nat /\ pos \in 0..Len(bytes)
    BY <2>2
  <2> DEFINE h == Len(bytes) - Len(body)
  <2> HIDE DEF h
  <2>4. Understood(path, headers, body, uri, bytes, pos, h)
    BY <2>1, <2>2, <2>3, WholeRead DEF h
  <2>5. pos >= h
    BY <2>3 DEF h
  <2>6. parser.result = "good"
    BY <2>4, <2>5 DEF Understood, HttpInv, ParserInv, Good
  <2>7. conn # "reading" /\ conn \in Conn /\ conn # "dead"
    BY <2>6 DEF HttpInv, ParserInv, OutcomeInv
  <2>8. conn = "waiting" => pos - (Len(bytes) - Len(body)) < Stol(LengthDigits(parser.req))
    BY DEF HttpInv, OutcomeInv
  <2>9. pos - (Len(bytes) - Len(body)) = Len(body)
    BY <2>3
  <2> QED
    BY <2>7, <2>8, <2>9 DEF WholeRequestAnswered, Conn
<1> QED
  BY <1>1, HttpCorrect, PTL

(* A request is good exactly when a head was read, and refused only when     *)
(* what the client sent begins with none, however the reads cut it and       *)
(* whatever byte of it was changed.                                          *)
THEOREM GoodForHeads == Spec => []GoodExactlyForHeads
<1>1. HttpInv /\ TypeOK => GoodExactlyForHeads
  <2> SUFFICES ASSUME HttpInv, TypeOK PROVE GoodExactlyForHeads
    OBVIOUS
  <2>1. /\ bytes \in Seq(Byte) /\ pos \in 0..Len(bytes)
        /\ parser = Parse(Fresh, Part(bytes, 1, pos)).parser
    BY DEF HttpInv, ReadsInv, ParserInv
  <2>2. /\ parser.result = "good" => \E k \in 1..Len(bytes) : IsHead(Part(bytes, 1, k)) /\ k <= pos
        /\ \A k \in 1..Len(bytes) :
             IsHead(Part(bytes, 1, k)) =>
               parser.result # "bad" /\ (parser.result = "indeterminate" => k > pos)
    BY <2>1, AcceptsHeads
  <2> QED
    BY <2>2 DEF GoodExactlyForHeads
<1> QED
  BY <1>1, HttpCorrect, HttpTypes, PTL

-----------------------------------------------------------------------------
(* The answers to what was understood                                        *)

(* An answer, unless it is the refusal of what could not be parsed, is that  *)
(* of the handler to the uri that was parsed, with some body; that body is   *)
(* what the method was edited with, if the path asks for it.                 *)
AnswerInv ==
  /\ whole => path \in Paths
  /\ parser.result = "indeterminate" => conn = "reading"
  /\ conn = "reading" => edits = <<>>
  /\ conn \in {"answered", "sse", "blob"} /\ parser.result # "bad" =>
       \E req : /\ req.uri = parser.req.uri
                /\ reply = Started(HandleRequest(req)) /\ conn = Start(HandleRequest(req))
                /\ edits = IF UrlDecode(req.uri).ok /\ IsEdit(UrlDecode(req.uri).out)
                             THEN <<req.body>> ELSE <<>>

LEMMA AnswerInit == Init => AnswerInv
BY DEF Init, Send, AnswerInv

LEMMA AnswerStep == TypeOK' /\ AnswerInv /\ [Next]_vars => AnswerInv'
<1> SUFFICES ASSUME TypeOK', AnswerInv, [Next]_vars PROVE AnswerInv'
  OBVIOUS
<1>1. ASSUME NEW n \in 1..(Len(bytes) - pos), OnRead(n) PROVE AnswerInv'
  <2>1. conn = "reading" /\ whole' = whole /\ path' = path /\ edits = <<>>
    BY <1>1 DEF OnRead, sentVars, AnswerInv
  <2>2. ASSUME NEW left, parser'.result = "good", RequestRead(parser'.req, left)
        PROVE  AnswerInv'
    <3>1. ASSUME NEW req, Handle(req), req.uri = parser'.req.uri PROVE AnswerInv'
      <4>1. /\ reply' = Started(HandleRequest(req)) /\ conn' = Start(HandleRequest(req))
            /\ edits' = IF UrlDecode(req.uri).ok /\ IsEdit(UrlDecode(req.uri).out)
                          THEN Append(edits, req.body) ELSE edits
        BY <3>1 DEF Handle
      <4>2. Append(<<>>, req.body) = <<req.body>>
        OBVIOUS
      <4>3. edits' = IF UrlDecode(req.uri).ok /\ IsEdit(UrlDecode(req.uri).out)
                      THEN <<req.body>> ELSE <<>>
        BY <2>1, <4>1, <4>2
      <4>4. conn' # "reading"
        BY <4>1, StartOf
      <4> QED
        BY <2>1, <2>2, <3>1, <4>1, <4>3, <4>4 DEF AnswerInv
    <3>2. CASE Handle(parser'.req)
      BY <3>1, <3>2
    <3>3. CASE Handle([parser'.req EXCEPT !.body = left])
      <4>1. [parser'.req EXCEPT !.body = left].uri = parser'.req.uri
        BY DEF TypeOK
      <4> QED
        BY <3>1, <3>3, <4>1
    <3>4. CASE conn' \in {"dead", "waiting"}
      BY <2>1, <2>2, <3>4 DEF AnswerInv
    <3> QED
      BY <2>2, <3>2, <3>3, <3>4 DEF RequestRead
  <2>3. CASE parser'.result = "bad" /\ BadRequest
    BY <2>1, <2>3 DEF AnswerInv, BadRequest
  <2>4. CASE parser'.result = "indeterminate" /\ ReadOn
    BY <2>1, <2>4 DEF AnswerInv, ReadOn
  <2> QED
    BY <1>1, <2>2, <2>3, <2>4 DEF OnRead
<1>2. CASE UNCHANGED vars
  BY <1>2 DEF vars, sentVars, AnswerInv
<1> QED
  BY <1>1, <1>2 DEF Next

(* Whatever pages there are and whatever is asked for: a request that was    *)
(* not changed gets what its path asks for.  That is a stream, under the     *)
(* headers of that stream; or the edited method, the banner, the page of     *)
(* that name, a refusal, with the length of just that content.  It edits the *)
(* method exactly when its path says so.                                     *)
THEOREM AnswersFit == Spec => []AnswerFitsRequest
<1>1. TypeOK /\ UnderstoodAsMeant /\ AnswerInv => AnswerFitsRequest
  <2> DEFINE said == IF HasText(path, Api(<<>>)) THEN ApiAnswer(path, edits)
                     ELSE PageAnswer(path)
  <2> SUFFICES ASSUME TypeOK, UnderstoodAsMeant, AnswerInv, whole,
                      conn \in {"answered", "sse", "blob"}
               PROVE  /\ conn = "blob" <=> HasText(path, Api(<<"blob">>))
                      /\ conn = "sse" <=> HasText(path, Api(<<"events">>)) /\ conn # "blob"
                      /\ edits # <<>> <=> IsEdit(path)
                      /\ conn = "answered" =>
                           /\ Answer(reply.status, reply.content) = said
                           /\ HasHeader(reply.headers, "Content-Length")
                           /\ FirstHeader(reply.headers, "Content-Length") = SizeOf(reply.content)
                      /\ conn # "answered" =>
                           /\ reply.status = "ok" /\ ~HasHeader(reply.headers, "Content-Length")
                           /\ FirstHeader(reply.headers, "Content-Type") =
                                IF conn = "sse" THEN "text/event-stream" ELSE "blob/event-stream"
    BY DEF AnswerFitsRequest, IsEdit
  <2>1. parser.result = "good" /\ UrlDecode(parser.req.uri) = [ok |-> TRUE, out |-> path]
    BY DEF AnswerInv, UnderstoodAsMeant
  <2>2. path \in Seq(Symbol)
    <3>1. PathByte \subseteq Symbol
      BY DEF PathByte, TextByte, Symbol
    <3>2. path \in Seq(PathByte)
      BY HttpAssumption DEF AnswerInv
    <3> QED
      BY <3>1, <3>2, SeqMonotonic
  <2>3. PICK req : /\ req.uri = parser.req.uri
                   /\ reply = Started(HandleRequest(req)) /\ conn = Start(HandleRequest(req))
                   /\ edits = IF UrlDecode(req.uri).ok /\ IsEdit(UrlDecode(req.uri).out)
                                THEN <<req.body>> ELSE <<>>
    BY <2>1 DEF AnswerInv
  <2>4. edits = IF IsEdit(path) THEN <<req.body>> ELSE <<>>
    BY <2>1, <2>3
  <2>5. PICK type :
          /\ Headed(HandleRequest(req), type)
          /\ type = "blob/event-stream" <=> HasText(path, Api(<<"blob">>))
          /\ type = "text/event-stream" <=>
               HasText(path, Api(<<"events">>)) /\ ~HasText(path, Api(<<"blob">>))
          /\ type \notin {"text/event-stream", "blob/event-stream"} =>
               Answer(HandleRequest(req).status, HandleRequest(req).content) = said
    BY <2>1, <2>2, <2>3, <2>4, AnswerOf
  <2> HIDE DEF said
  <2>6. /\ conn = CASE type = "text/event-stream" -> "sse"
                    [] type = "blob/event-stream" -> "blob"
                    [] OTHER -> "answered"
        /\ conn = "answered" => reply = HandleRequest(req)
        /\ conn # "answered" =>
             /\ reply.status = "ok" /\ ~HasHeader(reply.headers, "Content-Length")
             /\ FirstHeader(reply.headers, "Content-Type") = type
    BY <2>3, <2>5, SentOf
  <2>7. edits # <<>> <=> IsEdit(path)
    BY <2>4
  <2>8. conn = "answered" =>
          /\ Answer(reply.status, reply.content) = said
          /\ HasHeader(reply.headers, "Content-Length")
          /\ FirstHeader(reply.headers, "Content-Length") = SizeOf(reply.content)
    BY <2>5, <2>6, FirstOfName
  <2> QED
    BY <2>5, <2>6, <2>7, <2>8
<1> QED
  BY <1>1, AnswerInit, AnswerStep, HttpTypes, Understands, PTL DEF Spec
=============================================================================
