----------------------------- MODULE RequestHandler -----------------------------
(* What is answered to a request: request_handler.cpp with the part of       *)
(* page_handler::http_request it calls, the stock replies (reply.cpp) and    *)
(* the types of pages (mime_types.cpp).  A text is the sequence of its words;*)
(* the content of a page or a reply is named, never spelled out.             *)
EXTENDS RequestParser

CONSTANTS
  Files,         \* the paths of the pages under doc_root
  Directories    \* paths that name a directory: opened, and read as empty

-----------------------------------------------------------------------------
(* url_decode                                                                *)

HexDigit == Digit \cup HexLetter
HexValue(b) == CASE b = "0" -> 0 [] b = "1" -> 1 [] b = "2" -> 2 [] b = "3" -> 3
                 [] b = "E" -> 14 [] b = "F" -> 15

(* The characters the properties tell apart; "other" stands for the rest.    *)
CharOf(code) ==
  CASE code = 32 -> "SP" [] code = 37 -> "%" [] code = 43 -> "+"
    [] code = 46 -> "." [] code = 47 -> "/"
    [] code < 32 -> "ctl" [] code > 127 -> "high"
    [] OTHER -> "other"

(* is >> std::hex >> value on two characters: the digits there are, after an *)
(* optional sign; a digit and something else is read as one digit.  A value  *)
(* below 0 is cut to the char of its last 8 bits.                            *)
IsNumber(a, b) == a \in HexDigit \/ (a \in {"+", "-"} /\ b \in HexDigit)
Number(a, b) == IF a = "+" THEN HexValue(b)
                ELSE IF a = "-" THEN (256 - HexValue(b)) % 256
                ELSE IF b \in HexDigit THEN 16 * HexValue(a) + HexValue(b)
                ELSE HexValue(a)

Failed == [ok |-> FALSE, out |-> <<>>]
Before(b, d) == [d EXCEPT !.out = <<b>> \o @]

(* Mutant: an escape ends one character late.                                *)
UrlDecode_Skips(in) ==
  LET from[i \in 1..(Len(in) + 2)] ==
        CASE i > Len(in) -> [ok |-> TRUE, out |-> <<>>]
          [] i <= Len(in) /\ in[i] = "%" ->
               IF i + 2 <= Len(in) /\ IsNumber(in[i + 1], in[i + 2])
                 THEN Before(CharOf(Number(in[i + 1], in[i + 2])), from[i + 4])
                 ELSE Failed
          [] OTHER -> Before(IF in[i] = "+" THEN "SP" ELSE in[i], from[i + 1])
  IN  from[1]

(* from[i] is what is decoded of in from position i on.                      *)
UrlDecode(in) ==
  LET from[i \in 1..(Len(in) + 1)] ==
        CASE i > Len(in) -> [ok |-> TRUE, out |-> <<>>]
          [] i <= Len(in) /\ in[i] = "%" ->
               IF i + 2 <= Len(in) /\ IsNumber(in[i + 1], in[i + 2])
                 THEN Before(CharOf(Number(in[i + 1], in[i + 2])), from[i + 3])
                 ELSE Failed
          [] OTHER -> Before(IF in[i] = "+" THEN "SP" ELSE in[i], from[i + 1])
  IN  from[1]

-----------------------------------------------------------------------------
(* Replies                                                                   *)

StatusCode ==
  [ok |-> 200, created |-> 201, accepted |-> 202, no_content |-> 204,
   multiple_choices |-> 300, moved_permanently |-> 301, moved_temporarily |-> 302,
   not_modified |-> 304, bad_request |-> 400, unauthorized |-> 401,
   forbidden |-> 403, not_found |-> 404, internal_server_error |-> 500,
   not_implemented |-> 501, bad_gateway |-> 502, service_unavailable |-> 503]

(* The page of a status names its code again; that of "ok" is empty.         *)
StockPage(status) == IF status = "ok" THEN <<>> ELSE <<"stock", ToString(StatusCode[status])>>

SizeOf(content) == <<"size of">> \o content

Reply(status, content, headers) ==
  [status |-> status, content |-> content, headers |-> headers]
NoReply == Reply("ok", <<>>, <<>>)

StockReply(status) ==
  Reply(status, StockPage(status),
        <<Header("Content-Length", SizeOf(StockPage(status))),
          Header("Content-Type", "text/html")>>)

TypeOfExtension ==
  [gif |-> "image/gif", htm |-> "text/html", html |-> "text/html", jpg |-> "image/jpeg",
   png |-> "image/png", css |-> "text/css", js |-> "text/javascript"]

ExtensionToType(extension) ==
  IF Len(extension) = 1 /\ extension[1] \in DOMAIN TypeOfExtension
    THEN TypeOfExtension[extension[1]] ELSE "text/plain"

-----------------------------------------------------------------------------
(* handle_request                                                            *)

HasText(path, text) == \E i \in 0..(Len(path) - Len(text)) :
                          Part(path, i + 1, i + Len(text)) = text
Api(name) == <<"/", "api$">> \o name

(* Mutant: the answer to an edit is overwritten by that to unknown requests. *)
HttpRequest_FallsThrough(path, body) ==
  CASE HasText(path, Api(<<"events">>)) -> <<"SSE">>
    [] ~HasText(path, Api(<<"events">>)) /\ HasText(path, Api(<<"banner">>)) -> <<"banner">>
    [] OTHER -> <<"unknown request">>

(* page_handler::http_request: the content of the answer; an edit comes back *)
(* as the method with the edit in it.                                        *)
HttpRequest(path, body) ==
  CASE HasText(path, Api(<<"events">>)) -> <<"SSE">>
    [] ~HasText(path, Api(<<"events">>)) /\ HasText(path, Api(<<"banner">>)) -> <<"banner">>
    [] /\ ~HasText(path, Api(<<"events">>)) /\ ~HasText(path, Api(<<"banner">>))
       /\ HasText(path, Api(<<"valueChanged">>)) -> <<"method">> \o body
    [] OTHER -> <<"unknown request">>

IsEdit(path) == /\ HasText(path, Api(<<"valueChanged">>))
                /\ ~HasText(path, Api(<<"events">>)) /\ ~HasText(path, Api(<<"banner">>))

KeepOpen == <<Header("Cache-Control", "no-cache"), Header("connection", "keep-alive")>>

(* The second header, pushed as text/json, is overwritten for a stream.      *)
ApiHeaders(path, content) ==
  LET length == Header("Content-Length", SizeOf(content))
      json == <<length, Header("Content-Type", "text/json")>>
      events == IF HasText(path, Api(<<"events">>))
                  THEN [json EXCEPT ![2].value = "text/event-stream"] \o KeepOpen ELSE json
  IN  IF HasText(path, Api(<<"blob">>))
        THEN [events \o <<length, Header("Content-Type", "blob")>>
                EXCEPT ![2].value = "blob/event-stream"] \o KeepOpen
        ELSE events

ApiReply(path, body) ==
  LET content == HttpRequest(path, body)
  IN  Reply("ok", content, ApiHeaders(path, content))

(* What follows the last dot, when no slash follows it.                      *)
Extension(path) ==
  LET dots == {i \in DOMAIN path : path[i] = "."}
      slashes == {i \in DOMAIN path : path[i] = "/"}
  IN  IF dots # {} /\ \A s \in slashes : Max(dots) > s
        THEN Part(path, Max(dots) + 1, Len(path)) ELSE <<>>

PageReply(path) ==
  LET page == IF path[Len(path)] = "/" THEN path \o <<"index", ".", "html">> ELSE path
      content == IF page \in Files THEN <<"page">> \o page ELSE <<>>
  IN  IF page \notin Files \cup Directories THEN StockReply("not_found")
      ELSE Reply("ok", content,
                 <<Header("Content-Length", SizeOf(content)),
                   Header("Content-Type", ExtensionToType(Extension(page)))>>)

HandleRequest(req) ==
  LET path == UrlDecode(req.uri).out IN
  CASE ~UrlDecode(req.uri).ok -> StockReply("bad_request")
    [] UrlDecode(req.uri).ok /\ HasText(path, Api(<<>>)) -> ApiReply(path, req.body)
    [] OTHER -> IF path = <<>> \/ path[1] # "/" \/ HasText(path, <<".", ".">>)
                  THEN StockReply("bad_request") ELSE PageReply(path)

(* The value of the first header of that name.                               *)
HasHeader(headers, name) == \E i \in DOMAIN headers : headers[i].name = name
FirstHeader(headers, name) ==
  headers[CHOOSE i \in DOMAIN headers :
            headers[i].name = name /\ \A j \in 1..(i - 1) : headers[j].name # name].value
=============================================================================
