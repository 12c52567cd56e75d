----------------------------- MODULE RequestParser -----------------------------
(* The automaton that reads a request (request_parser.cpp), as a table of    *)
(* transitions over kinds of bytes, and the grammar of the requests it is    *)
(* meant to accept.  A run of plain letters of one meaning is one symbol     *)
(* ("index", "Host"): the automaton does not tell its letters apart.         *)
EXTENDS Naturals, Sequences, SequencesExt

CONSTANTS
  Word     \* the runs of letters that occur in requests

Digit == {"0", "1", "2", "3"}
HexLetter == {"E", "F"}
HTP == {"H", "T", "P"}                       \* the letters of HTTP/1.1
Letter == Word \cup HTP \cup HexLetter \cup Digit \cup {".", "%", "+", "-"}
(* "SP", "HT", "CR" and "LF" are the space, the tab and the two newlines.    *)
Tspecial == {"/", ":", "(", "SP", "HT"}
Ctl == {"CR", "LF", "HT", "ctl"}
Byte == Letter \cup Tspecial \cup Ctl \cup {"high"}   \* "high": a char below 0

ASSUME WordAssumption ==
  Word \cap (HTP \cup HexLetter \cup Digit \cup Tspecial \cup Ctl
               \cup {".", "%", "+", "-", "high"}) = {}

(* is_char and neither is_ctl nor is_tspecial.                               *)
TokenByte == Byte \ (Ctl \cup Tspecial \cup {"high"})
TextByte == Byte \ Ctl                       \* not is_ctl: "high" passes

Edge(from, on, to, push) == [from |-> from, on |-> on, to |-> to, push |-> push]

(* What each state does with a byte.  "push" names the field of the request  *)
(* the byte is appended to: the method, the uri, the name of a new header,   *)
(* the name or the value of the last header.  A byte without an edge is bad. *)
RequestLineEdges ==
  { Edge("method_start", TokenByte, "method", "method"),
    Edge("method", {"SP"}, "uri", "none"),
    Edge("method", TokenByte, "method", "method"),
    Edge("uri", {"SP"}, "http_version_h", "none"),
    Edge("uri", TextByte \ {"SP"}, "uri", "uri"),
    Edge("http_version_h", {"H"}, "http_version_t_1", "none"),
    Edge("http_version_t_1", {"T"}, "http_version_t_2", "none"),
    Edge("http_version_t_2", {"T"}, "http_version_p", "none"),
    Edge("http_version_p", {"P"}, "http_version_slash", "none"),
    Edge("http_version_slash", {"/"}, "http_version_major_start", "none"),
    Edge("http_version_major_start", Digit, "http_version_major", "none"),
    Edge("http_version_major", {"."}, "http_version_minor_start", "none"),
    Edge("http_version_major", Digit, "http_version_major", "none"),
    Edge("http_version_minor_start", Digit, "http_version_minor", "none"),
    Edge("http_version_minor", {"CR"}, "expecting_newline_1", "none"),
    Edge("http_version_minor", Digit, "http_version_minor", "none"),
    Edge("expecting_newline_1", {"LF"}, "header_line_start", "none") }

HeaderEdges ==
  { Edge("header_line_start", {"CR"}, "expecting_newline_3", "none"),
    Edge("header_line_start", {"SP", "HT"}, "header_lws", "none"),
    Edge("header_line_start", TokenByte, "header_name", "header"),
    Edge("header_lws", {"CR"}, "expecting_newline_2", "none"),
    Edge("header_lws", {"SP", "HT"}, "header_lws", "none"),
    Edge("header_lws", TextByte \ {"SP"}, "header_value", "value"),
    Edge("header_name", {":"}, "space_before_header_value", "none"),
    Edge("header_name", TokenByte, "header_name", "name"),
    Edge("space_before_header_value", {"SP"}, "header_value", "none"),
    Edge("header_value", {"CR"}, "expecting_newline_2", "none"),
    Edge("header_value", TextByte, "header_value", "value"),
    Edge("expecting_newline_2", {"LF"}, "header_line_start", "none"),
    Edge("expecting_newline_3", {"LF"}, "header_good", "none"),
    Edge("header_good", Byte, "header_good", "none") }

(* Mutant: the newline of the last empty line is not looked at.              *)
Edges_AnyNewline ==
  (RequestLineEdges \cup HeaderEdges)
    \cup {Edge("expecting_newline_3", Byte \ {"LF"}, "header_good", "none")}

Edges == RequestLineEdges \cup HeaderEdges

State == {e.from : e \in Edges} \cup {"header_bad"}

(* The table of Edges as a function; a byte without an edge gives none.      *)
Table == [s \in State |-> [b \in Byte |-> {e \in Edges : e.from = s /\ b \in e.on}]]

Header(name, value) == [name |-> name, value |-> value]
EmptyRequest == [method |-> <<>>, uri |-> <<>>, headers |-> <<>>, body |-> <<>>]

Request == [method : Seq(Byte), uri : Seq(Byte), body : Seq(Byte),
            headers : Seq([name : Seq(Byte), value : Seq(Byte)])]

(* The parser and the request it fills: request_parser_ and request_.        *)
Parser == [state : State, result : {"good", "bad", "indeterminate"}, req : Request]
Fresh == [state |-> "method_start", result |-> "indeterminate", req |-> EmptyRequest]

PushByte(req, field, b) ==
  LET n == Len(req.headers) IN
  CASE field = "none"   -> req
    [] field = "method" -> [req EXCEPT !.method = Append(@, b)]
    [] field = "uri"    -> [req EXCEPT !.uri = Append(@, b)]
    [] field = "header" -> [req EXCEPT !.headers = Append(@, Header(<<b>>, <<>>))]
    [] field = "name"   -> [req EXCEPT !.headers[n].name = Append(@, b)]
    [] field = "value"  -> [req EXCEPT !.headers[n].value = Append(@, b)]

(* One byte.  A line that goes on needs a header to go on with.              *)
Consume(p, b) ==
  LET edges == {e \in Table[p.state][b] :
                  e.from = "header_line_start" /\ e.to = "header_lws" => p.req.headers # <<>>}
      e == CHOOSE x \in edges : TRUE
  IN  IF edges = {}
        THEN [p EXCEPT !.result = "bad",
                       !.state = IF @ = "expecting_newline_3" THEN "header_bad" ELSE @]
        ELSE [state |-> e.to,
              result |-> IF e.to = "header_good" THEN "good" ELSE "indeterminate",
              req |-> PushByte(p.req, e.push, b)]

(* A read: bytes up to the first that decides.  n counts the bytes consumed. *)
Parse(p, bytes) ==
  FoldLeft(LAMBDA acc, b : IF acc.parser.result # "indeterminate" THEN acc
                           ELSE [parser |-> Consume(acc.parser, b), n |-> acc.n + 1],
           [parser |-> p, n |-> 0], bytes)

-----------------------------------------------------------------------------
(* The reference: which sequences of bytes are the head of a request.  It is *)
(* stated over lines, without an automaton.                                  *)

CRLF == <<"CR", "LF">>

AllIn(s, S) == \A i \in DOMAIN s : s[i] \in S
Part(s, i, j) == SubSeq(s, i, j)

IsVersion(s) ==
  \E i \in 7..(Len(s) - 1) :
    /\ Part(s, 1, 5) = <<"H", "T", "T", "P", "/">>
    /\ s[i] = "." /\ AllIn(Part(s, 6, i - 1), Digit) /\ AllIn(Part(s, i + 1, Len(s)), Digit)

(* method SP uri SP version; the uri may be empty.                           *)
IsRequestLine(s) ==
  \E i, j \in 2..Len(s) :
    /\ i < j /\ s[i] = "SP" /\ s[j] = "SP"
    /\ AllIn(Part(s, 1, i - 1), TokenByte)
    /\ AllIn(Part(s, i + 1, j - 1), TextByte \ {"SP"})
    /\ IsVersion(Part(s, j + 1, Len(s)))

(* name ":" SP value                                                         *)
IsHeaderLine(s) ==
  \E i \in 2..(Len(s) - 1) :
    /\ s[i] = ":" /\ s[i + 1] = "SP"
    /\ AllIn(Part(s, 1, i - 1), TokenByte)
    /\ AllIn(Part(s, i + 2, Len(s)), TextByte)

(* White space, then what goes on with the value of the header before.       *)
IsContinuation(s) ==
  \E i \in 1..Len(s) :
    /\ AllIn(Part(s, 1, i), {"SP", "HT"})
    /\ i < Len(s) => s[i + 1] # "SP"
    /\ AllIn(Part(s, i + 1, Len(s)), TextByte)

(* Where the lines of s end: the positions of the first byte of each CRLF.   *)
Ends(s) == {i \in 1..(Len(s) - 1) : s[i] = "CR" /\ s[i + 1] = "LF"}
Line(s, from, to) == Part(s, from, to - 1)

(* s is the head of one request and nothing more.                            *)
IsHead(s) ==
  LET ends == Ends(s)
      line(i) == LET before == {e \in ends : e < i}
                     from == IF before = {} THEN 1 ELSE Max(before) + 2
                 IN  Line(s, from, i)
  IN  /\ Len(s) > 3 /\ Part(s, Len(s) - 3, Len(s)) = CRLF \o CRLF
      /\ \E first, last \in ends :
           /\ \A e \in ends : first <= e /\ e <= last
           /\ last = Len(s) - 1 /\ line(last) = <<>>
           /\ IsRequestLine(line(first))
           /\ \A e \in ends \ {first, last} :
                \/ IsHeaderLine(line(e))
                \/ IsContinuation(line(e)) /\ \E f \in ends : first < f /\ f < e
           /\ first # last
=============================================================================
