------------------------- MODULE RequestParser_proofs -------------------------
(* Theorems about the request parser, for every sequence of bytes: what a    *)
(* read of several bytes does, and which requests are read to the end.       *)
EXTENDS RequestParser, SequenceTheorems, WellFoundedInduction, TLAPS

-----------------------------------------------------------------------------
(* Induction.  The sets stand for the predicate that is to be proved.        *)

Less == {ss \in Nat \X Nat : ss[1] < ss[2]}

LEMMA InductionOnNat ==
  ASSUME NEW T \in SUBSET Nat, 0 \in T, \A n \in T : n + 1 \in T
  PROVE  T = Nat
<1>1. IsWellFoundedOn(Less, Nat)
  BY NatLessThanWellFounded DEF OpToRel, Less
<1> SUFFICES ASSUME Nat \ T # {} PROVE FALSE
  OBVIOUS
<1>2. PICK x \in Nat \ T : \A y \in Nat \ T : ~(<<y, x>> \in Less)
  BY <1>1, WFMin
<1>3. x # 0 /\ x - 1 \in Nat /\ x - 1 < x /\ (x - 1) + 1 = x
  BY <1>2
<1>4. <<x - 1, x>> \in Less
  BY <1>3 DEF Less
<1>5. x - 1 \in T
  BY <1>2, <1>3, <1>4
<1> QED
  BY <1>2, <1>3, <1>5

LEMMA Least ==
  ASSUME NEW T \in SUBSET Nat, T # {} PROVE \E k \in T : \A m \in T : m >= k
<1>1. IsWellFoundedOn(Less, Nat)
  BY NatLessThanWellFounded DEF OpToRel, Less
<1>2. PICK k \in T : \A m \in T : ~(<<m, k>> \in Less)
  BY <1>1, WFMin
<1>3. \A m \in T : ~(m < k)
  BY <1>2 DEF Less
<1> QED
  BY <1>3

LEMMA AppendProps ==
  ASSUME NEW X, NEW s \in Seq(X), NEW x \in X
  PROVE  /\ Append(s, x) \in Seq(X) /\ Len(Append(s, x)) = Len(s) + 1
         /\ \A i \in 1..Len(s) : Append(s, x)[i] = s[i]
         /\ Append(s, x)[Len(s) + 1] = x
OBVIOUS

LEMMA SplitLast ==
  ASSUME NEW X, NEW s \in Seq(X), s # <<>>
  PROVE  \E t \in Seq(X), x \in X : s = Append(t, x) /\ Len(t) = Len(s) - 1
<1> DEFINE t == [i \in 1..(Len(s) - 1) |-> s[i]]
           x == s[Len(s)]
<1>1. Len(s) \in Nat \ {0} /\ x \in X
  OBVIOUS
<1>2. t \in Seq(X) /\ Len(t) = Len(s) - 1
  BY <1>1
<1>3. s = Append(t, x)
  <2>1. Append(t, x) \in Seq(X) /\ Len(Append(t, x)) = Len(s)
    BY <1>1, <1>2, AppendProps
  <2>2. \A i \in 1..Len(s) : s[i] = Append(t, x)[i]
    <3> TAKE i \in 1..Len(s)
    <3>1. CASE i \in 1..Len(t)
      BY <3>1, <1>1, <1>2, AppendProps
    <3>2. CASE i = Len(t) + 1
      BY <3>2, <1>1, <1>2, AppendProps
    <3> QED
      BY <3>1, <3>2, <1>1, <1>2
  <2> HIDE DEF t, x
  <2> QED
    BY <2>1, <2>2, SeqEqual
<1> HIDE DEF t, x
<1> QED
  BY <1>1, <1>2, <1>3

LEMMA InductionOnSeq ==
  ASSUME NEW X, NEW T \in SUBSET Seq(X), <<>> \in T,
         \A s \in T, x \in X : Append(s, x) \in T
  PROVE  T = Seq(X)
<1> DEFINE L == {n \in Nat : \A s \in Seq(X) : Len(s) = n => s \in T}
<1>1. 0 \in L
  BY EmptySeq
<1>2. ASSUME NEW n \in L PROVE n + 1 \in L
  <2> SUFFICES ASSUME NEW s \in Seq(X), Len(s) = n + 1 PROVE s \in T
    OBVIOUS
  <2>1. s # <<>>
    BY EmptySeq
  <2>2. PICK t \in Seq(X), x \in X : s = Append(t, x) /\ Len(t) = Len(s) - 1
    BY <2>1, SplitLast
  <2>3. t \in T
    BY <1>2, <2>2
  <2> QED
    BY <2>2, <2>3
<1>3. L = Nat
  <2> HIDE DEF L
  <2> SUFFICES L \in SUBSET Nat
    BY <1>1, <1>2, InductionOnNat
  <2> QED
    BY DEF L
<1> QED
  BY <1>3, LenProperties

-----------------------------------------------------------------------------
(* Folds                                                                     *)

LEMMA MaxProps ==
  ASSUME NEW n \in Nat, NEW s \in SUBSET (1..n), s # {}
  PROVE  Max(s) \in s /\ \A y \in s : Max(s) >= y
<1> DEFINE P(m) == \A u \in SUBSET (1..m) : u # {} => \E x \in u : \A y \in u : x >= y
           T == {m \in Nat : P(m)}
<1>1. P(0)
  <2>1. 1..0 = {}
    OBVIOUS
  <2> QED
    BY <2>1
<1>2. ASSUME NEW m \in Nat, P(m) PROVE P(m + 1)
  <2> SUFFICES ASSUME NEW u \in SUBSET (1..(m + 1)), u # {}
               PROVE  \E x \in u : \A y \in u : x >= y
    OBVIOUS
  <2>1. CASE m + 1 \in u
    BY <2>1
  <2>2. CASE m + 1 \notin u
    <3>1. u \in SUBSET (1..m)
      BY <2>2
    <3> QED
      BY <3>1, <1>2
  <2> QED
    BY <2>1, <2>2
<1> HIDE DEF P
<1>3. T = Nat
  <2>1. T \in SUBSET Nat /\ 0 \in T /\ \A m \in T : m + 1 \in T
    BY <1>1, <1>2
  <2> HIDE DEF T
  <2> QED
    BY <2>1, InductionOnNat
<1>4. P(n)
  BY <1>3
<1>5. \E x \in s : \A y \in s : x >= y
  BY <1>4 DEF P
<1> QED
  BY <1>5 DEF Max

LEMMA MaxIs ==
  ASSUME NEW n \in Nat, NEW s \in SUBSET (1..n), NEW x \in s, \A y \in s : x >= y
  PROVE  Max(s) = x
<1>1. Max(s) \in s /\ Max(s) >= x
  BY MaxProps
<1>2. x >= Max(s) /\ x \in Nat /\ Max(s) \in Nat
  <2>1. \A y \in s : y \in Nat
    OBVIOUS
  <2> QED
    BY <1>1, <2>1
<1> QED
  BY <1>1, <1>2

(* iter is the function that a fold of step over seq, from base, is about.   *)
IsFold(iter, base, step, seq, S) ==
  \A s \in SUBSET S :
    iter[s] = IF s = {} THEN base ELSE step[<<iter[s \ {Max(s)}], seq[Max(s)]>>]

LEMMA FoldExists ==
  ASSUME NEW A, NEW X, NEW base \in A, NEW step \in [A \X X -> A], NEW N \in Nat,
         NEW seq \in [1..N -> X]
  PROVE  \E iter \in [SUBSET (1..N) -> A] : IsFold(iter, base, step, seq, 1..N)
<1> DEFINE P(n) == n <= N =>
                     \E iter \in [SUBSET (1..n) -> A] : IsFold(iter, base, step, seq, 1..n)
           T == {n \in Nat : P(n)}
<1>1. P(0)
  <2> DEFINE iter == [s \in SUBSET (1..0) |-> base]
  <2>1. iter \in [SUBSET (1..0) -> A] /\ IsFold(iter, base, step, seq, 1..0)
    BY DEF IsFold
  <2> HIDE DEF iter
  <2> QED
    BY <2>1
<1>2. ASSUME NEW n \in Nat, P(n) PROVE P(n + 1)
  <2> SUFFICES ASSUME n + 1 <= N
               PROVE  \E iter \in [SUBSET (1..(n + 1)) -> A] :
                        IsFold(iter, base, step, seq, 1..(n + 1))
    OBVIOUS
  <2>0. n <= N
    OBVIOUS
  <2>1. PICK f \in [SUBSET (1..n) -> A] : IsFold(f, base, step, seq, 1..n)
    BY <1>2, <2>0
  <2> DEFINE g == [s \in SUBSET (1..(n + 1)) |->
                     IF n + 1 \in s THEN step[<<f[s \ {n + 1}], seq[n + 1]>>] ELSE f[s]]
  <2>2. ASSUME NEW s \in SUBSET (1..(n + 1)), n + 1 \in s
        PROVE  /\ g[s] \in A /\ s # {}
               /\ g[s] = step[<<g[s \ {Max(s)}], seq[Max(s)]>>]
    <3>1. Max(s) = n + 1
      <4>1. \A y \in s : n + 1 >= y
        OBVIOUS
      <4>2. n + 1 \in Nat
        OBVIOUS
      <4> HIDE DEF g
      <4> QED
        BY <2>2, <4>1, <4>2, MaxIs
    <3>2. s \ {n + 1} \in SUBSET (1..n)
      OBVIOUS
    <3>3. g[s \ {n + 1}] = f[s \ {n + 1}]
      BY <3>2
    <3>4. f[s \ {n + 1}] \in A /\ seq[n + 1] \in X
      BY <3>2
    <3> QED
      BY <2>2, <3>1, <3>3, <3>4
  <2>3. ASSUME NEW s \in SUBSET (1..(n + 1)), n + 1 \notin s
        PROVE  /\ g[s] \in A
               /\ s = {} => g[s] = base
               /\ s # {} => g[s] = step[<<g[s \ {Max(s)}], seq[Max(s)]>>]
    <3>1. s \in SUBSET (1..n)
      <4>1. \A x \in s : x \in 1..n
        BY <2>3
      <4> QED
        BY <4>1
    <3>0. s \ {Max(s)} \in SUBSET (1..n)
      BY <3>1
    <3>2. g[s] = f[s] /\ g[s \ {Max(s)}] = f[s \ {Max(s)}]
      BY <3>0, <3>1, <2>3
    <3> QED
      BY <2>1, <3>1, <3>2 DEF IsFold
  <2>4. g \in [SUBSET (1..(n + 1)) -> A]
    BY <2>2, <2>3
  <2> HIDE DEF g
  <2>5. IsFold(g, base, step, seq, 1..(n + 1))
    BY <2>2, <2>3 DEF IsFold
  <2> QED
    BY <2>4, <2>5
<1> HIDE DEF P
<1>3. T = Nat
  <2>1. T \in SUBSET Nat /\ 0 \in T /\ \A m \in T : m + 1 \in T
    BY <1>1, <1>2
  <2> HIDE DEF T
  <2> QED
    BY <2>1, InductionOnNat
<1>4. P(N)
  BY <1>3
<1>5. N <= N
  OBVIOUS
<1> QED
  BY <1>4, <1>5 DEF P

(* h holds the values a fold of step over seq, from base, goes through.      *)
Walk(h, base, step, seq) ==
  h[0] = base /\ \A k \in 1..Len(seq) : h[k] = step[<<h[k - 1], seq[k]>>]

Folding(A, X, base, step) == base \in A /\ step \in [A \X X -> A]

(* ... as far as the values before are known to be in A.                     *)
FoldsTo(it, A, base, step, seq) ==
  /\ it[{}] = base
  /\ \A u \in SUBSET (1..Len(seq)) :
       u # {} /\ it[u \ {Max(u)}] \in A =>
         it[u] = step[<<it[u \ {Max(u)}], seq[Max(u)]>>]

LEMMA FoldWalk ==
  ASSUME NEW A, NEW X, NEW base, NEW step, Folding(A, X, base, step), NEW seq \in Seq(X),
         NEW it, FoldsTo(it, A, base, step, seq)
  PROVE  \E h \in [0..Len(seq) -> A] :
           Walk(h, base, step, seq) /\ h[Len(seq)] = it[1..Len(seq)]
<1> DEFINE N == Len(seq)
           h == [k \in 0..N |-> it[1..k]]
<1>0. base \in A /\ step \in [A \X X -> A]
  BY DEF Folding
<1>1. N \in Nat /\ \A k \in 1..N : seq[k] \in X
  OBVIOUS
<1>2. h[0] = base
  <2>1. 1..0 = {}
    OBVIOUS
  <2> QED
    BY <1>1, <2>1 DEF FoldsTo
<1>3. ASSUME NEW k \in 1..N, h[k - 1] \in A PROVE h[k] = step[<<h[k - 1], seq[k]>>]
  <2>1. k \in 1..k /\ 1..k \in SUBSET (1..N) /\ (1..k) \ {k} = 1..(k - 1)
    BY <1>1
  <2>2. Max(1..k) = k
    <3>1. k \in Nat /\ \A y \in 1..k : k >= y
      BY <1>1
    <3> QED
      BY <2>1, <3>1, MaxIs
  <2>3. h[k] = it[1..k] /\ h[k - 1] = it[1..(k - 1)]
    BY <1>1
  <2> HIDE DEF h
  <2> QED
    BY <1>3, <2>1, <2>2, <2>3 DEF FoldsTo
<1> HIDE DEF h
<1>4. \A k \in 0..N : h[k] \in A
  <2> DEFINE T == {k \in Nat : k <= N => h[k] \in A}
  <2>1. T \in SUBSET Nat
    OBVIOUS
  <2>2. 0 \in T
    BY <1>0, <1>2
  <2>3. ASSUME NEW k \in T PROVE k + 1 \in T
    <3> SUFFICES ASSUME k + 1 <= N PROVE h[k + 1] \in A
      OBVIOUS
    <3>1. k + 1 \in 1..N /\ (k + 1) - 1 = k /\ h[k] \in A /\ seq[k + 1] \in X
      BY <1>1
    <3> QED
      BY <1>0, <1>3, <3>1
  <2>4. T = Nat
    <3> HIDE DEF T
    <3> QED
      BY <2>1, <2>2, <2>3, InductionOnNat
  <2> QED
    BY <1>1, <2>4
<1>5. \A k \in 1..N : h[k] = step[<<h[k - 1], seq[k]>>]
  <2> TAKE k \in 1..N
  <2>1. k - 1 \in 0..N
    BY <1>1
  <2> QED
    BY <1>3, <1>4, <2>1
<1>6. h[N] = it[1..N] /\ h \in [0..N -> A]
  BY <1>1, <1>4 DEF h
<1> QED
  BY <1>2, <1>5, <1>6 DEF Walk

OneLonger(t, s, x) == t = Append(s, x)
StepsTo(step, a, x, c) == c = step[<<a, x>>]

LEMMA WalkAppend ==
  ASSUME NEW X, NEW base, NEW step, NEW s \in Seq(X), NEW x \in X, NEW t \in Seq(X),
         OneLonger(t, s, x), NEW g, NEW h, Walk(g, base, step, s), Walk(h, base, step, t)
  PROVE  StepsTo(step, g[Len(s)], x, h[Len(t)])
<1> DEFINE N == Len(s)
<1>1. /\ t \in Seq(X) /\ Len(t) = N + 1 /\ N \in Nat
      /\ \A i \in 1..N : t[i] = s[i]
      /\ t[N + 1] = x
  BY AppendProps DEF OneLonger
<1> DEFINE T == {k \in Nat : k <= N => g[k] = h[k]}
<1>4. T \in SUBSET Nat
  OBVIOUS
<1>5. 0 \in T
  BY DEF Walk
<1>6. ASSUME NEW k \in T PROVE k + 1 \in T
  <2> SUFFICES ASSUME k + 1 <= N PROVE g[k + 1] = h[k + 1]
    OBVIOUS
  <2>1. k + 1 \in 1..Len(s) /\ k + 1 \in 1..Len(t) /\ (k + 1) - 1 = k /\ g[k] = h[k]
    BY <1>1
  <2>2. t[k + 1] = s[k + 1]
    BY <1>1, <2>1
  <2>3. g[k + 1] = step[<<g[k], s[k + 1]>>]
    BY <2>1 DEF Walk
  <2>4. h[k + 1] = step[<<h[k], t[k + 1]>>]
    BY <2>1 DEF Walk
  <2> QED
    BY <2>1, <2>2, <2>3, <2>4
<1>7. T = Nat
  <2> HIDE DEF T
  <2> QED
    BY <1>4, <1>5, <1>6, InductionOnNat
<1>8. h[N] = g[N]
  BY <1>1, <1>7
<1>9. N + 1 \in 1..Len(t) /\ (N + 1) - 1 = N
  BY <1>1
<1>10. h[N + 1] = step[<<h[N], t[N + 1]>>]
  BY <1>9 DEF Walk
<1> QED
  BY <1>1, <1>8, <1>10 DEF StepsTo

-----------------------------------------------------------------------------
(* What a read does, byte by byte                                            *)

HeaderType == [name : Seq(Byte), value : Seq(Byte)]
Field == {"none", "method", "uri", "header", "name", "value"}

LEMMA Bytes ==
  /\ TokenByte \subseteq TextByte /\ TextByte \subseteq Byte /\ Digit \subseteq TokenByte
  /\ {"CR", "LF", "SP", "HT", "H", "T", "P", "/", ".", ":", "%", "+", "1"} \subseteq Byte
  /\ "SP" \in TextByte \ TokenByte /\ ":" \in TextByte \ TokenByte
  /\ {"CR", "LF", "HT"} \cap TextByte = {}
BY WordAssumption
   DEF Byte, TokenByte, TextByte, Ctl, Tspecial, Letter, HTP, HexLetter, Digit

StateName ==
  {"method_start", "method", "uri", "http_version_h", "http_version_t_1",
   "http_version_t_2", "http_version_p", "http_version_slash",
   "http_version_major_start", "http_version_major", "http_version_minor_start",
   "http_version_minor", "expecting_newline_1", "header_line_start", "header_lws",
   "header_name", "space_before_header_value", "header_value", "expecting_newline_2",
   "expecting_newline_3", "header_good"}

LEMMA StateNames == State = StateName \cup {"header_bad"}
<1>1. \A e \in Edges : e.from \in StateName
  BY DEF Edges, RequestLineEdges, HeaderEdges, Edge, StateName
<1>2. StateName \subseteq {e.from : e \in Edges}
  BY DEF Edges, RequestLineEdges, HeaderEdges, Edge, StateName
<1> QED
  BY <1>1, <1>2 DEF State

LEMMA EdgeTypes ==
  \A e \in Edges : e.to \in State /\ e.from \in State /\ e.on \subseteq Byte /\ e.push \in Field
<1>1. \A e \in Edges : e.to \in StateName /\ e.from \in StateName
  BY DEF Edges, RequestLineEdges, HeaderEdges, Edge, StateName
<1>2. \A e \in Edges : e.push \in Field
  BY DEF Edges, RequestLineEdges, HeaderEdges, Edge, Field
<1>3. \A e \in RequestLineEdges : e.on \subseteq Byte
  BY Bytes DEF RequestLineEdges, Edge
<1>4. \A e \in HeaderEdges : e.on \subseteq Byte
  BY Bytes DEF HeaderEdges, Edge
<1> QED
  BY <1>1, <1>2, <1>3, <1>4, StateNames DEF Edges

LEMMA ExceptOutside ==
  ASSUME NEW X, NEW s \in Seq(X), NEW n \in Nat, n \notin 1..Len(s), NEW e
  PROVE  [s EXCEPT ![n] = e] = s
OBVIOUS

LEMMA PushByteType ==
  ASSUME NEW req \in Request, NEW b \in Byte, NEW f \in Field
  PROVE  PushByte(req, f, b) \in Request
<1>1. Header(<<b>>, <<>>) \in HeaderType
  BY DEF Header, HeaderType
<1>2. ASSUME NEW h \in HeaderType
      PROVE  /\ [h EXCEPT !.name = Append(@, b)] \in HeaderType
             /\ [h EXCEPT !.value = Append(@, b)] \in HeaderType
  <2>1. Append(h.name, b) \in Seq(Byte) /\ Append(h.value, b) \in Seq(Byte)
    BY DEF HeaderType
  <2> QED
    BY <2>1 DEF HeaderType
<1>3. req.headers \in Seq(HeaderType)
  BY DEF Request, HeaderType
<1>4. ASSUME NEW n \in Nat
      PROVE  /\ [req.headers EXCEPT ![n].name = Append(@, b)] \in Seq(HeaderType)
             /\ [req.headers EXCEPT ![n].value = Append(@, b)] \in Seq(HeaderType)
  <2> DEFINE h == req.headers[n]
             named == [h EXCEPT !.name = Append(@, b)]
             valued == [h EXCEPT !.value = Append(@, b)]
  <2>1. CASE n \in 1..Len(req.headers)
    <3>1. named \in HeaderType /\ valued \in HeaderType
      <4> HIDE DEF HeaderType
      <4>1. h \in HeaderType
        BY <1>3, <2>1
      <4> QED
        BY <1>2, <4>1
    <3> HIDE DEF named, valued, HeaderType
    <3>2. /\ [req.headers EXCEPT ![n] = named] \in Seq(HeaderType)
          /\ [req.headers EXCEPT ![n] = valued] \in Seq(HeaderType)
      BY <1>3, <2>1, <3>1, ExceptSeq
    <3> QED
      BY <3>2 DEF named, valued
  <2>2. CASE n \notin 1..Len(req.headers)
    <3> HIDE DEF named, valued, HeaderType
    <3>1. /\ [req.headers EXCEPT ![n] = named] = req.headers
          /\ [req.headers EXCEPT ![n] = valued] = req.headers
      BY <1>3, <2>2, ExceptOutside
    <3> QED
      BY <1>3, <3>1 DEF named, valued
  <2> QED
    BY <2>1, <2>2
<1>5. Len(req.headers) \in Nat
  BY <1>3
<1>6. /\ Append(req.method, b) \in Seq(Byte) /\ Append(req.uri, b) \in Seq(Byte)
      /\ Append(req.headers, Header(<<b>>, <<>>)) \in Seq(HeaderType)
  BY <1>1, <1>3 DEF Request
<1>7. Request = [method : Seq(Byte), uri : Seq(Byte), body : Seq(Byte),
                 headers : Seq(HeaderType)]
  BY DEF Request, HeaderType
<1> HIDE DEF HeaderType
<1>8. /\ f = "none" => PushByte(req, f, b) \in Request
      /\ f = "method" => PushByte(req, f, b) \in Request
      /\ f = "uri" => PushByte(req, f, b) \in Request
      /\ f = "header" => PushByte(req, f, b) \in Request
  BY <1>6, <1>7 DEF PushByte
<1>9. /\ f = "name" => PushByte(req, f, b) \in Request
      /\ f = "value" => PushByte(req, f, b) \in Request
  BY <1>4, <1>5, <1>7 DEF PushByte
<1> QED
  BY <1>8, <1>9 DEF Field

Accept(a, b) == IF a.parser.result # "indeterminate" THEN a
                ELSE [parser |-> Consume(a.parser, b), n |-> a.n + 1]
Progress == [parser : Parser, n : Nat]

(* The edges a parser may take on a byte, and where one leads.               *)
Ways(p, b) ==
  {e \in Edges : /\ e.from = p.state /\ b \in e.on
                 /\ e.from = "header_line_start" /\ e.to = "header_lws" => p.req.headers # <<>>}
Along(p, e, b) == [state |-> e.to,
                   result |-> IF e.to = "header_good" THEN "good" ELSE "indeterminate",
                   req |-> PushByte(p.req, e.push, b)]
Refused(p) == [p EXCEPT !.result = "bad",
                        !.state = IF @ = "expecting_newline_3" THEN "header_bad" ELSE @]

LEMMA ConsumeIs ==
  ASSUME NEW p \in Parser, NEW b \in Byte
  PROVE  /\ Ways(p, b) = {} => Consume(p, b) = Refused(p)
         /\ Ways(p, b) # {} => \E e \in Ways(p, b) : Consume(p, b) = Along(p, e, b)
<1> DEFINE edges == {e \in Table[p.state][b] :
                       e.from = "header_line_start" /\ e.to = "header_lws" => p.req.headers # <<>>}
<1>1. p.state \in State
  BY DEF Parser
<1>2. Table[p.state][b] = {e \in Edges : e.from = p.state /\ b \in e.on}
  BY <1>1 DEF Table
<1>3. edges = Ways(p, b)
  BY <1>2 DEF Ways
<1>4. Consume(p, b) = IF edges = {} THEN Refused(p)
                      ELSE Along(p, CHOOSE x \in edges : TRUE, b)
  BY DEF Consume, Refused, Along
<1> HIDE DEF edges
<1> QED
  BY <1>3, <1>4

LEMMA ConsumeType ==
  ASSUME NEW p \in Parser, NEW b \in Byte PROVE Consume(p, b) \in Parser
<1>1. Refused(p) \in Parser
  <2>1. "header_bad" \in State
    BY StateNames
  <2> QED
    BY <2>1 DEF Refused, Parser
<1>2. ASSUME NEW e \in Edges PROVE Along(p, e, b) \in Parser
  <2>1. p.req \in Request
    BY DEF Parser
  <2>2. PushByte(p.req, e.push, b) \in Request
    BY <2>1, EdgeTypes, PushByteType
  <2> QED
    BY <2>2, EdgeTypes DEF Along, Parser
<1>3. Ways(p, b) \subseteq Edges
  BY DEF Ways
<1> QED
  BY <1>1, <1>2, <1>3, ConsumeIs

LEMMA AcceptType ==
  ASSUME NEW a \in Progress, NEW b \in Byte PROVE Accept(a, b) \in Progress
<1>1. a.parser \in Parser /\ a.n \in Nat
  BY DEF Progress
<1>2. Consume(a.parser, b) \in Parser
  BY <1>1, ConsumeType
<1> QED
  BY <1>1, <1>2 DEF Accept, Progress

Accepting == [x \in Progress \X Byte |-> Accept(x[1], x[2])]

LEMMA ParseWalk ==
  ASSUME NEW p \in Parser, NEW s \in Seq(Byte)
  PROVE  /\ Folding(Progress, Byte, [parser |-> p, n |-> 0], Accepting)
         /\ \E h \in [0..Len(s) -> Progress] :
              Walk(h, [parser |-> p, n |-> 0], Accepting, s) /\ Parse(p, s) = h[Len(s)]
<1> DEFINE N == Len(s)
           base == [parser |-> p, n |-> 0]
           Eq(iter) == iter = [u \in SUBSET (DOMAIN s) |->
                                 IF u = {} THEN base ELSE Accept(iter[u \ {Max(u)}], s[Max(u)])]
           it == CHOOSE iter : Eq(iter)
<1>1. Parse(p, s) = it[DOMAIN s]
  BY DEF Parse, FoldLeft, MapThenFoldSet, Accept
<1>2. N \in Nat /\ DOMAIN s = 1..N /\ s \in [1..N -> Byte]
  BY LenProperties
<1>3. base \in Progress
  BY DEF Progress
<1>4. Accepting \in [Progress \X Byte -> Progress]
  BY AcceptType DEF Accepting
<1>0. \A u \in SUBSET (1..N) : u # {} => Max(u) \in 1..N /\ u \ {Max(u)} \in SUBSET (1..N)
  BY <1>2, MaxProps
<1>5. Eq(it)
  <2> HIDE DEF base, N
  <2>1. PICK f \in [SUBSET (1..N) -> Progress] : IsFold(f, base, Accepting, s, 1..N)
    BY <1>2, <1>3, <1>4, FoldExists
  <2>2. ASSUME NEW u \in SUBSET (1..N), u # {}
        PROVE  f[u] = Accept(f[u \ {Max(u)}], s[Max(u)])
    <3>1. f[u \ {Max(u)}] \in Progress /\ s[Max(u)] \in Byte
      BY <1>0, <1>2, <2>2
    <3> QED
      BY <2>1, <2>2, <3>1 DEF IsFold, Accepting
  <2>3. f[{}] = base
    BY <2>1 DEF IsFold
  <2>4. Eq(f)
    BY <1>2, <2>2, <2>3
  <2> HIDE DEF Eq
  <2> QED
    BY <2>4
<1> HIDE DEF it, base
<1>6. it[{}] = base
  BY <1>5
<1>7. ASSUME NEW u \in SUBSET (1..N), u # {}, it[u \ {Max(u)}] \in Progress
      PROVE  it[u] = Accepting[<<it[u \ {Max(u)}], s[Max(u)]>>]
  <2>1. it[u] = Accept(it[u \ {Max(u)}], s[Max(u)])
    BY <1>2, <1>5, <1>7
  <2>2. s[Max(u)] \in Byte
    BY <1>0, <1>2, <1>7
  <2> QED
    BY <1>7, <2>1, <2>2 DEF Accepting
<1>8. \E h \in [0..N -> Progress] : Walk(h, base, Accepting, s) /\ h[N] = it[1..N]
  <2>1. FoldsTo(it, Progress, base, Accepting, s)
    BY <1>6, <1>7 DEF FoldsTo
  <2>2. Folding(Progress, Byte, base, Accepting)
    BY <1>3, <1>4 DEF Folding
  <2> QED
    BY <2>1, <2>2, FoldWalk
<1> QED
  BY <1>1, <1>2, <1>3, <1>4, <1>8 DEF base, Folding

LEMMA ParseEmpty ==
  ASSUME NEW p \in Parser PROVE Parse(p, <<>>) = [parser |-> p, n |-> 0]
<1>1. <<>> \in Seq(Byte) /\ Len(<<>>) = 0
  BY EmptySeq
<1>2. PICK h \in [0..0 -> Progress] :
        Walk(h, [parser |-> p, n |-> 0], Accepting, <<>>) /\ Parse(p, <<>>) = h[0]
  BY <1>1, ParseWalk
<1> QED
  BY <1>2 DEF Walk

LEMMA ParseAppend ==
  ASSUME NEW p \in Parser, NEW s \in Seq(Byte), NEW b \in Byte
  PROVE  Parse(p, Append(s, b)) = Accept(Parse(p, s), b)
<1> SUFFICES ASSUME NEW t, t = Append(s, b) PROVE Parse(p, t) = Accept(Parse(p, s), b)
  OBVIOUS
<1> SUFFICES ASSUME NEW base, base = [parser |-> p, n |-> 0]
             PROVE  Parse(p, t) = Accept(Parse(p, s), b)
  OBVIOUS
<1>1. t \in Seq(Byte) /\ Len(s) \in Nat
  BY AppendProps
<1>2. PICK g \in [0..Len(s) -> Progress] : Walk(g, base, Accepting, s) /\ Parse(p, s) = g[Len(s)]
  BY ParseWalk
<1>3. PICK h \in [0..Len(t) -> Progress] : Walk(h, base, Accepting, t) /\ Parse(p, t) = h[Len(t)]
  BY <1>1, ParseWalk
<1>4. StepsTo(Accepting, g[Len(s)], b, h[Len(t)])
  <2>1. OneLonger(t, s, b)
    BY DEF OneLonger
  <2> QED
    BY <1>1, <1>2, <1>3, <2>1, WalkAppend
<1>5. g[Len(s)] \in Progress
  BY <1>1
<1> QED
  BY <1>2, <1>3, <1>4, <1>5 DEF Accepting, StepsTo

LEMMA ParseType ==
  ASSUME NEW p \in Parser, NEW s \in Seq(Byte)
  PROVE  Parse(p, s) \in [parser : Parser, n : 0..Len(s)]
<1> DEFINE T == {t \in Seq(Byte) : Parse(p, t) \in [parser : Parser, n : 0..Len(t)]}
<1>1. <<>> \in T
  BY ParseEmpty, EmptySeq
<1>2. ASSUME NEW t \in T, NEW b \in Byte PROVE Append(t, b) \in T
  <2> DEFINE a == Parse(p, t)
  <2>1. a \in [parser : Parser, n : 0..Len(t)] /\ Len(t) \in Nat
    OBVIOUS
  <2>2. a \in Progress
    BY <2>1 DEF Progress
  <2>3. Parse(p, Append(t, b)) = Accept(a, b)
    BY ParseAppend
  <2>4. Len(Append(t, b)) = Len(t) + 1 /\ Append(t, b) \in Seq(Byte)
    BY AppendProps
  <2>5. Consume(a.parser, b) \in Parser
    BY <2>1, ConsumeType
  <2> HIDE DEF a
  <2>6. Accept(a, b) \in [parser : Parser, n : 0..(Len(t) + 1)]
    BY <2>1, <2>5 DEF Accept
  <2> QED
    BY <2>3, <2>4, <2>6
<1>3. T = Seq(Byte)
  <2>1. T \in SUBSET Seq(Byte)
    OBVIOUS
  <2> HIDE DEF T
  <2> QED
    BY <1>1, <1>2, <2>1, InductionOnSeq
<1> QED
  BY <1>3

(* A read that ends in the middle goes on where it was.                      *)
LEMMA ConcatEmpty == ASSUME NEW X, NEW s \in Seq(X) PROVE s \o <<>> = s /\ <<>> \o s = s
OBVIOUS

LEMMA ConcatAppend ==
  ASSUME NEW X, NEW s \in Seq(X), NEW t \in Seq(X), NEW x \in X
  PROVE  s \o Append(t, x) = Append(s \o t, x)
<1>1. s \o t \in Seq(X) /\ Append(t, x) \in Seq(X)
  BY ConcatProperties, AppendProps
<1> DEFINE u == s \o Append(t, x)
           v == Append(s \o t, x)
<1>2. u \in Seq(X) /\ v \in Seq(X) /\ Len(u) = Len(s) + Len(t) + 1 /\ Len(v) = Len(u)
  BY <1>1, ConcatProperties, AppendProps
<1>3. \A i \in 1..Len(u) : u[i] = v[i]
  <2> TAKE i \in 1..Len(u)
  <2>1. CASE i \in 1..Len(s)
    BY <2>1, <1>1, <1>2, ConcatProperties, AppendProps
  <2>2. CASE i \in (Len(s) + 1)..(Len(s) + Len(t))
    BY <2>2, <1>1, <1>2, ConcatProperties, AppendProps
  <2>3. CASE i = Len(s) + Len(t) + 1
    BY <2>3, <1>1, <1>2, ConcatProperties, AppendProps
  <2> QED
    BY <1>2, <2>1, <2>2, <2>3
<1> HIDE DEF u, v
<1>4. u = v
  BY <1>2, <1>3, SeqEqual
<1> QED
  BY <1>4 DEF u, v

(* After a read of s from progress a, as if it had gone on from there.       *)
GoOn(a, t) == IF a.parser.result # "indeterminate" THEN a
              ELSE [parser |-> Parse(a.parser, t).parser, n |-> a.n + Parse(a.parser, t).n]

LEMMA ParseConcat ==
  ASSUME NEW p \in Parser, NEW s \in Seq(Byte), NEW t \in Seq(Byte)
  PROVE  Parse(p, s \o t) = GoOn(Parse(p, s), t)
<1> DEFINE a == Parse(p, s)
           T == {u \in Seq(Byte) : Parse(p, s \o u) = GoOn(a, u)}
<1>1. a \in [parser : Parser, n : 0..Len(s)] /\ Len(s) \in Nat
  BY ParseType
<1> HIDE DEF a
<1>2. <<>> \in T
  <2>1. s \o <<>> = s
    BY ConcatEmpty
  <2>2. Parse(a.parser, <<>>) = [parser |-> a.parser, n |-> 0]
    BY <1>1, ParseEmpty
  <2>3. GoOn(a, <<>>) = a
    BY <1>1, <2>2 DEF GoOn
  <2> QED
    BY <2>1, <2>3 DEF a
<1>3. ASSUME NEW u \in T, NEW b \in Byte PROVE Append(u, b) \in T
  <2> DEFINE c == Parse(a.parser, u)
  <2>1. s \o Append(u, b) = Append(s \o u, b) /\ s \o u \in Seq(Byte) /\ Append(u, b) \in Seq(Byte)
    BY ConcatAppend, ConcatProperties, AppendProps
  <2>2. Parse(p, s \o Append(u, b)) = Accept(GoOn(a, u), b)
    BY <2>1, ParseAppend
  <2>3. c \in [parser : Parser, n : 0..Len(u)] /\ Len(u) \in Nat
    BY <1>1, ParseType
  <2>4. Parse(a.parser, Append(u, b)) = Accept(c, b)
    BY <1>1, ParseAppend
  <2> HIDE DEF c
  <2>5. Accept(GoOn(a, u), b) = GoOn(a, Append(u, b))
    <3>1. CASE a.parser.result # "indeterminate"
      BY <3>1 DEF GoOn, Accept
    <3>2. CASE a.parser.result = "indeterminate"
      <4>1. GoOn(a, u) = [parser |-> c.parser, n |-> a.n + c.n]
        BY <3>2 DEF GoOn, c
      <4>2. GoOn(a, Append(u, b)) = [parser |-> Accept(c, b).parser, n |-> a.n + Accept(c, b).n]
        BY <2>4, <3>2 DEF GoOn
      <4> QED
        BY <1>1, <2>3, <4>1, <4>2 DEF Accept
    <3> QED
      BY <3>1, <3>2
  <2> QED
    BY <2>1, <2>2, <2>5
<1>4. T = Seq(Byte)
  <2>1. T \in SUBSET Seq(Byte)
    OBVIOUS
  <2> HIDE DEF T
  <2> QED
    BY <1>2, <1>3, <2>1, InductionOnSeq
<1> QED
  BY <1>4 DEF a

-----------------------------------------------------------------------------
(* Reads that run to their ends                                              *)

(* Reading s takes the parser from p to q, to the last byte.                 *)
Reads(p, s, q) == Parse(p, s) = [parser |-> q, n |-> Len(s)]

LEMMA ReadsNothing == ASSUME NEW p \in Parser PROVE Reads(p, <<>>, p)
BY ParseEmpty, EmptySeq DEF Reads

LEMMA ReadsThen ==
  ASSUME NEW p \in Parser, NEW q \in Parser, NEW r, NEW s \in Seq(Byte), NEW t \in Seq(Byte),
         Reads(p, s, q), q.result = "indeterminate", Reads(q, t, r)
  PROVE  Reads(p, s \o t, r)
<1>1. Len(s \o t) = Len(s) + Len(t)
  BY ConcatProperties
<1> QED
  BY <1>1, ParseConcat DEF Reads, GoOn

(* At most one edge fits a byte.                                             *)
LEMMA Deterministic ==
  \A e, f \in Edges, b \in Byte : e.from = f.from /\ b \in e.on /\ b \in f.on => e = f
<1>1. \A e, f \in RequestLineEdges, b \in Byte :
        e.from = f.from /\ b \in e.on /\ b \in f.on => e = f
  BY Bytes DEF RequestLineEdges, Edge, Digit
<1>2. \A e, f \in HeaderEdges, b \in Byte :
        e.from = f.from /\ b \in e.on /\ b \in f.on => e = f
  BY Bytes DEF HeaderEdges, Edge
<1>3. \A e \in RequestLineEdges, f \in HeaderEdges : e.from # f.from
  BY DEF RequestLineEdges, HeaderEdges, Edge
<1> QED
  BY <1>1, <1>2, <1>3 DEF Edges

LEMMA ReadsByte ==
  ASSUME NEW p \in Parser, p.result = "indeterminate", NEW b \in Byte, NEW e \in Ways(p, b)
  PROVE  Reads(p, <<b>>, Along(p, e, b)) /\ Along(p, e, b) \in Parser
<1>1. Consume(p, b) = Along(p, e, b)
  <2>1. \A f \in Ways(p, b) : f = e
    BY Deterministic DEF Ways
  <2> QED
    BY <2>1, ConsumeIs
<1>2. <<b>> = Append(<<>>, b) /\ Len(<<b>>) = 1 /\ <<>> \in Seq(Byte)
  OBVIOUS
<1>3. Parse(p, <<b>>) = Accept([parser |-> p, n |-> 0], b)
  BY <1>2, ParseAppend, ParseEmpty
<1>4. Along(p, e, b) \in Parser
  BY <1>1, ConsumeType
<1> QED
  BY <1>1, <1>2, <1>3, <1>4 DEF Accept, Reads

(* A parser in a state, and the request it has filled so far.                *)
Filled(m, u, hs) == [method |-> m, uri |-> u, headers |-> hs, body |-> <<>>]
At(st, m, u, hs) == [state |-> st, result |-> "indeterminate", req |-> Filled(m, u, hs)]
Good(m, u, hs) == [state |-> "header_good", result |-> "good", req |-> Filled(m, u, hs)]

LEMMA AtType ==
  ASSUME NEW m \in Seq(Byte), NEW u \in Seq(Byte), NEW hs \in Seq(HeaderType)
  PROVE  /\ Filled(m, u, hs) \in Request /\ Good(m, u, hs) \in Parser
         /\ \A st \in StateName : At(st, m, u, hs) \in Parser
<1>1. <<>> \in Seq(Byte) /\ "header_good" \in StateName
  BY DEF StateName
<1> QED
  BY <1>1, StateNames DEF Filled, Good, At, Request, Parser, HeaderType

LEMMA ReadsEdge ==
  ASSUME NEW m \in Seq(Byte), NEW u \in Seq(Byte), NEW hs \in Seq(HeaderType),
         NEW e \in Edges, NEW b \in e.on, e.from \in StateName, e.to # "header_good",
         e.to = "header_lws" => hs # <<>>
  PROVE  /\ b \in Byte
         /\ Reads(At(e.from, m, u, hs), <<b>>,
                  [state |-> e.to, result |-> "indeterminate",
                   req |-> PushByte(Filled(m, u, hs), e.push, b)])
<1> DEFINE p == At(e.from, m, u, hs)
<1>1. b \in Byte
  BY EdgeTypes
<1>2. p \in Parser /\ p.result = "indeterminate" /\ p.state = e.from
      /\ p.req = Filled(m, u, hs) /\ p.req.headers = hs
  BY AtType DEF At, Filled
<1>3. e \in Ways(p, b)
  BY <1>2 DEF Ways
<1> HIDE DEF p
<1>4. Reads(p, <<b>>, Along(p, e, b))
  BY <1>1, <1>2, <1>3, ReadsByte
<1> QED
  BY <1>1, <1>2, <1>4 DEF Along, p

LEMMA Pushed ==
  ASSUME NEW m \in Seq(Byte), NEW u \in Seq(Byte), NEW hs \in Seq(HeaderType), NEW b \in Byte
  PROVE  /\ PushByte(Filled(m, u, hs), "none", b) = Filled(m, u, hs)
         /\ PushByte(Filled(m, u, hs), "method", b) = Filled(Append(m, b), u, hs)
         /\ PushByte(Filled(m, u, hs), "uri", b) = Filled(m, Append(u, b), hs)
         /\ PushByte(Filled(m, u, hs), "header", b)
              = Filled(m, u, Append(hs, Header(<<b>>, <<>>)))
BY DEF PushByte, Filled

LEMMA LastReplaced ==
  ASSUME NEW X, NEW s \in Seq(X), NEW x \in X, NEW y \in X
  PROVE  [Append(s, x) EXCEPT ![Len(Append(s, x))] = y] = Append(s, y)
<1> DEFINE u == Append(s, x)
           v == [u EXCEPT ![Len(u)] = y]
           w == Append(s, y)
<1>1. /\ u \in Seq(X) /\ Len(u) = Len(s) + 1 /\ \A i \in 1..Len(s) : u[i] = s[i]
      /\ w \in Seq(X) /\ Len(w) = Len(s) + 1 /\ \A i \in 1..Len(s) : w[i] = s[i]
      /\ w[Len(s) + 1] = y /\ Len(s) \in Nat
  BY AppendProps
<1> HIDE DEF u, w
<1>2. Len(u) \in 1..Len(u)
  BY <1>1
<1>3. /\ v \in Seq(X) /\ Len(v) = Len(u)
      /\ \A j \in 1..Len(u) : v[j] = IF j = Len(u) THEN y ELSE u[j]
  BY <1>1, <1>2, ExceptSeq
<1> HIDE DEF v
<1>4. v = w
  BY <1>1, <1>3, SeqEqual
<1> QED
  BY <1>4 DEF u, v, w

LEMMA HeaderLonger ==
  ASSUME NEW x, NEW y, NEW b
  PROVE  /\ [Header(x, y) EXCEPT !.name = Append(@, b)] = Header(Append(x, b), y)
         /\ [Header(x, y) EXCEPT !.value = Append(@, b)] = Header(x, Append(y, b))
<1>1. ASSUME NEW z PROVE /\ [Header(x, y) EXCEPT !.name = z] = Header(z, y)
                         /\ [Header(x, y) EXCEPT !.value = z] = Header(x, z)
  BY DEF Header
<1>2. Header(x, y).name = x /\ Header(x, y).value = y
  BY DEF Header
<1> DEFINE xb == Append(x, b)
           yb == Append(y, b)
<1>3. /\ [Header(x, y) EXCEPT !.name = xb] = Header(xb, y)
      /\ [Header(x, y) EXCEPT !.value = yb] = Header(x, yb)
  <2> HIDE DEF xb, yb
  <2> QED
    BY <1>1
<1> QED
  BY <1>2, <1>3

LEMMA PushedOnHeader ==
  ASSUME NEW m \in Seq(Byte), NEW u \in Seq(Byte), NEW hs \in Seq(HeaderType), NEW b \in Byte,
         NEW x \in Seq(Byte), NEW y \in Seq(Byte)
  PROVE  /\ PushByte(Filled(m, u, Append(hs, Header(x, y))), "name", b)
              = Filled(m, u, Append(hs, Header(Append(x, b), y)))
         /\ PushByte(Filled(m, u, Append(hs, Header(x, y))), "value", b)
              = Filled(m, u, Append(hs, Header(x, Append(y, b))))
<1> DEFINE h == Header(x, y)
           hx == Header(Append(x, b), y)
           hy == Header(x, Append(y, b))
           s == Append(hs, h)
           n == Len(s)
<1>1. h \in HeaderType /\ hx \in HeaderType /\ hy \in HeaderType
  BY DEF Header, HeaderType
<1>2. s[n] = h
  BY <1>1, AppendProps
<1>3. [s EXCEPT ![n] = hx] = Append(hs, hx) /\ [s EXCEPT ![n] = hy] = Append(hs, hy)
  <2> HIDE DEF h, hx, hy, HeaderType
  <2> QED
    BY <1>1, LastReplaced
<1>4. [h EXCEPT !.name = Append(@, b)] = hx /\ [h EXCEPT !.value = Append(@, b)] = hy
  BY HeaderLonger
<1>5. /\ [s EXCEPT ![n].name = Append(@, b)] = Append(hs, hx)
      /\ [s EXCEPT ![n].value = Append(@, b)] = Append(hs, hy)
  <2> HIDE DEF h, hx, hy
  <2> QED
    BY <1>2, <1>3, <1>4
<1> HIDE DEF hx, hy
<1>6. PushByte(Filled(m, u, s), "name", b) = Filled(m, u, Append(hs, hx))
  BY <1>5 DEF PushByte, Filled
<1>7. PushByte(Filled(m, u, s), "value", b) = Filled(m, u, Append(hs, hy))
  BY <1>5 DEF PushByte, Filled
<1> QED
  BY <1>6, <1>7 DEF hx, hy

(* One byte along an edge.                                                   *)
LEMMA Move ==
  ASSUME NEW m \in Seq(Byte), NEW u \in Seq(Byte), NEW hs \in Seq(HeaderType),
         NEW from \in StateName, NEW on, NEW to, NEW push, NEW b \in on,
         Edge(from, on, to, push) \in Edges, to # "header_good",
         to = "header_lws" => hs # <<>>
  PROVE  Reads(At(from, m, u, hs), <<b>>,
               [state |-> to, result |-> "indeterminate",
                req |-> PushByte(Filled(m, u, hs), push, b)])
<1> DEFINE e == Edge(from, on, to, push)
<1>1. e.from = from /\ e.on = on /\ e.to = to /\ e.push = push
  BY DEF Edge
<1> HIDE DEF e
<1>2. e \in Edges
  BY DEF e
<1> QED
  BY <1>1, <1>2, ReadsEdge

(* A run of bytes that are all read alike.                                   *)
LEMMA ReadsRun ==
  ASSUME NEW S \in SUBSET Byte, NEW Q \in [Seq(S) -> Parser],
         \A t \in Seq(S) : Q[t].result = "indeterminate",
         \A t \in Seq(S), b \in S : Reads(Q[t], <<b>>, Q[Append(t, b)])
  PROVE  \A t \in Seq(S) : Reads(Q[<<>>], t, Q[t])
<1> DEFINE T == {t \in Seq(S) : Reads(Q[<<>>], t, Q[t])}
<1>1. <<>> \in Seq(S)
  OBVIOUS
<1>2. <<>> \in T
  BY <1>1, ReadsNothing
<1>3. ASSUME NEW t \in T, NEW b \in S PROVE Append(t, b) \in T
  <2>1. t \in Seq(Byte) /\ <<b>> \in Seq(Byte) /\ Append(t, b) \in Seq(S) /\ t \in Seq(S)
    BY SeqMonotonic, AppendProps
  <2>2. t \o <<b>> = Append(t, b)
    BY AppendIsConcat
  <2>3. Reads(Q[<<>>], t, Q[t]) /\ Reads(Q[t], <<b>>, Q[Append(t, b)])
    BY <2>1
  <2>4. Reads(Q[<<>>], t \o <<b>>, Q[Append(t, b)])
    BY <1>1, <2>1, <2>3, ReadsThen
  <2> QED
    BY <2>1, <2>2, <2>4
<1>4. T = Seq(S)
  <2>1. T \in SUBSET Seq(S)
    OBVIOUS
  <2> HIDE DEF T
  <2> QED
    BY <1>2, <1>3, <2>1, InductionOnSeq
<1> QED
  BY <1>4

LEMMA Moves ==
  ASSUME NEW m \in Seq(Byte), NEW u \in Seq(Byte), NEW hs \in Seq(HeaderType)
  PROVE  /\ \A b \in TokenByte :
              /\ Reads(At("method_start", m, u, hs), <<b>>, At("method", Append(m, b), u, hs))
              /\ Reads(At("method", m, u, hs), <<b>>, At("method", Append(m, b), u, hs))
         /\ Reads(At("method", m, u, hs), <<"SP">>, At("uri", m, u, hs))
         /\ \A b \in TextByte \ {"SP"} :
              Reads(At("uri", m, u, hs), <<b>>, At("uri", m, Append(u, b), hs))
         /\ Reads(At("uri", m, u, hs), <<"SP">>, At("http_version_h", m, u, hs))
<1>1. {"method_start", "method", "uri"} \subseteq StateName
  BY DEF StateName
<1>2. /\ Edge("method_start", TokenByte, "method", "method") \in Edges
      /\ Edge("method", TokenByte, "method", "method") \in Edges
      /\ Edge("method", {"SP"}, "uri", "none") \in Edges
      /\ Edge("uri", TextByte \ {"SP"}, "uri", "uri") \in Edges
      /\ Edge("uri", {"SP"}, "http_version_h", "none") \in Edges
  BY DEF Edges, RequestLineEdges
<1>3. /\ TokenByte \subseteq Byte /\ TextByte \subseteq Byte /\ "SP" \in Byte
  BY Bytes
<1>4. ASSUME NEW b \in TokenByte
      PROVE  /\ Reads(At("method_start", m, u, hs), <<b>>, At("method", Append(m, b), u, hs))
             /\ Reads(At("method", m, u, hs), <<b>>, At("method", Append(m, b), u, hs))
  <2>1. /\ Reads(At("method_start", m, u, hs), <<b>>,
                 [state |-> "method", result |-> "indeterminate",
                  req |-> PushByte(Filled(m, u, hs), "method", b)])
        /\ Reads(At("method", m, u, hs), <<b>>,
                 [state |-> "method", result |-> "indeterminate",
                  req |-> PushByte(Filled(m, u, hs), "method", b)])
    BY <1>1, <1>2, Move
  <2> QED
    BY <1>3, <2>1, Pushed DEF At
<1>5. Reads(At("method", m, u, hs), <<"SP">>, At("uri", m, u, hs))
  <2>1. Reads(At("method", m, u, hs), <<"SP">>,
              [state |-> "uri", result |-> "indeterminate",
               req |-> PushByte(Filled(m, u, hs), "none", "SP")])
    BY <1>1, <1>2, Move
  <2> QED
    BY <1>3, <2>1, Pushed DEF At
<1>6. ASSUME NEW b \in TextByte \ {"SP"}
      PROVE  Reads(At("uri", m, u, hs), <<b>>, At("uri", m, Append(u, b), hs))
  <2>1. Reads(At("uri", m, u, hs), <<b>>,
              [state |-> "uri", result |-> "indeterminate",
               req |-> PushByte(Filled(m, u, hs), "uri", b)])
    BY <1>1, <1>2, Move
  <2> QED
    BY <1>3, <2>1, Pushed DEF At
<1>7. Reads(At("uri", m, u, hs), <<"SP">>, At("http_version_h", m, u, hs))
  <2>1. Reads(At("uri", m, u, hs), <<"SP">>,
              [state |-> "http_version_h", result |-> "indeterminate",
               req |-> PushByte(Filled(m, u, hs), "none", "SP")])
    BY <1>1, <1>2, Move
  <2> QED
    BY <1>3, <2>1, Pushed DEF At
<1> QED
  BY <1>4, <1>5, <1>6, <1>7

(* A byte that is not kept.                                                  *)
LEMMA Skip ==
  ASSUME NEW m \in Seq(Byte), NEW u \in Seq(Byte), NEW hs \in Seq(HeaderType),
         NEW from \in StateName, NEW on, NEW to, NEW b \in on,
         Edge(from, on, to, "none") \in Edges, to # "header_good",
         to = "header_lws" => hs # <<>>
  PROVE  Reads(At(from, m, u, hs), <<b>>, At(to, m, u, hs))
<1>1. Reads(At(from, m, u, hs), <<b>>,
            [state |-> to, result |-> "indeterminate",
             req |-> PushByte(Filled(m, u, hs), "none", b)])
  BY Move
<1>2. PushByte(Filled(m, u, hs), "none", b) = Filled(m, u, hs)
  BY DEF PushByte
<1> QED
  BY <1>1, <1>2 DEF At

LEMMA VersionMoves ==
  ASSUME NEW m \in Seq(Byte), NEW u \in Seq(Byte), NEW hs \in Seq(HeaderType)
  PROVE  /\ Reads(At("http_version_h", m, u, hs), <<"H">>, At("http_version_t_1", m, u, hs))
         /\ Reads(At("http_version_t_1", m, u, hs), <<"T">>, At("http_version_t_2", m, u, hs))
         /\ Reads(At("http_version_t_2", m, u, hs), <<"T">>, At("http_version_p", m, u, hs))
         /\ Reads(At("http_version_p", m, u, hs), <<"P">>, At("http_version_slash", m, u, hs))
         /\ Reads(At("http_version_slash", m, u, hs), <<"/">>,
                  At("http_version_major_start", m, u, hs))
         /\ \A b \in Digit :
              /\ Reads(At("http_version_major_start", m, u, hs), <<b>>,
                       At("http_version_major", m, u, hs))
              /\ Reads(At("http_version_major", m, u, hs), <<b>>,
                       At("http_version_major", m, u, hs))
              /\ Reads(At("http_version_minor_start", m, u, hs), <<b>>,
                       At("http_version_minor", m, u, hs))
              /\ Reads(At("http_version_minor", m, u, hs), <<b>>,
                       At("http_version_minor", m, u, hs))
         /\ Reads(At("http_version_major", m, u, hs), <<".">>,
                  At("http_version_minor_start", m, u, hs))
         /\ Reads(At("http_version_minor", m, u, hs), <<"CR">>,
                  At("expecting_newline_1", m, u, hs))
         /\ Reads(At("expecting_newline_1", m, u, hs), <<"LF">>,
                  At("header_line_start", m, u, hs))
<1>1. {"http_version_h", "http_version_t_1", "http_version_t_2", "http_version_p",
       "http_version_slash", "http_version_major_start", "http_version_major",
       "http_version_minor_start", "http_version_minor", "expecting_newline_1"}
        \subseteq StateName
  BY DEF StateName
<1>2. /\ Edge("http_version_h", {"H"}, "http_version_t_1", "none") \in Edges
      /\ Edge("http_version_t_1", {"T"}, "http_version_t_2", "none") \in Edges
      /\ Edge("http_version_t_2", {"T"}, "http_version_p", "none") \in Edges
      /\ Edge("http_version_p", {"P"}, "http_version_slash", "none") \in Edges
      /\ Edge("http_version_slash", {"/"}, "http_version_major_start", "none") \in Edges
      /\ Edge("http_version_major_start", Digit, "http_version_major", "none") \in Edges
      /\ Edge("http_version_major", {"."}, "http_version_minor_start", "none") \in Edges
      /\ Edge("http_version_major", Digit, "http_version_major", "none") \in Edges
      /\ Edge("http_version_minor_start", Digit, "http_version_minor", "none") \in Edges
      /\ Edge("http_version_minor", {"CR"}, "expecting_newline_1", "none") \in Edges
      /\ Edge("http_version_minor", Digit, "http_version_minor", "none") \in Edges
      /\ Edge("expecting_newline_1", {"LF"}, "header_line_start", "none") \in Edges
  BY DEF Edges, RequestLineEdges
<1>3. /\ Reads(At("http_version_h", m, u, hs), <<"H">>, At("http_version_t_1", m, u, hs))
      /\ Reads(At("http_version_t_1", m, u, hs), <<"T">>, At("http_version_t_2", m, u, hs))
      /\ Reads(At("http_version_t_2", m, u, hs), <<"T">>, At("http_version_p", m, u, hs))
      /\ Reads(At("http_version_p", m, u, hs), <<"P">>, At("http_version_slash", m, u, hs))
      /\ Reads(At("http_version_slash", m, u, hs), <<"/">>,
               At("http_version_major_start", m, u, hs))
  BY <1>1, <1>2, Skip
<1>4. ASSUME NEW b \in Digit
      PROVE  /\ Reads(At("http_version_major_start", m, u, hs), <<b>>,
                      At("http_version_major", m, u, hs))
             /\ Reads(At("http_version_major", m, u, hs), <<b>>,
                      At("http_version_major", m, u, hs))
             /\ Reads(At("http_version_minor_start", m, u, hs), <<b>>,
                      At("http_version_minor", m, u, hs))
             /\ Reads(At("http_version_minor", m, u, hs), <<b>>,
                      At("http_version_minor", m, u, hs))
  BY <1>1, <1>2, Skip
<1>5. /\ Reads(At("http_version_major", m, u, hs), <<".">>,
               At("http_version_minor_start", m, u, hs))
      /\ Reads(At("http_version_minor", m, u, hs), <<"CR">>,
               At("expecting_newline_1", m, u, hs))
      /\ Reads(At("expecting_newline_1", m, u, hs), <<"LF">>,
               At("header_line_start", m, u, hs))
  BY <1>1, <1>2, Skip
<1> QED
  BY <1>3, <1>4, <1>5

LEMMA HeaderMoves ==
  ASSUME NEW m \in Seq(Byte), NEW u \in Seq(Byte), NEW hs \in Seq(HeaderType),
         NEW x \in Seq(Byte), NEW y \in Seq(Byte)
  PROVE  /\ \A b \in TokenByte :
              /\ Reads(At("header_line_start", m, u, hs), <<b>>,
                       At("header_name", m, u, Append(hs, Header(<<b>>, <<>>))))
              /\ Reads(At("header_name", m, u, Append(hs, Header(x, y))), <<b>>,
                       At("header_name", m, u, Append(hs, Header(Append(x, b), y))))
         /\ \A b \in TextByte :
              Reads(At("header_value", m, u, Append(hs, Header(x, y))), <<b>>,
                    At("header_value", m, u, Append(hs, Header(x, Append(y, b)))))
         /\ \A b \in TextByte \ {"SP"} :
              Reads(At("header_lws", m, u, Append(hs, Header(x, y))), <<b>>,
                    At("header_value", m, u, Append(hs, Header(x, Append(y, b)))))
<1>1. {"header_line_start", "header_name", "header_lws", "header_value"} \subseteq StateName
  BY DEF StateName
<1>2. /\ Edge("header_line_start", TokenByte, "header_name", "header") \in Edges
      /\ Edge("header_name", TokenByte, "header_name", "name") \in Edges
      /\ Edge("header_lws", TextByte \ {"SP"}, "header_value", "value") \in Edges
      /\ Edge("header_value", TextByte, "header_value", "value") \in Edges
  BY DEF Edges, HeaderEdges
<1>3. /\ TokenByte \subseteq Byte /\ TextByte \subseteq Byte
  BY Bytes
<1> DEFINE hx == Append(hs, Header(x, y))
<1>0. hx \in Seq(HeaderType)
  <2>1. Header(x, y) \in HeaderType
    BY DEF Header, HeaderType
  <2> HIDE DEF HeaderType
  <2> QED
    BY <2>1, AppendProps
<1>4. ASSUME NEW b \in TokenByte
      PROVE  /\ Reads(At("header_line_start", m, u, hs), <<b>>,
                      At("header_name", m, u, Append(hs, Header(<<b>>, <<>>))))
             /\ Reads(At("header_name", m, u, hx), <<b>>,
                      At("header_name", m, u, Append(hs, Header(Append(x, b), y))))
  <2>1. /\ Reads(At("header_line_start", m, u, hs), <<b>>,
                 [state |-> "header_name", result |-> "indeterminate",
                  req |-> PushByte(Filled(m, u, hs), "header", b)])
    BY <1>1, <1>2, Move
  <2>2. Reads(At("header_name", m, u, hx), <<b>>,
                 [state |-> "header_name", result |-> "indeterminate",
                  req |-> PushByte(Filled(m, u, hx), "name", b)])
    <3> HIDE DEF hx
    <3> QED
      BY <1>0, <1>1, <1>2, Move
  <2>3. /\ PushByte(Filled(m, u, hs), "header", b)
             = Filled(m, u, Append(hs, Header(<<b>>, <<>>)))
        /\ PushByte(Filled(m, u, hx), "name", b)
             = Filled(m, u, Append(hs, Header(Append(x, b), y)))
    BY <1>3, Pushed, PushedOnHeader
  <2> HIDE DEF hx
  <2> QED
    BY <2>1, <2>2, <2>3 DEF At
<1>5. ASSUME NEW b \in TextByte
      PROVE  /\ Reads(At("header_value", m, u, hx), <<b>>,
                      At("header_value", m, u, Append(hs, Header(x, Append(y, b)))))
             /\ b # "SP" =>
                  Reads(At("header_lws", m, u, hx), <<b>>,
                        At("header_value", m, u, Append(hs, Header(x, Append(y, b)))))
  <2>1. /\ Reads(At("header_value", m, u, hx), <<b>>,
                 [state |-> "header_value", result |-> "indeterminate",
                  req |-> PushByte(Filled(m, u, hx), "value", b)])
        /\ b # "SP" =>
             Reads(At("header_lws", m, u, hx), <<b>>,
                   [state |-> "header_value", result |-> "indeterminate",
                    req |-> PushByte(Filled(m, u, hx), "value", b)])
    <3> HIDE DEF hx
    <3> QED
      BY <1>0, <1>1, <1>2, Move
  <2>2. PushByte(Filled(m, u, hx), "value", b)
          = Filled(m, u, Append(hs, Header(x, Append(y, b))))
    BY <1>3, PushedOnHeader
  <2> HIDE DEF hx
  <2> QED
    BY <2>1, <2>2 DEF At
<1> QED
  BY <1>4, <1>5

LEMMA LineMoves ==
  ASSUME NEW m \in Seq(Byte), NEW u \in Seq(Byte), NEW hs \in Seq(HeaderType)
  PROVE  /\ Reads(At("header_line_start", m, u, hs), <<"CR">>,
                  At("expecting_newline_3", m, u, hs))
         /\ \A b \in {"SP", "HT"} :
              /\ hs # <<>> =>
                   /\ Reads(At("header_line_start", m, u, hs), <<b>>, At("header_lws", m, u, hs))
                   /\ Reads(At("header_lws", m, u, hs), <<b>>, At("header_lws", m, u, hs))
         /\ Reads(At("header_lws", m, u, hs), <<"CR">>, At("expecting_newline_2", m, u, hs))
         /\ Reads(At("header_name", m, u, hs), <<":">>,
                  At("space_before_header_value", m, u, hs))
         /\ Reads(At("space_before_header_value", m, u, hs), <<"SP">>,
                  At("header_value", m, u, hs))
         /\ Reads(At("header_value", m, u, hs), <<"CR">>, At("expecting_newline_2", m, u, hs))
         /\ Reads(At("expecting_newline_2", m, u, hs), <<"LF">>,
                  At("header_line_start", m, u, hs))
<1>1. {"header_line_start", "header_lws", "header_name", "space_before_header_value",
       "header_value", "expecting_newline_2", "expecting_newline_3"} \subseteq StateName
  BY DEF StateName
<1>2. /\ Edge("header_line_start", {"CR"}, "expecting_newline_3", "none") \in Edges
      /\ Edge("header_line_start", {"SP", "HT"}, "header_lws", "none") \in Edges
      /\ Edge("header_lws", {"CR"}, "expecting_newline_2", "none") \in Edges
      /\ Edge("header_lws", {"SP", "HT"}, "header_lws", "none") \in Edges
      /\ Edge("header_name", {":"}, "space_before_header_value", "none") \in Edges
      /\ Edge("space_before_header_value", {"SP"}, "header_value", "none") \in Edges
      /\ Edge("header_value", {"CR"}, "expecting_newline_2", "none") \in Edges
      /\ Edge("expecting_newline_2", {"LF"}, "header_line_start", "none") \in Edges
  BY DEF Edges, HeaderEdges
<1>3. Reads(At("header_line_start", m, u, hs), <<"CR">>, At("expecting_newline_3", m, u, hs))
  BY <1>1, <1>2, Skip
<1>4. ASSUME NEW b \in {"SP", "HT"}, hs # <<>>
      PROVE  /\ Reads(At("header_line_start", m, u, hs), <<b>>, At("header_lws", m, u, hs))
             /\ Reads(At("header_lws", m, u, hs), <<b>>, At("header_lws", m, u, hs))
  BY <1>1, <1>2, <1>4, Skip
<1>5. /\ Reads(At("header_lws", m, u, hs), <<"CR">>, At("expecting_newline_2", m, u, hs))
      /\ Reads(At("header_name", m, u, hs), <<":">>,
               At("space_before_header_value", m, u, hs))
      /\ Reads(At("space_before_header_value", m, u, hs), <<"SP">>,
               At("header_value", m, u, hs))
  BY <1>1, <1>2, Skip
<1>6. /\ Reads(At("header_value", m, u, hs), <<"CR">>, At("expecting_newline_2", m, u, hs))
      /\ Reads(At("expecting_newline_2", m, u, hs), <<"LF">>,
               At("header_line_start", m, u, hs))
  BY <1>1, <1>2, Skip
<1> QED
  BY <1>3, <1>4, <1>5, <1>6

(* The newline of the empty line is the last byte of a head.                 *)
LEMMA LastMove ==
  ASSUME NEW m \in Seq(Byte), NEW u \in Seq(Byte), NEW hs \in Seq(HeaderType)
  PROVE  Reads(At("expecting_newline_3", m, u, hs), <<"LF">>, Good(m, u, hs))
<1> DEFINE p == At("expecting_newline_3", m, u, hs)
           e == Edge("expecting_newline_3", {"LF"}, "header_good", "none")
<1>1. e \in Edges
  BY DEF Edges, HeaderEdges
<1>2. /\ e.from = "expecting_newline_3" /\ e.on = {"LF"} /\ e.to = "header_good"
      /\ e.push = "none"
  BY DEF Edge
<1>3. p \in Parser
  BY AtType DEF StateName
<1>4. p.result = "indeterminate" /\ p.state = "expecting_newline_3" /\ p.req = Filled(m, u, hs)
  BY DEF At
<1>5. "LF" \in Byte
  BY Bytes
<1> HIDE DEF p, e
<1>6. e \in Ways(p, "LF")
  BY <1>1, <1>2, <1>4 DEF Ways
<1>7. Along(p, e, "LF") = Good(m, u, hs)
  BY <1>2, <1>4 DEF Along, Good, PushByte
<1> QED
  BY <1>3, <1>4, <1>5, <1>6, <1>7, ReadsByte DEF p

(* Runs of bytes of one kind                                                 *)
LEMMA ReadsMethod ==
  ASSUME NEW m \in Seq(Byte), NEW u \in Seq(Byte), NEW hs \in Seq(HeaderType),
         NEW t \in Seq(TokenByte)
  PROVE  Reads(At("method", m, u, hs), t, At("method", m \o t, u, hs))
<1> DEFINE Q == [v \in Seq(TokenByte) |-> At("method", m \o v, u, hs)]
<1>1. TokenByte \subseteq Byte /\ "method" \in StateName
  BY Bytes DEF StateName
<1>2. ASSUME NEW v \in Seq(TokenByte)
      PROVE  /\ v \in Seq(Byte) /\ m \o v \in Seq(Byte)
             /\ At("method", m \o v, u, hs) \in Parser
  <2>1. v \in Seq(Byte)
    BY <1>1, SeqMonotonic
  <2>2. m \o v \in Seq(Byte)
    BY <2>1, ConcatProperties
  <2> QED
    BY <1>1, <2>1, <2>2, AtType
<1>3. Q \in [Seq(TokenByte) -> Parser] /\ \A v \in Seq(TokenByte) : Q[v].result = "indeterminate"
  BY <1>2 DEF At
<1>4. ASSUME NEW v \in Seq(TokenByte), NEW b \in TokenByte
      PROVE  Reads(Q[v], <<b>>, Q[Append(v, b)])
  <2>1. Reads(At("method", m \o v, u, hs), <<b>>, At("method", Append(m \o v, b), u, hs))
    BY <1>2, Moves
  <2>2. m \o Append(v, b) = Append(m \o v, b) /\ Append(v, b) \in Seq(TokenByte)
    BY <1>1, <1>2, ConcatAppend, AppendProps
  <2> QED
    BY <2>1, <2>2
<1>5. Q[<<>>] = At("method", m, u, hs) /\ Q[t] = At("method", m \o t, u, hs)
  <2>1. <<>> \in Seq(TokenByte) /\ m \o <<>> = m
    BY ConcatEmpty, EmptySeq
  <2> QED
    BY <2>1
<1> HIDE DEF Q
<1> QED
  BY <1>1, <1>3, <1>4, <1>5, ReadsRun

LEMMA ReadsUri ==
  ASSUME NEW m \in Seq(Byte), NEW u \in Seq(Byte), NEW hs \in Seq(HeaderType),
         NEW t \in Seq(TextByte \ {"SP"})
  PROVE  Reads(At("uri", m, u, hs), t, At("uri", m, u \o t, hs))
<1> DEFINE S == TextByte \ {"SP"}
           Q == [v \in Seq(S) |-> At("uri", m, u \o v, hs)]
<1>1. S \subseteq Byte /\ "uri" \in StateName
  BY Bytes DEF StateName
<1>0. \A b \in S : b \in TextByte \ {"SP"}
  OBVIOUS
<1> HIDE DEF S
<1>2. ASSUME NEW v \in Seq(S)
      PROVE  /\ v \in Seq(Byte) /\ u \o v \in Seq(Byte)
             /\ At("uri", m, u \o v, hs) \in Parser
  <2>1. v \in Seq(Byte)
    BY <1>1, SeqMonotonic
  <2>2. u \o v \in Seq(Byte)
    BY <2>1, ConcatProperties
  <2> QED
    BY <1>1, <2>1, <2>2, AtType
<1>3. Q \in [Seq(S) -> Parser] /\ \A v \in Seq(S) : Q[v].result = "indeterminate"
  BY <1>2 DEF At
<1>4. ASSUME NEW v \in Seq(S), NEW b \in S
      PROVE  Reads(Q[v], <<b>>, Q[Append(v, b)])
  <2>1. Reads(At("uri", m, u \o v, hs), <<b>>, At("uri", m, Append(u \o v, b), hs))
    BY <1>0, <1>2, Moves
  <2>2. u \o Append(v, b) = Append(u \o v, b) /\ Append(v, b) \in Seq(S)
    BY <1>1, <1>2, ConcatAppend, AppendProps
  <2> QED
    BY <2>1, <2>2
<1>5. Q[<<>>] = At("uri", m, u, hs) /\ Q[t] = At("uri", m, u \o t, hs)
  <2>1. <<>> \in Seq(S) /\ u \o <<>> = u /\ t \in Seq(S)
    BY ConcatEmpty, EmptySeq DEF S
  <2> QED
    BY <2>1
<1> HIDE DEF Q
<1> QED
  BY <1>1, <1>3, <1>4, <1>5, ReadsRun DEF S

(* Bytes that leave the parser where it is.                                  *)
LEMMA ReadsIdle ==
  ASSUME NEW S \in SUBSET Byte, NEW p \in Parser, p.result = "indeterminate",
         \A b \in S : Reads(p, <<b>>, p), NEW t \in Seq(S)
  PROVE  Reads(p, t, p)
<1> DEFINE Q == [v \in Seq(S) |-> p]
<1>1. \A v \in Seq(S), b \in S : Append(v, b) \in Seq(S)
  BY AppendProps
<1>2. <<>> \in Seq(S)
  OBVIOUS
<1>3. Q \in [Seq(S) -> Parser] /\ \A v \in Seq(S) : Q[v] = p
  OBVIOUS
<1>4. \A v \in Seq(S), b \in S : Reads(Q[v], <<b>>, Q[Append(v, b)])
  BY <1>1
<1> HIDE DEF Q
<1> QED
  BY <1>2, <1>3, <1>4, ReadsRun

LEMMA ReadsName ==
  ASSUME NEW m \in Seq(Byte), NEW u \in Seq(Byte), NEW hs \in Seq(HeaderType),
         NEW x \in Seq(Byte), NEW t \in Seq(TokenByte)
  PROVE  Reads(At("header_name", m, u, Append(hs, Header(x, <<>>))), t,
               At("header_name", m, u, Append(hs, Header(x \o t, <<>>))))
<1> DEFINE R(v) == At("header_name", m, u, Append(hs, Header(x \o v, <<>>)))
           Q == [v \in Seq(TokenByte) |-> R(v)]
<1>1. TokenByte \subseteq Byte /\ "header_name" \in StateName /\ <<>> \in Seq(Byte)
  BY Bytes DEF StateName
<1>2. ASSUME NEW v \in Seq(TokenByte)
      PROVE  v \in Seq(Byte) /\ x \o v \in Seq(Byte) /\ R(v) \in Parser
  <2>1. v \in Seq(Byte)
    BY <1>1, SeqMonotonic
  <2>2. x \o v \in Seq(Byte)
    BY <2>1, ConcatProperties
  <2>3. Header(x \o v, <<>>) \in HeaderType
    BY <1>1, <2>2 DEF Header, HeaderType
  <2>4. Append(hs, Header(x \o v, <<>>)) \in Seq(HeaderType)
    <3> HIDE DEF HeaderType
    <3> QED
      BY <2>3, AppendProps
  <2> QED
    BY <1>1, <2>1, <2>2, <2>4, AtType
<1>3. Q \in [Seq(TokenByte) -> Parser] /\ \A v \in Seq(TokenByte) : Q[v].result = "indeterminate"
  BY <1>2 DEF At
<1>4. ASSUME NEW v \in Seq(TokenByte), NEW b \in TokenByte
      PROVE  Reads(Q[v], <<b>>, Q[Append(v, b)])
  <2>1. Reads(R(v), <<b>>,
              At("header_name", m, u, Append(hs, Header(Append(x \o v, b), <<>>))))
    BY <1>1, <1>2, HeaderMoves
  <2>2. x \o Append(v, b) = Append(x \o v, b) /\ Append(v, b) \in Seq(TokenByte)
    BY <1>1, <1>2, ConcatAppend, AppendProps
  <2> QED
    BY <2>1, <2>2
<1>5. Q[<<>>] = At("header_name", m, u, Append(hs, Header(x, <<>>))) /\ Q[t] = R(t)
  <2>1. <<>> \in Seq(TokenByte) /\ x \o <<>> = x
    BY ConcatEmpty, EmptySeq
  <2> QED
    BY <2>1
<1> HIDE DEF Q
<1> QED
  BY <1>1, <1>3, <1>4, <1>5, ReadsRun

LEMMA ReadsValue ==
  ASSUME NEW m \in Seq(Byte), NEW u \in Seq(Byte), NEW hs \in Seq(HeaderType),
         NEW x \in Seq(Byte), NEW y \in Seq(Byte), NEW t \in Seq(TextByte)
  PROVE  Reads(At("header_value", m, u, Append(hs, Header(x, y))), t,
               At("header_value", m, u, Append(hs, Header(x, y \o t))))
<1> DEFINE R(v) == At("header_value", m, u, Append(hs, Header(x, y \o v)))
           Q == [v \in Seq(TextByte) |-> R(v)]
<1>1. TextByte \subseteq Byte /\ "header_value" \in StateName
  BY Bytes DEF StateName
<1>2. ASSUME NEW v \in Seq(TextByte)
      PROVE  v \in Seq(Byte) /\ y \o v \in Seq(Byte) /\ R(v) \in Parser
  <2>1. v \in Seq(Byte)
    BY <1>1, SeqMonotonic
  <2>2. y \o v \in Seq(Byte)
    BY <2>1, ConcatProperties
  <2>3. Header(x, y \o v) \in HeaderType
    BY <2>2 DEF Header, HeaderType
  <2>4. Append(hs, Header(x, y \o v)) \in Seq(HeaderType)
    <3> HIDE DEF HeaderType
    <3> QED
      BY <2>3, AppendProps
  <2> QED
    BY <1>1, <2>1, <2>2, <2>4, AtType
<1>3. Q \in [Seq(TextByte) -> Parser] /\ \A v \in Seq(TextByte) : Q[v].result = "indeterminate"
  BY <1>2 DEF At
<1>4. ASSUME NEW v \in Seq(TextByte), NEW b \in TextByte
      PROVE  Reads(Q[v], <<b>>, Q[Append(v, b)])
  <2>1. Reads(R(v), <<b>>,
              At("header_value", m, u, Append(hs, Header(x, Append(y \o v, b)))))
    BY <1>2, HeaderMoves
  <2>2. y \o Append(v, b) = Append(y \o v, b) /\ Append(v, b) \in Seq(TextByte)
    BY <1>1, <1>2, ConcatAppend, AppendProps
  <2> QED
    BY <2>1, <2>2
<1>5. Q[<<>>] = At("header_value", m, u, Append(hs, Header(x, y))) /\ Q[t] = R(t)
  <2>1. <<>> \in Seq(TextByte) /\ y \o <<>> = y
    BY ConcatEmpty, EmptySeq
  <2> QED
    BY <2>1
<1> HIDE DEF Q
<1> QED
  BY <1>1, <1>3, <1>4, <1>5, ReadsRun

-----------------------------------------------------------------------------
(* Lines                                                                     *)

LEMMA SplitFirst ==
  ASSUME NEW X, NEW s \in Seq(X), s # <<>>
  PROVE  s[1] \in X /\ \E t \in Seq(X) : s = <<s[1]>> \o t /\ Len(t) = Len(s) - 1
<1> DEFINE t == [i \in 1..(Len(s) - 1) |-> s[i + 1]]
           h == <<s[1]>>
<1>1. Len(s) \in Nat \ {0} /\ \A i \in 1..Len(s) : s[i] \in X
  OBVIOUS
<1>2. h \in Seq(X) /\ Len(h) = 1 /\ h[1] = s[1]
  BY <1>1
<1>3. t \in Seq(X) /\ Len(t) = Len(s) - 1 /\ \A i \in 1..(Len(s) - 1) : t[i] = s[i + 1]
  BY <1>1
<1> HIDE DEF t, h
<1>4. /\ h \o t \in Seq(X) /\ Len(h \o t) = Len(s)
      /\ \A i \in 1..Len(s) : (h \o t)[i] = s[i]
  <2>1. /\ h \o t \in Seq(X) /\ Len(h \o t) = Len(h) + Len(t)
        /\ \A i \in 1..(Len(h) + Len(t)) :
             (h \o t)[i] = IF i <= Len(h) THEN h[i] ELSE t[i - Len(h)]
    <3>1. h \in Seq(X) /\ t \in Seq(X)
      BY <1>2, <1>3
    <3> QED
      BY <3>1, ConcatProperties
  <2>2. \A i \in 1..Len(s) : i = 1 \/ (i - 1 \in 1..(Len(s) - 1) /\ (i - 1) + 1 = i /\ ~(i <= 1))
    BY <1>1
  <2> QED
    BY <1>1, <1>2, <1>3, <2>1, <2>2
<1>5. s = h \o t
  BY <1>4, SeqEqual
<1> QED
  BY <1>1, <1>3, <1>5 DEF h

LEMMA OneMore ==
  ASSUME NEW X, NEW s \in Seq(X), NEW x \in X, NEW u \in Seq(X), Len(u) = Len(s) + 1,
         \A i \in 1..Len(s) : u[i] = s[i], u[Len(s) + 1] = x
  PROVE  s \o <<x>> = u
<1> DEFINE v == Append(s, x)
<1>1. /\ v \in Seq(X) /\ Len(v) = Len(s) + 1 /\ \A i \in 1..Len(s) : v[i] = s[i]
      /\ v[Len(s) + 1] = x /\ Len(s) \in Nat
  BY AppendProps
<1>2. s \o <<x>> = v
  BY AppendIsConcat
<1> HIDE DEF v
<1>3. u = v
  BY <1>1, SeqEqual
<1> QED
  BY <1>2, <1>3

LEMMA Pair ==
  ASSUME NEW X, NEW a \in X, NEW b \in X PROVE <<a>> \o <<b>> = <<a, b>>
<1> DEFINE s == <<a>>
           u == <<a, b>>
<1>1. /\ s \in Seq(X) /\ u \in Seq(X) /\ Len(s) = 1 /\ Len(u) = 2
      /\ s[1] = a /\ u[1] = a /\ u[2] = b
  OBVIOUS
<1> HIDE DEF s, u
<1>2. Len(u) = Len(s) + 1 /\ u[Len(s) + 1] = b /\ \A i \in 1..Len(s) : u[i] = s[i]
  <2>1. \A i \in 1..1 : i = 1
    OBVIOUS
  <2> QED
    BY <1>1, <2>1
<1>3. s \o <<b>> = u
  BY <1>1, <1>2, OneMore
<1> QED
  BY <1>3 DEF s, u

LEMMA HttpSlash ==
  ASSUME NEW X, {"H", "T", "P", "/"} \subseteq X
  PROVE  <<"H", "T">> \o <<"T", "P">> \o <<"/">> = <<"H", "T", "T", "P", "/">>
<1> DEFINE s == <<"H", "T">>
           t == <<"T", "P">>
           u == <<"H", "T", "T", "P", "/">>
           c == <<"/">>
<1>1. s \in Seq(X) /\ t \in Seq(X) /\ u \in Seq(X) /\ c \in Seq(X)
  OBVIOUS
<1>2. /\ Len(s) = 2 /\ s[1] = "H" /\ s[2] = "T" /\ Len(t) = 2 /\ t[1] = "T" /\ t[2] = "P"
      /\ Len(u) = 5 /\ u[1] = "H" /\ u[2] = "T" /\ u[3] = "T" /\ u[4] = "P" /\ u[5] = "/"
  OBVIOUS
<1> HIDE DEF s, t, u
<1>3. /\ s \o t \in Seq(X) /\ Len(s \o t) = 4
      /\ \A i \in 1..4 : (s \o t)[i] = IF i <= 2 THEN s[i] ELSE t[i - 2]
  <2>1. /\ s \o t \in Seq(X) /\ Len(s \o t) = Len(s) + Len(t)
        /\ \A i \in 1..(Len(s) + Len(t)) :
             (s \o t)[i] = IF i <= Len(s) THEN s[i] ELSE t[i - Len(s)]
    BY <1>1, ConcatProperties
  <2> QED
    BY <1>2, <2>1
<1>4. \A i \in 1..4 : (s \o t)[i] = u[i]
  <2>1. \A i \in 1..4 : i = 1 \/ i = 2 \/ i = 3 \/ i = 4
    OBVIOUS
  <2> QED
    BY <1>2, <1>3, <2>1
<1> DEFINE st == s \o t
<1>5. /\ st \in Seq(X) /\ Len(u) = Len(st) + 1 /\ u[Len(st) + 1] = "/"
      /\ \A i \in 1..Len(st) : u[i] = st[i]
  BY <1>2, <1>3, <1>4
<1> HIDE DEF st
<1>6. st \o c = u
  BY <1>1, <1>5, OneMore
<1> QED
  BY <1>6 DEF st, s, t, u

LEMMA ReadsTwo ==
  ASSUME NEW p \in Parser, NEW q \in Parser, NEW r, NEW a \in Byte, NEW b \in Byte,
         q.result = "indeterminate", Reads(p, <<a>>, q), Reads(q, <<b>>, r)
  PROVE  Reads(p, <<a, b>>, r)
<1>1. <<a>> \in Seq(Byte) /\ <<b>> \in Seq(Byte)
  OBVIOUS
<1>2. <<a>> \o <<b>> = <<a, b>>
  BY Pair
<1> QED
  BY <1>1, <1>2, ReadsThen

Version(d1, d2) == <<"H", "T", "T", "P", "/">> \o d1 \o <<".">> \o d2

LEMMA ReadsVersion ==
  ASSUME NEW m \in Seq(Byte), NEW u \in Seq(Byte),
         NEW d1 \in Seq(Digit), NEW d2 \in Seq(Digit), d1 # <<>>, d2 # <<>>
  PROVE  /\ Version(d1, d2) \in Seq(Byte)
         /\ Reads(At("http_version_h", m, u, <<>>), Version(d1, d2),
                  At("http_version_minor", m, u, <<>>))
<1> DEFINE A(st) == At(st, m, u, <<>>)
<1>0. <<>> \in Seq(HeaderType)
  OBVIOUS
<1>1. \A st \in StateName : A(st) \in Parser /\ A(st).result = "indeterminate"
  BY <1>0, AtType DEF At
<1>2. {"http_version_h", "http_version_t_1", "http_version_t_2", "http_version_p",
       "http_version_slash", "http_version_major_start", "http_version_major",
       "http_version_minor_start", "http_version_minor"} \subseteq StateName
  BY DEF StateName
<1>3. Digit \subseteq Byte /\ {"H", "T", "P", "/", "."} \subseteq Byte
  BY Bytes
<1>4. /\ Reads(A("http_version_h"), <<"H">>, A("http_version_t_1"))
      /\ Reads(A("http_version_t_1"), <<"T">>, A("http_version_t_2"))
      /\ Reads(A("http_version_t_2"), <<"T">>, A("http_version_p"))
      /\ Reads(A("http_version_p"), <<"P">>, A("http_version_slash"))
      /\ Reads(A("http_version_slash"), <<"/">>, A("http_version_major_start"))
      /\ Reads(A("http_version_major"), <<".">>, A("http_version_minor_start"))
      /\ \A b \in Digit :
           /\ Reads(A("http_version_major_start"), <<b>>, A("http_version_major"))
           /\ Reads(A("http_version_major"), <<b>>, A("http_version_major"))
           /\ Reads(A("http_version_minor_start"), <<b>>, A("http_version_minor"))
           /\ Reads(A("http_version_minor"), <<b>>, A("http_version_minor"))
  BY <1>0, VersionMoves
<1> HIDE DEF A
<1>5. ASSUME NEW d \in Seq(Digit), d # <<>>
      PROVE  /\ Reads(A("http_version_major_start"), d, A("http_version_major"))
             /\ Reads(A("http_version_minor_start"), d, A("http_version_minor"))
  <2>1. PICK t \in Seq(Digit) : d = <<d[1]>> \o t
    BY <1>5, SplitFirst
  <2>2. d[1] \in Digit /\ t \in Seq(Byte) /\ <<d[1]>> \in Seq(Byte)
    BY <1>3, <1>5, SplitFirst, SeqMonotonic
  <2>3. /\ Reads(A("http_version_major"), t, A("http_version_major"))
        /\ Reads(A("http_version_minor"), t, A("http_version_minor"))
    BY <1>1, <1>2, <1>3, <1>4, ReadsIdle
  <2>4. /\ Reads(A("http_version_major_start"), <<d[1]>> \o t, A("http_version_major"))
        /\ Reads(A("http_version_minor_start"), <<d[1]>> \o t, A("http_version_minor"))
    BY <1>1, <1>2, <1>4, <2>2, <2>3, ReadsThen
  <2> QED
    BY <2>1, <2>4
<1> DEFINE h == <<"H", "T", "T", "P", "/">>
           dot == <<".">>
<1>6. h \in Seq(Byte) /\ dot \in Seq(Byte) /\ d1 \in Seq(Byte) /\ d2 \in Seq(Byte)
  BY <1>3, SeqMonotonic
<1>7. Reads(A("http_version_h"), h, A("http_version_major_start"))
  <2>1. Reads(A("http_version_h"), <<"H", "T">>, A("http_version_t_2"))
    BY <1>1, <1>2, <1>3, <1>4, ReadsTwo
  <2>2. Reads(A("http_version_t_2"), <<"T", "P">>, A("http_version_slash"))
    BY <1>1, <1>2, <1>3, <1>4, ReadsTwo
  <2> DEFINE ht == <<"H", "T">>
             tp == <<"T", "P">>
             slash == <<"/">>
  <2>3. /\ ht \in Seq(Byte) /\ tp \in Seq(Byte) /\ slash \in Seq(Byte)
        /\ ht \o tp \o slash = h
    BY <1>3, HttpSlash
  <2> HIDE DEF ht, tp, slash, h
  <2>4. Reads(A("http_version_h"), ht \o tp, A("http_version_slash"))
    BY <1>1, <1>2, <2>1, <2>2, <2>3, ReadsThen DEF ht, tp
  <2>5. ht \o tp \in Seq(Byte)
    BY <2>3, ConcatProperties
  <2>6. Reads(A("http_version_h"), ht \o tp \o slash, A("http_version_major_start"))
    BY <1>1, <1>2, <1>4, <2>3, <2>4, <2>5, ReadsThen DEF slash
  <2> QED
    BY <2>3, <2>6
<1>8. Reads(A("http_version_major"), dot, A("http_version_minor_start"))
  BY <1>4
<1>9. h \o d1 \in Seq(Byte) /\ h \o d1 \o dot \in Seq(Byte) /\ h \o d1 \o dot \o d2 \in Seq(Byte)
  BY <1>6, ConcatProperties
<1>10. Version(d1, d2) = h \o d1 \o dot \o d2
  BY DEF Version
<1> HIDE DEF h, dot
<1>11. Reads(A("http_version_h"), h \o d1, A("http_version_major"))
  BY <1>1, <1>2, <1>5, <1>6, <1>7, ReadsThen
<1>12. Reads(A("http_version_h"), h \o d1 \o dot, A("http_version_minor_start"))
  BY <1>1, <1>2, <1>6, <1>8, <1>9, <1>11, ReadsThen
<1>13. Reads(A("http_version_h"), h \o d1 \o dot \o d2, A("http_version_minor"))
  BY <1>1, <1>2, <1>5, <1>6, <1>9, <1>12, ReadsThen
<1> QED
  BY <1>9, <1>10, <1>13 DEF A

LEMMA ReadsRequestLine ==
  ASSUME NEW m \in Seq(TokenByte), NEW u \in Seq(TextByte \ {"SP"}), m # <<>>,
         NEW d1 \in Seq(Digit), NEW d2 \in Seq(Digit), d1 # <<>>, d2 # <<>>
  PROVE  /\ m \o <<"SP">> \o u \o <<"SP">> \o Version(d1, d2) \o CRLF \in Seq(Byte)
         /\ m \in Seq(Byte) /\ u \in Seq(Byte)
         /\ Reads(Fresh, m \o <<"SP">> \o u \o <<"SP">> \o Version(d1, d2) \o CRLF,
                  At("header_line_start", m, u, <<>>))
<1>0. <<>> \in Seq(HeaderType) /\ <<>> \in Seq(Byte)
  OBVIOUS
<1>1. {"method_start", "method", "uri", "http_version_h", "http_version_minor",
       "expecting_newline_1", "header_line_start"} \subseteq StateName
  BY DEF StateName
<1>2. /\ TokenByte \subseteq Byte /\ TextByte \ {"SP"} \subseteq Byte
      /\ {"SP", "CR", "LF"} \subseteq Byte
  BY Bytes
<1>3. m \in Seq(Byte) /\ u \in Seq(Byte)
  BY <1>2, SeqMonotonic
<1> DEFINE v == Version(d1, d2)
           sp == <<"SP">>
<1>4. v \in Seq(Byte) /\ sp \in Seq(Byte) /\ CRLF \in Seq(Byte)
  BY <1>2, <1>3, ReadsVersion DEF CRLF
<1>5. Fresh = At("method_start", <<>>, <<>>, <<>>)
  BY DEF Fresh, EmptyRequest, At, Filled
<1>6. \A st \in StateName, x \in Seq(Byte), y \in Seq(Byte) :
        At(st, x, y, <<>>) \in Parser /\ At(st, x, y, <<>>).result = "indeterminate"
  BY <1>0, AtType DEF At
<1>7. Reads(Fresh, m, At("method", m, <<>>, <<>>))
  <2>1. PICK t \in Seq(TokenByte) : m = <<m[1]>> \o t
    BY SplitFirst
  <2>2. m[1] \in TokenByte /\ t \in Seq(Byte) /\ <<m[1]>> \in Seq(Byte)
    BY <1>2, SplitFirst, SeqMonotonic
  <2>3. Append(<<>>, m[1]) = <<m[1]>>
    OBVIOUS
  <2>4. Reads(Fresh, <<m[1]>>, At("method", <<m[1]>>, <<>>, <<>>))
    BY <1>0, <1>5, <2>2, <2>3, Moves
  <2>5. Reads(At("method", <<m[1]>>, <<>>, <<>>), t, At("method", <<m[1]>> \o t, <<>>, <<>>))
    BY <1>0, <2>2, ReadsMethod
  <2>6. Fresh \in Parser
    BY <1>0, <1>1, <1>5, <1>6
  <2>7. Reads(Fresh, <<m[1]>> \o t, At("method", <<m[1]>> \o t, <<>>, <<>>))
    BY <1>0, <1>1, <1>6, <2>2, <2>4, <2>5, <2>6, ReadsThen
  <2> QED
    BY <2>1, <2>7
<1>8. Fresh \in Parser
  BY <1>0, <1>1, <1>5, <1>6
<1>9. Reads(At("method", m, <<>>, <<>>), sp, At("uri", m, <<>>, <<>>))
  BY <1>0, <1>3, Moves
<1>10. Reads(At("uri", m, <<>>, <<>>), u, At("uri", m, u, <<>>))
  <2>1. <<>> \o u = u
    BY <1>3, ConcatEmpty
  <2> QED
    BY <1>0, <1>3, <2>1, ReadsUri
<1>11. Reads(At("uri", m, u, <<>>), sp, At("http_version_h", m, u, <<>>))
  BY <1>0, <1>3, Moves
<1>12. Reads(At("http_version_h", m, u, <<>>), v, At("http_version_minor", m, u, <<>>))
  BY <1>3, ReadsVersion
<1>13. Reads(At("http_version_minor", m, u, <<>>), CRLF, At("header_line_start", m, u, <<>>))
  <2>1. /\ Reads(At("http_version_minor", m, u, <<>>), <<"CR">>,
                 At("expecting_newline_1", m, u, <<>>))
        /\ Reads(At("expecting_newline_1", m, u, <<>>), <<"LF">>,
                 At("header_line_start", m, u, <<>>))
    BY <1>0, <1>3, VersionMoves
  <2> QED
    BY <1>1, <1>2, <1>3, <1>6, <2>1, ReadsTwo DEF CRLF
<1> HIDE DEF v, sp
<1>14. /\ m \o sp \in Seq(Byte) /\ m \o sp \o u \in Seq(Byte) /\ m \o sp \o u \o sp \in Seq(Byte)
       /\ m \o sp \o u \o sp \o v \in Seq(Byte) /\ m \o sp \o u \o sp \o v \o CRLF \in Seq(Byte)
  BY <1>3, <1>4, ConcatProperties
<1>15. Reads(Fresh, m \o sp, At("uri", m, <<>>, <<>>))
  BY <1>0, <1>1, <1>3, <1>4, <1>6, <1>7, <1>8, <1>9, ReadsThen
<1>16. Reads(Fresh, m \o sp \o u, At("uri", m, u, <<>>))
  BY <1>0, <1>1, <1>3, <1>6, <1>8, <1>10, <1>14, <1>15, ReadsThen
<1>17. Reads(Fresh, m \o sp \o u \o sp, At("http_version_h", m, u, <<>>))
  BY <1>1, <1>3, <1>4, <1>6, <1>8, <1>11, <1>14, <1>16, ReadsThen
<1>18. Reads(Fresh, m \o sp \o u \o sp \o v, At("http_version_minor", m, u, <<>>))
  BY <1>1, <1>3, <1>4, <1>6, <1>8, <1>12, <1>14, <1>17, ReadsThen
<1>19. Reads(Fresh, m \o sp \o u \o sp \o v \o CRLF, At("header_line_start", m, u, <<>>))
  BY <1>1, <1>3, <1>4, <1>6, <1>8, <1>13, <1>14, <1>18, ReadsThen
<1> QED
  BY <1>3, <1>14, <1>19 DEF v, sp

LEMMA AppendConcat ==
  ASSUME NEW X, NEW s \in Seq(X), NEW x \in X, NEW t \in Seq(X)
  PROVE  Append(s, x) \o t = s \o (<<x>> \o t)
<1>1. (s \o <<x>>) \o t = s \o (<<x>> \o t)
  <2> DEFINE c == <<x>>
  <2>1. c \in Seq(X)
    OBVIOUS
  <2> HIDE DEF c
  <2> QED
    BY <2>1, ConcatAssociative
<1>2. s \o <<x>> = Append(s, x)
  BY AppendIsConcat
<1> QED
  BY <1>1, <1>2

LEMMA NotEmpty == ASSUME NEW X, NEW s \in Seq(X), NEW x \in X PROVE Append(s, x) # <<>>
<1>1. Len(Append(s, x)) = Len(s) + 1 /\ Len(s) \in Nat
  BY AppendProps
<1> DEFINE v == Append(s, x)
<1> HIDE DEF v
<1>2. v # <<>>
  BY <1>1 DEF v
<1> QED
  BY <1>2 DEF v

LEMMA HeadersType ==
  ASSUME NEW hs \in Seq(HeaderType), NEW x \in Seq(Byte), NEW y \in Seq(Byte)
  PROVE  Append(hs, Header(x, y)) \in Seq(HeaderType)
<1>1. Header(x, y) \in HeaderType
  BY DEF Header, HeaderType
<1> HIDE DEF HeaderType
<1> QED
  BY <1>1, AppendProps

LEMMA ReadsHeaderLine ==
  ASSUME NEW m \in Seq(Byte), NEW u \in Seq(Byte), NEW hs \in Seq(HeaderType),
         NEW n \in Seq(TokenByte), n # <<>>, NEW v \in Seq(TextByte)
  PROVE  /\ n \o <<":", "SP">> \o v \in Seq(Byte) /\ n \in Seq(Byte) /\ v \in Seq(Byte)
         /\ Reads(At("header_line_start", m, u, hs), n \o <<":", "SP">> \o v,
                  At("header_value", m, u, Append(hs, Header(n, v))))
<1> DEFINE A(st, x, y) == At(st, m, u, Append(hs, Header(x, y)))
           start == At("header_line_start", m, u, hs)
           sep == <<":", "SP">>
<1>1. {"header_line_start", "header_name", "space_before_header_value", "header_value"}
        \subseteq StateName
  BY DEF StateName
<1>2. TokenByte \subseteq Byte /\ TextByte \subseteq Byte /\ {":", "SP"} \subseteq Byte
  BY Bytes
<1>3. n \in Seq(Byte) /\ v \in Seq(Byte) /\ <<>> \in Seq(Byte) /\ sep \in Seq(Byte)
  BY <1>2, SeqMonotonic
<1>4. \A st \in StateName, x \in Seq(Byte), y \in Seq(Byte) :
        A(st, x, y) \in Parser /\ A(st, x, y).result = "indeterminate"
  BY HeadersType, AtType DEF At
<1>5. start \in Parser /\ start.result = "indeterminate"
  BY <1>1, AtType DEF At
<1>6. Reads(start, n, A("header_name", n, <<>>))
  <2>1. PICK t \in Seq(TokenByte) : n = <<n[1]>> \o t
    BY SplitFirst
  <2>2. n[1] \in TokenByte /\ t \in Seq(Byte) /\ <<n[1]>> \in Seq(Byte)
    BY <1>2, SplitFirst, SeqMonotonic
  <2>3. Reads(start, <<n[1]>>, A("header_name", <<n[1]>>, <<>>))
    BY <1>3, <2>2, HeaderMoves
  <2>4. Reads(A("header_name", <<n[1]>>, <<>>), t, A("header_name", <<n[1]>> \o t, <<>>))
    BY <2>2, ReadsName
  <2> HIDE DEF A, start
  <2>5. Reads(start, <<n[1]>> \o t, A("header_name", <<n[1]>> \o t, <<>>))
    BY <1>1, <1>3, <1>4, <1>5, <2>2, <2>3, <2>4, ReadsThen
  <2> QED
    BY <2>1, <2>5
<1>7. Reads(A("header_name", n, <<>>), sep, A("header_value", n, <<>>))
  <2>1. /\ Reads(A("header_name", n, <<>>), <<":">>, A("space_before_header_value", n, <<>>))
        /\ Reads(A("space_before_header_value", n, <<>>), <<"SP">>, A("header_value", n, <<>>))
    BY <1>3, HeadersType, LineMoves
  <2> HIDE DEF A
  <2> QED
    BY <1>1, <1>2, <1>3, <1>4, <2>1, ReadsTwo
<1>8. Reads(A("header_value", n, <<>>), v, A("header_value", n, v))
  <2>1. <<>> \o v = v
    BY <1>3, ConcatEmpty
  <2> QED
    BY <1>3, <2>1, ReadsValue
<1> HIDE DEF A, start, sep
<1>9. n \o sep \in Seq(Byte) /\ n \o sep \o v \in Seq(Byte)
  BY <1>3, ConcatProperties
<1>10. Reads(start, n \o sep, A("header_value", n, <<>>))
  BY <1>1, <1>3, <1>4, <1>5, <1>6, <1>7, ReadsThen
<1>11. Reads(start, n \o sep \o v, A("header_value", n, v))
  BY <1>1, <1>3, <1>4, <1>5, <1>8, <1>9, <1>10, ReadsThen
<1> QED
  BY <1>3, <1>9, <1>11 DEF A, start, sep

(* What goes on with the value of the last header, behind white space.       *)
LEMMA ReadsMore ==
  ASSUME NEW m \in Seq(Byte), NEW u \in Seq(Byte), NEW hs \in Seq(HeaderType),
         NEW x \in Seq(Byte), NEW y \in Seq(Byte), NEW v \in Seq(TextByte),
         v # <<>>, v[1] # "SP"
  PROVE  Reads(At("header_lws", m, u, Append(hs, Header(x, y))), v,
               At("header_value", m, u, Append(hs, Header(x, y \o v))))
<1> DEFINE A(st, w) == At(st, m, u, Append(hs, Header(x, w)))
<1>1. "header_lws" \in StateName /\ "header_value" \in StateName
  BY DEF StateName
<1>2. \A st \in StateName, w \in Seq(Byte) :
        A(st, w) \in Parser /\ A(st, w).result = "indeterminate"
  BY HeadersType, AtType DEF At
<1>3. PICK t \in Seq(TextByte) : v = <<v[1]>> \o t
  BY SplitFirst
<1>4. v[1] \in TextByte \ {"SP"} /\ v[1] \in Byte /\ t \in Seq(Byte) /\ <<v[1]>> \in Seq(Byte)
  BY Bytes, SplitFirst, SeqMonotonic
<1>5. Reads(A("header_lws", y), <<v[1]>>, A("header_value", Append(y, v[1])))
  BY <1>4, HeaderMoves
<1>6. y \o <<v[1]>> = Append(y, v[1]) /\ Append(y, v[1]) \in Seq(Byte)
  BY <1>4, AppendIsConcat, AppendProps
<1>7. Reads(A("header_value", Append(y, v[1])), t, A("header_value", Append(y, v[1]) \o t))
  BY <1>6, ReadsValue
<1>8. Append(y, v[1]) \o t = y \o v
  <2> DEFINE b == v[1]
  <2>1. b \in Byte /\ y \in Seq(Byte) /\ t \in Seq(Byte) /\ v = <<b>> \o t
    BY <1>3, <1>4
  <2> HIDE DEF b
  <2>2. Append(y, b) \o t = y \o (<<b>> \o t)
    BY <2>1, AppendConcat
  <2> QED
    BY <2>1, <2>2 DEF b
<1> HIDE DEF A
<1>9. Reads(A("header_lws", y), <<v[1]>> \o t, A("header_value", Append(y, v[1]) \o t))
  BY <1>1, <1>2, <1>4, <1>5, <1>6, <1>7, ReadsThen
<1> QED
  BY <1>3, <1>8, <1>9 DEF A

Blank == {"SP", "HT"}

LEMMA ReadsContinuation ==
  ASSUME NEW m \in Seq(Byte), NEW u \in Seq(Byte), NEW hs \in Seq(HeaderType),
         NEW x \in Seq(Byte), NEW y \in Seq(Byte), NEW w \in Seq(Blank), w # <<>>,
         NEW v \in Seq(TextByte), v # <<>> => v[1] # "SP"
  PROVE  /\ w \o v \in Seq(Byte) /\ v \in Seq(Byte)
         /\ \E st \in {"header_lws", "header_value"} :
              Reads(At("header_line_start", m, u, Append(hs, Header(x, y))), w \o v,
                    At(st, m, u, Append(hs, Header(x, y \o v))))
<1> DEFINE A(st, z) == At(st, m, u, Append(hs, Header(x, z)))
<1>1. {"header_line_start", "header_lws", "header_value"} \subseteq StateName
  BY DEF StateName
<1>2. \A st \in StateName, z \in Seq(Byte) :
        A(st, z) \in Parser /\ A(st, z).result = "indeterminate"
  BY HeadersType, AtType DEF At
<1>3. {"SP", "HT"} \subseteq Byte /\ TextByte \subseteq Byte
  BY Bytes
<1>4. v \in Seq(Byte) /\ w \in Seq(Byte)
  BY <1>3, SeqMonotonic DEF Blank
<1>5. /\ \A b \in Blank : /\ Reads(A("header_line_start", y), <<b>>, A("header_lws", y))
                                 /\ Reads(A("header_lws", y), <<b>>, A("header_lws", y))
  <2>1. Append(hs, Header(x, y)) # <<>>
    <3>1. Header(x, y) \in HeaderType
      BY DEF Header, HeaderType
    <3> HIDE DEF HeaderType
    <3> QED
      BY <3>1, NotEmpty
  <2> QED
    BY <2>1, HeadersType, LineMoves DEF Blank
<1> HIDE DEF A
<1>6. Reads(A("header_line_start", y), w, A("header_lws", y))
  <2>1. PICK t \in Seq(Blank) : w = <<w[1]>> \o t
    BY SplitFirst
  <2>2. w[1] \in Blank /\ t \in Seq(Byte) /\ <<w[1]>> \in Seq(Byte)
    <3>1. Blank \subseteq Byte
      BY <1>3 DEF Blank
    <3> QED
      BY <3>1, SplitFirst, SeqMonotonic
  <2>3. Reads(A("header_lws", y), t, A("header_lws", y))
    BY <1>1, <1>2, <1>3, <1>5, ReadsIdle DEF Blank
  <2>4. Reads(A("header_line_start", y), <<w[1]>> \o t, A("header_lws", y))
    BY <1>1, <1>2, <1>5, <2>2, <2>3, ReadsThen
  <2> QED
    BY <2>1, <2>4
<1>7. CASE v = <<>>
  <2>1. w \o v = w /\ y \o v = y
    BY <1>4, <1>7, ConcatEmpty
  <2> QED
    BY <1>4, <1>6, <2>1 DEF A
<1>8. CASE v # <<>>
  <2>1. Reads(A("header_lws", y), v, A("header_value", y \o v))
    BY <1>8, ReadsMore DEF A
  <2>2. w \o v \in Seq(Byte)
    BY <1>4, ConcatProperties
  <2>3. Reads(A("header_line_start", y), w \o v, A("header_value", y \o v))
    BY <1>1, <1>2, <1>4, <1>6, <2>1, ReadsThen
  <2> QED
    BY <1>4, <2>2, <2>3 DEF A
<1> QED
  BY <1>7, <1>8

(* The end of a header line, and the empty line behind the last one.         *)
LEMMA ReadsEndOfLine ==
  ASSUME NEW m \in Seq(Byte), NEW u \in Seq(Byte), NEW hs \in Seq(HeaderType)
  PROVE  /\ CRLF \in Seq(Byte)
         /\ \A st \in {"header_lws", "header_value"} :
              Reads(At(st, m, u, hs), CRLF, At("header_line_start", m, u, hs))
         /\ Reads(At("header_line_start", m, u, hs), CRLF, Good(m, u, hs))
<1>1. {"header_line_start", "header_lws", "header_value", "expecting_newline_2",
       "expecting_newline_3"} \subseteq StateName
  BY DEF StateName
<1>2. {"CR", "LF"} \subseteq Byte
  BY Bytes
<1>3. \A st \in StateName : At(st, m, u, hs) \in Parser /\ At(st, m, u, hs).result = "indeterminate"
  BY AtType DEF At
<1>4. /\ \A st \in {"header_lws", "header_value"} :
           Reads(At(st, m, u, hs), <<"CR">>, At("expecting_newline_2", m, u, hs))
      /\ Reads(At("expecting_newline_2", m, u, hs), <<"LF">>, At("header_line_start", m, u, hs))
      /\ Reads(At("header_line_start", m, u, hs), <<"CR">>, At("expecting_newline_3", m, u, hs))
  BY LineMoves
<1>5. Reads(At("expecting_newline_3", m, u, hs), <<"LF">>, Good(m, u, hs))
  BY LastMove
<1>6. CRLF \in Seq(Byte)
  BY <1>2 DEF CRLF
<1>7. ASSUME NEW st \in {"header_lws", "header_value"}
      PROVE  Reads(At(st, m, u, hs), CRLF, At("header_line_start", m, u, hs))
  BY <1>1, <1>2, <1>3, <1>4, ReadsTwo DEF CRLF
<1>8. Reads(At("header_line_start", m, u, hs), CRLF, Good(m, u, hs))
  BY <1>1, <1>2, <1>3, <1>4, <1>5, ReadsTwo DEF CRLF
<1> QED
  BY <1>6, <1>7, <1>8

-----------------------------------------------------------------------------
(* Reading in pieces                                                         *)

LEMMA PartType ==
  ASSUME NEW X, NEW s \in Seq(X), NEW i \in Nat \ {0}, NEW j \in Nat, j <= Len(s)
  PROVE  /\ Part(s, i, j) \in Seq(X) /\ Len(Part(s, i, j)) = IF i <= j THEN j - i + 1 ELSE 0
         /\ \A k \in 1..(j - i + 1) : Part(s, i, j)[k] = s[i + k - 1]
<1>1. \A k \in i..j : s[k] \in X
  OBVIOUS
<1>2. i \in Int /\ j \in Int
  OBVIOUS
<1>3. /\ SubSeq(s, i, j) \in Seq(X)
      /\ Len(SubSeq(s, i, j)) = IF i <= j THEN j - i + 1 ELSE 0
      /\ \A k \in 1..(j - i + 1) : SubSeq(s, i, j)[k] = s[i + k - 1]
  BY <1>1, <1>2, SubSeqProperties
<1> QED
  BY <1>3 DEF Part

LEMMA PartsJoin ==
  ASSUME NEW X, NEW s \in Seq(X), NEW i \in Nat \ {0}, NEW k \in Nat, NEW j \in Nat,
         i <= k + 1, k <= j, j <= Len(s)
  PROVE  Part(s, i, k) \o Part(s, k + 1, j) = Part(s, i, j)
<1>1. i \in 1..(Len(s) + 1) /\ k \in (i - 1)..Len(s) /\ j \in k..Len(s)
  OBVIOUS
<1>2. SubSeq(s, i, k) \o SubSeq(s, k + 1, j) = SubSeq(s, i, j)
  BY <1>1, ConcatAdjacentSubSeq
<1> QED
  BY <1>2 DEF Part

LEMMA PartWhole == ASSUME NEW X, NEW s \in Seq(X) PROVE Part(s, 1, Len(s)) = s
BY SubSeqFull DEF Part

LEMMA PrefixType ==
  ASSUME NEW X, NEW s \in Seq(X), NEW j \in 0..Len(s)
  PROVE  /\ Part(s, 1, j) \in Seq(X) /\ Len(Part(s, 1, j)) = j
         /\ \A k \in 1..j : Part(s, 1, j)[k] = s[k]
<1>1. 1 \in Nat \ {0} /\ j \in Nat /\ j <= Len(s)
  OBVIOUS
<1>2. /\ Part(s, 1, j) \in Seq(X) /\ Len(Part(s, 1, j)) = IF 1 <= j THEN j - 1 + 1 ELSE 0
      /\ \A k \in 1..(j - 1 + 1) : Part(s, 1, j)[k] = s[1 + k - 1]
  BY <1>1, PartType
<1>3. j - 1 + 1 = j /\ \A k \in 1..j : 1 + k - 1 = k
  BY <1>1
<1> QED
  BY <1>1, <1>2, <1>3

LEMMA PartNone ==
  ASSUME NEW X, NEW s \in Seq(X), NEW i \in Int, NEW j \in Int, j < i
  PROVE  Part(s, i, j) = <<>>
BY SubSeqEmpty DEF Part

(* What is undecided has consumed every byte.                                *)
LEMMA UndecidedConsumed ==
  ASSUME NEW p \in Parser, NEW s \in Seq(Byte), Parse(p, s).parser.result = "indeterminate"
  PROVE  Parse(p, s).n = Len(s)
<1> DEFINE P(t) == Parse(p, t).parser.result = "indeterminate" => Parse(p, t).n = Len(t)
           T == {t \in Seq(Byte) : P(t)}
<1>1. <<>> \in T
  BY ParseEmpty, EmptySeq
<1>2. ASSUME NEW t \in T, NEW b \in Byte PROVE Append(t, b) \in T
  <2> DEFINE a == Parse(p, t)
  <2>1. a \in [parser : Parser, n : 0..Len(t)] /\ Len(t) \in Nat /\ t \in Seq(Byte)
    BY ParseType
  <2>2. Parse(p, Append(t, b)) = Accept(a, b)
    BY ParseAppend
  <2>3. Len(Append(t, b)) = Len(t) + 1 /\ Append(t, b) \in Seq(Byte)
    BY AppendProps
  <2>4. a.parser.result = "indeterminate" => a.n = Len(t)
    OBVIOUS
  <2> HIDE DEF a
  <2>5. Accept(a, b).parser.result = "indeterminate" => Accept(a, b).n = Len(t) + 1
    BY <2>1, <2>4 DEF Accept
  <2> QED
    BY <2>2, <2>3, <2>5
<1>3. T = Seq(Byte)
  <2>1. T \in SUBSET Seq(Byte)
    OBVIOUS
  <2> HIDE DEF T
  <2> QED
    BY <1>1, <1>2, <2>1, InductionOnSeq
<1> QED
  BY <1>3

(* A decision is made where it is made, whatever follows.                    *)
LEMMA DecidedOnce ==
  ASSUME NEW p \in Parser, NEW s \in Seq(Byte), NEW t \in Seq(Byte), NEW q,
         Reads(p, s, q), q.result # "indeterminate", NEW k \in 0..Len(s \o t)
  PROVE  /\ k >= Len(s) => Parse(p, Part(s \o t, 1, k)) = [parser |-> q, n |-> Len(s)]
         /\ k < Len(s) => Parse(p, Part(s \o t, 1, k)).parser.result = "indeterminate"
<1> DEFINE st == s \o t
           u == Part(st, 1, k)
<1>1. /\ st \in Seq(Byte) /\ Len(st) = Len(s) + Len(t) /\ Len(s) \in Nat /\ Len(t) \in Nat
      /\ \A i \in 1..Len(s) : st[i] = s[i]
  BY ConcatProperties
<1>2. k \in Nat /\ k <= Len(st)
  BY <1>1
<1> HIDE DEF st
<1>0. 1 \in Nat \ {0} /\ 1 <= Len(s) + 1 /\ 1 <= k + 1
  BY <1>1, <1>2
<1>3. u \in Seq(Byte) /\ Len(u) = k
  BY <1>0, <1>1, <1>2, PartType
<1>4. Part(st, 1, Len(s)) = s
  <2> DEFINE v == Part(st, 1, Len(s))
  <2>1. v \in Seq(Byte) /\ Len(v) = Len(s) /\ \A i \in 1..Len(s) : v[i] = st[i]
    <3>1. Len(s) \in 0..Len(st)
      BY <1>1
    <3> QED
      BY <1>1, <3>1, PrefixType
  <2> HIDE DEF v
  <2>2. v = s
    BY <1>1, <2>1, SeqEqual
  <2> QED
    BY <2>2 DEF v
<1>5. ASSUME k >= Len(s) PROVE Parse(p, u) = [parser |-> q, n |-> Len(s)]
  <2> DEFINE r == Part(st, Len(s) + 1, k)
  <2>1. s \o r = u
    <3>1. Part(st, 1, Len(s)) \o r = u
      <4>1. Len(s) <= k /\ k <= Len(st) /\ Len(s) \in Nat
        BY <1>1, <1>2, <1>5
      <4> QED
        BY <1>0, <1>1, <1>2, <4>1, PartsJoin
    <3> QED
      BY <1>4, <3>1
  <2>2. r \in Seq(Byte)
    <3>1. Len(s) + 1 \in Nat \ {0}
      BY <1>1
    <3> QED
      BY <1>1, <1>2, <3>1, PartType
  <2> HIDE DEF r, u
  <2>3. Parse(p, s \o r) = GoOn(Parse(p, s), r)
    BY <2>2, ParseConcat
  <2> QED
    BY <2>1, <2>3 DEF Reads, GoOn
<1>6. ASSUME k < Len(s) PROVE Parse(p, u).parser.result = "indeterminate"
  <2> SUFFICES ASSUME Parse(p, u).parser.result # "indeterminate" PROVE FALSE
    OBVIOUS
  <2> DEFINE r == Part(st, k + 1, Len(s))
  <2>1. u \o r = s
    <3>1. u \o r = Part(st, 1, Len(s))
      <4>1. k <= Len(s) /\ Len(s) <= Len(st) /\ Len(s) \in Nat
        BY <1>1, <1>2, <1>6
      <4> QED
        BY <1>0, <1>1, <1>2, <4>1, PartsJoin
    <3> QED
      BY <1>4, <3>1
  <2>2. r \in Seq(Byte)
    <3>1. k + 1 \in Nat \ {0} /\ Len(s) <= Len(st)
      BY <1>1, <1>2
    <3> QED
      BY <1>1, <3>1, PartType
  <2>3. Parse(p, u) \in [parser : Parser, n : 0..k]
    BY <1>3, ParseType
  <2> HIDE DEF r, u
  <2>4. Parse(p, u \o r) = GoOn(Parse(p, u), r)
    BY <1>3, <2>2, ParseConcat
  <2>5. Parse(p, s) = Parse(p, u)
    BY <2>1, <2>4 DEF GoOn
  <2> QED
    BY <1>1, <1>2, <1>6, <2>3, <2>5 DEF Reads
<1> QED
  BY <1>5, <1>6 DEF st

LEMMA FreshType == Fresh \in Parser /\ Fresh.result = "indeterminate"
<1>1. Fresh = At("method_start", <<>>, <<>>, <<>>)
  BY DEF Fresh, EmptyRequest, At, Filled
<1>2. <<>> \in Seq(Byte) /\ <<>> \in Seq(HeaderType) /\ "method_start" \in StateName
  BY EmptySeq DEF StateName
<1> QED
  BY <1>1, <1>2, AtType DEF At

LEMMA PieceParsed ==
  ASSUME NEW bs \in Seq(Byte), NEW k \in Nat, NEW n \in Nat, k + n <= Len(bs), NEW p,
         p = Parse(Fresh, Part(bs, 1, k)).parser, p.result = "indeterminate"
  PROVE  /\ p \in Parser /\ Part(bs, k + 1, k + n) \in Seq(Byte)
         /\ Parse(Fresh, Part(bs, 1, k + n)) =
              [parser |-> Parse(p, Part(bs, k + 1, k + n)).parser,
               n |-> k + Parse(p, Part(bs, k + 1, k + n)).n]
<1> DEFINE s == Part(bs, 1, k)
           t == Part(bs, k + 1, k + n)
<1>1. /\ 1 \in Nat \ {0} /\ k + 1 \in Nat \ {0} /\ k + n \in Nat /\ k \in 0..Len(bs)
      /\ 1 <= k + 1 /\ k <= k + n /\ Len(bs) \in Nat
  OBVIOUS
<1>2. s \in Seq(Byte) /\ Len(s) = k
  BY <1>1, PrefixType
<1>3. t \in Seq(Byte)
  BY <1>1, PartType
<1>4. s \o t = Part(bs, 1, k + n)
  BY <1>1, PartsJoin
<1> HIDE DEF s, t
<1>5. Parse(Fresh, s \o t) = GoOn(Parse(Fresh, s), t)
  BY <1>2, <1>3, FreshType, ParseConcat
<1>6. p = Parse(Fresh, s).parser
  BY DEF s
<1>7. Parse(Fresh, s).n = k /\ p \in Parser
  BY <1>2, <1>6, FreshType, UndecidedConsumed, ParseType
<1>8. Parse(Fresh, s \o t) = [parser |-> Parse(p, t).parser, n |-> k + Parse(p, t).n]
  BY <1>5, <1>6, <1>7 DEF GoOn
<1> QED
  BY <1>3, <1>4, <1>7, <1>8 DEF t

LEMMA Behind ==
  ASSUME NEW X, NEW s \in Seq(X), NEW t \in Seq(X), NEW k \in Nat,
         k >= Len(s), k <= Len(s) + Len(t)
  PROVE  Part(s \o t, Len(s) + 1, k) = Part(t, 1, k - Len(s))
<1>0. Len(s) \in Nat /\ Len(t) \in Nat
  OBVIOUS
<1>1. CASE k = Len(s)
  <2>1. Len(s) + 1 \in Int /\ k \in Int /\ k < Len(s) + 1 /\ k - Len(s) \in Int
        /\ k - Len(s) < 1 /\ 1 \in Int
    BY <1>0, <1>1
  <2>2. Part(s \o t, Len(s) + 1, k) = <<>>
    BY <2>1, SubSeqEmpty DEF Part
  <2>3. Part(t, 1, k - Len(s)) = <<>>
    BY <2>1, SubSeqEmpty DEF Part
  <2> QED
    BY <2>2, <2>3
<1>2. CASE k # Len(s)
  <2> DEFINE m == Len(s) + 1
  <2>1. /\ m \in (Len(s) + 1)..(Len(s) + Len(t)) /\ k \in (Len(s) + 1)..(Len(s) + Len(t))
        /\ m - Len(s) = 1
    BY <1>0, <1>2
  <2> HIDE DEF m
  <2>2. SubSeq(s \o t, m, k) = SubSeq(t, m - Len(s), k - Len(s))
    BY <2>1, SubSeqOfConcat2
  <2> QED
    BY <2>1, <2>2 DEF Part, m
<1> QED
  BY <1>1, <1>2

-----------------------------------------------------------------------------
(* Every head is read to its end, and good                                   *)

LEMMA AllInSeq ==
  ASSUME NEW X, NEW x \in Seq(X), NEW S, AllIn(x, S) PROVE x \in Seq(S)
BY DEF AllIn

LEMMA JoinByte ==
  ASSUME NEW X, NEW s \in Seq(X), NEW j \in 1..Len(s)
  PROVE  Part(s, 1, j - 1) \o <<s[j]>> = Part(s, 1, j) /\ s[j] \in X
<1>1. j - 1 \in 0..Len(s) /\ j \in 0..Len(s) /\ s[j] \in X
  OBVIOUS
<1> DEFINE a == Part(s, 1, j - 1)
           b == Part(s, 1, j)
           x == s[j]
<1>2. a \in Seq(X) /\ Len(a) = j - 1 /\ \A k \in 1..(j - 1) : a[k] = s[k]
  BY <1>1, PrefixType
<1>3. b \in Seq(X) /\ Len(b) = j /\ \A k \in 1..j : b[k] = s[k]
  BY <1>1, PrefixType
<1> HIDE DEF a, b
<1>4. Len(b) = Len(a) + 1 /\ b[Len(a) + 1] = x /\ x \in X /\ \A k \in 1..Len(a) : b[k] = a[k]
  <2>1. \A k \in 1..(j - 1) : k \in 1..j
    OBVIOUS
  <2>2. Len(b) = Len(a) + 1 /\ Len(a) + 1 = j /\ j \in 1..j
    BY <1>1, <1>2, <1>3
  <2> QED
    BY <1>1, <1>2, <1>3, <2>1, <2>2
<1> HIDE DEF x
<1>5. a \o <<x>> = b
  BY <1>2, <1>3, <1>4, OneMore
<1> QED
  BY <1>1, <1>5 DEF a, b, x

LEMMA JoinPart ==
  ASSUME NEW X, NEW s \in Seq(X), NEW i \in 0..Len(s), NEW j \in i..Len(s)
  PROVE  Part(s, 1, i) \o Part(s, i + 1, j) = Part(s, 1, j)
<1>1. /\ 1 \in Nat \ {0} /\ i \in Nat /\ j \in Nat /\ 1 <= i + 1 /\ i <= j /\ j <= Len(s)
  OBVIOUS
<1> QED
  BY <1>1, PartsJoin

LEMMA RequestLineParts ==
  ASSUME NEW l \in Seq(Byte), IsRequestLine(l)
  PROVE  \E m \in Seq(TokenByte), u \in Seq(TextByte \ {"SP"}), d1, d2 \in Seq(Digit) :
           /\ m # <<>> /\ d1 # <<>> /\ d2 # <<>>
           /\ l = m \o <<"SP">> \o u \o <<"SP">> \o Version(d1, d2)
<1>1. PICK i, j \in 2..Len(l) :
        /\ i < j /\ l[i] = "SP" /\ l[j] = "SP"
        /\ AllIn(Part(l, 1, i - 1), TokenByte)
        /\ AllIn(Part(l, i + 1, j - 1), TextByte \ {"SP"})
        /\ IsVersion(Part(l, j + 1, Len(l)))
  BY DEF IsRequestLine
<1> DEFINE m == Part(l, 1, i - 1)
           u == Part(l, i + 1, j - 1)
           v == Part(l, j + 1, Len(l))
<1>2. /\ i \in 1..Len(l) /\ j \in 1..Len(l) /\ i - 1 \in 0..Len(l) /\ i \in 0..Len(l)
      /\ j - 1 \in i..Len(l) /\ j \in 0..Len(l) /\ Len(l) \in j..Len(l) /\ i - 1 >= 1
      /\ i + 1 \in Nat \ {0} /\ j - 1 \in Nat /\ j - 1 <= Len(l) /\ j + 1 \in Nat \ {0}
      /\ Len(l) \in Nat /\ Len(l) <= Len(l)
  BY <1>1
<1>3. m \in Seq(Byte) /\ Len(m) = i - 1 /\ u \in Seq(Byte) /\ v \in Seq(Byte)
  <2>1. m \in Seq(Byte) /\ Len(m) = i - 1
    BY <1>2, PrefixType
  <2>2. u \in Seq(Byte)
    BY <1>2, PartType
  <2>3. v \in Seq(Byte)
    BY <1>2, PartType
  <2> QED
    BY <2>1, <2>2, <2>3
<1>4. l = m \o <<"SP">> \o u \o <<"SP">> \o v
  <2>1. m \o <<"SP">> = Part(l, 1, i)
    BY <1>1, <1>2, JoinByte
  <2>2. Part(l, 1, i) \o u = Part(l, 1, j - 1)
    BY <1>2, JoinPart
  <2>3. Part(l, 1, j - 1) \o <<"SP">> = Part(l, 1, j)
    BY <1>1, <1>2, JoinByte
  <2>4. Part(l, 1, j) \o v = Part(l, 1, Len(l))
    BY <1>2, JoinPart
  <2>5. Part(l, 1, Len(l)) = l
    BY PartWhole
  <2> HIDE DEF m, u, v
  <2> QED
    BY <2>1, <2>2, <2>3, <2>4, <2>5
<1>5. m \in Seq(TokenByte) /\ u \in Seq(TextByte \ {"SP"}) /\ m # <<>>
  <2>1. m \in Seq(TokenByte)
    BY <1>1, <1>3, AllInSeq
  <2>2. u \in Seq(TextByte \ {"SP"})
    BY <1>1, <1>3, AllInSeq
  <2>3. Len(m) >= 1
    BY <1>2, <1>3
  <2> HIDE DEF m, u
  <2> QED
    BY <2>1, <2>2, <2>3
<1>6. \E d1, d2 \in Seq(Digit) : d1 # <<>> /\ d2 # <<>> /\ v = Version(d1, d2)
  <2>0. IsVersion(v)
    BY <1>1
  <2> HIDE DEF v
  <2>1. PICK n \in 7..(Len(v) - 1) :
          /\ Part(v, 1, 5) = <<"H", "T", "T", "P", "/">>
          /\ v[n] = "." /\ AllIn(Part(v, 6, n - 1), Digit) /\ AllIn(Part(v, n + 1, Len(v)), Digit)
    BY <2>0 DEF IsVersion
  <2> DEFINE d1 == Part(v, 6, n - 1)
             d2 == Part(v, n + 1, Len(v))
  <2>2. /\ n \in 1..Len(v) /\ 5 \in 0..Len(v) /\ n - 1 \in 5..Len(v) /\ n \in 0..Len(v)
        /\ Len(v) \in n..Len(v) /\ 6 \in Nat \ {0} /\ n - 1 \in Nat /\ n - 1 <= Len(v)
        /\ n + 1 \in Nat \ {0} /\ Len(v) \in Nat /\ Len(v) <= Len(v) /\ 5 + 1 = 6
        /\ 6 <= n - 1 /\ n + 1 <= Len(v)
    BY <1>3, <2>1
  <2>3. d1 \in Seq(Byte) /\ Len(d1) >= 1
    <3> DEFINE c == n - 1
               a == 6
    <3>1. c \in Nat /\ c <= Len(v) /\ a <= c /\ c - a + 1 >= 1 /\ a \in Nat \ {0}
      BY <2>2
    <3> HIDE DEF c, a
    <3>2. Part(v, a, c) \in Seq(Byte) /\ Len(Part(v, a, c)) = IF a <= c THEN c - a + 1 ELSE 0
      BY <1>3, <3>1, PartType
    <3>3. Part(v, a, c) \in Seq(Byte) /\ Len(Part(v, a, c)) >= 1
      BY <3>1, <3>2
    <3> QED
      BY <3>3 DEF c, a
  <2>4. d2 \in Seq(Byte) /\ Len(d2) = Len(v) - (n + 1) + 1
    BY <1>3, <2>2, PartType
  <2>5. d1 \in Seq(Digit) /\ d2 \in Seq(Digit)
    BY <2>1, <2>3, <2>4, AllInSeq
  <2>6. d1 # <<>> /\ d2 # <<>>
    <3>1. Len(d1) >= 1 /\ Len(d2) >= 1
      BY <2>2, <2>3, <2>4
    <3> HIDE DEF d1, d2
    <3> QED
      BY <3>1
  <2>7. Part(v, 1, 5) \o d1 = Part(v, 1, n - 1)
    BY <1>3, <2>2, JoinPart
  <2>8. Part(v, 1, n - 1) \o <<".">> = Part(v, 1, n)
    <3>1. v \in Seq(Byte) /\ n \in 1..Len(v)
      BY <1>3, <2>2
    <3>2. Part(v, 1, n - 1) \o <<v[n]>> = Part(v, 1, n)
      BY <3>1, JoinByte
    <3> QED
      BY <2>1, <3>2
  <2>9. Part(v, 1, n) \o d2 = Part(v, 1, Len(v))
    BY <1>3, <2>2, JoinPart
  <2>10. Part(v, 1, Len(v)) = v
    BY <1>3, PartWhole
  <2> HIDE DEF d1, d2
  <2>11. v = Version(d1, d2)
    BY <2>1, <2>7, <2>8, <2>9, <2>10 DEF Version
  <2> QED
    BY <2>5, <2>6, <2>11
<1> HIDE DEF m, u, v
<1> QED
  BY <1>4, <1>5, <1>6

LEMMA HeaderLineParts ==
  ASSUME NEW l \in Seq(Byte), IsHeaderLine(l)
  PROVE  \E n \in Seq(TokenByte), v \in Seq(TextByte) : n # <<>> /\ l = n \o <<":", "SP">> \o v
<1>1. PICK i \in 2..(Len(l) - 1) :
        /\ l[i] = ":" /\ l[i + 1] = "SP"
        /\ AllIn(Part(l, 1, i - 1), TokenByte) /\ AllIn(Part(l, i + 2, Len(l)), TextByte)
  BY DEF IsHeaderLine
<1> DEFINE n == Part(l, 1, i - 1)
           j == i + 1
           v == Part(l, j + 1, Len(l))
<1>2. /\ i \in 1..Len(l) /\ j \in 1..Len(l) /\ i - 1 \in 0..Len(l) /\ j \in 0..Len(l)
      /\ Len(l) \in j..Len(l) /\ i - 1 >= 1 /\ j + 1 \in Nat \ {0} /\ Len(l) \in Nat
      /\ Len(l) <= Len(l) /\ j - 1 = i /\ j + 1 = i + 2
  BY <1>1
<1>3. l[j] = "SP" /\ AllIn(v, TextByte)
  BY <1>1, <1>2
<1> HIDE DEF j
<1>4. n \in Seq(Byte) /\ Len(n) = i - 1
  BY <1>2, PrefixType
<1>5. v \in Seq(Byte)
  BY <1>2, PartType
<1>6. n \in Seq(TokenByte) /\ v \in Seq(TextByte)
  BY <1>1, <1>3, <1>4, <1>5, AllInSeq
<1>7. n # <<>>
  <2>1. Len(n) >= 1
    BY <1>2, <1>4
  <2> HIDE DEF n
  <2> QED
    BY <2>1
<1>8. n \o <<":">> = Part(l, 1, i)
  BY <1>1, <1>2, JoinByte
<1>9. Part(l, 1, i) \o <<"SP">> = Part(l, 1, j)
  <2>1. Part(l, 1, j - 1) \o <<l[j]>> = Part(l, 1, j)
    BY <1>2, JoinByte
  <2> QED
    BY <1>2, <1>3, <2>1
<1>10. Part(l, 1, j) \o v = Part(l, 1, Len(l))
  BY <1>2, JoinPart
<1>11. Part(l, 1, Len(l)) = l
  BY PartWhole
<1> HIDE DEF n, v
<1>12. n \o <<":", "SP">> = (n \o <<":">>) \o <<"SP">>
  <2> DEFINE a == <<":">>
             b == <<"SP">>
  <2>1. a \in Seq(Byte) /\ b \in Seq(Byte)
    BY Bytes
  <2>2. a \o b = <<":", "SP">>
    <3> DEFINE x == ":"
               y == "SP"
    <3>1. x \in Byte /\ y \in Byte
      BY Bytes
    <3> HIDE DEF x, y
    <3>2. <<x>> \o <<y>> = <<x, y>>
      BY <3>1, Pair
    <3> QED
      BY <3>2 DEF x, y
  <2> HIDE DEF a, b
  <2>3. n \in Seq(Byte)
    BY <1>4
  <2>4. (n \o a) \o b = n \o (a \o b)
    BY <2>1, <2>3, ConcatAssociative
  <2> QED
    BY <2>2, <2>4 DEF a, b
<1>13. l = n \o <<":", "SP">> \o v
  BY <1>8, <1>9, <1>10, <1>11, <1>12
<1> QED
  BY <1>6, <1>7, <1>13

LEMMA ContinuationParts ==
  ASSUME NEW l \in Seq(Byte), IsContinuation(l)
  PROVE  \E w \in Seq(Blank), v \in Seq(TextByte) :
           w # <<>> /\ (v # <<>> => v[1] # "SP") /\ l = w \o v
<1>1. PICK i \in 1..Len(l) :
        /\ AllIn(Part(l, 1, i), Blank) /\ (i < Len(l) => l[i + 1] # "SP")
        /\ AllIn(Part(l, i + 1, Len(l)), TextByte)
  BY DEF IsContinuation, Blank
<1> DEFINE w == Part(l, 1, i)
           j == i + 1
           v == Part(l, j, Len(l))
<1>2. /\ i \in 0..Len(l) /\ i >= 1 /\ Len(l) \in i..Len(l) /\ j \in Nat \ {0} /\ Len(l) \in Nat
      /\ Len(l) <= Len(l)
  BY <1>1
<1>3. w \in Seq(Byte) /\ Len(w) = i
  BY <1>2, PrefixType
<1>4. w \o v = l
  <2>1. w \o v = Part(l, 1, Len(l))
    BY <1>2, JoinPart
  <2> QED
    BY <2>1, PartWhole
<1>0. i < Len(l) => l[j] # "SP"
  BY <1>1
<1>9. AllIn(v, TextByte)
  BY <1>1
<1>10. (j <= Len(l)) => i < Len(l) /\ 1 \in 1..(Len(l) - j + 1) /\ j + 1 - 1 = j
  BY <1>2
<1> HIDE DEF j
<1>5. /\ v \in Seq(Byte) /\ Len(v) = IF j <= Len(l) THEN Len(l) - j + 1 ELSE 0
      /\ \A k \in 1..(Len(l) - j + 1) : v[k] = l[j + k - 1]
  <2> DEFINE n == Len(l)
  <2>1. n \in Nat /\ n <= Len(l)
    BY <1>2
  <2> HIDE DEF n
  <2>3. j \in Nat \ {0}
    BY <1>2
  <2>2. /\ Part(l, j, n) \in Seq(Byte) /\ Len(Part(l, j, n)) = IF j <= n THEN n - j + 1 ELSE 0
        /\ \A k \in 1..(n - j + 1) : Part(l, j, n)[k] = l[j + k - 1]
    BY <2>1, <2>3, PartType, SMTT(30)
  <2> QED
    BY <2>2 DEF n
<1>6. w \in Seq(Blank) /\ v \in Seq(TextByte)
  <2>1. AllIn(w, Blank)
    BY <1>1
  <2> HIDE DEF w, v
  <2>2. w \in Seq(Blank)
    BY <1>3, <2>1, AllInSeq
  <2>3. v \in Seq(TextByte)
    BY <1>5, <1>9, AllInSeq
  <2> QED
    BY <2>2, <2>3
<1> HIDE DEF w, v
<1>7. w # <<>>
  BY <1>2, <1>3
<1>8. v # <<>> => v[1] # "SP"
  <2> SUFFICES ASSUME v # <<>> PROVE v[1] # "SP"
    OBVIOUS
  <2>1. Len(v) # 0
    BY <1>5
  <2>2. j <= Len(l)
    BY <1>5, <2>1
  <2>3. v[1] = l[j]
    <3>1. v[1] = l[j + 1 - 1]
      BY <1>5, <1>10, <2>2
    <3> QED
      BY <1>10, <2>2, <3>1
  <2> QED
    BY <1>0, <1>10, <2>2, <2>3
<1> QED
  BY <1>4, <1>6, <1>7, <1>8

LEMMA ReadsFirstLine ==
  ASSUME NEW l \in Seq(Byte), IsRequestLine(l)
  PROVE  \E m, u \in Seq(Byte) : Reads(Fresh, l \o CRLF, At("header_line_start", m, u, <<>>))
<1>1. PICK m \in Seq(TokenByte), u \in Seq(TextByte \ {"SP"}), d1, d2 \in Seq(Digit) :
           /\ m # <<>> /\ d1 # <<>> /\ d2 # <<>>
           /\ l = m \o <<"SP">> \o u \o <<"SP">> \o Version(d1, d2)
  BY RequestLineParts
<1>2. /\ m \in Seq(Byte) /\ u \in Seq(Byte)
      /\ Reads(Fresh, m \o <<"SP">> \o u \o <<"SP">> \o Version(d1, d2) \o CRLF,
               At("header_line_start", m, u, <<>>))
  BY <1>1, ReadsRequestLine
<1> QED
  BY <1>1, <1>2

LEMMA ReadsNextLine ==
  ASSUME NEW l \in Seq(Byte), NEW m \in Seq(Byte), NEW u \in Seq(Byte),
         NEW hs \in Seq(HeaderType),
         IsHeaderLine(l) \/ (IsContinuation(l) /\ hs # <<>>)
  PROVE  \E new \in Seq(HeaderType) :
           /\ new # <<>>
           /\ Reads(At("header_line_start", m, u, hs), l \o CRLF,
                    At("header_line_start", m, u, new))
<1> DEFINE Line0(st, s) == At(st, m, u, s)
<1>1. ASSUME NEW new \in Seq(HeaderType), new # <<>>, NEW st \in {"header_lws", "header_value"},
             Reads(At("header_line_start", m, u, hs), l, At(st, m, u, new))
      PROVE  Reads(At("header_line_start", m, u, hs), l \o CRLF,
                   At("header_line_start", m, u, new))
  <2>1. Reads(At(st, m, u, new), CRLF, At("header_line_start", m, u, new)) /\ CRLF \in Seq(Byte)
    BY ReadsEndOfLine
  <2>2. st \in StateName /\ "header_line_start" \in StateName
    BY DEF StateName
  <2>3. /\ At("header_line_start", m, u, hs) \in Parser /\ At(st, m, u, new) \in Parser
        /\ At(st, m, u, new).result = "indeterminate"
    BY <2>2, AtType DEF At
  <2> QED
    BY <1>1, <2>1, <2>3, ReadsThen
<1>2. CASE IsHeaderLine(l)
  <2>1. PICK n \in Seq(TokenByte), v \in Seq(TextByte) : n # <<>> /\ l = n \o <<":", "SP">> \o v
    BY <1>2, HeaderLineParts
  <2> DEFINE new == Append(hs, Header(n, v))
  <2>2. /\ n \in Seq(Byte) /\ v \in Seq(Byte)
        /\ Reads(At("header_line_start", m, u, hs), n \o <<":", "SP">> \o v,
                 At("header_value", m, u, new))
    BY <2>1, ReadsHeaderLine
  <2>3. new \in Seq(HeaderType)
    BY <2>2, HeadersType
  <2>4. new # <<>>
    <3>1. Header(n, v) \in HeaderType
      BY <2>2 DEF Header, HeaderType
    <3> HIDE DEF HeaderType
    <3> QED
      BY <3>1, NotEmpty
  <2> HIDE DEF new
  <2> QED
    BY <1>1, <2>1, <2>2, <2>3, <2>4
<1>3. CASE IsContinuation(l) /\ hs # <<>>
  <2>1. PICK w \in Seq(Blank), v \in Seq(TextByte) :
           w # <<>> /\ (v # <<>> => v[1] # "SP") /\ l = w \o v
    BY <1>3, ContinuationParts
  <2>2. PICK old \in Seq(HeaderType), h \in HeaderType : hs = Append(old, h)
    <3> HIDE DEF HeaderType
    <3> QED
      BY <1>3, SplitLast
  <2>3. h = Header(h.name, h.value) /\ h.name \in Seq(Byte) /\ h.value \in Seq(Byte)
    BY DEF Header, HeaderType
  <2> DEFINE x == h.name
             y == h.value
  <2>4. x \in Seq(Byte) /\ y \in Seq(Byte) /\ hs = Append(old, Header(x, y))
    BY <2>2, <2>3
  <2> HIDE DEF x, y
  <2>5. /\ v \in Seq(Byte)
        /\ \E st \in {"header_lws", "header_value"} :
              Reads(At("header_line_start", m, u, Append(old, Header(x, y))), w \o v,
                    At(st, m, u, Append(old, Header(x, y \o v))))
    BY <2>1, <2>4, ReadsContinuation
  <2> DEFINE new == Append(old, Header(x, y \o v))
  <2>6. PICK st \in {"header_lws", "header_value"} :
          Reads(At("header_line_start", m, u, hs), l, At(st, m, u, new))
    BY <2>1, <2>4, <2>5
  <2>7. y \o v \in Seq(Byte)
    BY <2>4, <2>5, ConcatProperties
  <2>8. new \in Seq(HeaderType)
    BY <2>4, <2>7, HeadersType
  <2>9. new # <<>>
    <3>1. Header(x, y \o v) \in HeaderType
      BY <2>4, <2>7 DEF Header, HeaderType
    <3> HIDE DEF HeaderType
    <3> QED
      BY <3>1, NotEmpty
  <2> HIDE DEF new
  <2> QED
    BY <1>1, <2>6, <2>8, <2>9
<1> QED
  BY <1>2, <1>3

(* The ends of the lines before one, and where that line starts.             *)
EndsBefore(s, i) == {e \in Ends(s) : e < i}
From(s, i) == IF EndsBefore(s, i) = {} THEN 1 ELSE Max(EndsBefore(s, i)) + 2
LineAt(s, i) == Line(s, From(s, i), i)

HeadLines(s, first, last) ==
  /\ first \in Ends(s) /\ last \in Ends(s)
  /\ \A e \in Ends(s) : first <= e /\ e <= last
  /\ last = Len(s) - 1 /\ LineAt(s, last) = <<>>
  /\ IsRequestLine(LineAt(s, first))
  /\ \A e \in Ends(s) \ {first, last} :
       \/ IsHeaderLine(LineAt(s, e))
       \/ IsContinuation(LineAt(s, e)) /\ \E f \in Ends(s) : first < f /\ f < e
  /\ first # last

LEMMA HeadHasLines ==
  ASSUME NEW s, IsHead(s) PROVE \E first, last \in Ends(s) : HeadLines(s, first, last)
BY DEF IsHead, HeadLines, LineAt, From, EndsBefore

LEMMA EndType ==
  ASSUME NEW s \in Seq(Byte), NEW e \in Ends(s)
  PROVE  /\ e \in 1..Len(s) /\ e + 1 \in 1..Len(s) /\ s[e] = "CR" /\ s[e + 1] = "LF"
         /\ \A f \in Ends(s) : f < e => f + 2 <= e
<1>1. Len(s) \in Nat
  OBVIOUS
<1>2. /\ e \in Nat /\ e >= 1 /\ e <= Len(s) - 1 /\ s[e] = "CR" /\ s[e + 1] = "LF"
  BY <1>1 DEF Ends
<1>3. ASSUME NEW f \in Ends(s), f < e PROVE f + 2 <= e
  <2>1. f \in Nat /\ s[f + 1] = "LF"
    BY <1>1 DEF Ends
  <2>2. f + 1 # e
    BY <1>2, <2>1
  <2> QED
    BY <1>2, <1>3, <2>1, <2>2
<1> QED
  BY <1>1, <1>2, <1>3

LEMMA Prior ==
  ASSUME NEW s \in Seq(Byte), NEW e \in Ends(s), EndsBefore(s, e) # {}
  PROVE  \E f \in Ends(s) : /\ f + 2 <= e /\ From(s, e) = f + 2
                            /\ \A g \in Ends(s) : g < e => g <= f
<1> DEFINE b == EndsBefore(s, e)
           n == Len(s)
<1>1. n \in Nat /\ b \in SUBSET (1..n) /\ b # {} /\ \A g \in b : g \in Ends(s) /\ g < e
  BY EndType DEF EndsBefore
<1>2. \A g \in Ends(s) : g < e => g \in b
  BY DEF EndsBefore
<1>3. From(s, e) = Max(b) + 2
  BY <1>1 DEF From
<1> HIDE DEF b, n
<1>4. Max(b) \in b /\ \A g \in b : Max(b) >= g
  BY <1>1, MaxProps
<1> DEFINE f == Max(b)
<1>6. From(s, e) = f + 2 /\ f \in b /\ \A g \in b : f >= g
  BY <1>3, <1>4
<1> HIDE DEF f
<1>8. f \in Nat /\ \A g \in b : g \in Nat
  BY <1>1, <1>6
<1>5. f \in Ends(s) /\ f < e
  BY <1>1, <1>6
<1>7. f + 2 <= e /\ \A g \in Ends(s) : g < e => g <= f
  BY <1>2, <1>5, <1>6, <1>8, EndType
<1> QED
  BY <1>5, <1>6, <1>7

LEMMA LineJoins ==
  ASSUME NEW s \in Seq(Byte), NEW e \in Ends(s), NEW i \in Nat, i + 1 <= e
  PROVE  /\ Part(s, 1, i) \in Seq(Byte) /\ Line(s, i + 1, e) \in Seq(Byte)
         /\ Len(Line(s, i + 1, e)) = e - (i + 1)
         /\ Part(s, 1, i) \o (Line(s, i + 1, e) \o CRLF) = Part(s, 1, e + 1)
<1> DEFINE a == Part(s, 1, i)
           l == Line(s, i + 1, e)
           c == e - 1
           j == i + 1
<1>1. e \in 1..Len(s) /\ e + 1 \in 1..Len(s) /\ s[e] = "CR" /\ s[e + 1] = "LF" /\ Len(s) \in Nat
  BY EndType
<1>2. /\ i \in 0..Len(s) /\ c \in i..Len(s) /\ c \in Nat /\ c <= Len(s) /\ j \in Nat \ {0}
      /\ c - j + 1 = e - j /\ (j <= c \/ c - j + 1 = 0) /\ e + 1 - 1 = e
  BY <1>1
<1>3. a \in Seq(Byte)
  BY <1>2, PrefixType
<1>4. l = Part(s, j, c)
  BY DEF Line
<1>5. a \o Part(s, j, c) = Part(s, 1, c)
  BY <1>2, JoinPart
<1> HIDE DEF c, j
<1>6. Part(s, j, c) \in Seq(Byte) /\ Len(Part(s, j, c)) = IF j <= c THEN c - j + 1 ELSE 0
  BY <1>2, PartType
<1>7. l \in Seq(Byte) /\ Len(l) = e - j
  BY <1>2, <1>4, <1>6
<1>8. Part(s, 1, c) \o <<"CR">> = Part(s, 1, e)
  BY <1>1, JoinByte DEF c
<1>9. Part(s, 1, e) \o <<"LF">> = Part(s, 1, e + 1)
  <2> DEFINE d == e + 1
  <2>1. d \in 1..Len(s) /\ d - 1 = e /\ s[d] = "LF"
    BY <1>1, <1>2
  <2> HIDE DEF d
  <2>2. Part(s, 1, e) \o <<"LF">> = Part(s, 1, d)
    BY <2>1, JoinByte
  <2> QED
    BY <2>2 DEF d
<1> DEFINE x == "CR"
           y == "LF"
           full == Part(s, 1, e + 1)
<1>10. x \in Byte /\ y \in Byte /\ <<x>> \in Seq(Byte) /\ <<y>> \in Seq(Byte)
  BY Bytes
<1>11. CRLF = <<x, y>>
  BY DEF CRLF
<1>12. ((a \o l) \o <<x>>) \o <<y>> = full
  BY <1>4, <1>5, <1>8, <1>9
<1> HIDE DEF x, y, a, l, full
<1>13. CRLF = <<x>> \o <<y>>
  BY <1>10, <1>11, Pair
<1>14. a \o l \in Seq(Byte) /\ <<x>> \o <<y>> \in Seq(Byte)
  BY <1>3, <1>7, <1>10, ConcatProperties
<1>15. ((a \o l) \o <<x>>) \o <<y>> = (a \o l) \o (<<x>> \o <<y>>)
  BY <1>10, <1>14, ConcatAssociative
<1>16. (a \o l) \o (<<x>> \o <<y>>) = a \o (l \o (<<x>> \o <<y>>))
  <2> DEFINE z == <<x>> \o <<y>>
  <2>1. a \in Seq(Byte) /\ l \in Seq(Byte) /\ z \in Seq(Byte)
    BY <1>3, <1>7, <1>14
  <2> HIDE DEF z
  <2>2. (a \o l) \o z = a \o (l \o z)
    BY <2>1, ConcatAssociative
  <2> QED
    BY <2>2 DEF z
<1>17. a \o (l \o CRLF) = full
  BY <1>12, <1>13, <1>15, <1>16
<1> QED
  BY <1>3, <1>7, <1>17 DEF a, l, full, j

HasLine(s, e, first) ==
  \E m, u \in Seq(Byte), hs \in Seq(HeaderType) :
    /\ Reads(Fresh, Part(s, 1, e + 1), At("header_line_start", m, u, hs))
    /\ e # first => hs # <<>>

LEMMA LinesRead ==
  ASSUME NEW s \in Seq(Byte), NEW first, NEW last, HeadLines(s, first, last)
  PROVE  \A e \in Ends(s) \ {last} : HasLine(s, e, first)
<1> DEFINE P(k) == \A e \in Ends(s) \ {last} : e <= k => HasLine(s, e, first)
           T == {k \in Nat : P(k)}
<1>0. \A e \in Ends(s) : e \in 1..Len(s) /\ e \in Nat
  BY EndType
<1>00. first \in Ends(s) /\ \A e \in Ends(s) : first <= e
  BY DEF HeadLines
<1>1. ASSUME NEW e \in Ends(s) \ {last},
             \A f \in Ends(s) \ {last} : f < e => HasLine(s, f, first)
      PROVE  HasLine(s, e, first)
  <2>1. CASE e = first
    <3>1. EndsBefore(s, e) = {}
      BY <1>0, <1>00, <2>1 DEF EndsBefore
    <3>2. From(s, e) = 1 /\ 0 + 1 = 1 /\ 0 + 1 <= e
      BY <1>0, <3>1 DEF From
    <3> DEFINE l == Line(s, 1, e)
    <3>3. Part(s, 1, 0) \o (l \o CRLF) = Part(s, 1, e + 1) /\ l \in Seq(Byte)
      BY <1>0, <3>2, LineJoins
    <3>4. Part(s, 1, 0) = <<>>
      BY PartNone
    <3>5. l \o CRLF \in Seq(Byte)
      BY <3>3, ReadsEndOfLine, ConcatProperties, EmptySeq
    <3>6. l \o CRLF = Part(s, 1, e + 1)
      <4> DEFINE t == l \o CRLF
      <4>1. t \in Seq(Byte)
        BY <3>5
      <4>2. Part(s, 1, 0) \o t = Part(s, 1, e + 1)
        BY <3>3
      <4> HIDE DEF t
      <4>3. <<>> \o t = t
        BY <4>1, ConcatEmpty
      <4> QED
        BY <3>4, <4>2, <4>3 DEF t
    <3>7. IsRequestLine(l)
      BY <2>1, <3>2 DEF HeadLines, LineAt
    <3> HIDE DEF l
    <3>8. \E m, u \in Seq(Byte) : Reads(Fresh, l \o CRLF, At("header_line_start", m, u, <<>>))
      BY <3>3, <3>7, ReadsFirstLine
    <3> QED
      BY <2>1, <3>6, <3>8, EmptySeq DEF HasLine
  <2>2. CASE e # first
    <3>1. first \in EndsBefore(s, e)
      BY <1>0, <1>00, <2>2 DEF EndsBefore
    <3>2. PICK f \in Ends(s) : /\ f + 2 <= e /\ From(s, e) = f + 2
                               /\ \A g \in Ends(s) : g < e => g <= f
      BY <3>1, Prior
    <3>3. f \in Nat /\ e \in Nat /\ f < e /\ f + 1 \in Nat /\ f + 1 + 1 = f + 2 /\ f + 1 + 1 <= e
      BY <1>0, <3>2
    <3>4. f # last
      BY <3>3 DEF HeadLines
    <3>5. PICK m \in Seq(Byte), u \in Seq(Byte), hs \in Seq(HeaderType) :
            /\ Reads(Fresh, Part(s, 1, f + 1), At("header_line_start", m, u, hs))
            /\ f # first => hs # <<>>
      BY <1>1, <3>3, <3>4 DEF HasLine
    <3> DEFINE l == Line(s, f + 2, e)
               a == Part(s, 1, f + 1)
    <3>6. a \in Seq(Byte) /\ l \in Seq(Byte) /\ a \o (l \o CRLF) = Part(s, 1, e + 1)
      <4> DEFINE i == f + 1
      <4>1. i \in Nat /\ i + 1 <= e /\ i + 1 = f + 2
        BY <3>3
      <4> HIDE DEF i
      <4>2. /\ Part(s, 1, i) \in Seq(Byte) /\ Line(s, i + 1, e) \in Seq(Byte)
            /\ Part(s, 1, i) \o (Line(s, i + 1, e) \o CRLF) = Part(s, 1, e + 1)
        BY <4>1, LineJoins
      <4> QED
        BY <4>1, <4>2 DEF i
    <3>7. IsHeaderLine(l) \/ (IsContinuation(l) /\ hs # <<>>)
      <4>1. LineAt(s, e) = l
        BY <3>2 DEF LineAt
      <4>2. \A g \in Ends(s) : first < g /\ g < e => f # first
        <5> TAKE g \in Ends(s)
        <5>1. g \in Nat /\ first \in Nat
          BY <1>0, <1>00
        <5>2. g < e => g <= f
          BY <3>2
        <5> QED
          BY <3>3, <5>1, <5>2
      <4>3. \/ IsHeaderLine(LineAt(s, e))
            \/ IsContinuation(LineAt(s, e)) /\ \E g \in Ends(s) : first < g /\ g < e
        BY <2>2 DEF HeadLines
      <4> QED
        BY <3>5, <4>1, <4>2, <4>3
    <3> HIDE DEF l, a
    <3>8. PICK new \in Seq(HeaderType) :
             /\ new # <<>>
             /\ Reads(At("header_line_start", m, u, hs), l \o CRLF,
                      At("header_line_start", m, u, new))
      BY <3>6, <3>7, ReadsNextLine
    <3>9. /\ At("header_line_start", m, u, hs) \in Parser
          /\ At("header_line_start", m, u, hs).result = "indeterminate"
      <4>1. "header_line_start" \in StateName
        BY DEF StateName
      <4> QED
        BY <4>1, AtType DEF At
    <3>10. l \o CRLF \in Seq(Byte)
      BY <3>6, ReadsEndOfLine, ConcatProperties, EmptySeq
    <3>11. Reads(Fresh, a \o (l \o CRLF), At("header_line_start", m, u, new))
      <4>1. Reads(Fresh, a, At("header_line_start", m, u, hs))
        BY <3>5 DEF a
      <4> QED
        BY <3>6, <3>8, <3>9, <3>10, <4>1, FreshType, ReadsThen
    <3> QED
      BY <3>6, <3>8, <3>11 DEF HasLine
  <2> QED
    BY <2>1, <2>2
<1>2. 0 \in T
  BY <1>0
<1>3. ASSUME NEW k \in T PROVE k + 1 \in T
  <2>1. k \in Nat /\ P(k)
    OBVIOUS
  <2>2. ASSUME NEW e \in Ends(s) \ {last}, e <= k + 1 PROVE HasLine(s, e, first)
    <3>1. CASE e <= k
      BY <2>1, <3>1
    <3>2. CASE e = k + 1
      <4>1. \A f \in Ends(s) \ {last} : f < e => f <= k
        BY <1>0, <2>1, <3>2
      <4> QED
        BY <1>1, <2>1, <4>1
    <3> QED
      BY <1>0, <2>1, <2>2, <3>1, <3>2
  <2> QED
    BY <2>1, <2>2
<1>4. T = Nat
  <2>1. T \in SUBSET Nat
    OBVIOUS
  <2> HIDE DEF T
  <2> QED
    BY <1>2, <1>3, <2>1, InductionOnNat
<1> QED
  BY <1>0, <1>4

(* Every head is read to its last byte, and with it is good.                 *)
LEMMA HeadGood ==
  ASSUME NEW s \in Seq(Byte), IsHead(s)
  PROVE  \E q \in Parser : Reads(Fresh, s, q) /\ q.result = "good"
<1>1. PICK first, last \in Ends(s) : HeadLines(s, first, last)
  BY HeadHasLines
<1>2. /\ \A e \in Ends(s) : first <= e
      /\ last = Len(s) - 1 /\ LineAt(s, last) = <<>> /\ first # last
  BY <1>1 DEF HeadLines
<1>3. \A e \in Ends(s) : e \in Nat /\ e \in 1..Len(s)
  BY EndType
<1>4. first \in EndsBefore(s, last)
  BY <1>2, <1>3 DEF EndsBefore
<1>5. PICK f \in Ends(s) : f + 2 <= last /\ From(s, last) = f + 2
  BY <1>4, Prior
<1>6. f \in Nat /\ last \in Nat /\ f # last /\ last + 1 = Len(s)
  BY <1>2, <1>3, <1>5
<1> DEFINE i == f + 1
<1>7. i \in Nat /\ i + 1 <= last /\ i + 1 = f + 2
  BY <1>5, <1>6
<1> HIDE DEF i
<1>8. /\ Part(s, 1, i) \in Seq(Byte) /\ Line(s, i + 1, last) \in Seq(Byte)
      /\ Part(s, 1, i) \o (Line(s, i + 1, last) \o CRLF) = Part(s, 1, last + 1)
  BY <1>7, LineJoins
<1>9. Line(s, i + 1, last) = <<>>
  BY <1>2, <1>5, <1>7 DEF LineAt
<1> DEFINE l == Line(s, i + 1, last)
           a == Part(s, 1, i)
<1>10. a \o (l \o CRLF) = s
  BY <1>6, <1>8, PartWhole
<1>11. l = <<>> /\ a \in Seq(Byte)
  BY <1>8, <1>9
<1> HIDE DEF l
<1>12. l \o CRLF = CRLF /\ CRLF \in Seq(Byte)
  <2>1. CRLF \in Seq(Byte)
    BY ReadsEndOfLine, EmptySeq
  <2> QED
    BY <1>11, <2>1, ConcatEmpty
<1>13. PICK m \in Seq(Byte), u \in Seq(Byte), hs \in Seq(HeaderType) :
         Reads(Fresh, a, At("header_line_start", m, u, hs))
  <2>1. HasLine(s, f, first)
    BY <1>1, <1>6, LinesRead
  <2> QED
    BY <2>1 DEF HasLine, i
<1> HIDE DEF a
<1>14. a \o CRLF = s
  BY <1>10, <1>12
<1>15. /\ At("header_line_start", m, u, hs) \in Parser
       /\ At("header_line_start", m, u, hs).result = "indeterminate"
       /\ Good(m, u, hs) \in Parser /\ Good(m, u, hs).result = "good"
  <2>1. "header_line_start" \in StateName
    BY DEF StateName
  <2> QED
    BY <2>1, AtType DEF At, Good
<1>16. Reads(At("header_line_start", m, u, hs), CRLF, Good(m, u, hs))
  BY ReadsEndOfLine
<1>17. Reads(Fresh, a \o CRLF, Good(m, u, hs))
  BY <1>11, <1>12, <1>13, <1>15, <1>16, FreshType, ReadsThen
<1> QED
  BY <1>14, <1>15, <1>17

-----------------------------------------------------------------------------
(* What was read to its end, and good, is a head.  The lines are told by     *)
(* their positions in t: k bytes of it have been read.                       *)

Run(t, i, j, S) == \A x \in i..j : t[x] \in S

MethodTo(t, i) == i >= 2 /\ t[i] = "SP" /\ Run(t, 1, i - 1, TokenByte)
UriTo(t, i, j) ==
  MethodTo(t, i) /\ i < j /\ t[j] = "SP" /\ Run(t, i + 1, j - 1, TextByte \ {"SP"})
Letters(t, j, n) ==
  /\ n >= 1 => t[j + 1] = "H"
  /\ n >= 2 => t[j + 2] = "T"
  /\ n >= 3 => t[j + 3] = "T"
  /\ n >= 4 => t[j + 4] = "P"
  /\ n >= 5 => t[j + 5] = "/"
DotAt(t, j, n) ==
  Letters(t, j, 5) /\ j + 7 <= n /\ t[n] = "." /\ Run(t, j + 6, n - 1, Digit)
RequestTo(t, k) ==
  \E i, j, n \in Nat : UriTo(t, i, j) /\ DotAt(t, j, n) /\ n < k /\ Run(t, n + 1, k, Digit)

InVersion(t, k, n) == \E i, j \in Nat : UriTo(t, i, j) /\ Letters(t, j, n) /\ k = j + n

RequestShape(t, k, st) ==
  /\ st = "method_start" => k = 0
  /\ st = "method" => k >= 1 /\ Run(t, 1, k, TokenByte)
  /\ st = "uri" => \E i \in Nat : MethodTo(t, i) /\ i <= k /\ Run(t, i + 1, k, TextByte \ {"SP"})
  /\ st = "http_version_h" => InVersion(t, k, 0)
  /\ st = "http_version_t_1" => InVersion(t, k, 1)
  /\ st = "http_version_t_2" => InVersion(t, k, 2)
  /\ st = "http_version_p" => InVersion(t, k, 3)
  /\ st = "http_version_slash" => InVersion(t, k, 4)
  /\ st = "http_version_major_start" => InVersion(t, k, 5)
  /\ st = "http_version_major" =>
       \E i, j \in Nat : UriTo(t, i, j) /\ Letters(t, j, 5) /\ j + 6 <= k /\ Run(t, j + 6, k, Digit)
  /\ st = "http_version_minor_start" => \E i, j \in Nat : UriTo(t, i, j) /\ DotAt(t, j, k)
  /\ st = "http_version_minor" => RequestTo(t, k)
  /\ st = "expecting_newline_1" => k >= 1 /\ t[k] = "CR" /\ RequestTo(t, k - 1)

RequestState ==
  {"method_start", "method", "uri", "http_version_h", "http_version_t_1",
   "http_version_t_2", "http_version_p", "http_version_slash",
   "http_version_major_start", "http_version_major", "http_version_minor_start",
   "http_version_minor", "expecting_newline_1"}

LEMMA RunMore ==
  ASSUME NEW t, NEW i \in Nat, NEW k \in Nat, NEW S, t[k + 1] \in S
  PROVE  /\ Run(t, i, k, S) => Run(t, i, k + 1, S)
         /\ Run(t, k + 1, k + 1, S)
         /\ \A j \in Nat : j > k => Run(t, j, k, S)
BY DEF Run

LEMMA RequestEdgeCases ==
  ASSUME NEW e \in RequestLineEdges
  PROVE  \/ e.from = "method_start" /\ e.on = TokenByte /\ e.to = "method"
         \/ e.from = "method" /\ e.on = {"SP"} /\ e.to = "uri"
         \/ e.from = "method" /\ e.on = TokenByte /\ e.to = "method"
         \/ e.from = "uri" /\ e.on = {"SP"} /\ e.to = "http_version_h"
         \/ e.from = "uri" /\ e.on = TextByte \ {"SP"} /\ e.to = "uri"
         \/ e.from = "http_version_h" /\ e.on = {"H"} /\ e.to = "http_version_t_1"
         \/ e.from = "http_version_t_1" /\ e.on = {"T"} /\ e.to = "http_version_t_2"
         \/ e.from = "http_version_t_2" /\ e.on = {"T"} /\ e.to = "http_version_p"
         \/ e.from = "http_version_p" /\ e.on = {"P"} /\ e.to = "http_version_slash"
         \/ e.from = "http_version_slash" /\ e.on = {"/"} /\ e.to = "http_version_major_start"
         \/ e.from = "http_version_major_start" /\ e.on = Digit /\ e.to = "http_version_major"
         \/ e.from = "http_version_major" /\ e.on = {"."} /\ e.to = "http_version_minor_start"
         \/ e.from = "http_version_major" /\ e.on = Digit /\ e.to = "http_version_major"
         \/ e.from = "http_version_minor_start" /\ e.on = Digit /\ e.to = "http_version_minor"
         \/ e.from = "http_version_minor" /\ e.on = {"CR"} /\ e.to = "expecting_newline_1"
         \/ e.from = "http_version_minor" /\ e.on = Digit /\ e.to = "http_version_minor"
         \/ e.from = "expecting_newline_1" /\ e.on = {"LF"} /\ e.to = "header_line_start"
BY DEF RequestLineEdges, Edge

LEMMA RequestStep ==
  ASSUME NEW t, NEW k \in Nat, NEW e \in RequestLineEdges, t[k + 1] \in e.on,
         RequestShape(t, k, e.from)
  PROVE  \/ e.to \in RequestState /\ RequestShape(t, k + 1, e.to)
         \/ /\ e.from = "expecting_newline_1" /\ e.to = "header_line_start"
            /\ t[k + 1] = "LF" /\ k >= 1 /\ t[k] = "CR" /\ RequestTo(t, k - 1)
<1> DEFINE b == t[k + 1]
           m == k + 1
<1>0. k + 1 \in Nat /\ k + 1 - 1 = k
  OBVIOUS
<1>1. CASE e.from = "method_start" /\ e.on = TokenByte /\ e.to = "method"
  BY <1>1, RunMore DEF RequestShape, RequestState
<1>2. CASE e.from = "method" /\ e.on = {"SP"} /\ e.to = "uri"
  <2>1. k >= 1 /\ Run(t, 1, k, TokenByte) /\ t[k + 1] = "SP"
    BY <1>2 DEF RequestShape
  <2>2. MethodTo(t, k + 1)
    BY <1>0, <2>1 DEF MethodTo
  <2>3. Run(t, k + 1 + 1, k + 1, TextByte \ {"SP"})
    BY DEF Run
  <2>4. \E i \in Nat : MethodTo(t, i) /\ i <= k + 1 /\ Run(t, i + 1, k + 1, TextByte \ {"SP"})
    BY <1>0, <2>2, <2>3
  <2> QED
    BY <1>2, <2>4 DEF RequestShape, RequestState
<1>3. CASE e.from = "method" /\ e.on = TokenByte /\ e.to = "method"
  BY <1>3, RunMore DEF RequestShape, RequestState
<1>4. CASE e.from = "uri" /\ e.on = {"SP"} /\ e.to = "http_version_h"
  <2>1. PICK i \in Nat : MethodTo(t, i) /\ i <= k /\ Run(t, i + 1, k, TextByte \ {"SP"})
    BY <1>4 DEF RequestShape
  <2>2. UriTo(t, i, k + 1)
    BY <1>0, <1>4, <2>1 DEF UriTo
  <2>3. InVersion(t, k + 1, 0)
    BY <1>0, <2>2 DEF InVersion, Letters
  <2> QED
    BY <1>4, <2>3 DEF RequestShape, RequestState
<1>5. CASE e.from = "uri" /\ e.on = TextByte \ {"SP"} /\ e.to = "uri"
  <2>1. PICK i \in Nat : MethodTo(t, i) /\ i <= k /\ Run(t, i + 1, k, TextByte \ {"SP"})
    BY <1>5 DEF RequestShape
  <2>2. Run(t, i + 1, k + 1, TextByte \ {"SP"}) /\ i <= k + 1
    BY <1>5, <2>1, RunMore
  <2> QED
    BY <1>5, <2>1, <2>2 DEF RequestShape, RequestState
<1>6. ASSUME NEW n \in 0..4, InVersion(t, k, n),
             n = 0 => t[k + 1] = "H", n = 1 => t[k + 1] = "T", n = 2 => t[k + 1] = "T",
             n = 3 => t[k + 1] = "P", n = 4 => t[k + 1] = "/"
      PROVE  InVersion(t, k + 1, n + 1)
  <2>1. PICK i, j \in Nat : UriTo(t, i, j) /\ Letters(t, j, n) /\ k = j + n
    BY <1>6 DEF InVersion
  <2>2. Letters(t, j, n + 1) /\ k + 1 = j + (n + 1)
    BY <1>6, <2>1 DEF Letters
  <2> QED
    BY <2>1, <2>2 DEF InVersion
<1>7. CASE e.from = "http_version_h" /\ e.on = {"H"} /\ e.to = "http_version_t_1"
  BY <1>6, <1>7 DEF RequestShape, RequestState
<1>8. CASE e.from = "http_version_t_1" /\ e.on = {"T"} /\ e.to = "http_version_t_2"
  BY <1>6, <1>8 DEF RequestShape, RequestState
<1>9. CASE e.from = "http_version_t_2" /\ e.on = {"T"} /\ e.to = "http_version_p"
  BY <1>6, <1>9 DEF RequestShape, RequestState
<1>10. CASE e.from = "http_version_p" /\ e.on = {"P"} /\ e.to = "http_version_slash"
  BY <1>6, <1>10 DEF RequestShape, RequestState
<1>11. CASE e.from = "http_version_slash" /\ e.on = {"/"} /\ e.to = "http_version_major_start"
  BY <1>6, <1>11 DEF RequestShape, RequestState
<1>12. CASE e.from = "http_version_major_start" /\ e.on = Digit /\ e.to = "http_version_major"
  <2>1. PICK i, j \in Nat : UriTo(t, i, j) /\ Letters(t, j, 5) /\ k = j + 5
    BY <1>12 DEF RequestShape, InVersion
  <2>2. j + 6 = k + 1 /\ j + 6 <= k + 1 /\ Run(t, k + 1, k + 1, Digit)
    BY <1>12, <2>1, RunMore
  <2>3. Run(t, j + 6, k + 1, Digit)
    BY <2>2
  <2> QED
    BY <1>12, <2>1, <2>2, <2>3 DEF RequestShape, RequestState
<1>13. CASE e.from = "http_version_major" /\ e.on = {"."} /\ e.to = "http_version_minor_start"
  <2>1. PICK i, j \in Nat :
          UriTo(t, i, j) /\ Letters(t, j, 5) /\ j + 6 <= k /\ Run(t, j + 6, k, Digit)
    BY <1>13 DEF RequestShape
  <2>2. DotAt(t, j, k + 1)
    BY <1>0, <1>13, <2>1 DEF DotAt
  <2> QED
    BY <1>13, <2>1, <2>2 DEF RequestShape, RequestState
<1>14. CASE e.from = "http_version_major" /\ e.on = Digit /\ e.to = "http_version_major"
  <2>1. PICK i, j \in Nat :
          UriTo(t, i, j) /\ Letters(t, j, 5) /\ j + 6 <= k /\ Run(t, j + 6, k, Digit)
    BY <1>14 DEF RequestShape
  <2>2. Run(t, j + 6, k + 1, Digit) /\ j + 6 <= k + 1
    BY <1>14, <2>1, RunMore
  <2> QED
    BY <1>14, <2>1, <2>2 DEF RequestShape, RequestState
<1>15. CASE e.from = "http_version_minor_start" /\ e.on = Digit /\ e.to = "http_version_minor"
  <2>1. PICK i, j \in Nat : UriTo(t, i, j) /\ DotAt(t, j, k)
    BY <1>15 DEF RequestShape
  <2>2. Run(t, k + 1, k + 1, Digit) /\ k < k + 1
    BY <1>15, RunMore
  <2>3. RequestTo(t, k + 1)
    BY <2>1, <2>2 DEF RequestTo
  <2> QED
    BY <1>15, <2>3 DEF RequestShape, RequestState
<1>16. CASE e.from = "http_version_minor" /\ e.on = {"CR"} /\ e.to = "expecting_newline_1"
  BY <1>0, <1>16 DEF RequestShape, RequestState
<1>17. CASE e.from = "http_version_minor" /\ e.on = Digit /\ e.to = "http_version_minor"
  <2>1. PICK i, j, n \in Nat :
          UriTo(t, i, j) /\ DotAt(t, j, n) /\ n < k /\ Run(t, n + 1, k, Digit)
    BY <1>17 DEF RequestShape, RequestTo
  <2>2. Run(t, n + 1, k + 1, Digit) /\ n < k + 1
    <3> DEFINE i0 == n + 1
    <3>1. i0 \in Nat /\ t[k + 1] \in Digit /\ Run(t, i0, k, Digit) /\ n < k + 1
      BY <1>17, <2>1
    <3> HIDE DEF i0
    <3>2. Run(t, i0, k + 1, Digit)
      BY <3>1, RunMore
    <3> QED
      BY <3>1, <3>2 DEF i0
  <2>3. RequestTo(t, k + 1)
    BY <2>1, <2>2 DEF RequestTo
  <2> QED
    BY <1>17, <2>3 DEF RequestShape, RequestState
<1>18. CASE e.from = "expecting_newline_1" /\ e.on = {"LF"} /\ e.to = "header_line_start"
  BY <1>18 DEF RequestShape
<1> QED
  BY <1>1, <1>2, <1>3, <1>4, <1>5, <1>7, <1>8, <1>9, <1>10, <1>11, <1>12, <1>13, <1>14,
     <1>15, <1>16, <1>17, <1>18, RequestEdgeCases

NameTo(t, c, i) == c < i /\ t[i] = ":" /\ Run(t, c, i - 1, TokenByte)
HeaderTo(t, c, k) ==
  \E i \in Nat : NameTo(t, c, i) /\ i + 1 <= k /\ t[i + 1] = "SP" /\ Run(t, i + 2, k, TextByte)
MoreTo(t, c, k) ==
  \E i \in Nat : /\ c <= i /\ i <= k /\ Run(t, c, i, Blank) /\ Run(t, i + 1, k, TextByte)
                 /\ i < k => t[i + 1] # "SP"
LineTo(t, c, first, k) == HeaderTo(t, c, k) \/ (MoreTo(t, c, k) /\ first + 2 < c)

(* The lines that end before c are a request line and header lines.          *)
LineOk(t, first, e) ==
  \E f \in Ends(t) : /\ f < e /\ LineTo(t, f + 2, first, e - 1)
                     /\ \A g \in Ends(t) : g < e => g <= f
Lines(t, c, first) ==
  /\ first \in Ends(t) /\ c - 2 \in Ends(t) /\ first <= c - 2 /\ RequestTo(t, first - 1)
  /\ \A e \in Ends(t) : e <= c - 2 => first <= e /\ (e # first => LineOk(t, first, e))

HeaderShape(t, k, st, c, first) ==
  /\ st = "header_line_start" => c = k + 1
  /\ st = "header_lws" => c <= k /\ first + 2 < c /\ Run(t, c, k, Blank)
  /\ st = "header_name" => c <= k /\ Run(t, c, k, TokenByte)
  /\ st = "space_before_header_value" => NameTo(t, c, k)
  /\ st = "header_value" =>
       \/ HeaderTo(t, c, k)
       \/ /\ first + 2 < c
          /\ \E i \in Nat : /\ c <= i /\ i < k /\ Run(t, c, i, Blank) /\ t[i + 1] # "SP"
                            /\ Run(t, i + 1, k, TextByte)
  /\ st = "expecting_newline_2" => c < k /\ t[k] = "CR" /\ LineTo(t, c, first, k - 1)
  /\ st = "expecting_newline_3" => c = k /\ t[k] = "CR"

HeaderState ==
  {"header_line_start", "header_lws", "header_name", "space_before_header_value",
   "header_value", "expecting_newline_2", "expecting_newline_3"}

LEMMA HeaderEdgeCases ==
  ASSUME NEW e \in HeaderEdges
  PROVE  \/ e.from = "header_line_start" /\ e.on = {"CR"} /\ e.to = "expecting_newline_3"
         \/ e.from = "header_line_start" /\ e.on = Blank /\ e.to = "header_lws"
         \/ e.from = "header_line_start" /\ e.on = TokenByte /\ e.to = "header_name"
         \/ e.from = "header_lws" /\ e.on = {"CR"} /\ e.to = "expecting_newline_2"
         \/ e.from = "header_lws" /\ e.on = Blank /\ e.to = "header_lws"
         \/ e.from = "header_lws" /\ e.on = TextByte \ {"SP"} /\ e.to = "header_value"
         \/ e.from = "header_name" /\ e.on = {":"} /\ e.to = "space_before_header_value"
         \/ e.from = "header_name" /\ e.on = TokenByte /\ e.to = "header_name"
         \/ e.from = "space_before_header_value" /\ e.on = {"SP"} /\ e.to = "header_value"
         \/ e.from = "header_value" /\ e.on = {"CR"} /\ e.to = "expecting_newline_2"
         \/ e.from = "header_value" /\ e.on = TextByte /\ e.to = "header_value"
         \/ e.from = "expecting_newline_2" /\ e.on = {"LF"} /\ e.to = "header_line_start"
         \/ e.from = "expecting_newline_3" /\ e.on = {"LF"} /\ e.to = "header_good"
         \/ e.from = "header_good"
BY DEF HeaderEdges, Edge, Blank

LEMMA HeaderStep ==
  ASSUME NEW t, NEW k \in Nat, NEW e \in HeaderEdges, t[k + 1] \in e.on,
         NEW c \in Nat, NEW first \in Nat, HeaderShape(t, k, e.from, c, first),
         e.from \in HeaderState,
         e.to = "header_lws" /\ e.from = "header_line_start" => first + 2 < c
  PROVE  \/ e.to \in HeaderState /\ HeaderShape(t, k + 1, e.to, c, first)
         \/ /\ e.to = "header_line_start" /\ t[k + 1] = "LF"
            /\ c < k /\ t[k] = "CR" /\ LineTo(t, c, first, k - 1)
         \/ e.to = "header_good" /\ t[k + 1] = "LF" /\ c = k /\ t[k] = "CR"
<1>0. k + 1 \in Nat /\ k + 1 - 1 = k
  OBVIOUS
<1>1. CASE e.from = "header_line_start" /\ e.on = {"CR"} /\ e.to = "expecting_newline_3"
  BY <1>1 DEF HeaderShape, HeaderState
<1>2. CASE e.from = "header_line_start" /\ e.on = Blank /\ e.to = "header_lws"
  <2>1. c = k + 1 /\ Run(t, k + 1, k + 1, Blank)
    BY <1>2, RunMore DEF HeaderShape
  <2> QED
    BY <1>2, <2>1 DEF HeaderShape, HeaderState
<1>3. CASE e.from = "header_line_start" /\ e.on = TokenByte /\ e.to = "header_name"
  <2>1. c = k + 1 /\ Run(t, k + 1, k + 1, TokenByte)
    BY <1>3, RunMore DEF HeaderShape
  <2> QED
    BY <1>3, <2>1 DEF HeaderShape, HeaderState
<1>4. CASE e.from = "header_lws" /\ e.on = {"CR"} /\ e.to = "expecting_newline_2"
  <2>1. c <= k /\ first + 2 < c /\ Run(t, c, k, Blank)
    BY <1>4 DEF HeaderShape
  <2>2. Run(t, k + 1, k, TextByte)
    BY DEF Run
  <2>3. LineTo(t, c, first, k)
    BY <2>1, <2>2 DEF LineTo, MoreTo
  <2> QED
    BY <1>0, <1>4, <2>1, <2>3 DEF HeaderShape, HeaderState
<1>5. CASE e.from = "header_lws" /\ e.on = Blank /\ e.to = "header_lws"
  <2>1. c <= k /\ first + 2 < c /\ Run(t, c, k, Blank)
    BY <1>5 DEF HeaderShape
  <2>2. Run(t, c, k + 1, Blank) /\ c <= k + 1
    BY <1>5, <2>1, RunMore
  <2> QED
    BY <1>5, <2>1, <2>2 DEF HeaderShape, HeaderState
<1>6. CASE e.from = "header_lws" /\ e.on = TextByte \ {"SP"} /\ e.to = "header_value"
  <2>1. c <= k /\ first + 2 < c /\ Run(t, c, k, Blank)
    BY <1>6 DEF HeaderShape
  <2>2. Run(t, k + 1, k + 1, TextByte) /\ t[k + 1] # "SP" /\ k < k + 1
    <3>1. t[k + 1] \in TextByte /\ t[k + 1] # "SP"
      BY <1>6
    <3> QED
      BY <3>1, RunMore
  <2> QED
    BY <1>6, <2>1, <2>2 DEF HeaderShape, HeaderState
<1>7. CASE e.from = "header_name" /\ e.on = {":"} /\ e.to = "space_before_header_value"
  BY <1>0, <1>7 DEF HeaderShape, HeaderState, NameTo
<1>8. CASE e.from = "header_name" /\ e.on = TokenByte /\ e.to = "header_name"
  <2>1. Run(t, c, k + 1, TokenByte) /\ c <= k + 1
    BY <1>8, RunMore DEF HeaderShape
  <2> QED
    BY <1>8, <2>1 DEF HeaderShape, HeaderState
<1>9. CASE e.from = "space_before_header_value" /\ e.on = {"SP"} /\ e.to = "header_value"
  <2>1. NameTo(t, c, k) /\ t[k + 1] = "SP"
    BY <1>9 DEF HeaderShape
  <2>2. Run(t, k + 2, k + 1, TextByte)
    BY DEF Run
  <2>3. HeaderTo(t, c, k + 1)
    BY <2>1, <2>2 DEF HeaderTo
  <2> QED
    BY <1>9, <2>3 DEF HeaderShape, HeaderState
<1>10. CASE e.from = "header_value" /\ e.on = {"CR"} /\ e.to = "expecting_newline_2"
  <2>1. CASE HeaderTo(t, c, k)
    <3>1. c < k + 1
      BY <2>1 DEF HeaderTo, NameTo
    <3> QED
      BY <1>0, <1>10, <2>1, <3>1 DEF HeaderShape, HeaderState, LineTo
  <2>2. CASE /\ first + 2 < c
             /\ \E i \in Nat : /\ c <= i /\ i < k /\ Run(t, c, i, Blank) /\ t[i + 1] # "SP"
                               /\ Run(t, i + 1, k, TextByte)
    <3>1. MoreTo(t, c, k) /\ c < k + 1
      BY <2>2 DEF MoreTo
    <3> QED
      BY <1>0, <1>10, <2>2, <3>1 DEF HeaderShape, HeaderState, LineTo
  <2> QED
    BY <1>10, <2>1, <2>2 DEF HeaderShape
<1>11. CASE e.from = "header_value" /\ e.on = TextByte /\ e.to = "header_value"
  <2>1. CASE HeaderTo(t, c, k)
    <3>1. PICK i \in Nat :
            NameTo(t, c, i) /\ i + 1 <= k /\ t[i + 1] = "SP" /\ Run(t, i + 2, k, TextByte)
      BY <2>1 DEF HeaderTo
    <3>2. Run(t, i + 2, k + 1, TextByte) /\ i + 1 <= k + 1
      BY <1>11, <3>1, RunMore
    <3>3. HeaderTo(t, c, k + 1)
      BY <3>1, <3>2 DEF HeaderTo
    <3> QED
      BY <1>11, <3>3 DEF HeaderShape, HeaderState
  <2>2. CASE /\ first + 2 < c
             /\ \E i \in Nat : /\ c <= i /\ i < k /\ Run(t, c, i, Blank) /\ t[i + 1] # "SP"
                               /\ Run(t, i + 1, k, TextByte)
    <3>1. PICK i \in Nat : /\ c <= i /\ i < k /\ Run(t, c, i, Blank) /\ t[i + 1] # "SP"
                           /\ Run(t, i + 1, k, TextByte)
      BY <2>2
    <3>2. Run(t, i + 1, k + 1, TextByte) /\ i < k + 1
      BY <1>11, <3>1, RunMore
    <3> QED
      BY <1>11, <2>2, <3>1, <3>2 DEF HeaderShape, HeaderState
  <2> QED
    BY <1>11, <2>1, <2>2 DEF HeaderShape
<1>12. CASE e.from = "expecting_newline_2" /\ e.on = {"LF"} /\ e.to = "header_line_start"
  BY <1>12 DEF HeaderShape
<1>13. CASE e.from = "expecting_newline_3" /\ e.on = {"LF"} /\ e.to = "header_good"
  BY <1>13 DEF HeaderShape
<1>14. CASE e.from = "header_good"
  BY <1>14 DEF HeaderState
<1> QED
  BY <1>1, <1>2, <1>3, <1>4, <1>5, <1>6, <1>7, <1>8, <1>9, <1>10, <1>11, <1>12, <1>13, <1>14,
     HeaderEdgeCases

LEMMA NoCR ==
  /\ "CR" \notin TokenByte /\ "CR" \notin TextByte /\ "CR" \notin Digit /\ "CR" \notin Blank
BY Bytes DEF Blank, Digit

LEMMA RequestUnbroken ==
  ASSUME NEW t, NEW k \in Int, RequestTo(t, k) PROVE \A x \in 1..k : t[x] # "CR"
<1>1. PICK i, j, n \in Nat : UriTo(t, i, j) /\ DotAt(t, j, n) /\ n < k /\ Run(t, n + 1, k, Digit)
  BY DEF RequestTo
<1> SUFFICES ASSUME NEW x \in 1..k PROVE t[x] # "CR"
  OBVIOUS
<1>2. CASE x <= i
  <2>1. x \in 1..(i - 1) \/ x = i
    BY <1>2
  <2> QED
    BY <1>1, <2>1, NoCR DEF UriTo, MethodTo, Run
<1>3. CASE x > i /\ x <= j
  <2>1. x \in (i + 1)..(j - 1) \/ x = j
    BY <1>3
  <2> QED
    BY <1>1, <2>1, NoCR DEF UriTo, Run
<1>4. CASE x > j /\ x <= j + 5
  <2>1. x = j + 1 \/ x = j + 2 \/ x = j + 3 \/ x = j + 4 \/ x = j + 5
    BY <1>4
  <2> QED
    BY <1>1, <2>1 DEF DotAt, Letters
<1>5. CASE x > j + 5 /\ x <= n
  <2>1. x \in (j + 6)..(n - 1) \/ x = n
    BY <1>5
  <2> QED
    BY <1>1, <2>1, NoCR DEF DotAt, Run
<1>6. CASE x > n
  <2>1. x \in (n + 1)..k
    BY <1>6
  <2> QED
    BY <1>1, <2>1, NoCR DEF Run
<1> QED
  BY <1>2, <1>3, <1>4, <1>5, <1>6

LEMMA LineUnbroken ==
  ASSUME NEW t, NEW c \in Nat, NEW first, NEW k \in Int, LineTo(t, c, first, k)
  PROVE  \A x \in c..k : t[x] # "CR"
<1> SUFFICES ASSUME NEW x \in c..k PROVE t[x] # "CR"
  OBVIOUS
<1>1. CASE HeaderTo(t, c, k)
  <2>1. PICK i \in Nat :
          NameTo(t, c, i) /\ i + 1 <= k /\ t[i + 1] = "SP" /\ Run(t, i + 2, k, TextByte)
    BY <1>1 DEF HeaderTo
  <2>2. x \in c..(i - 1) \/ x = i \/ x = i + 1 \/ x \in (i + 2)..k
    OBVIOUS
  <2> QED
    BY <2>1, <2>2, NoCR DEF NameTo, Run
<1>2. CASE MoreTo(t, c, k)
  <2>1. PICK i \in Nat : /\ c <= i /\ i <= k /\ Run(t, c, i, Blank) /\ Run(t, i + 1, k, TextByte)
    BY <1>2 DEF MoreTo
  <2>2. x \in c..i \/ x \in (i + 1)..k
    BY <2>1
  <2> QED
    BY <2>1, <2>2, NoCR DEF Run
<1> QED
  BY <1>1, <1>2 DEF LineTo

LEMMA IsEnd ==
  ASSUME NEW t \in Seq(Byte), NEW k \in Nat, k >= 1, k + 1 <= Len(t),
         t[k] = "CR", t[k + 1] = "LF"
  PROVE  k \in Ends(t)
BY DEF Ends

LEMMA FirstLine ==
  ASSUME NEW t \in Seq(Byte), NEW k \in Nat, k >= 1, k + 1 <= Len(t),
         t[k] = "CR", t[k + 1] = "LF", RequestTo(t, k - 1)
  PROVE  Lines(t, k + 2, k)
<1>1. k \in Ends(t) /\ k + 2 - 2 = k
  BY IsEnd
<1>2. \A x \in 1..(k - 1) : t[x] # "CR"
  BY RequestUnbroken
<1>3. ASSUME NEW e \in Ends(t), e <= k PROVE e = k
  <2>1. e \in Nat /\ e >= 1 /\ t[e] = "CR"
    BY EndType
  <2>2. e \notin 1..(k - 1)
    BY <1>2, <2>1
  <2> QED
    BY <1>3, <2>1, <2>2
<1> QED
  BY <1>1, <1>3 DEF Lines

LEMMA NextLine ==
  ASSUME NEW t \in Seq(Byte), NEW c \in Nat, NEW first \in Nat, Lines(t, c, first),
         NEW k \in Nat, c < k, k + 1 <= Len(t), t[k] = "CR", t[k + 1] = "LF",
         LineTo(t, c, first, k - 1)
  PROVE  Lines(t, k + 2, first) /\ first + 2 < k + 2
<1>1. /\ first \in Ends(t) /\ c - 2 \in Ends(t) /\ first <= c - 2 /\ RequestTo(t, first - 1)
      /\ \A e \in Ends(t) : e <= c - 2 => first <= e /\ (e # first => LineOk(t, first, e))
  BY DEF Lines
<1>2. k \in Ends(t) /\ k + 2 - 2 = k
  BY IsEnd
<1>3. \A x \in c..(k - 1) : t[x] # "CR"
  BY LineUnbroken
<1>4. t[c - 2 + 1] = "LF" /\ c - 2 + 1 = c - 1
  BY <1>1, EndType
<1>5. ASSUME NEW e \in Ends(t), e <= k PROVE e <= c - 2 \/ e = k
  <2>1. e \in Nat /\ t[e] = "CR"
    BY EndType
  <2>2. e \notin c..(k - 1) /\ e # c - 1
    BY <1>3, <1>4, <2>1
  <2> QED
    BY <1>5, <2>1, <2>2
<1>6. LineOk(t, first, k)
  <2> DEFINE f == c - 2
  <2>1. f + 2 = c /\ f \in Ends(t) /\ f < k
    BY <1>1
  <2>2. \A g \in Ends(t) : g < k => g <= f
    <3> TAKE g \in Ends(t)
    <3>1. g \in Nat
      BY EndType
    <3> QED
      BY <1>5, <3>1
  <2> HIDE DEF f
  <2> QED
    BY <2>1, <2>2 DEF LineOk
<1>7. ASSUME NEW e \in Ends(t), e <= k PROVE first <= e /\ (e # first => LineOk(t, first, e))
  BY <1>1, <1>5, <1>6, <1>7
<1> QED
  BY <1>1, <1>2, <1>7 DEF Lines

(* Where the parser stands, from the bytes behind it.                        *)
Shape(t, k, p) ==
  \/ p.state \in RequestState /\ p.req.headers = <<>> /\ RequestShape(t, k, p.state)
  \/ /\ p.state \in HeaderState
     /\ \E c, first \in Nat :
          /\ Lines(t, c, first) /\ HeaderShape(t, k, p.state, c, first)
          /\ p.state = "header_line_start" /\ p.req.headers # <<>> => first + 2 < c
AtLast(t, k) ==
  \E c, first \in Nat : Lines(t, c, first) /\ c = k /\ t[k] = "CR" /\ t[k + 1] = "LF"

LEMMA RequestPush ==
  ASSUME NEW p \in Parser, NEW e \in RequestLineEdges, NEW b
  PROVE  PushByte(p.req, e.push, b).headers = p.req.headers
<1>1. e.push \in {"none", "method", "uri"}
  BY DEF RequestLineEdges, Edge
<1>2. p.req \in Request
  BY DEF Parser
<1> QED
  BY <1>1, <1>2 DEF PushByte, Request

LEMMA ShapeStep ==
  ASSUME NEW t \in Seq(Byte), NEW k \in Nat, k + 1 <= Len(t), NEW p \in Parser, Shape(t, k, p),
         NEW e \in Ways(p, t[k + 1])
  PROVE  \/ Shape(t, k + 1, Along(p, e, t[k + 1])) /\ e.to # "header_good"
         \/ AtLast(t, k) /\ e.to = "header_good"
<1> DEFINE b == t[k + 1]
           q == Along(p, e, b)
<1>1. /\ e \in Edges /\ e.from = p.state /\ b \in e.on
      /\ e.from = "header_line_start" /\ e.to = "header_lws" => p.req.headers # <<>>
  BY DEF Ways
<1>2. q.state = e.to /\ q.req = PushByte(p.req, e.push, b)
  BY DEF Along
<1>3. RequestState \cap HeaderState = {} /\ "header_good" \notin RequestState \cup HeaderState
  BY DEF RequestState, HeaderState
<1>4. /\ \A f \in RequestLineEdges : f.from \in RequestState
      /\ \A f \in HeaderEdges : f.from \notin RequestState
  BY DEF RequestState, RequestLineEdges, HeaderEdges, Edge
<1> HIDE DEF q
<1>5. CASE p.state \in RequestState
  <2>1. e \in RequestLineEdges /\ p.req.headers = <<>> /\ RequestShape(t, k, e.from)
    BY <1>1, <1>3, <1>4, <1>5 DEF Shape, Edges
  <2>2. q.req.headers = <<>>
    BY <1>2, <2>1, RequestPush
  <2>3. \/ e.to \in RequestState /\ RequestShape(t, k + 1, e.to)
        \/ /\ e.from = "expecting_newline_1" /\ e.to = "header_line_start"
           /\ b = "LF" /\ k >= 1 /\ t[k] = "CR" /\ RequestTo(t, k - 1)
    BY <1>1, <2>1, RequestStep
  <2>4. CASE e.to \in RequestState /\ RequestShape(t, k + 1, e.to)
    BY <1>2, <1>3, <2>2, <2>4 DEF Shape, q
  <2>5. CASE /\ e.to = "header_line_start"
             /\ b = "LF" /\ k >= 1 /\ t[k] = "CR" /\ RequestTo(t, k - 1)
    <3>1. Lines(t, k + 2, k)
      BY <2>5, FirstLine
    <3>2. HeaderShape(t, k + 1, q.state, k + 2, k) /\ q.state \in HeaderState
      BY <1>2, <2>5 DEF HeaderShape, HeaderState
    <3>3. k + 2 \in Nat
      OBVIOUS
    <3>4. Shape(t, k + 1, q)
      BY <2>2, <3>1, <3>2, <3>3 DEF Shape
    <3> QED
      BY <2>5, <3>4 DEF q
  <2> QED
    BY <2>3, <2>4, <2>5
<1>6. CASE p.state \notin RequestState
  <2>1. e \in HeaderEdges /\ p.state \in HeaderState
    BY <1>1, <1>4, <1>6 DEF Shape, Edges
  <2>2. PICK c, first \in Nat :
          /\ Lines(t, c, first) /\ HeaderShape(t, k, p.state, c, first)
          /\ p.state = "header_line_start" /\ p.req.headers # <<>> => first + 2 < c
    BY <1>6 DEF Shape
  <2>3. \/ e.to \in HeaderState /\ HeaderShape(t, k + 1, e.to, c, first)
        \/ /\ e.to = "header_line_start" /\ b = "LF"
           /\ c < k /\ t[k] = "CR" /\ LineTo(t, c, first, k - 1)
        \/ e.to = "header_good" /\ b = "LF" /\ c = k /\ t[k] = "CR"
    BY <1>1, <2>1, <2>2, HeaderStep
  <2>4. CASE e.to \in HeaderState /\ HeaderShape(t, k + 1, e.to, c, first)
    <3>1. e.to # "header_line_start"
      <4>1. \A f \in HeaderEdges : f.to = "header_line_start" => f.on = {"LF"}
                                                               /\ f.from = "expecting_newline_2"
        BY DEF HeaderEdges, Edge
      <4> SUFFICES ASSUME e.to = "header_line_start" PROVE FALSE
        OBVIOUS
      <4>2. c = k + 1 + 1 /\ c < k
        BY <1>1, <2>1, <2>2, <2>4, <4>1 DEF HeaderShape
      <4> QED
        BY <4>2
    <3>2. Shape(t, k + 1, q)
      BY <1>2, <2>2, <2>4, <3>1 DEF Shape
    <3> QED
      BY <1>3, <2>4, <3>2 DEF q
  <2>5. CASE /\ e.to = "header_line_start" /\ b = "LF"
             /\ c < k /\ t[k] = "CR" /\ LineTo(t, c, first, k - 1)
    <3>1. Lines(t, k + 2, first) /\ first + 2 < k + 2
      BY <2>2, <2>5, NextLine
    <3>2. HeaderShape(t, k + 1, q.state, k + 2, first) /\ q.state \in HeaderState
      BY <1>2, <2>5 DEF HeaderShape, HeaderState
    <3>3. k + 2 \in Nat
      OBVIOUS
    <3>4. Shape(t, k + 1, q)
      BY <3>1, <3>2, <3>3 DEF Shape
    <3> QED
      BY <2>5, <3>4 DEF q
  <2>6. CASE e.to = "header_good" /\ b = "LF" /\ c = k /\ t[k] = "CR"
    BY <2>2, <2>6 DEF AtLast
  <2> QED
    BY <2>3, <2>4, <2>5, <2>6
<1> QED
  BY <1>5, <1>6

LEMMA SubRun ==
  ASSUME NEW X, NEW l \in Seq(X), NEW i \in Nat \ {0}, NEW j \in Nat, j <= Len(l), NEW S,
         \A x \in i..j : l[x] \in S
  PROVE  AllIn(Part(l, i, j), S)
<1> DEFINE v == Part(l, i, j)
<1>1. /\ v \in Seq(X) /\ Len(v) = IF i <= j THEN j - i + 1 ELSE 0
      /\ \A k \in 1..(j - i + 1) : v[k] = l[i + k - 1]
  BY PartType
<1> HIDE DEF v
<1>2. DOMAIN v = 1..Len(v)
  BY <1>1
<1>3. ASSUME NEW k \in 1..Len(v) PROVE v[k] \in S
  <2>1. i <= j /\ k \in 1..(j - i + 1) /\ i + k - 1 \in i..j
    BY <1>1, <1>3
  <2> QED
    BY <1>1, <2>1
<1>4. AllIn(v, S)
  BY <1>2, <1>3 DEF AllIn
<1> QED
  BY <1>4 DEF v

LEMMA VersionAt ==
  ASSUME NEW X, NEW l \in Seq(X), NEW j \in Nat, NEW n \in Nat, DotAt(l, j, n), n < Len(l),
         {"H", "T", "P", "/"} \subseteq X, Run(l, n + 1, Len(l), Digit)
  PROVE  IsVersion(Part(l, j + 1, Len(l)))
<1> DEFINE z == Len(l)
           a == j + 1
           v == Part(l, a, z)
<1>0. z \in Nat /\ z <= Len(l) /\ a \in Nat \ {0} /\ j + 7 <= n /\ n < z
  BY DEF DotAt
<1> HIDE DEF z, a
<1>1. /\ v \in Seq(X) /\ Len(v) = IF a <= z THEN z - a + 1 ELSE 0
      /\ \A k \in 1..(z - a + 1) : v[k] = l[a + k - 1]
  BY <1>0, PartType
<1> HIDE DEF v
<1>2. Len(v) = z - j /\ \A k \in 1..(z - j) : v[k] = l[j + k]
  <2>1. a <= z /\ z - a + 1 = z - j /\ \A k \in 1..(z - j) : a + k - 1 = j + k
    BY <1>0 DEF a
  <2> QED
    BY <1>1, <2>1
<1> DEFINE m == n - j
<1>3. /\ m \in Nat /\ m \in 7..(Len(v) - 1) /\ j + m = n /\ m \in 1..(z - j) /\ Len(v) \in Nat
      /\ m - 1 \in Nat /\ m - 1 <= Len(v) /\ m + 1 \in Nat \ {0}
  BY <1>0, <1>2
<1> HIDE DEF m
<1>4. v[m] = "."
  BY <1>2, <1>3 DEF DotAt
<1>5. AllIn(Part(v, 6, m - 1), Digit)
  <2>1. \A x \in 6..(m - 1) : v[x] \in Digit
    <3> TAKE x \in 6..(m - 1)
    <3>1. x \in 1..(z - j) /\ j + x \in (j + 6)..(n - 1)
      BY <1>0, <1>2, <1>3
    <3> QED
      BY <1>2, <3>1 DEF DotAt, Run
  <2> DEFINE c == m - 1
             d == 6
  <2>2. c \in Nat /\ c <= Len(v) /\ d \in Nat \ {0} /\ \A x \in d..c : v[x] \in Digit
    BY <1>3, <2>1
  <2> HIDE DEF c, d
  <2>3. AllIn(Part(v, d, c), Digit)
    BY <1>1, <2>2, SubRun
  <2> QED
    BY <2>3 DEF c, d
<1>6. AllIn(Part(v, m + 1, Len(v)), Digit)
  <2> DEFINE c == m + 1
             d == Len(v)
  <2>1. \A x \in c..d : v[x] \in Digit
    <3> TAKE x \in c..d
    <3>1. x \in 1..(z - j) /\ j + x \in (n + 1)..Len(l)
      BY <1>0, <1>2, <1>3 DEF z
    <3> QED
      BY <1>2, <3>1 DEF Run
  <2>2. d \in Nat /\ d <= Len(v) /\ c \in Nat \ {0}
    BY <1>3
  <2> HIDE DEF c, d
  <2>3. AllIn(Part(v, c, d), Digit)
    BY <1>1, <2>1, <2>2, SubRun
  <2> QED
    BY <2>3 DEF c, d
<1>7. Part(v, 1, 5) = <<"H", "T", "T", "P", "/">>
  <2> DEFINE w == Part(v, 1, 5)
             h == <<"H", "T", "T", "P", "/">>
  <2>1. 5 \in 0..Len(v)
    BY <1>3
  <2>2. w \in Seq(X) /\ Len(w) = 5 /\ \A k \in 1..5 : w[k] = v[k]
    BY <1>1, <2>1, PrefixType
  <2>3. /\ h \in Seq(X) /\ Len(h) = 5
        /\ h[1] = "H" /\ h[2] = "T" /\ h[3] = "T" /\ h[4] = "P" /\ h[5] = "/"
    OBVIOUS
  <2>4. Letters(l, j, 5) /\ 5 <= z - j
    BY <1>2, <1>3 DEF DotAt
  <2>5. v[1] = "H" /\ v[2] = "T" /\ v[3] = "T" /\ v[4] = "P" /\ v[5] = "/"
    <3>1. /\ l[j + 1] = "H" /\ l[j + 2] = "T" /\ l[j + 3] = "T" /\ l[j + 4] = "P"
          /\ l[j + 5] = "/"
      BY <2>4 DEF Letters
    <3>2. \A k \in 1..5 : k \in 1..(z - j)
      BY <1>0, <2>4
    <3> QED
      BY <1>2, <3>1, <3>2
  <2> HIDE DEF w, h
  <2>6. \A k \in 1..Len(w) : w[k] = h[k]
    BY <2>2, <2>3, <2>5
  <2>7. w = h
    BY <2>2, <2>3, <2>6, SeqEqual
  <2> QED
    BY <2>7 DEF w, h
<1>8. IsVersion(v)
  BY <1>3, <1>4, <1>5, <1>6, <1>7 DEF IsVersion
<1> QED
  BY <1>8 DEF v, z, a

LEMMA RequestLineAt ==
  ASSUME NEW t \in Seq(Byte), NEW k \in Nat, k <= Len(t), RequestTo(t, k)
  PROVE  IsRequestLine(Part(t, 1, k))
<1> DEFINE l == Part(t, 1, k)
<1>1. l \in Seq(Byte) /\ Len(l) = k /\ \A x \in 1..k : l[x] = t[x]
  <2>1. k \in 0..Len(t)
    OBVIOUS
  <2> QED
    BY <2>1, PrefixType
<1>2. PICK i, j, n \in Nat : UriTo(t, i, j) /\ DotAt(t, j, n) /\ n < k /\ Run(t, n + 1, k, Digit)
  BY DEF RequestTo
<1> HIDE DEF l
<1>3. i >= 2 /\ i < j /\ j + 7 <= n /\ n < k
  BY <1>2 DEF UriTo, MethodTo, DotAt
<1>4. \A S : \A a, b \in Nat : a >= 1 /\ b <= k /\ Run(t, a, b, S) => Run(l, a, b, S)
  <2> TAKE S
  <2> TAKE a, b \in Nat
  <2> SUFFICES ASSUME a >= 1, b <= k, Run(t, a, b, S), NEW x \in a..b PROVE l[x] \in S
    BY DEF Run
  <2>1. x \in 1..k
    OBVIOUS
  <2> QED
    BY <1>1, <2>1 DEF Run
<1>5. MethodTo(l, i)
  <2>1. 1 \in Nat /\ i - 1 \in Nat /\ i - 1 <= k /\ i \in 1..k
    BY <1>3
  <2> QED
    BY <1>1, <1>2, <1>4, <2>1 DEF UriTo, MethodTo
<1>6. UriTo(l, i, j)
  <2>1. i + 1 \in Nat /\ i + 1 >= 1 /\ j - 1 \in Nat /\ j - 1 <= k /\ j \in 1..k
    BY <1>3
  <2> QED
    BY <1>1, <1>2, <1>4, <1>5, <2>1 DEF UriTo
<1>7. DotAt(l, j, n)
  <2>1. j + 6 \in Nat /\ j + 6 >= 1 /\ n - 1 \in Nat /\ n - 1 <= k /\ n \in 1..k
    BY <1>3
  <2>2. Letters(l, j, 5)
    <3>1. j + 1 \in 1..k /\ j + 2 \in 1..k /\ j + 3 \in 1..k /\ j + 4 \in 1..k /\ j + 5 \in 1..k
      BY <1>3
    <3> QED
      BY <1>1, <1>2, <3>1 DEF DotAt, Letters
  <2> QED
    BY <1>1, <1>2, <1>4, <2>1, <2>2 DEF DotAt
<1>8. Run(l, n + 1, Len(l), Digit)
  <2>1. n + 1 \in Nat /\ n + 1 >= 1
    OBVIOUS
  <2> QED
    BY <1>1, <1>2, <1>4, <2>1
<1>9. IsVersion(Part(l, j + 1, Len(l)))
  <2>1. {"H", "T", "P", "/"} \subseteq Byte
    BY Bytes
  <2> QED
    BY <1>1, <1>3, <1>7, <1>8, <2>1, VersionAt
<1>10. AllIn(Part(l, 1, i - 1), TokenByte)
  <2> DEFINE c == i - 1
  <2>1. c \in Nat /\ c <= Len(l) /\ 1 \in Nat \ {0} /\ \A x \in 1..c : l[x] \in TokenByte
    BY <1>1, <1>3, <1>5 DEF MethodTo, Run
  <2> HIDE DEF c
  <2>2. AllIn(Part(l, 1, c), TokenByte)
    BY <1>1, <2>1, SubRun
  <2> QED
    BY <2>2 DEF c
<1>11. AllIn(Part(l, i + 1, j - 1), TextByte \ {"SP"})
  <2> DEFINE c == i + 1
             d == j - 1
  <2>1. c \in Nat \ {0} /\ d \in Nat /\ d <= Len(l) /\ \A x \in c..d : l[x] \in TextByte \ {"SP"}
    BY <1>1, <1>3, <1>6 DEF UriTo, Run
  <2> HIDE DEF c, d
  <2>2. AllIn(Part(l, c, d), TextByte \ {"SP"})
    BY <1>1, <2>1, SubRun
  <2> QED
    BY <2>2 DEF c, d
<1>12. i \in 2..Len(l) /\ j \in 2..Len(l) /\ i < j /\ l[i] = "SP" /\ l[j] = "SP"
  BY <1>1, <1>3, <1>6 DEF UriTo, MethodTo
<1>13. IsRequestLine(l)
  BY <1>9, <1>10, <1>11, <1>12 DEF IsRequestLine
<1> QED
  BY <1>13 DEF l

(* The bytes of t from c on, told by their positions in the line.            *)
LEMMA LineBytes ==
  ASSUME NEW t \in Seq(Byte), NEW c \in Nat \ {0}, NEW k \in Nat, c <= k, k <= Len(t)
  PROVE  /\ Part(t, c, k) \in Seq(Byte) /\ Len(Part(t, c, k)) = k - c + 1
         /\ \A x \in 1..(k - c + 1) : Part(t, c, k)[x] = t[c + x - 1]
         /\ \A S : \A a \in Nat \ {0}, b \in Nat :
              b <= k - c + 1 /\ Run(t, c + a - 1, c + b - 1, S) =>
                AllIn(Part(Part(t, c, k), a, b), S)
<1> DEFINE l == Part(t, c, k)
<1>1. /\ l \in Seq(Byte) /\ Len(l) = k - c + 1
      /\ \A x \in 1..(k - c + 1) : l[x] = t[c + x - 1]
  BY PartType
<1> HIDE DEF l
<1>2. ASSUME NEW a \in Nat \ {0}, NEW b \in Nat, NEW S,
             b <= k - c + 1, Run(t, c + a - 1, c + b - 1, S)
      PROVE  AllIn(Part(l, a, b), S)
  <2>1. b <= Len(l)
    BY <1>1, <1>2
  <2>2. ASSUME NEW x \in a..b PROVE l[x] \in S
    <3>1. x \in 1..(k - c + 1) /\ c + x - 1 \in (c + a - 1)..(c + b - 1)
      BY <1>2
    <3> QED
      BY <1>1, <1>2, <3>1 DEF Run
  <2> QED
    BY <1>1, <2>1, <2>2, SubRun
<1> QED
  BY <1>1, <1>2 DEF l

LEMMA HeaderLineAt ==
  ASSUME NEW t \in Seq(Byte), NEW c \in Nat \ {0}, NEW k \in Nat, k <= Len(t), HeaderTo(t, c, k)
  PROVE  IsHeaderLine(Part(t, c, k))
<1>1. PICK n \in Nat :
        NameTo(t, c, n) /\ n + 1 <= k /\ t[n + 1] = "SP" /\ Run(t, n + 2, k, TextByte)
  BY DEF HeaderTo
<1>2. c < n /\ c <= k /\ t[n] = ":" /\ Run(t, c, n - 1, TokenByte)
  BY <1>1 DEF NameTo
<1> DEFINE l == Part(t, c, k)
           i == n - c + 1
<1>3. /\ l \in Seq(Byte) /\ Len(l) = k - c + 1
      /\ \A x \in 1..(k - c + 1) : l[x] = t[c + x - 1]
      /\ \A S : \A a \in Nat \ {0}, b \in Nat :
           b <= k - c + 1 /\ Run(t, c + a - 1, c + b - 1, S) => AllIn(Part(l, a, b), S)
  BY <1>2, LineBytes
<1> HIDE DEF l
<1>4. /\ i \in 2..(Len(l) - 1) /\ i \in 1..(k - c + 1) /\ i + 1 \in 1..(k - c + 1)
      /\ c + i - 1 = n /\ c + (i + 1) - 1 = n + 1
      /\ i - 1 \in Nat /\ i - 1 <= k - c + 1 /\ c + 1 - 1 = c /\ c + (i - 1) - 1 = n - 1
      /\ i + 2 \in Nat \ {0} /\ Len(l) \in Nat /\ c + (i + 2) - 1 = n + 2
      /\ c + Len(l) - 1 = k /\ 1 \in Nat \ {0} /\ Len(l) <= k - c + 1
  BY <1>1, <1>2, <1>3
<1> HIDE DEF i
<1>5. l[i] = ":" /\ l[i + 1] = "SP"
  <2> DEFINE j == i + 1
  <2>1. j \in 1..(k - c + 1) /\ c + j - 1 = n + 1
    BY <1>4
  <2> HIDE DEF j
  <2>2. l[j] = t[n + 1]
    BY <1>3, <2>1
  <2> QED
    BY <1>1, <1>2, <1>3, <1>4, <2>2 DEF j
<1>6. AllIn(Part(l, 1, i - 1), TokenByte)
  <2> DEFINE b == i - 1
  <2>1. b \in Nat /\ b <= k - c + 1 /\ 1 \in Nat \ {0} /\ Run(t, c + 1 - 1, c + b - 1, TokenByte)
    BY <1>2, <1>4
  <2> HIDE DEF b
  <2>2. AllIn(Part(l, 1, b), TokenByte)
    BY <1>3, <2>1
  <2> QED
    BY <2>2 DEF b
<1>7. AllIn(Part(l, i + 2, Len(l)), TextByte)
  <2> DEFINE a == i + 2
             b == Len(l)
  <2>1. a \in Nat \ {0} /\ b \in Nat /\ b <= k - c + 1 /\ Run(t, c + a - 1, c + b - 1, TextByte)
    BY <1>1, <1>4
  <2> HIDE DEF a, b
  <2>2. AllIn(Part(l, a, b), TextByte)
    BY <1>3, <2>1
  <2> QED
    BY <2>2 DEF a, b
<1>8. IsHeaderLine(l)
  BY <1>4, <1>5, <1>6, <1>7 DEF IsHeaderLine
<1> QED
  BY <1>8 DEF l

LEMMA ContinuationAt ==
  ASSUME NEW t \in Seq(Byte), NEW c \in Nat \ {0}, NEW k \in Nat, k <= Len(t), MoreTo(t, c, k)
  PROVE  IsContinuation(Part(t, c, k))
<1>1. PICK n \in Nat : /\ c <= n /\ n <= k /\ Run(t, c, n, Blank) /\ Run(t, n + 1, k, TextByte)
                       /\ n < k => t[n + 1] # "SP"
  BY DEF MoreTo
<1> DEFINE l == Part(t, c, k)
           i == n - c + 1
<1>2. c <= k
  BY <1>1
<1>3. /\ l \in Seq(Byte) /\ Len(l) = k - c + 1
      /\ \A x \in 1..(k - c + 1) : l[x] = t[c + x - 1]
      /\ \A S : \A a \in Nat \ {0}, b \in Nat :
           b <= k - c + 1 /\ Run(t, c + a - 1, c + b - 1, S) => AllIn(Part(l, a, b), S)
  BY <1>2, LineBytes
<1> HIDE DEF l
<1>4. /\ i \in 1..Len(l) /\ c + 1 - 1 = c /\ c + i - 1 = n /\ i \in Nat /\ i <= k - c + 1
      /\ i + 1 \in Nat \ {0} /\ c + (i + 1) - 1 = n + 1 /\ Len(l) \in Nat
      /\ c + Len(l) - 1 = k /\ 1 \in Nat \ {0} /\ Len(l) <= k - c + 1
      /\ i < Len(l) => n < k /\ i + 1 \in 1..(k - c + 1)
  BY <1>1, <1>3
<1> HIDE DEF i
<1>5. i < Len(l) => l[i + 1] # "SP"
  <2> DEFINE j == i + 1
  <2> SUFFICES ASSUME i < Len(l) PROVE l[j] # "SP"
    OBVIOUS
  <2>1. j \in 1..(k - c + 1) /\ c + j - 1 = n + 1 /\ n < k
    BY <1>4
  <2> HIDE DEF j
  <2>2. l[j] = t[n + 1]
    BY <1>3, <2>1
  <2> QED
    BY <1>1, <2>1, <2>2
<1>6. AllIn(Part(l, 1, i), Blank)
  <2>1. Run(t, c + 1 - 1, c + i - 1, Blank)
    BY <1>1, <1>4
  <2> QED
    BY <1>3, <1>4, <2>1
<1>7. AllIn(Part(l, i + 1, Len(l)), TextByte)
  <2> DEFINE a == i + 1
             b == Len(l)
  <2>1. a \in Nat \ {0} /\ b \in Nat /\ b <= k - c + 1 /\ Run(t, c + a - 1, c + b - 1, TextByte)
    BY <1>1, <1>4
  <2> HIDE DEF a, b
  <2>2. AllIn(Part(l, a, b), TextByte)
    BY <1>3, <2>1
  <2> QED
    BY <2>2 DEF a, b
<1>8. IsContinuation(l)
  BY <1>4, <1>5, <1>6, <1>7 DEF IsContinuation, Blank
<1> QED
  BY <1>8 DEF l

LEMMA FromIs ==
  ASSUME NEW s \in Seq(Byte), NEW e \in Ends(s), NEW f \in Ends(s), f < e,
         \A g \in Ends(s) : g < e => g <= f
  PROVE  From(s, e) = f + 2
<1>1. \A g \in Ends(s) : g \in Nat
  BY EndType
<1>2. EndsBefore(s, e) # {}
  BY DEF EndsBefore
<1>3. PICK h \in Ends(s) : /\ h + 2 <= e /\ From(s, e) = h + 2
                           /\ \A g \in Ends(s) : g < e => g <= h
  BY <1>2, Prior
<1>4. f \in Nat /\ h \in Nat /\ e \in Nat
  BY <1>1
<1>5. h < e
  BY <1>3, <1>4
<1>6. f <= h /\ h <= f
  BY <1>3, <1>5
<1> QED
  BY <1>3, <1>4, <1>6

LEMMA LastLineHead ==
  ASSUME NEW t \in Seq(Byte), NEW k \in Nat, k + 1 = Len(t), AtLast(t, k)
  PROVE  IsHead(t)
<1>1. PICK first \in Nat : Lines(t, k, first) /\ t[k] = "CR" /\ t[k + 1] = "LF"
  BY DEF AtLast
<1>2. /\ first \in Ends(t) /\ k - 2 \in Ends(t) /\ first <= k - 2 /\ RequestTo(t, first - 1)
      /\ \A e \in Ends(t) : e <= k - 2 => first <= e /\ (e # first => LineOk(t, first, e))
  BY <1>1 DEF Lines
<1> DEFINE f == k - 2
<1>3. /\ f \in Ends(t) /\ f \in Nat /\ f >= 1 /\ f + 2 = k /\ t[f] = "CR" /\ t[f + 1] = "LF"
      /\ f + 1 = k - 1 /\ f <= k - 2 /\ first <= f /\ f < k
  <2>1. f \in Ends(t) /\ f \in Int
    BY <1>2
  <2> HIDE DEF f
  <2>2. f \in Nat /\ f >= 1 /\ t[f] = "CR" /\ t[f + 1] = "LF"
    BY <2>1, EndType
  <2> QED
    BY <1>2, <2>1, <2>2 DEF f
<1>4. k \in Ends(t) /\ k = Len(t) - 1
  <2>1. k >= 1 /\ k + 1 <= Len(t)
    BY <1>3
  <2> QED
    BY <1>1, <2>1, IsEnd
<1>5. ASSUME NEW e \in Ends(t) PROVE e \in Nat /\ (e <= f \/ e = k) /\ e <= k
  <2>1. e \in Nat /\ e + 1 \in 1..Len(t) /\ t[e] = "CR"
    BY EndType
  <2> HIDE DEF f
  <2>2. e # f + 1 /\ e + 1 <= Len(t)
    BY <1>3, <2>1
  <2>3. e <= k /\ f + 2 = k /\ f \in Nat
    BY <1>3, <2>1, <2>2
  <2> QED
    BY <2>1, <2>2, <2>3
<1>6. \A e \in Ends(t) : first <= e /\ e <= k
  BY <1>2, <1>3, <1>5
<1> HIDE DEF f
<1>7. LineAt(t, k) = <<>>
  <2>1. From(t, k) = f + 2
    <3>1. \A g \in Ends(t) : g < k => g <= f
      BY <1>5
    <3> QED
      BY <1>3, <1>4, <3>1, FromIs
  <2>2. From(t, k) = k
    BY <1>3, <2>1
  <2>3. Part(t, k, k - 1) = <<>>
    <3> DEFINE j == k - 1
    <3>1. j \in Int /\ k \in Int /\ j < k
      OBVIOUS
    <3> HIDE DEF j
    <3>2. Part(t, k, j) = <<>>
      BY <3>1, PartNone
    <3> QED
      BY <3>2 DEF j
  <2> QED
    BY <2>2, <2>3 DEF LineAt, Line
<1>8. IsRequestLine(LineAt(t, first))
  <2>1. EndsBefore(t, first) = {}
    <3>1. \A e \in Ends(t) : ~(e < first)
      BY <1>5, <1>6
    <3> QED
      BY <3>1 DEF EndsBefore
  <2>2. From(t, first) = 1
    BY <2>1 DEF From
  <2> DEFINE j == first - 1
  <2>3. j \in Nat /\ j <= Len(t)
    BY <1>2, <1>3, <1>4, EndType
  <2>4. RequestTo(t, j)
    BY <1>2
  <2> HIDE DEF j
  <2>5. IsRequestLine(Part(t, 1, j))
    BY <2>3, <2>4, RequestLineAt
  <2> QED
    BY <2>2, <2>5 DEF LineAt, Line, j
<1>9. ASSUME NEW e \in Ends(t) \ {first, k}
      PROVE  \/ IsHeaderLine(LineAt(t, e))
             \/ IsContinuation(LineAt(t, e)) /\ \E g \in Ends(t) : first < g /\ g < e
  <2>1. LineOk(t, first, e)
    BY <1>2, <1>3, <1>5
  <2>2. PICK g \in Ends(t) : /\ g < e /\ LineTo(t, g + 2, first, e - 1)
                             /\ \A d \in Ends(t) : d < e => d <= g
    BY <2>1 DEF LineOk
  <2>3. From(t, e) = g + 2
    BY <2>2, FromIs
  <2> DEFINE c == g + 2
             j == e - 1
  <2>4. c \in Nat \ {0} /\ j \in Nat /\ j <= Len(t) /\ LineTo(t, c, first, j)
    <3>1. g \in Nat /\ e \in 1..Len(t)
      BY EndType
    <3> QED
      BY <2>2, <3>1
  <2>5. LineAt(t, e) = Part(t, c, j) /\ (first + 2 < c => first < g)
    BY <1>5, <2>3 DEF LineAt, Line
  <2> HIDE DEF c, j
  <2>6. IsHeaderLine(Part(t, c, j)) \/ (IsContinuation(Part(t, c, j)) /\ first + 2 < c)
    BY <2>4, HeaderLineAt, ContinuationAt DEF LineTo
  <2> QED
    BY <2>2, <2>5, <2>6
<1>10. first # k
  BY <1>3
<1>11. Len(t) > 3 /\ Part(t, Len(t) - 3, Len(t)) = CRLF \o CRLF
  <2> DEFINE w == Part(t, f, Len(t))
             h == CRLF \o CRLF
             d == Len(t)
  <2>0. d \in Nat /\ d <= Len(t) /\ d = k + 1 /\ f \in Nat /\ f >= 1 /\ f + 2 = k
    BY <1>3
  <2>1. /\ f \in Nat \ {0} /\ d \in Nat /\ d <= Len(t) /\ f <= d /\ d - f + 1 = 4
        /\ Len(t) > 3 /\ Len(t) - 3 = f
    <3>1. d > 3 /\ d - 3 = f /\ f <= d /\ d - f + 1 = 4 /\ f # 0
      <4> HIDE DEF d
      <4> QED
        BY <2>0
    <3> QED
      BY <2>0, <3>1
  <2>2. w \in Seq(Byte) /\ Len(w) = 4 /\ \A x \in 1..4 : w[x] = t[f + x - 1]
    <3>2. f \in Nat \ {0} /\ d \in Nat /\ f <= d /\ d <= Len(t) /\ d - f + 1 = 4
      BY <2>1
    <3> HIDE DEF d
    <3>1. /\ Part(t, f, d) \in Seq(Byte) /\ Len(Part(t, f, d)) = d - f + 1
          /\ \A x \in 1..(d - f + 1) : Part(t, f, d)[x] = t[f + x - 1]
      BY <3>2, LineBytes
    <3> QED
      BY <3>1, <3>2 DEF d
  <2>3. w[1] = "CR" /\ w[2] = "LF" /\ w[3] = "CR" /\ w[4] = "LF"
    <3>1. f + 1 - 1 = f /\ f + 2 - 1 = f + 1 /\ f + 3 - 1 = k /\ f + 4 - 1 = k + 1
      BY <1>3
    <3> QED
      BY <1>1, <1>3, <2>2, <3>1
  <2>4. h \in Seq(Byte) /\ Len(h) = 4 /\ h[1] = "CR" /\ h[2] = "LF" /\ h[3] = "CR" /\ h[4] = "LF"
    <3>1. CRLF \in Seq(Byte) /\ Len(CRLF) = 2 /\ CRLF[1] = "CR" /\ CRLF[2] = "LF"
      BY Bytes DEF CRLF
    <3> DEFINE r == CRLF
    <3> HIDE DEF r
    <3>2. /\ r \o r \in Seq(Byte) /\ Len(r \o r) = Len(r) + Len(r)
          /\ \A x \in 1..(Len(r) + Len(r)) :
                (r \o r)[x] = IF x <= Len(r) THEN r[x] ELSE r[x - Len(r)]
      BY <3>1, ConcatProperties DEF r
    <3>3. Len(r) = 2 /\ r[1] = "CR" /\ r[2] = "LF"
      BY <3>1 DEF r
    <3>4. /\ Len(r \o r) = 4 /\ (r \o r)[1] = r[1] /\ (r \o r)[2] = r[2]
          /\ (r \o r)[3] = r[1] /\ (r \o r)[4] = r[2]
      BY <3>2, <3>3
    <3> QED
      BY <3>2, <3>3, <3>4 DEF r
  <2> HIDE DEF w, h
  <2>5. w = h
    BY <2>2, <2>3, <2>4, SeqEqual
  <2> QED
    BY <2>1, <2>5 DEF w, h
<1>12. HeadLines(t, first, k)
  BY <1>2, <1>4, <1>6, <1>7, <1>8, <1>9, <1>10 DEF HeadLines
<1> QED
  BY <1>11, <1>12 DEF IsHead, HeadLines, LineAt, From, EndsBefore

LEMMA PrefixNone == ASSUME NEW X, NEW s \in Seq(X) PROVE Part(s, 1, 0) = <<>>
BY PartNone

(* The parser's way through t, up to the byte that decides.                  *)
LEMMA Shaped ==
  ASSUME NEW t \in Seq(Byte),
         \A k \in 0..(Len(t) - 1) : Parse(Fresh, Part(t, 1, k)).parser.result = "indeterminate"
  PROVE  \A k \in Nat : k < Len(t) => Shape(t, k, Parse(Fresh, Part(t, 1, k)).parser)
<1>0. Part(t, 1, 0) = <<>>
  BY PrefixNone
<1> DEFINE P(k) == k < Len(t) => Shape(t, k, Parse(Fresh, Part(t, 1, k)).parser)
           T == {k \in Nat : P(k)}
<1>1. 0 \in T
  <2>2. Parse(Fresh, Part(t, 1, 0)).parser = Fresh
    BY <1>0, FreshType, ParseEmpty
  <2>3. Shape(t, 0, Fresh)
    BY DEF Shape, Fresh, EmptyRequest, RequestState, RequestShape
  <2> QED
    BY <2>2, <2>3
<1>2. ASSUME NEW k \in T PROVE k + 1 \in T
  <2>1. k \in Nat /\ P(k)
    OBVIOUS
  <2> SUFFICES ASSUME k + 1 < Len(t)
               PROVE  Shape(t, k + 1, Parse(Fresh, Part(t, 1, k + 1)).parser)
    BY <2>1
  <2> HIDE DEF T
  <2> DEFINE a == Part(t, 1, k)
             b == t[k + 1]
             p == Parse(Fresh, a).parser
  <2>2. Shape(t, k, p)
    BY <2>1
  <2>3. /\ k \in 0..Len(t) /\ k \in 0..(Len(t) - 1) /\ k + 1 \in 0..(Len(t) - 1) /\ k + 1 <= Len(t)
        /\ k + 1 \in 1..Len(t) /\ b \in Byte
    BY <2>1
  <2>4. a \in Seq(Byte) /\ Part(t, 1, k + 1) = Append(a, b)
    <3> DEFINE j == k + 1
    <3>1. a \in Seq(Byte)
      BY <2>3, PrefixType
    <3>2. j \in 1..Len(t) /\ j - 1 = k
      BY <2>1, <2>3
    <3> HIDE DEF j
    <3>3. Part(t, 1, j - 1) \o <<t[j]>> = Part(t, 1, j)
      BY <3>2, JoinByte
    <3>4. a \o <<t[j]>> = Part(t, 1, j)
      BY <3>2, <3>3
    <3>5. t[j] = b
      BY DEF j
    <3> HIDE DEF a
    <3>6. a \o <<b>> = Append(a, b)
      BY <2>3, <3>1, AppendIsConcat
    <3> QED
      BY <3>1, <3>4, <3>5, <3>6 DEF j
  <2>5. p \in Parser /\ p.result = "indeterminate"
    BY <2>3, <2>4, FreshType, ParseType
  <2>6. Parse(Fresh, Part(t, 1, k + 1)).parser.result = "indeterminate"
    BY <2>3
  <2> HIDE DEF a, b
  <2>7. Parse(Fresh, Append(a, b)).parser = Consume(p, b)
    BY <2>3, <2>4, <2>5, FreshType, ParseAppend DEF Accept
  <2> HIDE DEF p
  <2>8. Consume(p, b).result = "indeterminate"
    BY <2>4, <2>6, <2>7
  <2>9. PICK e \in Ways(p, b) : Consume(p, b) = Along(p, e, b)
    <3>1. Refused(p).result = "bad"
      BY <2>5 DEF Refused, Parser
    <3> QED
      BY <2>3, <2>5, <2>8, <3>1, ConsumeIs
  <2>10. e.to # "header_good"
    BY <2>8, <2>9 DEF Along
  <2>11. Shape(t, k + 1, Along(p, e, b))
    BY <2>1, <2>2, <2>3, <2>5, <2>10, ShapeStep DEF b
  <2> QED
    BY <2>4, <2>7, <2>9, <2>11
<1>3. T = Nat
  <2>1. T \in SUBSET Nat
    OBVIOUS
  <2> HIDE DEF T
  <2> QED
    BY <1>1, <1>2, <2>1, InductionOnNat
<1> QED
  BY <1>3

(* What was read to its last byte, and only with it became good, is a head.  *)
LEMMA GoodHead ==
  ASSUME NEW t \in Seq(Byte), NEW q, Reads(Fresh, t, q), q.result = "good"
  PROVE  IsHead(t)
<1> DEFINE n == Len(t)
<1>1. n \in Nat
  OBVIOUS
<1>2. n >= 1
  <2> SUFFICES ASSUME n = 0 PROVE FALSE
    BY <1>1
  <2>1. t = <<>>
    OBVIOUS
  <2> QED
    BY <2>1, FreshType, ParseEmpty DEF Reads
<1>3. \A k \in 0..(Len(t) - 1) : Parse(Fresh, Part(t, 1, k)).parser.result = "indeterminate"
  <2> TAKE k \in 0..(Len(t) - 1)
  <2> DEFINE u == <<>>
  <2>1. u \in Seq(Byte) /\ t \o u = t
    BY EmptySeq, ConcatEmpty
  <2>2. k \in 0..Len(t) /\ k < Len(t) /\ q.result # "indeterminate"
    BY <1>1
  <2> HIDE DEF u
  <2>3. k \in 0..Len(t \o u)
    BY <2>1, <2>2
  <2>4. k < Len(t) => Parse(Fresh, Part(t \o u, 1, k)).parser.result = "indeterminate"
    BY <2>1, <2>2, <2>3, FreshType, DecidedOnce
  <2> QED
    BY <2>1, <2>2, <2>4
<1> DEFINE k == n - 1
<1>4. k \in Nat /\ k + 1 = Len(t) /\ k < Len(t) /\ k \in 0..(Len(t) - 1) /\ k \in 0..Len(t)
  BY <1>1, <1>2
<1> HIDE DEF k, n
<1> DEFINE a == Part(t, 1, k)
           b == t[k + 1]
           p == Parse(Fresh, a).parser
<1>5. Shape(t, k, p)
  BY <1>3, <1>4, Shaped
<1>6. a \in Seq(Byte) /\ b \in Byte /\ t = Append(a, b)
  <2> DEFINE j == k + 1
  <2>1. a \in Seq(Byte)
    BY <1>4, PrefixType
  <2>2. j \in 1..Len(t) /\ j - 1 = k /\ j = Len(t)
    BY <1>4
  <2>7. b = t[j]
    OBVIOUS
  <2> HIDE DEF j, b
  <2>3. Part(t, 1, j - 1) \o <<t[j]>> = Part(t, 1, j) /\ t[j] \in Byte
    BY <2>2, JoinByte
  <2>4. Part(t, 1, j) = t
    BY <2>2, PartWhole
  <2>5. a \o <<b>> = t /\ b \in Byte
    BY <2>2, <2>3, <2>4, <2>7
  <2> HIDE DEF a
  <2>6. a \o <<b>> = Append(a, b)
    BY <2>1, <2>5, AppendIsConcat
  <2> QED
    BY <2>1, <2>5, <2>6
<1>7. p \in Parser /\ p.result = "indeterminate"
  BY <1>3, <1>4, <1>6, FreshType, ParseType
<1> HIDE DEF a, b
<1>8. Parse(Fresh, t).parser = Consume(p, b)
  <2>1. Parse(Fresh, Append(a, b)).parser = Consume(p, b)
    BY <1>6, <1>7, FreshType, ParseAppend DEF Accept
  <2> QED
    BY <1>6, <2>1
<1> HIDE DEF p
<1>9. Consume(p, b).result = "good"
  BY <1>8 DEF Reads
<1>10. PICK e \in Ways(p, b) : Consume(p, b) = Along(p, e, b)
  <2>1. Refused(p).result = "bad"
    BY <1>7 DEF Refused, Parser
  <2> QED
    BY <1>6, <1>7, <1>9, <2>1, ConsumeIs
<1>11. e.to = "header_good"
  BY <1>9, <1>10 DEF Along
<1>12. AtLast(t, k)
  <2>1. e \in Ways(p, t[k + 1]) /\ k + 1 <= Len(t)
    BY <1>4, <1>10 DEF b
  <2> QED
    BY <1>4, <1>5, <1>7, <1>11, <2>1, ShapeStep
<1> QED
  BY <1>4, <1>12, LastLineHead

LEMMA PrefixOfPrefix ==
  ASSUME NEW X, NEW s \in Seq(X), NEW j \in 0..Len(s), NEW k \in 0..j
  PROVE  Part(Part(s, 1, j), 1, k) = Part(s, 1, k)
<1> DEFINE a == Part(s, 1, j)
           b == Part(s, 1, k)
<1>1. k \in 0..Len(s) /\ \A x \in 1..k : x \in 1..j
  OBVIOUS
<1>2. a \in Seq(X) /\ Len(a) = j /\ \A x \in 1..j : a[x] = s[x]
  BY PrefixType
<1>3. b \in Seq(X) /\ Len(b) = k /\ \A x \in 1..k : b[x] = s[x]
  BY <1>1, PrefixType
<1> HIDE DEF a, b
<1>4. k \in 0..Len(a)
  BY <1>2
<1> DEFINE c == Part(a, 1, k)
<1>5. c \in Seq(X) /\ Len(c) = k /\ \A x \in 1..k : c[x] = a[x]
  BY <1>2, <1>4, PrefixType
<1> HIDE DEF c
<1>6. c = b
  <2>1. \A x \in 1..Len(c) : c[x] = b[x]
    BY <1>1, <1>2, <1>3, <1>5
  <2> QED
    BY <1>3, <1>5, <2>1, SeqEqual
<1> QED
  BY <1>6 DEF a, b, c

LEMMA PrefixOfAppend ==
  ASSUME NEW X, NEW s \in Seq(X), NEW b \in X, NEW k \in 0..Len(s)
  PROVE  Part(Append(s, b), 1, k) = Part(s, 1, k)
<1> DEFINE t == Append(s, b)
<1>1. t \in Seq(X) /\ Len(t) = Len(s) + 1 /\ \A x \in 1..Len(s) : t[x] = s[x]
  BY AppendProps
<1> HIDE DEF t
<1>2. k \in 0..Len(t) /\ \A x \in 1..k : x \in 1..Len(s)
  BY <1>1
<1> DEFINE c == Part(t, 1, k)
           d == Part(s, 1, k)
<1>3. c \in Seq(X) /\ Len(c) = k /\ \A x \in 1..k : c[x] = t[x]
  BY <1>1, <1>2, PrefixType
<1>4. d \in Seq(X) /\ Len(d) = k /\ \A x \in 1..k : d[x] = s[x]
  BY PrefixType
<1> HIDE DEF c, d
<1>5. c = d
  <2>1. \A x \in 1..Len(c) : c[x] = d[x]
    BY <1>1, <1>2, <1>3, <1>4
  <2> QED
    BY <1>3, <1>4, <2>1, SeqEqual
<1> QED
  BY <1>5 DEF c, d, t

(* What is decided was decided by one of its bytes.                          *)
LEMMA Settled ==
  ASSUME NEW p \in Parser, p.result = "indeterminate", NEW s \in Seq(Byte),
         Parse(p, s).parser.result # "indeterminate"
  PROVE  \E k \in 1..Len(s) : Reads(p, Part(s, 1, k), Parse(p, s).parser)
<1> DEFINE P(t) == Parse(p, t).parser.result # "indeterminate" =>
                     \E k \in 1..Len(t) : Reads(p, Part(t, 1, k), Parse(p, t).parser)
           T == {t \in Seq(Byte) : P(t)}
<1>1. <<>> \in T
  BY ParseEmpty, EmptySeq
<1>2. ASSUME NEW t \in T, NEW b \in Byte PROVE Append(t, b) \in T
  <2> DEFINE a == Parse(p, t)
             u == Append(t, b)
  <2>1. t \in Seq(Byte) /\ Len(t) \in Nat /\ P(t)
    OBVIOUS
  <2> HIDE DEF T
  <2>2. Parse(p, u) = Accept(a, b)
    BY <2>1, ParseAppend
  <2>3. u \in Seq(Byte) /\ Len(u) = Len(t) + 1
    BY <2>1, AppendProps
  <2>4. CASE a.parser.result # "indeterminate"
    <3>1. Parse(p, u) = a
      BY <2>2, <2>4 DEF Accept
    <3>2. PICK k \in 1..Len(t) : Reads(p, Part(t, 1, k), a.parser)
      BY <2>1, <2>4
    <3>3. k \in 0..Len(t) /\ k \in 1..Len(u)
      BY <2>1, <2>3
    <3>4. Part(u, 1, k) = Part(t, 1, k)
      BY <2>1, <3>3, PrefixOfAppend
    <3> HIDE DEF u, a
    <3>5. P(u)
      BY <3>1, <3>2, <3>3, <3>4
    <3> QED
      BY <2>3, <3>5 DEF T, u
  <2>5. CASE a.parser.result = "indeterminate"
    <3>1. a.n = Len(t)
      BY <2>1, <2>5, UndecidedConsumed
    <3>2. Parse(p, u) = [parser |-> Consume(a.parser, b), n |-> Len(u)]
      BY <2>2, <2>3, <2>5, <3>1 DEF Accept
    <3>3. Part(u, 1, Len(u)) = u /\ Len(u) \in 1..Len(u)
      <4>1. Len(u) \in 1..Len(u)
        BY <2>1, <2>3
      <4> HIDE DEF u
      <4> QED
        BY <2>3, <4>1, PartWhole
    <3> HIDE DEF u, a
    <3>4. Reads(p, u, Parse(p, u).parser)
      BY <3>2 DEF Reads
    <3>5. P(u)
      BY <3>3, <3>4
    <3> QED
      BY <2>3, <3>5 DEF T, u
  <2> QED
    BY <2>4, <2>5
<1>3. T = Seq(Byte)
  <2>1. T \in SUBSET Seq(Byte)
    OBVIOUS
  <2> HIDE DEF T
  <2> QED
    BY <1>1, <1>2, <2>1, InductionOnSeq
<1> QED
  BY <1>3

(* For every sequence of bytes, whatever was read of it so far: the parser   *)
(* says "good" only with a head behind it, "bad" only when none begins the   *)
(* sequence, and asks for more only while none is behind it.                 *)
THEOREM AcceptsHeads ==
  ASSUME NEW bs \in Seq(Byte), NEW pos \in 0..Len(bs), NEW p,
         p = Parse(Fresh, Part(bs, 1, pos)).parser
  PROVE  /\ p.result = "good" => \E k \in 1..Len(bs) : IsHead(Part(bs, 1, k)) /\ k <= pos
         /\ \A k \in 1..Len(bs) :
              IsHead(Part(bs, 1, k)) =>
                p.result # "bad" /\ (p.result = "indeterminate" => k > pos)
<1> DEFINE u == Part(bs, 1, pos)
<1>1. u \in Seq(Byte) /\ Len(u) = pos /\ pos \in Nat /\ Len(bs) \in Nat /\ pos <= Len(bs)
  BY PrefixType
<1>2. ASSUME p.result = "good"
      PROVE  \E k \in 1..Len(bs) : IsHead(Part(bs, 1, k)) /\ k <= pos
  <2>1. PICK k \in 1..Len(u) : Reads(Fresh, Part(u, 1, k), p)
    <3>1. p = Parse(Fresh, u).parser /\ p.result # "indeterminate"
      BY <1>2
    <3> HIDE DEF u
    <3> QED
      BY <1>1, <3>1, FreshType, Settled
  <2>2. k \in 0..pos /\ k \in 1..Len(bs) /\ k <= pos /\ k \in 0..Len(bs)
    BY <1>1
  <2>3. Part(u, 1, k) = Part(bs, 1, k)
    BY <2>2, PrefixOfPrefix
  <2>4. Part(bs, 1, k) \in Seq(Byte)
    BY <2>2, PrefixType
  <2> HIDE DEF u
  <2>5. IsHead(Part(bs, 1, k))
    BY <1>2, <2>1, <2>3, <2>4, GoodHead
  <2> QED
    BY <2>2, <2>5
<1>3. ASSUME NEW k \in 1..Len(bs), IsHead(Part(bs, 1, k))
      PROVE  p.result # "bad" /\ (p.result = "indeterminate" => k > pos)
  <2> DEFINE v == Part(bs, 1, k)
             w == Part(bs, k + 1, Len(bs))
  <2>1. k \in 0..Len(bs) /\ k \in Nat /\ Len(bs) \in k..Len(bs) /\ k + 1 \in Nat \ {0}
    BY <1>1
  <2>2. v \in Seq(Byte) /\ Len(v) = k
    BY <2>1, PrefixType
  <2>3. w \in Seq(Byte)
    <3> DEFINE j == k + 1
               n == Len(bs)
    <3>1. j \in Nat \ {0} /\ n \in Nat /\ n <= Len(bs)
      BY <1>1, <2>1
    <3> HIDE DEF j, n
    <3>2. Part(bs, j, n) \in Seq(Byte)
      BY <3>1, PartType
    <3> QED
      BY <3>2 DEF j, n
  <2>4. v \o w = bs
    <3>1. v \o w = Part(bs, 1, Len(bs))
      BY <2>1, JoinPart
    <3> QED
      BY <3>1, PartWhole
  <2>5. IsHead(v)
    BY <1>3
  <2> HIDE DEF v, w
  <2>6. PICK q \in Parser : Reads(Fresh, v, q) /\ q.result = "good"
    BY <2>2, <2>5, HeadGood
  <2>7. pos \in 0..Len(v \o w) /\ q.result # "indeterminate"
    BY <1>1, <2>4, <2>6
  <2>8. /\ pos >= Len(v) => Parse(Fresh, Part(v \o w, 1, pos)) = [parser |-> q, n |-> Len(v)]
        /\ pos < Len(v) => Parse(Fresh, Part(v \o w, 1, pos)).parser.result = "indeterminate"
    BY <2>2, <2>3, <2>6, <2>7, FreshType, DecidedOnce
  <2>9. /\ pos >= k => p = q
        /\ pos < k => p.result = "indeterminate"
    BY <2>2, <2>4, <2>8
  <2> QED
    BY <1>1, <2>1, <2>6, <2>9
<1> QED
  BY <1>2, <1>3
=============================================================================
