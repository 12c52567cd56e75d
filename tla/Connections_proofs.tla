-------------------------- MODULE Connections_proofs --------------------------
(* Theorems about Connections, for every number of connections and streams:  *)
(* type correctness, who owns a connection, and what its client reads.       *)
EXTENDS Connections, TLAPS

-----------------------------------------------------------------------------
(* Type correctness                                                          *)

LEMMA NextEventType == ASSUME NEW e \in Event PROVE NextEvent(e) \in Event
<1>1. EventMod \in Nat \ {0} /\ e + 1 \in Nat
  BY ConnectionsAssumption DEF Event
<1> QED
  BY <1>1 DEF NextEvent, Event

LEMMA FrameTypes ==
  /\ Reply \in Frame
  /\ \A k \in Streams : Header(k) \in Frame
  /\ \A k \in Streams, e \in Event : EventFrame(k, e) \in Frame
  /\ \A f \in Frame : /\ f.kind \in {"reply", "header", "event"}
                      /\ f.stream \in Streams \cup {None}
                      /\ f.kind = "event" => f.n \in Event
  /\ \A f \in Frame, r \in {"ok", "error", "aborted"} : Completed(f, r) \in Completion
BY DEF Frame, Reply, Header, EventFrame, Completed, Completion

View == [mid : Frame \cup {None}, header : BOOLEAN, last : Event \cup {None}, bad : BOOLEAN]
Piece == [frame : Frame, left : 1..2]

LEMMA WriteType == \A f \in Frame : Write(f) \in Piece
BY DEF Write, Piece

LEMMA ViewTypes ==
  /\ Nothing \in View
  /\ \A v \in View, f \in Frame, last \in BOOLEAN : See(v, f, last) \in View
<1>1. Nothing \in View
  BY DEF Nothing, View
<1>2. ASSUME NEW v \in View, NEW f \in Frame, NEW last \in BOOLEAN
      PROVE  See(v, f, last) \in View
  <2>1. /\ (IF last THEN None ELSE f) \in Frame \cup {None}
        /\ (IF f.kind = "event" /\ last THEN f.n ELSE v.last) \in Event \cup {None}
    BY FrameTypes DEF View
  <2>2. /\ (v.header \/ (f.kind = "header" /\ last)) \in BOOLEAN
        /\ (\/ v.bad
            \/ v.mid \notin {None, f}
            \/ f.kind = "event" /\ ~v.header
            \/ f.kind = "event" /\ last /\ v.last \notin {None} /\ f.n # NextEvent(v.last))
           \in BOOLEAN
    BY DEF View
  <2> QED
    BY <2>1, <2>2 DEF See, View
<1> QED
  BY <1>1, <1>2

LEMMA AppendType ==
  ASSUME NEW S, NEW q \in [Conns -> Seq(S)], NEW c \in Conns, NEW e \in S
  PROVE  [q EXCEPT ![c] = Append(@, e)] \in [Conns -> Seq(S)]
OBVIOUS

LEMMA TailType ==
  ASSUME NEW S, NEW q \in [Conns -> Seq(S)], NEW c \in Conns, q[c] # <<>>
  PROVE  Head(q[c]) \in S /\ [q EXCEPT ![c] = Tail(@)] \in [Conns -> Seq(S)]
OBVIOUS

LEMMA TypeInit == Init => TypeOK
<1> SUFFICES ASSUME Init PROVE TypeOK
  OBVIOUS
<1>1. wire \in [Conns -> View]
  BY ViewTypes DEF Init
<1>2. event \in [Streams -> Event]
  BY ConnectionsAssumption DEF Init, Event
<1>3. /\ out \in [Conns -> Seq([frame : Frame, left : 1..2])]
      /\ rest \in [Conns -> Seq(Frame)]
      /\ done \in [Conns -> Seq(Completion)]
  BY DEF Init
<1>4. /\ sock \in [Conns -> {"free", "accepted", "open", "closed"}]
      /\ peer \in [Conns -> BOOLEAN] /\ split \in [Conns -> BOOLEAN]
      /\ read \in [Conns -> ReadState]
      /\ conns \subseteq Conns
  BY DEF Init, ReadState
<1>5. subs \in [Streams -> SUBSET Conns] /\ slots \in [Streams -> 0..1]
  BY DEF Init
<1>6. acceptor \in BOOLEAN /\ stopped \in BOOLEAN /\ accept \in Conns \cup {None, "pending"}
  BY DEF Init
<1> QED
  BY <1>1, <1>2, <1>3, <1>4, <1>5, <1>6 DEF TypeOK, View

LEMMA CloseTypes ==
  ASSUME TypeOK, NEW C \in SUBSET Conns, Close(C)
  PROVE  /\ sock' \in [Conns -> {"free", "accepted", "open", "closed"}]
         /\ read' \in [Conns -> ReadState]
         /\ peer' \in [Conns -> BOOLEAN]
         /\ wire' \in [Conns -> View]
         /\ split' \in [Conns -> BOOLEAN]
<1>1. wire' \in [Conns -> View]
  BY ViewTypes DEF TypeOK, Close, View
<1>2. /\ sock' \in [Conns -> {"free", "accepted", "open", "closed"}]
      /\ read' \in [Conns -> ReadState]
  BY DEF TypeOK, Close, ReadState
<1>3. peer' \in [Conns -> BOOLEAN] /\ split' \in [Conns -> BOOLEAN]
  BY DEF TypeOK, Close
<1> QED
  BY <1>1, <1>2, <1>3

LEMMA TypeStep == TypeOK /\ [Next]_vars => TypeOK'
<1> SUFFICES ASSUME TypeOK, [Next]_vars PROVE TypeOK'
  OBVIOUS
<1> USE DEF TypeOK, serverVars, managerVars, connectionVars, writeVars, wireVars
<1>1. CASE AcceptHandler
  <2>1. CASE acceptor
    <3>1. accept \in Conns /\ accept' = "pending" /\ StartConnection(accept)
      BY <1>1, <2>1 DEF AcceptHandler
    <3>2. /\ sock' \in [Conns -> {"free", "accepted", "open", "closed"}]
          /\ read' \in [Conns -> ReadState] /\ conns' \subseteq Conns
      BY <3>1 DEF StartConnection, ReadState
    <3> QED
      BY <1>1, <3>1, <3>2 DEF AcceptHandler
  <2>2. CASE ~acceptor
    BY <1>1, <2>2 DEF AcceptHandler
  <2> QED
    BY <2>1, <2>2
<1>2. CASE Signal
  <2>1. accept' \in Conns \cup {None, "pending"}
    BY <1>2 DEF Signal
  <2>2. Close(conns) /\ conns' = {}
    BY <1>2 DEF Signal, StopAll
  <2> QED
    BY <1>2, <2>1, <2>2, CloseTypes DEF Signal, StopAll, View
<1>3. ASSUME NEW c \in Conns, Connect(c) PROVE TypeOK'
  BY <1>3 DEF Connect
<1>4. ASSUME NEW c \in Conns, Arrive(c) PROVE TypeOK'
  BY <1>4 DEF Arrive, ReadState
<1>5. ASSUME NEW c \in Conns, PeerClose(c) PROVE TypeOK'
  BY <1>5 DEF PeerClose
<1>6. ASSUME NEW c \in Conns, AnswerRequest(c) PROVE TypeOK'
  <2>1. out' \in [Conns -> Seq(Piece)]
    BY <1>6, FrameTypes, WriteType, AppendType DEF AnswerRequest, Piece
  <2> QED
    BY <1>6, <2>1 DEF AnswerRequest, ReadState, Piece
<1>7. ASSUME NEW c \in Conns, NEW k \in Streams, StartStream(c, k) PROVE TypeOK'
  <2>1. out' \in [Conns -> Seq(Piece)]
    BY <1>7, FrameTypes, WriteType, AppendType DEF StartStream, Piece
  <2>2. slots' \in [Streams -> 0..1] /\ subs' \in [Streams -> SUBSET Conns]
    BY <1>7 DEF StartStream
  <2>3. read' \in [Conns -> ReadState]
    BY <1>7 DEF StartStream, ReadState
  <2> QED
    BY <1>7, <2>1, <2>2, <2>3 DEF StartStream, Piece
<1>8. ASSUME NEW c \in Conns, ReadMore(c) \/ ShortBody(c) \/ ReadAborted(c) PROVE TypeOK'
  BY <1>8 DEF ReadMore, ShortBody, ReadAborted, ReadState
<1>9. ASSUME NEW c \in Conns, ReadError(c) PROVE TypeOK'
  BY <1>9 DEF ReadError, ReadState
<1>10. ASSUME NEW c \in Conns, WriteAll(c) PROVE TypeOK'
  <2> DEFINE f == Head(out[c]).frame
  <2>1. f \in Frame /\ out' \in [Conns -> Seq(Piece)]
    <3>1. out \in [Conns -> Seq(Piece)] /\ out[c] # <<>> /\ out' = [out EXCEPT ![c] = Tail(@)]
      BY <1>10 DEF WriteAll, Piece
    <3>2. Head(out[c]) \in Piece /\ out' \in [Conns -> Seq(Piece)]
      BY <3>1, TailType
    <3> QED
      BY <3>2 DEF Piece
  <2>2. wire' \in [Conns -> View]
    <3>1. wire' = [wire EXCEPT ![c] = IF split[c] THEN @ ELSE See(@, f, TRUE)]
      BY <1>10 DEF WriteAll
    <3> HIDE DEF f
    <3>2. wire \in [Conns -> View] /\ See(wire[c], f, TRUE) \in View
      BY <2>1, ViewTypes DEF View
    <3> QED
      BY <3>1, <3>2
  <2>3. done' \in [Conns -> Seq(Completion)]
    <3> HIDE DEF f
    <3>1. Completed(f, "ok") \in Completion
      BY <2>1, FrameTypes
    <3>2. done' = [done EXCEPT ![c] = Append(@, Completed(f, "ok"))]
      BY <1>10 DEF WriteAll, f
    <3> QED
      BY <3>1, <3>2, AppendType
  <2> QED
    BY <1>10, <2>1, <2>2, <2>3 DEF WriteAll, View, Piece
<1>11. ASSUME NEW c \in Conns, WritePart(c) PROVE TypeOK'
  <2> DEFINE f == Head(out[c]).frame
  <2>1. f \in Frame /\ out' \in [Conns -> Seq(Piece)]
    <3>1. out \in [Conns -> Seq(Piece)] /\ out[c] # <<>> /\ out' = [out EXCEPT ![c] = Tail(@)]
      BY <1>11 DEF WritePart, Piece
    <3>2. Head(out[c]) \in Piece /\ out' \in [Conns -> Seq(Piece)]
      BY <3>1, TailType
    <3> QED
      BY <3>2 DEF Piece
  <2>2. split' \in [Conns -> BOOLEAN]
    BY <1>11, Zenon DEF WritePart
  <2>3. wire' \in [Conns -> View]
    <3>1. wire' = [wire EXCEPT ![c] = IF split'[c] THEN Nothing ELSE See(@, f, FALSE)]
      BY <1>11 DEF WritePart
    <3> HIDE DEF f
    <3>2. wire \in [Conns -> View] /\ See(wire[c], f, FALSE) \in View /\ Nothing \in View
      BY <2>1, ViewTypes DEF View
    <3> QED
      BY <3>1, <3>2
  <2>4. rest' \in [Conns -> Seq(Frame)]
    <3>1. rest' = [rest EXCEPT ![c] = Append(@, f)]
      BY <1>11 DEF WritePart
    <3> HIDE DEF f
    <3> QED
      BY <2>1, <3>1, AppendType
  <2> QED
    BY <1>11, <2>1, <2>2, <2>3, <2>4 DEF WritePart, View, Piece
<1>12. ASSUME NEW c \in Conns, WriteOn(c) PROVE TypeOK'
  <2>1. Head(rest[c]) \in Frame /\ rest' \in [Conns -> Seq(Frame)]
    BY <1>12, TailType DEF WriteOn
  <2>2. [frame |-> Head(rest[c]), left |-> 1] \in Piece
    BY <2>1 DEF Piece
  <2>3. out' \in [Conns -> Seq(Piece)]
    BY <1>12, <2>2, AppendType DEF WriteOn, Piece
  <2> QED
    BY <1>12, <2>1, <2>3 DEF WriteOn, Piece
<1>13. ASSUME NEW c \in Conns, WriteFails(c) PROVE TypeOK'
  <2> DEFINE d == Completed(Head(out[c]).frame, IF sock[c] = "closed" THEN "aborted" ELSE "error")
  <2>1. Head(out[c]).frame \in Frame /\ out' \in [Conns -> Seq(Piece)]
    <3>1. out \in [Conns -> Seq(Piece)] /\ out[c] # <<>> /\ out' = [out EXCEPT ![c] = Tail(@)]
      BY <1>13 DEF WriteFails, Piece
    <3>2. Head(out[c]) \in Piece /\ out' \in [Conns -> Seq(Piece)]
      BY <3>1, TailType
    <3> QED
      BY <3>2 DEF Piece
  <2>2. d \in Completion
    BY <2>1, FrameTypes
  <2>3. done' = [done EXCEPT ![c] = Append(@, d)]
    BY <1>13 DEF WriteFails
  <2> HIDE DEF d
  <2>4. done' \in [Conns -> Seq(Completion)]
    BY <2>2, <2>3, AppendType
  <2> QED
    BY <1>13, <2>1, <2>4 DEF WriteFails, Piece
<1>14. ASSUME NEW c \in Conns, WriteHandler(c) PROVE TypeOK'
  <2>1. done' \in [Conns -> Seq(Completion)]
    <3>1. done[c] # <<>> /\ done' = [done EXCEPT ![c] = Tail(@)]
      BY <1>14, Zenon DEF WriteHandler, ReplyWritten, HeaderWritten, EventWritten
    <3> QED
      BY <3>1, TailType
  <2>2. CASE \/ UNCHANGED <<managerVars, sock, peer, read, wireVars>>
    BY <1>14, <2>1, <2>2 DEF WriteHandler, ReplyWritten, HeaderWritten, EventWritten
  <2>3. CASE StopAnswering(c)
    BY <1>14, <2>1, <2>3, CloseTypes
       DEF WriteHandler, ReplyWritten, HeaderWritten, EventWritten, StopAnswering, View
  <2>4. ASSUME NEW k, StopStream(c, k) PROVE TypeOK'
    <3>1. subs' \in [Streams -> SUBSET Conns]
      BY <2>4 DEF StopStream
    <3> QED
      BY <1>14, <2>1, <2>4, <3>1, CloseTypes
         DEF WriteHandler, ReplyWritten, HeaderWritten, EventWritten, StopStream, View
  <2> QED
    BY <1>14, <2>2, <2>3, <2>4 DEF WriteHandler, ReplyWritten, HeaderWritten, EventWritten
<1>15. ASSUME NEW k \in Streams, Broadcast(k) PROVE TypeOK'
  <2>1. event' \in [Streams -> Event]
    BY <1>15, NextEventType DEF Broadcast
  <2>2. out' \in [Conns -> Seq(Piece)]
    <3>1. Write(EventFrame(k, event[k])) \in Piece
      BY FrameTypes, WriteType
    <3>2. slots[k] \in 0..1
      OBVIOUS
    <3>3. ASSUME NEW n \in 0..1, NEW p \in Piece PROVE [i \in 1..n |-> p] \in Seq(Piece)
      OBVIOUS
    <3> DEFINE w == [i \in 1..slots[k] |-> Write(EventFrame(k, event[k]))]
    <3>4. w \in Seq(Piece)
      BY <3>1, <3>2, <3>3
    <3>5. out' = [c \in Conns |-> IF c \in subs[k] THEN out[c] \o w ELSE out[c]]
      BY <1>15 DEF Broadcast
    <3>6. out \in [Conns -> Seq(Piece)]
      BY DEF Piece
    <3> HIDE DEF w
    <3>7. \A c \in Conns : out[c] \o w \in Seq(Piece)
      BY <3>4, <3>6
    <3> QED
      BY <3>5, <3>6, <3>7
  <2>3. split' \in [Conns -> BOOLEAN]
    BY <1>15 DEF Broadcast
  <2>4. wire' \in [Conns -> View]
    BY <1>15, ViewTypes DEF Broadcast, View
  <2> QED
    BY <1>15, <2>1, <2>2, <2>3, <2>4 DEF Broadcast, Piece, View
<1>16. CASE UNCHANGED vars
  BY <1>16 DEF vars
<1> QED
  BY <1>1, <1>2, <1>3, <1>4, <1>5, <1>6, <1>7, <1>8, <1>9, <1>10, <1>11, <1>12, <1>13,
     <1>14, <1>15, <1>16 DEF Next, ReadHandler

(* A connection's record, its writes and their completions have the shape    *)
(* their handlers expect, and a stream's signal has at most one handler      *)
(* (Connections!TypeOK).                                                     *)
THEOREM ConnectionTypes == Spec => []TypeOK
BY TypeInit, TypeStep, PTL DEF Spec

-----------------------------------------------------------------------------
(* The connection's way through the manager                                  *)

(* A connection whose accept has not been handled has nothing outstanding,   *)
(* and one that has begun to answer or to stream reads no more.              *)
OwnerInv ==
  /\ accept \in Conns => sock[accept] = "accepted"
  /\ \A c \in Conns : sock[c] \in {"free", "accepted"} =>
       /\ read[c] = "none" /\ out[c] = <<>> /\ rest[c] = <<>> /\ done[c] = <<>>
       /\ c \notin conns /\ \A k \in Streams : c \notin subs[k]
       /\ wire[c] = Nothing /\ ~split[c]
  /\ \A c \in Conns : read[c] # "none" =>
       /\ out[c] = <<>> /\ rest[c] = <<>> /\ done[c] = <<>>
       /\ \A k \in Streams : c \notin subs[k]
       /\ wire[c] = Nothing /\ ~split[c]
  /\ OneOwner

(* The acceptor is closed once the signal's handler has run.                 *)
StopInv == stopped => ~acceptor

LEMMA OwnerInit == Init => OwnerInv /\ StopInv
<1> SUFFICES ASSUME Init PROVE OwnerInv /\ StopInv
  OBVIOUS
<1>1. StopInv /\ accept \notin Conns
  BY ConnectionsAssumption DEF Init, StopInv
<1>2. OneOwner
  BY DEF Init, OneOwner
<1> QED
  BY <1>1, <1>2 DEF Init, OwnerInv

(* Closing connections with something outstanding, or in connections_.       *)
LEMMA CloseOwner ==
  ASSUME TypeOK, OwnerInv, NEW C \in SUBSET Conns, Close(C),
         \A c \in C : sock[c] \notin {"free", "accepted"},
         conns' \subseteq conns, subs' \in [Streams -> SUBSET Conns],
         \A k \in Streams : subs'[k] \subseteq subs[k],
         out' = out, rest' = rest,
         done' \in [Conns -> Seq(Completion)],
         \A c \in Conns : done[c] = <<>> => done'[c] = <<>>,
         accept' = accept \/ accept' \notin Conns
  PROVE  OwnerInv'
<1>1. /\ \A c \in Conns : sock'[c] = IF c \in C THEN "closed" ELSE sock[c]
      /\ \A c \in Conns : read'[c] = IF c \in C /\ read[c] = "pending" THEN "aborted" ELSE read[c]
      /\ \A c \in Conns : wire'[c] = IF c \in C THEN Nothing ELSE wire[c]
      /\ \A c \in Conns : split'[c] => split[c]
  BY DEF Close
<1>2. OneOwner'
  BY DEF OwnerInv, OneOwner
<1>3. accept' \in Conns => sock'[accept'] = "accepted"
  BY <1>1 DEF OwnerInv
<1>4. ASSUME NEW c \in Conns, sock'[c] \in {"free", "accepted"}
      PROVE  /\ read'[c] = "none" /\ out'[c] = <<>> /\ rest'[c] = <<>> /\ done'[c] = <<>>
             /\ c \notin conns' /\ \A k \in Streams : c \notin subs'[k]
             /\ wire'[c] = Nothing /\ ~split'[c]
  <2>1. c \notin C /\ sock[c] \in {"free", "accepted"}
    BY <1>1, <1>4
  <2> QED
    BY <1>1, <2>1 DEF OwnerInv
<1>5. ASSUME NEW c \in Conns, read'[c] # "none"
      PROVE  /\ out'[c] = <<>> /\ rest'[c] = <<>> /\ done'[c] = <<>>
             /\ \A k \in Streams : c \notin subs'[k]
             /\ wire'[c] = Nothing /\ ~split'[c]
  <2>1. read[c] # "none"
    BY <1>1, <1>5
  <2> QED
    BY <1>1, <2>1 DEF OwnerInv
<1> QED
  BY <1>2, <1>3, <1>4, <1>5 DEF OwnerInv

(* A step of connection c alone that neither opens nor hands it on.          *)
LEMMA OwnOwner ==
  ASSUME TypeOK, OwnerInv, NEW c \in Conns,
         sock[c] \notin {"free", "accepted"}, sock'[c] \notin {"free", "accepted"},
         conns' \subseteq conns, subs' = subs, accept' = accept,
         \A d \in Conns \ {c} :
           /\ sock'[d] = sock[d] /\ read'[d] = read[d] /\ out'[d] = out[d]
           /\ rest'[d] = rest[d] /\ done'[d] = done[d] /\ wire'[d] = wire[d]
           /\ split'[d] = split[d],
         read'[c] # "none" =>
           /\ out'[c] = <<>> /\ rest'[c] = <<>> /\ done'[c] = <<>>
           /\ \A k \in Streams : c \notin subs'[k]
           /\ wire'[c] = Nothing /\ ~split'[c]
  PROVE  OwnerInv'
<1>1. OneOwner'
  BY DEF OwnerInv, OneOwner
<1>2. accept' \in Conns => sock'[accept'] = "accepted"
  BY DEF OwnerInv
<1>3. ASSUME NEW d \in Conns, sock'[d] \in {"free", "accepted"}
      PROVE  /\ read'[d] = "none" /\ out'[d] = <<>> /\ rest'[d] = <<>> /\ done'[d] = <<>>
             /\ d \notin conns' /\ \A k \in Streams : d \notin subs'[k]
             /\ wire'[d] = Nothing /\ ~split'[d]
  BY <1>3 DEF OwnerInv
<1>4. ASSUME NEW d \in Conns, read'[d] # "none"
      PROVE  /\ out'[d] = <<>> /\ rest'[d] = <<>> /\ done'[d] = <<>>
             /\ \A k \in Streams : d \notin subs'[k]
             /\ wire'[d] = Nothing /\ ~split'[d]
  BY <1>4 DEF OwnerInv
<1> QED
  BY <1>1, <1>2, <1>3, <1>4 DEF OwnerInv

LEMMA OwnerStep == TypeOK /\ OwnerInv /\ [Next]_vars => OwnerInv'
<1> SUFFICES ASSUME TypeOK, OwnerInv, [Next]_vars PROVE OwnerInv'
  OBVIOUS
<1>0. TypeOK'
  BY TypeStep
<1> USE DEF serverVars, managerVars, connectionVars, writeVars, wireVars
<1>1. CASE AcceptHandler
  <2>1. CASE acceptor
    <3> DEFINE a == accept
    <3>1. /\ a \in Conns /\ accept' = "pending" /\ sock[a] = "accepted"
          /\ sock' = [sock EXCEPT ![a] = "open"] /\ conns' = conns \cup {a}
          /\ read' = [read EXCEPT ![a] = "pending"]
          /\ UNCHANGED <<subs, out, rest, done, wire, split>>
      BY <1>1, <2>1 DEF AcceptHandler, StartConnection, OwnerInv
    <3>2. \A k \in Streams : a \notin subs[k]
      BY <3>1 DEF OwnerInv
    <3>3. OneOwner'
      BY <3>1, <3>2 DEF OwnerInv, OneOwner
    <3>4. accept' \notin Conns
      BY <3>1, ConnectionsAssumption
    <3>5. /\ sock'[a] = "open" /\ read'[a] = "pending"
          /\ \A c \in Conns \ {a} : sock'[c] = sock[c] /\ read'[c] = read[c]
      BY <3>1 DEF TypeOK
    <3> HIDE DEF a
    <3> QED
      BY <3>1, <3>3, <3>4, <3>5 DEF OwnerInv
  <2>2. CASE ~acceptor
    BY <1>1, <2>2, ConnectionsAssumption DEF AcceptHandler, OwnerInv, OneOwner
  <2> QED
    BY <2>1, <2>2
<1>2. CASE Signal
  <2>1. /\ Close(conns) /\ conns' = {} /\ subs' = subs /\ conns \in SUBSET Conns
        /\ UNCHANGED <<out, rest, done>>
        /\ accept' = accept \/ accept' \notin Conns
    BY <1>2, ConnectionsAssumption DEF Signal, StopAll, TypeOK
  <2>2. \A c \in conns : sock[c] \notin {"free", "accepted"}
    BY <2>1 DEF OwnerInv
  <2> QED
    BY <1>0, <2>1, <2>2, CloseOwner DEF TypeOK
<1>3. ASSUME NEW c \in Conns, Connect(c) PROVE OwnerInv'
  <2>1. /\ accept' = c /\ sock[c] = "free" /\ sock'[c] = "accepted"
        /\ \A d \in Conns \ {c} : sock'[d] = sock[d]
        /\ UNCHANGED <<conns, subs, read, out, rest, done, wire, split>>
    BY <1>3 DEF Connect, TypeOK
  <2> QED
    BY <2>1 DEF OwnerInv, OneOwner
<1>4. ASSUME NEW c \in Conns, Arrive(c) PROVE OwnerInv'
  <2>1. /\ read[c] = "pending" /\ \A d \in Conns \ {c} : read'[d] = read[d]
        /\ UNCHANGED <<accept, sock, conns, subs, out, rest, done, wire, split>>
    BY <1>4 DEF Arrive, TypeOK
  <2>2. sock[c] \notin {"free", "accepted"}
    BY <2>1 DEF OwnerInv
  <2> QED
    BY <2>1, <2>2 DEF OwnerInv, OneOwner
<1>5. ASSUME NEW c \in Conns, PeerClose(c) PROVE OwnerInv'
  BY <1>5 DEF PeerClose, OwnerInv, OneOwner
<1>6. ASSUME NEW c \in Conns, AnswerRequest(c) PROVE OwnerInv'
  <2>1. /\ read[c] = "answer" /\ read'[c] = "none"
        /\ \A d \in Conns \ {c} : read'[d] = read[d] /\ out'[d] = out[d]
        /\ UNCHANGED <<accept, sock, conns, subs, rest, done, wire, split>>
    BY <1>6 DEF AnswerRequest, TypeOK
  <2>2. sock[c] \notin {"free", "accepted"}
    BY <2>1 DEF OwnerInv
  <2> QED
    BY <2>1, <2>2, OwnOwner
<1>7. ASSUME NEW c \in Conns, NEW k \in Streams, StartStream(c, k) PROVE OwnerInv'
  <2>1. /\ read[c] = k /\ read'[c] = "none" /\ conns' = conns \ {c}
        /\ subs'[k] = subs[k] \cup {c} /\ \A j \in Streams \ {k} : subs'[j] = subs[j]
        /\ \A d \in Conns \ {c} : read'[d] = read[d] /\ out'[d] = out[d]
        /\ UNCHANGED <<accept, sock, rest, done, wire, split>>
    BY <1>7 DEF StartStream, TypeOK
  <2>2. k # "none"
    BY ConnectionsAssumption
  <2>3. sock[c] \notin {"free", "accepted"} /\ \A j \in Streams : c \notin subs[j]
    BY <2>1, <2>2 DEF OwnerInv
  <2>4. OneOwner'
    BY <2>1, <2>3 DEF OwnerInv, OneOwner
  <2> QED
    BY <2>1, <2>3, <2>4 DEF OwnerInv
<1>8. ASSUME NEW c \in Conns, ReadMore(c) \/ ShortBody(c) \/ ReadAborted(c) PROVE OwnerInv'
  <2>1. /\ read[c] # "none" /\ \A d \in Conns \ {c} : read'[d] = read[d]
        /\ UNCHANGED <<accept, sock, conns, subs, out, rest, done, wire, split>>
    BY <1>8 DEF ReadMore, ShortBody, ReadAborted, TypeOK
  <2>2. sock[c] \notin {"free", "accepted"}
    BY <2>1 DEF OwnerInv
  <2> QED
    BY <2>1, <2>2 DEF OwnerInv, OneOwner
<1>9. ASSUME NEW c \in Conns, ReadError(c) PROVE OwnerInv'
  <2>1. /\ read[c] = "error" /\ read'[c] = "none" /\ sock'[c] = "closed"
        /\ conns' = conns \ {c}
        /\ \A d \in Conns \ {c} : read'[d] = read[d] /\ sock'[d] = sock[d]
        /\ UNCHANGED <<accept, subs, out, rest, done, wire, split>>
    BY <1>9 DEF ReadError, TypeOK
  <2>2. sock[c] \notin {"free", "accepted"}
    BY <2>1 DEF OwnerInv
  <2> QED
    BY <2>1, <2>2, OwnOwner
<1>10. ASSUME NEW c \in Conns, WriteAll(c) \/ WritePart(c) \/ WriteOn(c) \/ WriteFails(c)
       PROVE  OwnerInv'
  <2>1. /\ out[c] # <<>> \/ rest[c] # <<>>
        /\ UNCHANGED <<accept, sock, conns, subs, read>>
    BY <1>10 DEF WriteAll, WritePart, WriteOn, WriteFails
  <2>2. \A d \in Conns \ {c} : /\ out'[d] = out[d] /\ rest'[d] = rest[d]
                               /\ done'[d] = done[d] /\ wire'[d] = wire[d]
                               /\ split'[d] = split[d]
    BY <1>10 DEF WriteAll, WritePart, WriteOn, WriteFails, TypeOK
  <2>3. read[c] = "none" /\ sock[c] \notin {"free", "accepted"}
    BY <2>1 DEF OwnerInv
  <2> QED
    BY <2>1, <2>2, <2>3, OwnOwner
<1>11. ASSUME NEW c \in Conns, WriteHandler(c) PROVE OwnerInv'
  <2>1. /\ done[c] # <<>> /\ done' = [done EXCEPT ![c] = Tail(@)]
        /\ UNCHANGED <<accept, out, rest>>
    BY <1>11, Zenon DEF WriteHandler, ReplyWritten, HeaderWritten, EventWritten
  <2>2. /\ read[c] = "none" /\ sock[c] \notin {"free", "accepted"}
        /\ done' \in [Conns -> Seq(Completion)]
        /\ \A d \in Conns \ {c} : done'[d] = done[d]
    BY <1>0, <2>1 DEF OwnerInv, TypeOK
  <2>3. CASE UNCHANGED <<managerVars, sock, peer, read, wireVars>>
    BY <2>1, <2>2, <2>3, OwnOwner
  <2>4. CASE StopAnswering(c)
    <3>1. /\ Close({c}) /\ {c} \in SUBSET Conns /\ conns' \subseteq conns /\ subs' = subs
          /\ subs' \in [Streams -> SUBSET Conns]
      BY <2>4 DEF StopAnswering, TypeOK
    <3> QED
      BY <2>1, <2>2, <3>1, CloseOwner
  <2>5. ASSUME NEW k, StopStream(c, k) PROVE OwnerInv'
    <3>1. /\ Close({c}) /\ {c} \in SUBSET Conns /\ conns' \subseteq conns
          /\ subs' \in [Streams -> SUBSET Conns]
          /\ \A j \in Streams : subs'[j] \subseteq subs[j]
      BY <2>5 DEF StopStream, TypeOK
    <3> QED
      BY <2>1, <2>2, <3>1, CloseOwner
  <2> QED
    BY <1>11, <2>3, <2>4, <2>5 DEF WriteHandler, ReplyWritten, HeaderWritten, EventWritten
<1>12. ASSUME NEW k \in Streams, Broadcast(k) PROVE OwnerInv'
  <2>1. /\ UNCHANGED <<accept, sock, conns, subs, read, rest, done>>
        /\ \A c \in Conns \ subs[k] : out'[c] = out[c] /\ (split'[c] <=> split[c])
        /\ \A c \in Conns : wire'[c] = IF split'[c] THEN Nothing ELSE wire[c]
    BY <1>12 DEF Broadcast
  <2>2. \A c \in Conns : read[c] # "none" \/ sock[c] \in {"free", "accepted"} => c \notin subs[k]
    BY DEF OwnerInv
  <2>3. OneOwner'
    BY <2>1 DEF OwnerInv, OneOwner
  <2> QED
    BY <2>1, <2>2, <2>3 DEF OwnerInv
<1>13. CASE UNCHANGED vars
  BY <1>13 DEF vars, OwnerInv, OneOwner
<1> QED
  BY <1>1, <1>2, <1>3, <1>4, <1>5, <1>6, <1>7, <1>8, <1>9, <1>10, <1>11, <1>12, <1>13
     DEF Next, ReadHandler

LEMMA OwnerInvariant == Spec => [](TypeOK /\ OwnerInv)
BY TypeInit, TypeStep, OwnerInit, OwnerStep, PTL DEF Spec

(* However requests, completions, errors and a signal interleave, a          *)
(* connection is in one set of the manager at most (Connections!OneOwner).   *)
THEOREM OneOwnerAlways == Spec => []OneOwner
<1>1. OwnerInv => OneOwner
  BY DEF OwnerInv
<1> QED
  BY <1>1, OwnerInvariant, PTL

LEMMA StopStep == StopInv /\ [Next]_vars => StopInv'
<1> SUFFICES ASSUME StopInv, [Next]_vars PROVE StopInv'
  OBVIOUS
<1>1. \/ Signal \/ UNCHANGED serverVars
      \/ stopped' = stopped /\ acceptor' = acceptor
  BY DEF Next, AcceptHandler, Connect, Arrive, PeerClose, ReadHandler, AnswerRequest,
         StartStream, ReadMore, ShortBody, ReadError, ReadAborted, WriteAll, WritePart,
         WriteOn, WriteFails, WriteHandler, ReplyWritten, HeaderWritten, EventWritten,
         Broadcast, vars
<1> QED
  BY <1>1, Zenon DEF StopInv, Signal, serverVars

(* Once a signal's handler has run no connection starts, also when the       *)
(* completion of an accept was waiting (Connections!NoStartAfterStop).       *)
THEOREM StopIsFinal == Spec => NoStartAfterStop
<1>1. StopInv /\ [Next]_vars => (stopped => conns' \subseteq conns)
  <2> SUFFICES ASSUME ~acceptor, [Next]_vars PROVE conns' \subseteq conns
    BY DEF StopInv
  <2> USE DEF serverVars, managerVars, connectionVars, writeVars, wireVars
  <2>1. CASE AcceptHandler
    BY <2>1 DEF AcceptHandler
  <2>2. CASE Signal
    BY <2>2 DEF Signal, StopAll
  <2>3. ASSUME NEW c \in Conns,
               \/ Connect(c) \/ Arrive(c) \/ PeerClose(c) \/ ReadHandler(c)
               \/ WriteAll(c) \/ WritePart(c) \/ WriteOn(c) \/ WriteFails(c)
        PROVE  conns' \subseteq conns
    BY <2>3 DEF Connect, Arrive, PeerClose, ReadHandler, AnswerRequest, StartStream, ReadMore,
                ShortBody, ReadError, ReadAborted, WriteAll, WritePart, WriteOn, WriteFails
  <2>4. ASSUME NEW c \in Conns, WriteHandler(c) PROVE conns' \subseteq conns
    BY <2>4 DEF WriteHandler, ReplyWritten, HeaderWritten, EventWritten, StopAnswering,
                StopStream
  <2>5. ASSUME NEW k \in Streams, Broadcast(k) PROVE conns' \subseteq conns
    BY <2>5 DEF Broadcast
  <2>6. CASE UNCHANGED vars
    BY <2>6 DEF vars
  <2> QED
    BY <2>1, <2>2, <2>3, <2>4, <2>5, <2>6 DEF Next
<1> QED
  BY <1>1, OwnerInit, StopStep, PTL DEF Spec, NoStartAfterStop

-----------------------------------------------------------------------------
(* What the client of a stream reads                                         *)

(* c's client reads, and no write began amid the pieces of another one.      *)
Whole(c) == sock[c] = "open" /\ peer[c] /\ ~split[c]

(* o: writes in progress, r: writes whose next piece is not asked for yet,   *)
(* v: what the client has seen.  Only one write has a piece out.             *)
OnePiece(o, r, v) ==
  /\ r # <<>> => Len(r) = 1 /\ o = <<>> /\ v.mid = r[1]
  /\ r = <<>> => v.mid = IF o # <<>> /\ o[1].left = 1 THEN o[1].frame ELSE None
  /\ \A i \in 2..Len(o) : o[i].left = 2

(* The frames the client has still to see to their ends, in their order.     *)
Ahead(o, r) == IF r # <<>> THEN r ELSE [i \in 1..Len(o) |-> o[i].frame]

(* v: what the client has seen, q: what is ahead, e: the stream's next event.*)
InOrder(v, q, e) ==
  /\ v.header \/ q # <<>>
  /\ \A i \in 1..Len(q) : q[i].kind = IF i = 1 /\ ~v.header THEN "header" ELSE "event"
  /\ \A i \in 1..Len(q) : q[i].kind = "event" =>
       NextEvent(q[i].n) = IF i = Len(q) THEN e ELSE q[i + 1].n
  /\ v.last # None => v.header /\ NextEvent(v.last) = IF q = <<>> THEN e ELSE q[1].n

(* q is the rest of the stream c is in, or of its answer.                    *)
Fits(c, v, q) ==
  /\ \A k \in Streams : c \in subs[k] => InOrder(v, q, event[k])
  /\ (\A k \in Streams : c \notin subs[k]) => \A i \in 1..Len(q) : q[i].kind = "reply"

WholeInv(c) ==
  Whole(c) => /\ OnePiece(out[c], rest[c], wire[c])
              /\ Fits(c, wire[c], Ahead(out[c], rest[c]))

WireInv ==
  /\ \A k \in Streams : subs[k] # {} => slots[k] = 1
  /\ \A c \in Conns : WholeInv(c)
  /\ StreamIntact

LEMMA EmptySeqLen ==
  ASSUME NEW S, NEW q \in Seq(S)
  PROVE  Len(q) \in Nat /\ (q = <<>> <=> Len(q) = 0)
OBVIOUS

LEMMA Elements ==
  ASSUME NEW S, NEW q \in Seq(S)
  PROVE  Len(q) \in Nat /\ \A i \in 1..Len(q) : q[i] \in S
OBVIOUS

LEMMA AheadType ==
  ASSUME NEW o \in Seq(Piece), NEW r \in Seq(Frame)
  PROVE  /\ Ahead(o, r) \in Seq(Frame)
         /\ r = <<>> => /\ Len(Ahead(o, r)) = Len(o)
                        /\ \A i \in 1..Len(o) : Ahead(o, r)[i] = o[i].frame
<1>1. Len(o) \in Nat /\ \A i \in 1..Len(o) : o[i].frame \in Frame
  <2>1. Len(o) \in Nat /\ \A i \in 1..Len(o) : o[i] \in Piece
    BY Elements, Zenon
  <2> QED
    BY <2>1 DEF Piece
<1> DEFINE q == [i \in 1..Len(o) |-> o[i].frame]
<1>2. q \in Seq(Frame) /\ Len(q) = Len(o)
  BY <1>1
<1> QED
  BY <1>2 DEF Ahead

(* When the client finds the stream broken by this piece of f.               *)
Broken(v, f, last) ==
  \/ v.bad
  \/ v.mid \notin {None, f}
  \/ f.kind = "event" /\ ~v.header
  \/ f.kind = "event" /\ last /\ v.last \notin {None}
       /\ f.n # NextEvent(v.last)

LEMMA SeeBroken ==
  ASSUME NEW v \in View, NEW f, NEW last \in BOOLEAN
  PROVE  See(v, f, last).bad = Broken(v, f, last)
BY Zenon DEF See, Broken

(* The client takes the first frame ahead.                                   *)
LEMMA SeeWhole ==
  ASSUME NEW v \in View, NEW q \in Seq(Frame), NEW r \in Seq(Frame), NEW e,
         q # <<>>, Len(r) = Len(q) - 1, \A i \in 1..Len(r) : r[i] = q[i + 1],
         InOrder(v, q, e)
  PROVE  /\ InOrder(See(v, q[1], TRUE), r, e)
         /\ v.mid \in {None, q[1]} /\ ~v.bad => ~See(v, q[1], TRUE).bad
<1> DEFINE f == q[1]
           w == See(v, f, TRUE)
<1>1. /\ Len(q) \in Nat \ {0} /\ Len(r) \in Nat /\ f \in Frame
      /\ (r = <<>> <=> Len(q) = 1) /\ v.header \in BOOLEAN
  BY EmptySeqLen DEF View
<1>2. /\ f.kind = IF ~v.header THEN "header" ELSE "event"
      /\ f.kind = "event" => NextEvent(f.n) = IF r = <<>> THEN e ELSE r[1].n
      /\ v.last # None => v.header /\ NextEvent(v.last) = f.n
  BY <1>1 DEF InOrder
<1>3. /\ w.header <=> v.header \/ f.kind = "header"
      /\ w.last = IF f.kind = "event" THEN f.n ELSE v.last
  BY DEF See
<1>4. v.mid \in {None, f} /\ ~v.bad => ~w.bad
  <2>1. w.bad = Broken(v, f, TRUE)
    BY SeeBroken
  <2> HIDE DEF w
  <2> QED
    BY <1>2, <2>1 DEF Broken
<1>5. w.header
  BY <1>1, <1>2, <1>3
<1>6. w.last # None => NextEvent(w.last) = IF r = <<>> THEN e ELSE r[1].n
  BY <1>1, <1>2, <1>3
<1>7. \A i \in 1..Len(r) : r[i].kind = "event"
  BY <1>1 DEF InOrder
<1>8. \A i \in 1..Len(r) : NextEvent(r[i].n) = IF i = Len(r) THEN e ELSE r[i + 1].n
  <2> SUFFICES ASSUME NEW i \in 1..Len(r)
               PROVE  NextEvent(r[i].n) = IF i = Len(r) THEN e ELSE r[i + 1].n
    OBVIOUS
  <2>1. /\ i + 1 \in 1..Len(q) /\ r[i] = q[i + 1] /\ q[i + 1].kind = "event"
        /\ (i = Len(r) <=> i + 1 = Len(q))
    BY <1>1, <1>7
  <2>2. NextEvent(q[i + 1].n) = IF i + 1 = Len(q) THEN e ELSE q[(i + 1) + 1].n
    BY <2>1 DEF InOrder
  <2>3. i # Len(r) => i + 1 \in 1..Len(r) /\ r[i + 1] = q[(i + 1) + 1]
    BY <1>1
  <2> QED
    BY <2>1, <2>2, <2>3
<1> HIDE DEF w
<1>9. InOrder(w, r, e)
  BY <1>5, <1>6, <1>7, <1>8 DEF InOrder
<1> QED
  BY <1>4, <1>9 DEF w

(* The client sees a piece of a frame that stays ahead.                      *)
LEMMA SeePart ==
  ASSUME NEW v \in View, NEW q \in Seq(Frame), NEW e, q # <<>>, InOrder(v, q, e)
  PROVE  /\ InOrder(See(v, q[1], FALSE), q, e)
         /\ v.mid \in {None, q[1]} /\ ~v.bad => ~See(v, q[1], FALSE).bad
<1> DEFINE f == q[1]
           w == See(v, f, FALSE)
<1>1. Len(q) \in Nat \ {0} /\ v.header \in BOOLEAN
  BY EmptySeqLen DEF View
<1>2. f.kind = IF ~v.header THEN "header" ELSE "event"
  BY <1>1 DEF InOrder
<1>3. /\ w.header <=> v.header
      /\ w.last = v.last
  BY <1>1 DEF See
<1>4. v.mid \in {None, f} /\ ~v.bad => ~w.bad
  <2>1. w.bad = Broken(v, f, FALSE)
    BY SeeBroken
  <2> HIDE DEF w
  <2> QED
    BY <1>2, <2>1 DEF Broken
<1> HIDE DEF w
<1>5. InOrder(w, q, e)
  BY <1>3 DEF InOrder
<1> QED
  BY <1>4, <1>5 DEF w

(* The stream's next event queues behind what is ahead.                      *)
LEMMA SendEvent ==
  ASSUME NEW v \in View, NEW q \in Seq(Frame), NEW r \in Seq(Frame), NEW k, NEW e \in Event,
         Len(r) = Len(q) + 1, \A i \in 1..Len(q) : r[i] = q[i],
         r[Len(r)] = EventFrame(k, e), InOrder(v, q, e)
  PROVE  InOrder(v, r, NextEvent(e))
<1>1. /\ Len(q) \in Nat /\ (q = <<>> <=> Len(q) = 0) /\ r # <<>>
      /\ r[Len(r)].kind = "event" /\ r[Len(r)].n = e
  BY EmptySeqLen DEF EventFrame
<1>2. \A i \in 1..Len(r) : r[i].kind = IF i = 1 /\ ~v.header THEN "header" ELSE "event"
  <2> SUFFICES ASSUME NEW i \in 1..Len(r)
               PROVE  r[i].kind = IF i = 1 /\ ~v.header THEN "header" ELSE "event"
    OBVIOUS
  <2>1. CASE i \in 1..Len(q)
    BY <2>1 DEF InOrder
  <2>2. CASE i = Len(r)
    BY <1>1, <2>2 DEF InOrder
  <2> QED
    BY <1>1, <2>1, <2>2
<1>3. \A i \in 1..Len(r) : r[i].kind = "event" =>
        NextEvent(r[i].n) = IF i = Len(r) THEN NextEvent(e) ELSE r[i + 1].n
  <2> SUFFICES ASSUME NEW i \in 1..Len(r), r[i].kind = "event"
               PROVE  NextEvent(r[i].n) = IF i = Len(r) THEN NextEvent(e) ELSE r[i + 1].n
    OBVIOUS
  <2>1. CASE i = Len(r)
    BY <1>1, <2>1
  <2>2. CASE i = Len(q) /\ i # 0
    <3>1. i \in 1..Len(q) /\ r[i] = q[i] /\ i + 1 = Len(r)
      BY <1>1, <2>2
    <3>2. NextEvent(q[i].n) = e
      BY <2>2, <3>1 DEF InOrder
    <3> QED
      BY <1>1, <3>1, <3>2
  <2>3. CASE i < Len(q)
    <3>1. i \in 1..Len(q) /\ r[i] = q[i] /\ i + 1 \in 1..Len(q) /\ r[i + 1] = q[i + 1]
          /\ i # Len(q) /\ i # Len(r)
      BY <1>1, <2>3
    <3>2. NextEvent(q[i].n) = q[i + 1].n
      BY <3>1 DEF InOrder
    <3> QED
      BY <3>1, <3>2
  <2> QED
    BY <1>1, <2>1, <2>2, <2>3
<1>4. v.last # None => v.header /\ NextEvent(v.last) = r[1].n
  <2>1. CASE q = <<>>
    BY <1>1, <2>1 DEF InOrder
  <2>2. CASE q # <<>>
    BY <1>1, <2>2 DEF InOrder
  <2> QED
    BY <2>1, <2>2
<1> QED
  BY <1>1, <1>2, <1>3, <1>4 DEF InOrder

(* The socket takes the rest of the oldest write.                            *)
LEMMA TakeAll ==
  ASSUME NEW o \in Seq(Piece), NEW v \in View, o # <<>>, OnePiece(o, <<>>, v)
  PROVE  LET f == Head(o).frame
             q == Ahead(o, <<>>)
             r == Ahead(Tail(o), <<>>)
         IN  /\ q \in Seq(Frame) /\ r \in Seq(Frame) /\ q # <<>> /\ q[1] = f
             /\ Len(r) = Len(q) - 1 /\ \A i \in 1..Len(r) : r[i] = q[i + 1]
             /\ v.mid \in {None, f}
             /\ OnePiece(Tail(o), <<>>, See(v, f, TRUE))
<1> DEFINE f == Head(o).frame
           q == Ahead(o, <<>>)
           t == Tail(o)
           r == Ahead(t, <<>>)
<1>1. /\ Len(o) \in Nat \ {0} /\ t \in Seq(Piece) /\ Len(t) = Len(o) - 1
      /\ \A i \in 1..Len(t) : t[i] = o[i + 1]
      /\ Head(o) = o[1]
  BY EmptySeqLen
<1>2. <<>> \in Seq(Frame)
  OBVIOUS
<1>3. /\ q \in Seq(Frame) /\ Len(q) = Len(o)
      /\ \A i \in 1..Len(o) : q[i] = o[i].frame
  BY <1>2, AheadType, Zenon
<1>4. /\ r \in Seq(Frame) /\ Len(r) = Len(t)
      /\ \A i \in 1..Len(t) : r[i] = t[i].frame
  BY <1>1, <1>2, AheadType, Zenon
<1> HIDE DEF q, r, t
<1>5. q # <<>> /\ q[1] = f
  BY <1>1, <1>3, EmptySeqLen
<1>6. \A i \in 1..Len(r) : r[i] = q[i + 1]
  BY <1>1, <1>3, <1>4
<1>7. v.mid \in {None, f}
  BY <1>1 DEF OnePiece
<1>8. OnePiece(t, <<>>, See(v, f, TRUE))
  <2>1. See(v, f, TRUE).mid = None
    BY DEF See
  <2>2. \A i \in 2..Len(t) : t[i].left = 2
    BY <1>1 DEF OnePiece
  <2>3. t # <<>> => t[1].left = 2
    <3>1. t # <<>> => Len(t) \in Nat \ {0}
      BY <1>1, EmptySeqLen
    <3> QED
      BY <1>1, <3>1 DEF OnePiece
  <2>4. (IF t # <<>> /\ t[1].left = 1 THEN t[1].frame ELSE None) = None
    BY <2>3
  <2> QED
    BY <2>1, <2>2, <2>4, Zenon DEF OnePiece
<1> QED
  BY <1>1, <1>3, <1>4, <1>5, <1>6, <1>7, <1>8 DEF q, r, t

(* The socket takes a first piece of the only write.                         *)
LEMMA TakePart ==
  ASSUME NEW o \in Seq(Piece), NEW v \in View, o # <<>>, OnePiece(o, <<>>, v),
         Len(o) = 1, Head(o).left = 2
  PROVE  LET f == Head(o).frame
             q == Ahead(o, <<>>)
         IN  /\ q \in Seq(Frame) /\ q # <<>> /\ q[1] = f /\ Ahead(<<>>, <<f>>) = q
             /\ v.mid = None
             /\ OnePiece(<<>>, <<f>>, See(v, f, FALSE))
<1> DEFINE f == Head(o).frame
           q == Ahead(o, <<>>)
<1>1. <<>> \in Seq(Frame) /\ Head(o) = o[1]
  BY EmptySeqLen
<1>2. /\ q \in Seq(Frame) /\ Len(q) = 1 /\ q[1] = f
  <2>1. /\ q \in Seq(Frame) /\ Len(q) = Len(o)
        /\ \A i \in 1..Len(o) : q[i] = o[i].frame
    BY <1>1, AheadType, Zenon
  <2> HIDE DEF q
  <2> QED
    BY <1>1, <2>1
<1>3. q # <<>> /\ <<f>> = q
  BY <1>2, EmptySeqLen
<1>4. v.mid = None
  BY <1>1 DEF OnePiece
<1>5. OnePiece(<<>>, <<f>>, See(v, f, FALSE))
  BY DEF OnePiece, See
<1> QED
  BY <1>2, <1>3, <1>4, <1>5 DEF Ahead

(* The write asks for its next piece.                                        *)
LEMMA AskNext ==
  ASSUME NEW o \in Seq(Piece), NEW r \in Seq(Frame), NEW v, r # <<>>, OnePiece(o, r, v)
  PROVE  LET p == Append(o, [frame |-> Head(r), left |-> 1])
         IN  Tail(r) = <<>> /\ OnePiece(p, <<>>, v) /\ Ahead(p, <<>>) = Ahead(o, r)
<1>1. Len(r) = 1 /\ o = <<>> /\ v.mid = r[1]
  BY Zenon DEF OnePiece
<1>5. Head(r) = r[1] /\ Tail(r) = <<>>
  <2>1. Tail(r) \in Seq(Frame) /\ Len(Tail(r)) = 0 /\ Head(r) = r[1]
    BY <1>1
  <2> QED
    BY <2>1, EmptySeqLen
<1> DEFINE p == <<[frame |-> r[1], left |-> 1]>>
<1>2. Append(o, [frame |-> Head(r), left |-> 1]) = p
  BY <1>1, <1>5
<1>3. OnePiece(p, <<>>, v)
  BY <1>1 DEF OnePiece
<1>4. Ahead(p, <<>>) = r /\ Ahead(o, r) = r
  BY <1>1 DEF Ahead
<1> QED
  BY <1>1, <1>2, <1>3, <1>4, <1>5

(* Another write queues behind those in progress.                            *)
LEMMA QueueWrite ==
  ASSUME NEW o \in Seq(Piece), NEW f \in Frame, NEW v \in View, OnePiece(o, <<>>, v),
         NEW p \in Seq(Piece), Len(p) = Len(o) + 1, \A i \in 1..Len(o) : p[i] = o[i],
         p[Len(p)] = Write(f)
  PROVE  LET q == Ahead(o, <<>>)
             r == Ahead(p, <<>>)
         IN  /\ q \in Seq(Frame) /\ r \in Seq(Frame) /\ Len(r) = Len(q) + 1
             /\ \A i \in 1..Len(q) : r[i] = q[i]
             /\ r[Len(r)] = f
             /\ OnePiece(p, <<>>, v)
<1> DEFINE q == Ahead(o, <<>>)
           r == Ahead(p, <<>>)
<1>1. /\ Len(o) \in Nat /\ (o = <<>> <=> Len(o) = 0) /\ p # <<>>
      /\ p[Len(p)].frame = f /\ p[Len(p)].left = 2
  BY EmptySeqLen DEF Write
<1>2. <<>> \in Seq(Frame)
  OBVIOUS
<1>3. /\ q \in Seq(Frame) /\ Len(q) = Len(o)
      /\ \A i \in 1..Len(o) : q[i] = o[i].frame
  BY <1>2, AheadType, Zenon
<1>4. /\ r \in Seq(Frame) /\ Len(r) = Len(p)
      /\ \A i \in 1..Len(p) : r[i] = p[i].frame
  BY <1>2, AheadType, Zenon
<1> HIDE DEF q, r
<1>5. \A i \in 1..Len(q) : r[i] = q[i]
  BY <1>1, <1>3, <1>4
<1>6. r[Len(r)] = f
  BY <1>1, <1>4
<1>7. \A i \in 2..Len(p) : p[i].left = 2
  BY <1>1 DEF OnePiece
<1>8. v.mid = IF p[1].left = 1 THEN p[1].frame ELSE None
  <2>1. CASE o = <<>>
    BY <1>1, <2>1 DEF OnePiece
  <2>2. CASE o # <<>>
    BY <1>1, <2>2 DEF OnePiece
  <2> QED
    BY <2>1, <2>2
<1>9. OnePiece(p, <<>>, v)
  BY <1>1, <1>7, <1>8 DEF OnePiece
<1> QED
  BY <1>3, <1>4, <1>5, <1>6, <1>9 DEF q, r

LEMMA WireInit == Init => WireInv
<1> SUFFICES ASSUME Init PROVE WireInv
  OBVIOUS
<1>1. \A c \in Conns : ~Whole(c)
  BY DEF Init, Whole
<1>2. StreamIntact
  BY DEF Init, StreamIntact, Nothing
<1> QED
  BY <1>1, <1>2 DEF Init, WireInv, WholeInv

(* A connection the step leaves alone, or whose client reads no more.        *)
LEMMA StillWhole ==
  ASSUME NEW c \in Conns, WholeInv(c), Whole(c)' => Whole(c),
         Whole(c)' => /\ out'[c] = out[c] /\ rest'[c] = rest[c] /\ wire'[c] = wire[c]
                      /\ \A k \in Streams : c \in subs'[k] <=> c \in subs[k]
                      /\ \A k \in Streams : c \in subs[k] => event'[k] = event[k]
  PROVE  WholeInv(c)'
BY DEF WholeInv, Fits

(* A connection that has just been given its first write.                    *)
LEMMA FirstWrite ==
  ASSUME NEW c \in Conns, NEW f \in Frame,
         out'[c] = <<Write(f)>>, rest'[c] = <<>>, wire'[c] = Nothing,
         \/ f.kind = "reply" /\ \A k \in Streams : c \notin subs'[k]
         \/ f.kind = "header" /\ \E k \in Streams : c \in subs'[k]
  PROVE  WholeInv(c)'
<1> DEFINE q == [i \in 1..1 |-> f]
<1>1. Ahead(out'[c], rest'[c]) = q
  BY DEF Ahead, Write
<1>2. OnePiece(out'[c], rest'[c], wire'[c])
  BY DEF OnePiece, Write, Nothing
<1>3. Len(q) = 1 /\ q # <<>> /\ q[1] = f
  OBVIOUS
<1> HIDE DEF q
<1>4. CASE f.kind = "reply" /\ \A k \in Streams : c \notin subs'[k]
  BY <1>1, <1>2, <1>3, <1>4 DEF WholeInv, Fits
<1>5. CASE f.kind = "header" /\ \E k \in Streams : c \in subs'[k]
  <2>1. \A e : InOrder(Nothing, q, e)
    BY <1>3, <1>5 DEF InOrder, Nothing
  <2>2. Fits(c, wire[c], Ahead(out[c], rest[c]))'
    BY <1>1, <1>5, <2>1 DEF Fits
  <2> QED
    BY <1>2, <2>2 DEF WholeInv
<1> QED
  BY <1>4, <1>5

LEMMA CloseWire ==
  ASSUME TypeOK, WireInv, NEW C \in SUBSET Conns, Close(C),
         out' = out, rest' = rest, event' = event, slots' = slots,
         \A k \in Streams : subs'[k] \subseteq subs[k],
         \A c \in Conns \ C, k \in Streams : c \in subs[k] => c \in subs'[k]
  PROVE  WireInv'
<1>1. /\ \A c \in Conns : sock'[c] = IF c \in C THEN "closed" ELSE sock[c]
      /\ \A c \in Conns : peer'[c] => c \notin C /\ peer[c]
      /\ \A c \in Conns : wire'[c] = IF c \in C THEN Nothing ELSE wire[c]
      /\ \A c \in Conns : c \notin C => (split'[c] <=> split[c])
  BY DEF Close
<1>2. ASSUME NEW c \in Conns PROVE WholeInv(c)'
  <2>1. Whole(c)' => Whole(c) /\ c \notin C
    BY <1>1 DEF Whole
  <2>2. WholeInv(c)
    BY DEF WireInv
  <2>3. Whole(c)' => /\ out'[c] = out[c] /\ rest'[c] = rest[c] /\ wire'[c] = wire[c]
                     /\ \A k \in Streams : c \in subs'[k] <=> c \in subs[k]
                     /\ \A k \in Streams : c \in subs[k] => event'[k] = event[k]
    BY <1>1, <2>1
  <2> QED
    BY <2>1, <2>2, <2>3, StillWhole
<1>3. StreamIntact'
  BY <1>1 DEF WireInv, StreamIntact, Nothing
<1>4. \A k \in Streams : subs'[k] # {} => slots'[k] = 1
  BY DEF WireInv
<1> QED
  BY <1>2, <1>3, <1>4 DEF WireInv

(* A step of connection c alone that writes nothing and closes it or not.    *)
LEMMA QuietWire ==
  ASSUME TypeOK, WireInv,
         out' = out, rest' = rest, event' = event, slots' = slots, subs' = subs,
         wire' = wire, \A c \in Conns : Whole(c)' => Whole(c)
  PROVE  WireInv'
<1>1. ASSUME NEW c \in Conns PROVE WholeInv(c)'
  BY StillWhole DEF WireInv
<1> QED
  BY <1>1 DEF WireInv, StreamIntact

(* The first write of connection c.                                          *)
LEMMA StartWire ==
  ASSUME TypeOK, OwnerInv, WireInv, NEW c \in Conns, NEW f \in Frame,
         read[c] # "none", out' = [out EXCEPT ![c] = Append(@, Write(f))],
         rest' = rest, wire' = wire, event' = event, sock' = sock, peer' = peer, split' = split,
         \A k \in Streams : subs'[k] # {} => slots'[k] = 1,
         \A d \in Conns \ {c}, k \in Streams : d \in subs'[k] <=> d \in subs[k],
         \/ f.kind = "reply" /\ \A k \in Streams : c \notin subs'[k]
         \/ f.kind = "header" /\ \E k \in Streams : c \in subs'[k]
  PROVE  WireInv'
<1>1. out[c] = <<>> /\ rest[c] = <<>> /\ wire[c] = Nothing
  BY DEF OwnerInv
<1>2. out'[c] = <<Write(f)>> /\ rest'[c] = <<>> /\ wire'[c] = Nothing
  BY <1>1 DEF TypeOK
<1>3. WholeInv(c)'
  BY <1>2, FirstWrite
<1>4. ASSUME NEW d \in Conns \ {c} PROVE WholeInv(d)'
  <2>1. out'[d] = out[d]
    BY DEF TypeOK
  <2>2. Whole(d)' => Whole(d)
    BY DEF Whole
  <2>3. WholeInv(d)
    BY DEF WireInv
  <2> QED
    BY <2>1, <2>2, <2>3, StillWhole
<1>5. StreamIntact'
  BY DEF WireInv, StreamIntact
<1> QED
  BY <1>3, <1>4, <1>5 DEF WireInv

(* A step of connection c's writes.                                          *)
LEMMA OwnWire ==
  ASSUME WireInv, NEW c \in Conns,
         sock' = sock, peer' = peer, subs' = subs, slots' = slots, event' = event,
         \A d \in Conns \ {c} : /\ out'[d] = out[d] /\ rest'[d] = rest[d]
                                /\ wire'[d] = wire[d] /\ (split'[d] <=> split[d]),
         WholeInv(c)', ~wire'[c].bad
  PROVE  WireInv'
<1>1. ASSUME NEW d \in Conns \ {c} PROVE WholeInv(d)'
  <2>1. Whole(d)' => Whole(d)
    BY DEF Whole
  <2>2. WholeInv(d)
    BY DEF WireInv
  <2> QED
    BY <2>1, <2>2, StillWhole
<1>2. StreamIntact'
  BY DEF WireInv, StreamIntact
<1> QED
  BY <1>1, <1>2 DEF WireInv

LEMMA WriteAllWire ==
  ASSUME TypeOK, WireInv, NEW c \in Conns, WriteAll(c)
  PROVE  WireInv'
<1> DEFINE f == Head(out[c]).frame
           v == wire[c]
<1>1. /\ sock[c] = "open" /\ peer[c] /\ out[c] # <<>>
      /\ wire' = [wire EXCEPT ![c] = IF split[c] THEN @ ELSE See(@, f, TRUE)]
      /\ out' = [out EXCEPT ![c] = Tail(@)]
      /\ sock' = sock /\ peer' = peer /\ subs' = subs /\ slots' = slots
      /\ rest' = rest /\ event' = event /\ split' = split
  BY DEF WriteAll, serverVars, managerVars
<1>2. /\ wire'[c] = IF split[c] THEN v ELSE See(v, f, TRUE)
      /\ out'[c] = Tail(out[c])
      /\ \A d \in Conns \ {c} : out'[d] = out[d] /\ wire'[d] = wire[d]
  BY <1>1 DEF TypeOK
<1>3. out[c] \in Seq(Piece) /\ rest[c] \in Seq(Frame) /\ v \in View
  BY DEF TypeOK, Piece, View
<1>4. ~v.bad
  BY DEF WireInv, StreamIntact
<1>5. CASE split[c]
  <2>1. WholeInv(c)'
    BY <1>1, <1>5 DEF WholeInv, Whole
  <2> QED
    BY <1>1, <1>2, <1>4, <1>5, <2>1, OwnWire
<1>6. CASE ~split[c]
  <2>1. /\ OnePiece(out[c], rest[c], v)
        /\ Fits(c, v, Ahead(out[c], rest[c]))
    BY <1>1, <1>6 DEF WireInv, WholeInv, Whole
  <2>2. rest[c] = <<>>
    BY <1>1, <2>1 DEF OnePiece
  <2> DEFINE q == Ahead(out[c], <<>>)
             r == Ahead(Tail(out[c]), <<>>)
             w == See(v, f, TRUE)
  <2>3. /\ q \in Seq(Frame) /\ r \in Seq(Frame) /\ q # <<>> /\ q[1] = f
        /\ Len(r) = Len(q) - 1 /\ \A i \in 1..Len(r) : r[i] = q[i + 1]
        /\ v.mid \in {None, f}
        /\ OnePiece(Tail(out[c]), <<>>, w)
    BY <1>1, <1>3, <2>1, <2>2, TakeAll
  <2> HIDE DEF q, r, f, v
  <2>4. ASSUME NEW k \in Streams, c \in subs[k]
        PROVE  InOrder(w, r, event[k]) /\ ~w.bad
    <3>1. InOrder(v, q, event[k])
      BY <2>1, <2>2, <2>4 DEF Fits, q
    <3> QED
      BY <1>3, <1>4, <2>3, <3>1, SeeWhole
  <2>5. ASSUME \A k \in Streams : c \notin subs[k]
        PROVE  ~w.bad /\ \A i \in 1..Len(r) : r[i].kind = "reply"
    <3>1. Len(q) \in Nat \ {0} /\ Len(r) \in Nat /\ \A i \in 1..Len(q) : q[i].kind = "reply"
      BY <2>1, <2>2, <2>3, <2>5, EmptySeqLen DEF Fits, q
    <3>2. f.kind = "reply" /\ \A i \in 1..Len(r) : r[i].kind = "reply"
      BY <2>3, <3>1
    <3>3. w.bad = Broken(v, f, TRUE)
      BY <1>3, SeeBroken
    <3> HIDE DEF w
    <3> QED
      BY <1>4, <2>3, <3>2, <3>3 DEF Broken
  <2>6. ~w.bad
    BY <2>4, <2>5
  <2>7. out'[c] = Tail(out[c]) /\ rest'[c] = <<>> /\ wire'[c] = w
    BY <1>1, <1>2, <1>6, <2>2 DEF f, v
  <2> HIDE DEF w
  <2>8. Fits(c, wire[c], Ahead(out[c], rest[c]))'
    BY <1>1, <2>4, <2>5, <2>7 DEF Fits, r
  <2>9. WholeInv(c)'
    BY <2>3, <2>7, <2>8 DEF WholeInv
  <2> QED
    BY <1>1, <1>2, <2>6, <2>7, <2>9, OwnWire
<1> QED
  BY <1>5, <1>6

LEMMA WritePartWire ==
  ASSUME TypeOK, WireInv, NEW c \in Conns, WritePart(c)
  PROVE  WireInv'
<1> DEFINE f == Head(out[c]).frame
           v == wire[c]
<1>1. /\ sock[c] = "open" /\ peer[c] /\ out[c] # <<>> /\ Head(out[c]).left = 2
      /\ split' = [split EXCEPT ![c] = @ \/ Len(out[c]) > 1]
      /\ wire' = [wire EXCEPT ![c] = IF split'[c] THEN Nothing ELSE See(@, f, FALSE)]
      /\ rest' = [rest EXCEPT ![c] = Append(@, f)]
      /\ out' = [out EXCEPT ![c] = Tail(@)]
      /\ sock' = sock /\ peer' = peer /\ subs' = subs /\ slots' = slots /\ event' = event
  BY DEF WritePart, serverVars, managerVars
<1>2. /\ wire'[c] = IF split'[c] THEN Nothing ELSE See(v, f, FALSE)
      /\ out'[c] = Tail(out[c]) /\ rest'[c] = Append(rest[c], f)
      /\ \A d \in Conns \ {c} : /\ out'[d] = out[d] /\ wire'[d] = wire[d]
                                /\ rest'[d] = rest[d] /\ split'[d] = split[d]
  BY <1>1 DEF TypeOK
<1>3. split'[c] <=> split[c] \/ Len(out[c]) > 1
  BY <1>1 DEF TypeOK
<1>4. out[c] \in Seq(Piece) /\ rest[c] \in Seq(Frame) /\ v \in View
  BY DEF TypeOK, Piece, View
<1>5. ~v.bad
  BY DEF WireInv, StreamIntact
<1>6. CASE split'[c]
  <2>1. WholeInv(c)' /\ ~wire'[c].bad
    BY <1>2, <1>6 DEF WholeInv, Whole, Nothing
  <2> QED
    BY <1>1, <1>2, <2>1, OwnWire
<1>7. CASE ~split'[c]
  <2>1. /\ OnePiece(out[c], rest[c], v)
        /\ Fits(c, v, Ahead(out[c], rest[c]))
    BY <1>1, <1>3, <1>7 DEF WireInv, WholeInv, Whole
  <2>2. rest[c] = <<>>
    BY <1>1, <2>1 DEF OnePiece
  <2>3. Len(out[c]) = 1 /\ Tail(out[c]) = <<>>
    <3>1. Len(out[c]) = 1
      <4>1. Len(out[c]) \in Nat \ {0}
        BY <1>1, <1>4, EmptySeqLen
      <4>2. ~(Len(out[c]) > 1)
        BY <1>3, <1>7, Zenon
      <4>3. \A n \in Nat \ {0} : ~(n > 1) => n = 1
        OBVIOUS
      <4> QED
        BY <4>1, <4>2, <4>3, Zenon
    <3>2. Tail(out[c]) \in Seq(Piece) /\ Len(Tail(out[c])) = 0
      BY <1>1, <1>4, <3>1
    <3> QED
      BY <3>1, <3>2, EmptySeqLen
  <2> DEFINE q == Ahead(out[c], <<>>)
             w == See(v, f, FALSE)
  <2>4. /\ q \in Seq(Frame) /\ q # <<>> /\ q[1] = f /\ Ahead(<<>>, <<f>>) = q
        /\ v.mid = None
        /\ OnePiece(<<>>, <<f>>, w)
    BY <1>1, <1>4, <2>1, <2>2, <2>3, TakePart
  <2>5. out'[c] = <<>> /\ rest'[c] = <<f>> /\ wire'[c] = w
    BY <1>2, <1>7, <2>2, <2>3
  <2> HIDE DEF q, f, v
  <2>6. ASSUME NEW k \in Streams, c \in subs[k]
        PROVE  InOrder(w, q, event[k]) /\ ~w.bad
    <3>1. InOrder(v, q, event[k])
      BY <2>1, <2>2, <2>6 DEF Fits, q
    <3> QED
      BY <1>4, <1>5, <2>4, <3>1, SeePart
  <2>7. (\A k \in Streams : c \notin subs[k]) => \A i \in 1..Len(q) : q[i].kind = "reply"
    BY <2>1, <2>2 DEF Fits, q
  <2>8. ASSUME \A k \in Streams : c \notin subs[k]
        PROVE  ~w.bad
    <3>1. f.kind = "reply"
      BY <2>4, <2>7, <2>8, EmptySeqLen
    <3>2. w.bad = Broken(v, f, FALSE)
      BY <1>4, SeeBroken
    <3> HIDE DEF w
    <3> QED
      BY <1>5, <2>4, <3>1, <3>2 DEF Broken
  <2>9. ~w.bad
    BY <2>6, <2>8
  <2> HIDE DEF w
  <2>10. Fits(c, wire[c], Ahead(out[c], rest[c]))'
    BY <1>1, <2>4, <2>5, <2>6, <2>7 DEF Fits
  <2>11. WholeInv(c)'
    BY <2>4, <2>5, <2>10 DEF WholeInv
  <2> QED
    BY <1>1, <1>2, <2>5, <2>9, <2>11, OwnWire
<1> QED
  BY <1>6, <1>7

LEMMA WriteOnWire ==
  ASSUME TypeOK, WireInv, NEW c \in Conns, WriteOn(c)
  PROVE  WireInv'
<1> DEFINE p == Append(out[c], [frame |-> Head(rest[c]), left |-> 1])
<1>1. /\ rest[c] # <<>>
      /\ out' = [out EXCEPT ![c] = Append(@, [frame |-> Head(rest[c]), left |-> 1])]
      /\ rest' = [rest EXCEPT ![c] = Tail(@)]
      /\ sock' = sock /\ peer' = peer /\ subs' = subs /\ slots' = slots /\ event' = event
      /\ wire' = wire /\ split' = split
  BY DEF WriteOn, serverVars, managerVars, wireVars
<1>2. /\ out'[c] = p /\ rest'[c] = Tail(rest[c])
      /\ \A d \in Conns \ {c} : out'[d] = out[d] /\ rest'[d] = rest[d]
  BY <1>1 DEF TypeOK
<1>3. out[c] \in Seq(Piece) /\ rest[c] \in Seq(Frame)
  BY DEF TypeOK, Piece
<1> HIDE DEF p
<1>4. ASSUME Whole(c)
      PROVE  /\ OnePiece(p, Tail(rest[c]), wire[c])
             /\ Fits(c, wire[c], Ahead(p, Tail(rest[c])))
  <2>1. /\ OnePiece(out[c], rest[c], wire[c])
        /\ Fits(c, wire[c], Ahead(out[c], rest[c]))
    BY <1>4 DEF WireInv, WholeInv
  <2>2. /\ Tail(rest[c]) = <<>> /\ OnePiece(p, <<>>, wire[c])
        /\ Ahead(p, <<>>) = Ahead(out[c], rest[c])
    BY <1>1, <1>3, <2>1, AskNext DEF p
  <2> QED
    BY <2>1, <2>2
<1>5. WholeInv(c)'
  BY <1>1, <1>2, <1>4 DEF WholeInv, Whole, Fits
<1>6. ~wire'[c].bad
  BY <1>1 DEF WireInv, StreamIntact
<1> QED
  BY <1>1, <1>2, <1>5, <1>6, OwnWire

(* Every subscriber of k queues the event, once: one handler is registered.  *)
LEMMA BroadcastWire ==
  ASSUME TypeOK, TypeOK', OneOwner, WireInv, NEW k \in Streams, Broadcast(k)
  PROVE  WireInv'
<1> DEFINE f == EventFrame(k, event[k])
<1>1. /\ subs[k] # {} /\ event[k] \in Event
      /\ sock' = sock /\ peer' = peer /\ subs' = subs /\ slots' = slots /\ rest' = rest
      /\ event' = [event EXCEPT ![k] = NextEvent(@)]
  BY DEF Broadcast, serverVars, managerVars, TypeOK
<1>2. slots[k] = 1
  BY <1>1 DEF WireInv
<1>3. \A c \in Conns : /\ out'[c] = IF c \in subs[k] THEN out[c] \o [i \in 1..1 |-> Write(f)]
                                                     ELSE out[c]
                       /\ wire'[c] = IF split'[c] THEN Nothing ELSE wire[c]
                       /\ split'[c] <=> split[c] \/ (c \in subs[k] /\ rest[c] # <<>>)
  BY <1>2 DEF Broadcast
<1>4. /\ event'[k] = NextEvent(event[k])
      /\ \A j \in Streams : j # k => event'[j] = event[j]
  BY <1>1 DEF TypeOK
<1>5. ASSUME NEW c \in Conns, c \notin subs[k] PROVE WholeInv(c)'
  <2>1. Whole(c)' => Whole(c) /\ wire'[c] = wire[c]
    BY <1>1, <1>3, <1>5 DEF Whole
  <2>2. WholeInv(c)
    BY DEF WireInv
  <2>3. out'[c] = out[c] /\ \A j \in Streams : c \in subs[j] => event'[j] = event[j]
    BY <1>3, <1>4, <1>5
  <2> QED
    BY <1>1, <2>1, <2>2, <2>3, StillWhole
<1>6. ASSUME NEW c \in Conns, c \in subs[k] PROVE WholeInv(c)'
  <2> SUFFICES ASSUME Whole(c)'
               PROVE  /\ OnePiece(out[c], rest[c], wire[c])'
                      /\ Fits(c, wire[c], Ahead(out[c], rest[c]))'
    BY DEF WholeInv
  <2>1. Whole(c) /\ rest[c] = <<>> /\ wire'[c] = wire[c]
    BY <1>1, <1>3, <1>6 DEF Whole
  <2>2. /\ OnePiece(out[c], <<>>, wire[c])
        /\ Fits(c, wire[c], Ahead(out[c], <<>>))
    BY <2>1 DEF WireInv, WholeInv
  <2>3. out[c] \in Seq(Piece) /\ out'[c] \in Seq(Piece) /\ wire[c] \in View /\ f \in Frame
    BY <1>1, FrameTypes DEF TypeOK, Piece, View
  <2> HIDE DEF f
  <2>4. /\ Len(out'[c]) = Len(out[c]) + 1
        /\ \A i \in 1..Len(out[c]) : out'[c][i] = out[c][i]
        /\ out'[c][Len(out'[c])] = Write(f)
    <3>1. out'[c] = out[c] \o [i \in 1..1 |-> Write(f)]
      BY <1>3, <1>6
    <3> QED
      BY <2>3, <3>1
  <2> DEFINE q == Ahead(out[c], <<>>)
             r == Ahead(out'[c], <<>>)
  <2>5. /\ q \in Seq(Frame) /\ r \in Seq(Frame) /\ Len(r) = Len(q) + 1
        /\ \A i \in 1..Len(q) : r[i] = q[i]
        /\ r[Len(r)] = f
        /\ OnePiece(out'[c], <<>>, wire[c])
    BY <2>2, <2>3, <2>4, QueueWrite
  <2> HIDE DEF q, r
  <2>6. InOrder(wire[c], q, event[k])
    BY <1>6, <2>2 DEF Fits, q
  <2>7. InOrder(wire[c], r, NextEvent(event[k]))
    BY <1>1, <2>3, <2>5, <2>6, SendEvent DEF f
  <2>8. \A j \in Streams : c \in subs[j] => j = k
    BY <1>6 DEF OneOwner
  <2> QED
    BY <1>1, <1>4, <1>6, <2>1, <2>5, <2>7, <2>8 DEF Fits, r
<1>7. StreamIntact'
  BY <1>3 DEF WireInv, StreamIntact, Nothing
<1>8. \A j \in Streams : subs'[j] # {} => slots'[j] = 1
  BY <1>1 DEF WireInv
<1> QED
  BY <1>5, <1>6, <1>7, <1>8 DEF WireInv

LEMMA WireStep == TypeOK /\ TypeOK' /\ OwnerInv /\ WireInv /\ [Next]_vars => WireInv'
<1> SUFFICES ASSUME TypeOK, TypeOK', OwnerInv, WireInv, [Next]_vars PROVE WireInv'
  OBVIOUS
<1> USE DEF serverVars, managerVars, connectionVars, writeVars, wireVars
<1>1. CASE AcceptHandler
  <2> PICK c \in Conns : c = accept
    BY <1>1 DEF AcceptHandler
  <2>1. sock[c] = "accepted"
    BY <1>1 DEF AcceptHandler, OwnerInv
  <2>2. /\ out' = out /\ rest' = rest /\ event' = event /\ subs' = subs /\ slots' = slots
        /\ wire' = wire /\ peer' = peer /\ split' = split
        /\ \A d \in Conns \ {c} : sock'[d] = sock[d]
    BY <1>1 DEF AcceptHandler, StartConnection, TypeOK
  <2>3. /\ out[c] = <<>> /\ rest[c] = <<>> /\ wire[c] = Nothing
        /\ \A k \in Streams : c \notin subs[k]
    BY <2>1 DEF OwnerInv
  <2>4. WholeInv(c)'
    <3>1. OnePiece(<<>>, <<>>, Nothing) /\ Ahead(<<>>, <<>>) = [i \in 1..0 |-> <<>>[i].frame]
      BY DEF OnePiece, Nothing, Ahead
    <3>2. Len(Ahead(<<>>, <<>>)) = 0
      BY <3>1
    <3> QED
      BY <2>2, <2>3, <3>1, <3>2 DEF WholeInv, Fits
  <2>5. ASSUME NEW d \in Conns \ {c} PROVE WholeInv(d)'
    BY <2>2, <2>5, StillWhole DEF WireInv, Whole
  <2> QED
    BY <2>2, <2>4, <2>5 DEF WireInv, StreamIntact
<1>2. CASE Signal
  <2>1. /\ Close(conns) /\ conns \in SUBSET Conns
        /\ out' = out /\ rest' = rest /\ event' = event /\ subs' = subs /\ slots' = slots
    BY <1>2 DEF Signal, StopAll, TypeOK
  <2> QED
    BY <2>1, CloseWire
<1>3. ASSUME NEW c \in Conns, Connect(c) PROVE WireInv'
  <2>1. \A d \in Conns : Whole(d)' => Whole(d)
    BY <1>3 DEF Connect, Whole, TypeOK
  <2> QED
    BY <1>3, <2>1, QuietWire DEF Connect
<1>4. ASSUME NEW c \in Conns, Arrive(c) PROVE WireInv'
  BY <1>4, QuietWire DEF Arrive, Whole
<1>5. ASSUME NEW c \in Conns, PeerClose(c) PROVE WireInv'
  <2>1. \A d \in Conns : Whole(d)' => Whole(d)
    BY <1>5 DEF PeerClose, Whole, TypeOK
  <2> QED
    BY <1>5, <2>1, QuietWire DEF PeerClose
<1>6. ASSUME NEW c \in Conns, AnswerRequest(c) PROVE WireInv'
  <2>1. read[c] # "none" /\ Reply \in Frame /\ Reply.kind = "reply"
    BY <1>6, FrameTypes DEF AnswerRequest, Reply
  <2>2. \A k \in Streams : c \notin subs[k]
    BY <2>1 DEF OwnerInv
  <2>3. \A k \in Streams : subs'[k] # {} => slots'[k] = 1
    BY <1>6 DEF AnswerRequest, WireInv
  <2> HIDE DEF OwnerInv, WireInv, TypeOK
  <2> QED
    BY <1>6, <2>1, <2>2, <2>3, StartWire DEF AnswerRequest
<1>7. ASSUME NEW c \in Conns, NEW k \in Streams, StartStream(c, k) PROVE WireInv'
  <2>1. read[c] # "none" /\ Header(k) \in Frame /\ Header(k).kind = "header"
    BY <1>7, FrameTypes, ConnectionsAssumption DEF StartStream, Header
  <2>2. /\ subs'[k] = subs[k] \cup {c} /\ slots'[k] = 1
        /\ \A j \in Streams \ {k} : subs'[j] = subs[j] /\ slots'[j] = slots[j]
    BY <1>7 DEF StartStream, TypeOK
  <2>3. \A j \in Streams : subs'[j] # {} => slots'[j] = 1
    BY <2>2 DEF WireInv
  <2>4. /\ c \in subs'[k]
        /\ \A d \in Conns \ {c}, j \in Streams : d \in subs'[j] <=> d \in subs[j]
    BY <2>2
  <2> QED
    BY <1>7, <2>1, <2>3, <2>4, StartWire DEF StartStream
<1>8. ASSUME NEW c \in Conns, ReadMore(c) \/ ShortBody(c) \/ ReadAborted(c) PROVE WireInv'
  BY <1>8, QuietWire DEF ReadMore, ShortBody, ReadAborted, Whole
<1>9. ASSUME NEW c \in Conns, ReadError(c) PROVE WireInv'
  <2>1. \A d \in Conns : Whole(d)' => Whole(d)
    BY <1>9 DEF ReadError, Whole, TypeOK
  <2> QED
    BY <1>9, <2>1, QuietWire DEF ReadError
<1>10. ASSUME NEW c \in Conns, WriteAll(c) PROVE WireInv'
  BY <1>10, WriteAllWire
<1>11. ASSUME NEW c \in Conns, WritePart(c) PROVE WireInv'
  BY <1>11, WritePartWire
<1>12. ASSUME NEW c \in Conns, WriteOn(c) PROVE WireInv'
  BY <1>12, WriteOnWire
<1>13. ASSUME NEW c \in Conns, WriteFails(c) PROVE WireInv'
  <2>1. /\ ~Whole(c) /\ out' = [out EXCEPT ![c] = Tail(@)] /\ rest' = rest /\ event' = event
        /\ subs' = subs /\ slots' = slots /\ wire' = wire
        /\ sock' = sock /\ peer' = peer /\ split' = split
    BY <1>13 DEF WriteFails, Whole
  <2>2. ASSUME NEW d \in Conns PROVE WholeInv(d)'
    <3>1. Whole(d)' => Whole(d) /\ out'[d] = out[d]
      BY <2>1 DEF Whole, TypeOK
    <3>2. WholeInv(d)
      BY DEF WireInv
    <3> QED
      BY <2>1, <3>1, <3>2, StillWhole
  <2> QED
    BY <2>1, <2>2 DEF WireInv, StreamIntact
<1>14. ASSUME NEW c \in Conns, WriteHandler(c) PROVE WireInv'
  <2>1. out' = out /\ rest' = rest /\ event' = event
    BY <1>14 DEF WriteHandler, ReplyWritten, HeaderWritten, EventWritten
  <2>2. CASE UNCHANGED <<sock, peer, managerVars, wireVars>>
    BY <2>1, <2>2, QuietWire DEF Whole
  <2>3. CASE StopAnswering(c)
    BY <2>1, <2>3, CloseWire DEF StopAnswering
  <2>4. ASSUME NEW k \in Streams, StopStream(c, k) PROVE WireInv'
    <3>1. /\ Close({c}) /\ slots' = slots
          /\ \A j \in Streams : subs'[j] = IF j = k THEN subs[j] \ {c} ELSE subs[j]
      BY <2>4 DEF StopStream, TypeOK
    <3>2. /\ \A j \in Streams : subs'[j] \subseteq subs[j]
          /\ \A d \in Conns \ {c}, j \in Streams : d \in subs[j] => d \in subs'[j]
      BY <3>1
    <3> QED
      BY <2>1, <3>1, <3>2, CloseWire
  <2>5. ASSUME EventWritten(c), Head(done[c]).result # "ok" PROVE WireInv'
    <3>1. StopStream(c, Head(done[c]).stream) /\ done[c] # <<>> /\ Head(done[c]).kind = "event"
      BY <2>5 DEF EventWritten
    <3>2. CASE Head(done[c]).stream \in Streams
      BY <2>4, <3>1, <3>2
    <3>3. CASE Head(done[c]).stream \notin Streams
      <4>1. Close({c}) /\ slots' = slots /\ subs' = subs
        BY <3>1, <3>3 DEF StopStream, TypeOK
      <4> QED
        BY <2>1, <4>1, CloseWire
    <3> QED
      BY <3>2, <3>3
  <2> QED
    BY <1>14, <2>2, <2>3, <2>5 DEF WriteHandler, ReplyWritten, HeaderWritten, EventWritten
<1>15. ASSUME NEW k \in Streams, Broadcast(k) PROVE WireInv'
  BY <1>15, BroadcastWire DEF OwnerInv
<1>16. CASE UNCHANGED vars
  BY <1>16, QuietWire DEF vars, Whole
<1> QED
  BY <1>1, <1>2, <1>3, <1>4, <1>5, <1>6, <1>7, <1>8, <1>9, <1>10, <1>11, <1>12, <1>13,
     <1>14, <1>15, <1>16 DEF Next, ReadHandler

(* A stream none of whose writes began amid the pieces of another reaches    *)
(* its client as the header and then whole events, in order, without gap or  *)
(* repetition (Connections!StreamIntact).                                    *)
THEOREM StreamReachesClientWhole == Spec => []StreamIntact
<1>1. Init => TypeOK /\ OwnerInv /\ WireInv
  BY TypeInit, OwnerInit, WireInit
<1>2. TypeOK /\ OwnerInv /\ WireInv /\ [Next]_vars => (TypeOK /\ OwnerInv /\ WireInv)'
  BY TypeStep, OwnerStep, WireStep
<1>3. WireInv => StreamIntact
  BY DEF WireInv
<1> QED
  BY <1>1, <1>2, <1>3, PTL DEF Spec

=============================================================================
