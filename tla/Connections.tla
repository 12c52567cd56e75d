----------------------------- MODULE Connections -----------------------------
(* The HTTP server: the acceptor (server.cpp), the connections               *)
(* (connection.cpp) and the manager that owns them (connection_manager.cpp). *)
(*                                                                           *)
(* One thread runs every completion handler of the server.  A request is     *)
(* answered and the connection closed, or it opens an event stream: "sse"    *)
(* for the browser, "blob" for C++ clients.  The io threads of the           *)
(* acquisition write events to the streams under the manager's mutex.  An    *)
(* async_write goes to the socket piece by piece; each further piece queues  *)
(* behind the writes begun meanwhile.                                        *)
EXTENDS Naturals, Sequences, FiniteSets

CONSTANTS
  Conns,       \* connections a run may see
  Streams,     \* the kinds of event stream: sse_objects_ and blob_objects_
  None,
  EventMod,    \* bound: events are numbered modulo EventMod
  MaxOut       \* bound: writes of a connection not handled when an event is sent

ASSUME ConnectionsAssumption ==
  /\ EventMod \in Nat \ {0} /\ MaxOut \in Nat \ {0}
  /\ None \notin Conns /\ "pending" \notin Conns /\ None \notin Nat
  /\ Streams \cap {"none", "pending", "error", "aborted", "answer", "more", "short"} = {}

Event == 0..(EventMod - 1)
NextEvent(e) == (e + 1) % EventMod

VARIABLES
  acceptor,   \* acceptor_.is_open()
  accept,     \* the outstanding async_accept: None when there is none, "pending",
              \* or the connection whose completion waits for the thread
  stopped,    \* a signal's handler has run
  sock,       \* the socket: "free", "accepted", "open", "closed"
  peer,       \* the client is there and reads
  conns,      \* connections_
  subs,       \* sse_objects_ and blob_objects_
  slots,      \* handlers registered on each signal (0 <=> not yet connected)
  read,       \* the outstanding async_read_some, or what its completion brings
  out,        \* async_writes in progress, in the order of their next pieces
  rest,       \* async_writes whose first piece is out and whose handler has not
              \* asked for the next one yet
  done,       \* completions of writes waiting for the thread
  event,      \* the next event of each stream (counted while somebody listens)
  wire,       \* history: what the client has seen, up to the first split
  split       \* history: a write began between the pieces of another one, or
              \* before its first piece

serverVars == <<acceptor, accept, stopped>>
managerVars == <<conns, subs, slots>>
wireVars == <<wire, split>>
writeVars == <<out, rest, done>>
connectionVars == <<sock, read, writeVars>>
vars == <<serverVars, managerVars, connectionVars, peer, event, wireVars>>

(* What a request asks for: a page or any other single answer, a stream, the *)
(* rest of its header ("more") or of its body ("short").                     *)
Requests == {"answer", "more", "short"} \cup Streams
ReadState == {"none", "pending", "error", "aborted"} \cup Requests

(* The text written by one async_write, in one piece or two.                 *)
Frame == [kind : {"reply"}, stream : {None}, n : {None}]
           \cup [kind : {"header"}, stream : Streams, n : {None}]
           \cup [kind : {"event"}, stream : Streams, n : Event]
Completion == [kind : {"reply", "header", "event"}, stream : Streams \cup {None},
               result : {"ok", "error", "aborted"}]
Reply == [kind |-> "reply", stream |-> None, n |-> None]
Header(k) == [kind |-> "header", stream |-> k, n |-> None]
EventFrame(k, e) == [kind |-> "event", stream |-> k, n |-> e]
Write(f) == [frame |-> f, left |-> 2]

Nothing == [mid |-> None, header |-> FALSE, last |-> None, bad |-> FALSE]

TypeOK ==
  /\ acceptor \in BOOLEAN /\ stopped \in BOOLEAN
  /\ accept \in Conns \cup {None, "pending"}
  /\ sock \in [Conns -> {"free", "accepted", "open", "closed"}]
  /\ peer \in [Conns -> BOOLEAN]
  /\ conns \subseteq Conns
  /\ subs \in [Streams -> SUBSET Conns]
  /\ slots \in [Streams -> 0..1]
  /\ read \in [Conns -> ReadState]
  /\ out \in [Conns -> Seq([frame : Frame, left : 1..2])]
  /\ rest \in [Conns -> Seq(Frame)]
  /\ done \in [Conns -> Seq(Completion)]
  /\ event \in [Streams -> Event]
  /\ wire \in [Conns -> [mid : Frame \cup {None}, header : BOOLEAN,
                         last : Event \cup {None}, bad : BOOLEAN]]
  /\ split \in [Conns -> BOOLEAN]

Init ==
  /\ acceptor = TRUE /\ accept = "pending" /\ stopped = FALSE
  /\ sock = [c \in Conns |-> "free"]
  /\ peer = [c \in Conns |-> FALSE]
  /\ conns = {}
  /\ subs = [k \in Streams |-> {}]
  /\ slots = [k \in Streams |-> 0]
  /\ read = [c \in Conns |-> "none"]
  /\ out = [c \in Conns |-> <<>>]
  /\ rest = [c \in Conns |-> <<>>]
  /\ done = [c \in Conns |-> <<>>]
  /\ event = [k \in Streams |-> 0]
  /\ wire = [c \in Conns |-> Nothing]
  /\ split = [c \in Conns |-> FALSE]

-----------------------------------------------------------------------------
(* socket_.close() on the connections C: what is outstanding is aborted.     *)

Close(C) ==
  /\ sock' = [c \in Conns |-> IF c \in C THEN "closed" ELSE sock[c]]
  /\ read' = [c \in Conns |-> IF c \in C /\ read[c] = "pending" THEN "aborted"
                                                                ELSE read[c]]
  /\ peer' = [c \in Conns |-> c \notin C /\ peer[c]]
  /\ wire' = [c \in Conns |-> IF c \in C THEN Nothing ELSE wire[c]]
  /\ split' = [c \in Conns |-> c \notin C /\ split[c]]

(* manager.stop, sse_stop, blob_stop: forget the connection and close it.    *)
StopAnswering(c) == conns' = conns \ {c} /\ UNCHANGED <<subs, slots>> /\ Close({c})
StopStream(c, k) == /\ subs' = [subs EXCEPT ![k] = @ \ {c}]
                    /\ UNCHANGED <<conns, slots>>
                    /\ Close({c})

-----------------------------------------------------------------------------
(* Accepting                                                                 *)

Connect(c) ==
  /\ acceptor /\ accept = "pending"
  /\ sock[c] = "free"
  /\ sock' = [sock EXCEPT ![c] = "accepted"]
  /\ peer' = [peer EXCEPT ![c] = TRUE]
  /\ accept' = c
  /\ UNCHANGED <<acceptor, stopped, managerVars, read, writeVars, event, wireVars>>

(* Mutant: the handler does not look whether the acceptor is open.           *)
AcceptHandler_Unchecked ==
  /\ accept \in Conns
  /\ sock' = [sock EXCEPT ![accept] = "open"]
  /\ conns' = conns \cup {accept}
  /\ read' = [read EXCEPT ![accept] = "pending"]
  /\ accept' = IF acceptor THEN "pending" ELSE None
  /\ UNCHANGED <<acceptor, stopped, peer, subs, slots, writeVars, event, wireVars>>

(* manager.start and connection::start.                                      *)
StartConnection(c) ==
  /\ sock' = [sock EXCEPT ![c] = "open"]
  /\ conns' = conns \cup {c}
  /\ read' = [read EXCEPT ![c] = "pending"]

(* do_accept's handler, which starts the connection and accepts the next one.*)
AcceptHandler ==
  /\ accept \in Conns
  /\ IF acceptor
       THEN StartConnection(accept) /\ accept' = "pending"
       ELSE accept' = None /\ UNCHANGED <<sock, conns, read>>
  /\ UNCHANGED <<acceptor, stopped, peer, subs, slots, writeVars, event, wireVars>>

(* stop_all closes connections_ and neither of the stream sets.              *)
StopAll == conns' = {} /\ UNCHANGED <<subs, slots>> /\ Close(conns)

(* do_await_stop's handler: the acceptor and the connections are closed.     *)
Signal ==
  /\ ~stopped
  /\ stopped' = TRUE
  /\ acceptor' = FALSE
  /\ accept' = IF accept = "pending" THEN None ELSE accept
  /\ StopAll
  /\ UNCHANGED <<writeVars, event>>

-----------------------------------------------------------------------------
(* Reading                                                                   *)

Arrive(c) ==
  /\ read[c] = "pending"
  /\ \/ peer[c] /\ \E q \in Requests : read' = [read EXCEPT ![c] = q]
     \/ ~peer[c] /\ read' = [read EXCEPT ![c] = "error"]
  /\ UNCHANGED <<serverVars, sock, peer, managerVars, writeVars, event, wireVars>>

PeerClose(c) ==
  /\ peer[c]
  /\ peer' = [peer EXCEPT ![c] = FALSE]
  /\ UNCHANGED <<serverVars, sock, managerVars, read, writeVars, event, wireVars>>

(* The completion of a read, per result of the parser and the handler.       *)
AnswerRequest(c) ==
  /\ read[c] = "answer"
  /\ out' = [out EXCEPT ![c] = Append(@, Write(Reply))]
  /\ read' = [read EXCEPT ![c] = "none"]
  /\ UNCHANGED <<serverVars, sock, peer, managerVars, rest, done, event, wireVars>>

(* Mutants: every stream registers a handler; connections_ keeps the stream. *)
StartStream_Registers(c, k) ==
  /\ read[c] = k
  /\ slots' = [slots EXCEPT ![k] = @ + 1]
  /\ subs' = [subs EXCEPT ![k] = @ \cup {c}]
  /\ conns' = conns \ {c}
  /\ out' = [out EXCEPT ![c] = Append(@, Write(Header(k)))]
  /\ read' = [read EXCEPT ![c] = "none"]
  /\ UNCHANGED <<serverVars, sock, peer, rest, done, event, wireVars>>

StartStream_Keeps(c, k) ==
  /\ read[c] = k
  /\ slots' = [slots EXCEPT ![k] = 1]
  /\ subs' = [subs EXCEPT ![k] = @ \cup {c}]
  /\ out' = [out EXCEPT ![c] = Append(@, Write(Header(k)))]
  /\ read' = [read EXCEPT ![c] = "none"]
  /\ UNCHANGED <<serverVars, sock, peer, conns, rest, done, event, wireVars>>

(* sse_start, blob_start: the first stream registers the manager's handler.  *)
StartStream(c, k) ==
  /\ read[c] = k
  /\ slots' = [slots EXCEPT ![k] = 1]
  /\ subs' = [subs EXCEPT ![k] = @ \cup {c}]
  /\ conns' = conns \ {c}
  /\ out' = [out EXCEPT ![c] = Append(@, Write(Header(k)))]
  /\ read' = [read EXCEPT ![c] = "none"]
  /\ UNCHANGED <<serverVars, sock, peer, rest, done, event, wireVars>>

(* An incomplete header: read on (at once an error when closed meanwhile).   *)
ReadMore(c) ==
  /\ read[c] = "more"
  /\ read' = [read EXCEPT ![c] = IF sock[c] = "open" THEN "pending" ELSE "error"]
  /\ UNCHANGED <<serverVars, sock, peer, managerVars, writeVars, event, wireVars>>

(* An incomplete body: the handler returns and no read is outstanding.       *)
ShortBody(c) ==
  /\ read[c] = "short"
  /\ read' = [read EXCEPT ![c] = "none"]
  /\ UNCHANGED <<serverVars, sock, peer, managerVars, writeVars, event, wireVars>>

ReadError(c) ==
  /\ read[c] = "error"
  /\ conns' = conns \ {c}
  /\ sock' = [sock EXCEPT ![c] = "closed"]
  /\ peer' = [peer EXCEPT ![c] = FALSE]
  /\ read' = [read EXCEPT ![c] = "none"]
  /\ UNCHANGED <<serverVars, subs, slots, writeVars, event, wireVars>>

ReadAborted(c) ==
  /\ read[c] = "aborted"
  /\ read' = [read EXCEPT ![c] = "none"]
  /\ UNCHANGED <<serverVars, sock, peer, managerVars, writeVars, event, wireVars>>

ReadHandler(c) == \/ AnswerRequest(c) \/ \E k \in Streams : StartStream(c, k)
                  \/ ReadMore(c) \/ ShortBody(c) \/ ReadError(c) \/ ReadAborted(c)

-----------------------------------------------------------------------------
(* Writing                                                                   *)

(* What the client makes of a piece of frame f (the last one, or not).       *)
See(v, f, last) ==
  [mid    |-> IF last THEN None ELSE f,
   header |-> v.header \/ (f.kind = "header" /\ last),
   last   |-> IF f.kind = "event" /\ last THEN f.n ELSE v.last,
   bad    |-> \/ v.bad
              \/ v.mid \notin {None, f}
              \/ f.kind = "event" /\ ~v.header
              \/ f.kind = "event" /\ last /\ v.last \notin {None}
                   /\ f.n # NextEvent(v.last)]

Completed(f, r) == [kind |-> f.kind, stream |-> f.stream, result |-> r]

(* The socket takes the rest of the oldest write, or a first piece of it.    *)
WriteAll(c) ==
  /\ sock[c] = "open" /\ peer[c] /\ out[c] # <<>>
  /\ LET f == Head(out[c]).frame IN
       /\ wire' = [wire EXCEPT ![c] = IF split[c] THEN @ ELSE See(@, f, TRUE)]
       /\ done' = [done EXCEPT ![c] = Append(@, Completed(f, "ok"))]
  /\ out' = [out EXCEPT ![c] = Tail(@)]
  /\ UNCHANGED <<serverVars, sock, peer, managerVars, read, rest, event, split>>

WritePart(c) ==
  /\ sock[c] = "open" /\ peer[c] /\ out[c] # <<>>
  /\ Head(out[c]).left = 2
  /\ split' = [split EXCEPT ![c] = @ \/ Len(out[c]) > 1]
  /\ LET f == Head(out[c]).frame IN
       /\ wire' = [wire EXCEPT ![c] = IF split'[c] THEN Nothing ELSE See(@, f, FALSE)]
       /\ rest' = [rest EXCEPT ![c] = Append(@, f)]
  /\ out' = [out EXCEPT ![c] = Tail(@)]
  /\ UNCHANGED <<serverVars, sock, peer, managerVars, read, done, event>>

(* The thread runs async_write's own handler, which asks for the next piece. *)
WriteOn(c) ==
  /\ rest[c] # <<>>
  /\ out' = [out EXCEPT ![c] = Append(@, [frame |-> Head(rest[c]), left |-> 1])]
  /\ rest' = [rest EXCEPT ![c] = Tail(@)]
  /\ UNCHANGED <<serverVars, sock, peer, managerVars, read, done, event, wireVars>>

(* A write fails: the socket was closed under it, or the client is gone.     *)
(* One begun after the close fails as a bad descriptor, not as aborted; the  *)
(* stop that do_write's handler then calls finds the connection closed and   *)
(* in no set and changes nothing, so "aborted" stands for both.              *)
WriteFails(c) ==
  /\ out[c] # <<>>
  /\ sock[c] # "open" \/ ~peer[c]
  /\ done' = [done EXCEPT ![c] =
       Append(@, Completed(Head(out[c]).frame,
                           IF sock[c] = "closed" THEN "aborted" ELSE "error"))]
  /\ out' = [out EXCEPT ![c] = Tail(@)]
  /\ UNCHANGED <<serverVars, sock, peer, managerVars, read, rest, event, wireVars>>

(* Mutant: only a failed reply ends the connection.                          *)
ReplyWritten_FailedOnly(c) ==
  /\ done[c] # <<>> /\ Head(done[c]).kind = "reply"
  /\ IF Head(done[c]).result # "error"
         THEN UNCHANGED <<managerVars, sock, peer, read, wireVars>>
         ELSE StopAnswering(c)
  /\ done' = [done EXCEPT ![c] = Tail(@)]
  /\ UNCHANGED <<serverVars, out, rest, event>>

(* do_write's handler: the answer is out, the connection ends.               *)
ReplyWritten(c) ==
  /\ done[c] # <<>> /\ Head(done[c]).kind = "reply"
  /\ IF Head(done[c]).result = "aborted"
         THEN UNCHANGED <<managerVars, sock, peer, read, wireVars>>
         ELSE StopAnswering(c)
  /\ done' = [done EXCEPT ![c] = Tail(@)]
  /\ UNCHANGED <<serverVars, out, rest, event>>

(* sse_start's handler only logs an error.                                   *)
HeaderWritten(c) ==
  /\ done[c] # <<>> /\ Head(done[c]).kind = "header"
  /\ done' = [done EXCEPT ![c] = Tail(@)]
  /\ UNCHANGED <<serverVars, sock, peer, managerVars, read, out, rest, event, wireVars>>

(* Mutant: an error is only logged, as for the header.                       *)
EventWritten_LogsOnly(c) ==
  /\ done[c] # <<>> /\ Head(done[c]).kind = "event"
  /\ done' = [done EXCEPT ![c] = Tail(@)]
  /\ UNCHANGED <<serverVars, sock, peer, managerVars, read, out, rest, event, wireVars>>

(* do_sse_write's, do_blob_write's handler: an error ends the stream.        *)
EventWritten(c) ==
  /\ done[c] # <<>> /\ Head(done[c]).kind = "event"
  /\ IF Head(done[c]).result = "ok"
         THEN UNCHANGED <<managerVars, sock, peer, read, wireVars>>
         ELSE StopStream(c, Head(done[c]).stream)
  /\ done' = [done EXCEPT ![c] = Tail(@)]
  /\ UNCHANGED <<serverVars, out, rest, event>>

WriteHandler(c) == ReplyWritten(c) \/ HeaderWritten(c) \/ EventWritten(c)

(* An io thread of the acquisition raises the signal of stream k: each       *)
(* registered handler writes the event to every subscriber, under the mutex. *)
Broadcast(k) ==
  /\ subs[k] # {}
  /\ \A c \in subs[k] : Len(out[c]) + Len(rest[c]) + Len(done[c]) < MaxOut
  /\ out' = [c \in Conns |->
               IF c \in subs[k]
                 THEN out[c] \o [i \in 1..slots[k] |-> Write(EventFrame(k, event[k]))]
                 ELSE out[c]]
  /\ event' = [event EXCEPT ![k] = NextEvent(@)]
  /\ split' = [c \in Conns |-> split[c] \/ (c \in subs[k] /\ rest[c] # <<>>)]
  /\ wire' = [c \in Conns |-> IF split'[c] THEN Nothing ELSE wire[c]]
  /\ UNCHANGED <<serverVars, sock, peer, managerVars, read, rest, done>>

Next ==
  \/ AcceptHandler \/ Signal
  \/ \E c \in Conns :
       \/ Connect(c) \/ Arrive(c) \/ PeerClose(c) \/ ReadHandler(c)
       \/ WriteAll(c) \/ WritePart(c) \/ WriteOn(c) \/ WriteFails(c) \/ WriteHandler(c)
  \/ \E k \in Streams : Broadcast(k)

(* The server's thread runs every handler that is ready, sockets of clients  *)
(* that read accept more, and the acquisition keeps producing events.        *)
Fairness ==
  /\ WF_vars(AcceptHandler)
  /\ \A c \in Conns : /\ WF_vars(ReadHandler(c))
                      /\ WF_vars(WriteAll(c) \/ WriteFails(c))
                      /\ WF_vars(WriteHandler(c) \/ WriteOn(c))
  /\ \A k \in Streams : WF_vars(Broadcast(k))

Spec == Init /\ [][Next]_vars /\ Fairness

-----------------------------------------------------------------------------
(* Properties                                                                *)

(* A connection belongs to one set of the manager at a time, whatever        *)
(* completions were waiting when a signal or an error removed it.            *)
OneOwner ==
  /\ \A k \in Streams : subs[k] \cap conns = {}
  /\ \A j, k \in Streams : j # k => subs[j] \cap subs[k] = {}

(* An open connection waiting for its answer has an operation outstanding or *)
(* a handler to run, so it will go on, unless its body came in two pieces.   *)
Waiting(c) ==
  read[c] # "none" \/ out[c] # <<>> \/ rest[c] # <<>> \/ done[c] # <<>>

(* A stream none of whose writes began amid the pieces of another reaches its*)
(* client as the header and then whole events, in order, without gap or      *)
(* repetition.                                                               *)
StreamIntact == \A c \in Conns : ~wire[c].bad

(* No connection starts once a signal has stopped the server, although the   *)
(* completion of an accept may be waiting when the signal's handler runs     *)
(* (server.cpp:71-73).                                                       *)
NoStartAfterStop == [][stopped => conns' \subseteq conns]_vars

(* A client that left is dropped from its stream by the events it misses.    *)
GoneClientDropped ==
  \A c \in Conns, k \in Streams :
    (c \in subs[k] /\ ~peer[c]) ~> c \notin subs[k]

(* A request that is answered ends with its connection closed.               *)
AnswerEndsConnection ==
  \A c \in Conns : (read[c] = "answer") ~> (sock[c] = "closed")

(* connection.cpp:71 returns with the comment "continue to read"; then an    *)
(* open connection of the manager would always have an operation going.      *)
ContinuesToRead == \A c \in conns : sock[c] = "open" => Waiting(c)
=============================================================================
