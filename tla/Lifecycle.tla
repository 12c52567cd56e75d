----------------------------- MODULE Lifecycle -----------------------------
(* Processes of the program over time: the start-up of main() (main.cpp),    *)
(* the pid file and its lock, the signals of the init script                 *)
(* (httpd.sh.in), and the ways an instance ends.  Between two statements of  *)
(* main() its own threads run: the io threads acquire from the moment they   *)
(* exist, the server answers requests, and both rely on setTask, which main()*)
(* calls later.                                                              *)
EXTENDS Naturals, Sequences, FiniteSets

CONSTANTS
  Process,    \* the processes that are ever started
  Pid,        \* their pids, as sequences of digits
  Mode,       \* "daemon" (--nogui), "gui", or "debug" (--nogui --debug)
  None,       \* no process
  Newline

ASSUME LifecycleAssumption ==
  /\ None \notin Process
  /\ \A p \in Process : Mode[p] \in {"daemon", "gui", "debug"}
  /\ \A p \in Process : /\ Pid[p] \in Seq(Nat) /\ Pid[p] # <<>>
                         /\ Newline \notin {Pid[p][i] : i \in DOMAIN Pid[p]}
  /\ \A p, q \in Process : Pid[p] = Pid[q] => p = q

VARIABLES
  pc,          \* the next statement of each main()
  file,        \* the content of the pid file
  holder,      \* the process that has locked it
  port,        \* the process that listens on the port, the same for all
  io,          \* the four io threads
  web,         \* the server and its thread
  signalled,   \* a SIGTERM, SIGINT or SIGQUIT waits for the server's thread
  told,        \* the objects whose setTask has been called
  ended        \* how a process ended

vars == <<pc, file, holder, port, io, web, signalled, told, ended>>

Singleton == {"storage", "pages"}
StartUp == {"lock", "pid", "task", "threads", "server", "thread", "storage", "pages",
            "handlers"}

Char == {Newline} \cup UNION {{Pid[p][k] : k \in DOMAIN Pid[p]} : p \in Process}

TypeOK ==
  /\ pc \in [Process -> StartUp \cup {"off", "gui", "keys", "join", "gone"}]
  /\ file \in Seq(Char)
  /\ holder \in Process \cup {None} /\ port \in Process \cup {None}
  /\ io \in [Process -> {"none", "running", "stopped", "ended"}]
  /\ web \in [Process -> {"none", "built", "running", "closed", "stopped", "ended"}]
  /\ signalled \in [Process -> BOOLEAN]
  /\ told \in [Process -> SUBSET Singleton]
  /\ ended \in [Process -> {"no", "refused", "killed", "failed", "crashed", "done"}]

Init ==
  /\ pc = [p \in Process |-> "off"]
  /\ file = <<>>
  /\ holder = None /\ port = None
  /\ io = [p \in Process |-> "none"]
  /\ web = [p \in Process |-> "none"]
  /\ signalled = [p \in Process |-> FALSE]
  /\ told = [p \in Process |-> {}]
  /\ ended = [p \in Process |-> "no"]

Alive(p) == pc[p] \notin {"off", "gone"}

(* The processes in dead end: the lock and the port are free again.          *)
End(dead, how) ==
  /\ pc' = [p \in Process |-> IF p \in dead THEN "gone" ELSE pc[p]]
  /\ ended' = [p \in Process |-> IF p \in dead THEN how ELSE ended[p]]
  /\ io' = [p \in Process |-> IF p \in dead THEN "none" ELSE io[p]]
  /\ web' = [p \in Process |-> IF p \in dead THEN "none" ELSE web[p]]
  /\ signalled' = [p \in Process |-> signalled[p] /\ p \notin dead]
  /\ told' = [p \in Process |-> IF p \in dead THEN {} ELSE told[p]]
  /\ holder' = IF holder \in dead THEN None ELSE holder
  /\ port' = IF port \in dead THEN None ELSE port
  /\ UNCHANGED file

-----------------------------------------------------------------------------
(* main()                                                                    *)

Go(p, here, next) == pc[p] = here /\ pc' = [pc EXCEPT ![p] = next]

(* A user or the init script starts the program.                             *)
Launch(p) ==
  /\ Go(p, "off", IF Mode[p] = "debug" THEN "task" ELSE "lock")
  /\ UNCHANGED <<file, holder, port, io, web, signalled, told, ended>>

(* Mutant: a lock that fails is only reported.                               *)
Lock_Unchecked(p) ==
  /\ Go(p, "lock", "pid")
  /\ holder' = IF holder = None THEN p ELSE holder
  /\ UNCHANGED <<file, port, io, web, signalled, told, ended>>

(* lockf with F_TLOCK; exit(1) when another process has the lock, or when    *)
(* the file cannot be opened.                                                *)
Lock(p) ==
  \/ /\ holder = None
     /\ Go(p, "lock", "pid")
     /\ holder' = p
     /\ UNCHANGED <<file, port, io, web, signalled, told, ended>>
  \/ /\ pc[p] = "lock"
     /\ End({p}, "refused")

Line(p) == Append(Pid[p], Newline)

(* Mutant: the file is opened with O_APPEND.                                 *)
WritePid_Appends(p) ==
  /\ Go(p, "pid", "task")
  /\ file' = file \o Line(p)
  /\ UNCHANGED <<holder, port, io, web, signalled, told, ended>>

(* Mutant: the whole buffer is written, with what follows the text.          *)
WritePid_Sizeof(p) ==
  /\ Go(p, "pid", "task")
  /\ file' = Append(Line(p), 0)
  /\ UNCHANGED <<holder, port, io, web, signalled, told, ended>>

(* The pid is written over the beginning of the file; what was longer stays. *)
WritePid(p) ==
  /\ Go(p, "pid", "task")
  /\ file' = Line(p) \o SubSeq(file, Len(Line(p)) + 1, Len(file))
  /\ UNCHANGED <<holder, port, io, web, signalled, told, ended>>

(* task::start posts the first setup and acquisition ...                     *)
StartTask(p) ==
  /\ Go(p, "task", "threads")
  /\ UNCHANGED <<file, holder, port, io, web, signalled, told, ended>>

(* ... which the io threads run as soon as they exist.                       *)
StartThreads(p) ==
  /\ Go(p, "threads", "server")
  /\ io' = [io EXCEPT ![p] = "running"]
  /\ UNCHANGED <<file, holder, port, web, signalled, told, ended>>

(* The server's constructor takes over the signals and binds the port.  When *)
(* it throws, the threads are joinable: their destructor ends the process.   *)
BuildServer(p) ==
  \/ /\ port = None
     /\ Go(p, "server", "thread")
     /\ port' = p
     /\ web' = [web EXCEPT ![p] = "built"]
     /\ UNCHANGED <<file, holder, io, signalled, told, ended>>
  \/ /\ port # None
     /\ pc[p] = "server"
     /\ End({p}, "failed")

RunServer(p) ==
  /\ Go(p, "thread", "storage")
  /\ web' = [web EXCEPT ![p] = "running"]
  /\ UNCHANGED <<file, holder, port, io, signalled, told, ended>>

SetTask(p, s) ==
  /\ told' = [told EXCEPT ![p] = @ \cup {s}]
  /\ UNCHANGED <<file, holder, port, io, web, signalled, ended>>

SetStorageTask(p) == Go(p, "storage", "pages") /\ SetTask(p, "storage")

SetPagesTask(p) == Go(p, "pages", "handlers") /\ SetTask(p, "pages")

(* register_gui_handler; then the GUI, the keyboard, or the join.            *)
RegisterHandlers(p) ==
  /\ Go(p, "handlers", CASE Mode[p] = "gui"   -> "gui"
                         [] Mode[p] = "debug" -> "keys"
                         [] OTHER             -> "join")
  /\ UNCHANGED <<file, holder, port, io, web, signalled, told, ended>>

(* Mutant: the acquisition's io_service is not stopped.                      *)
Quit_WebOnly(p) ==
  /\ pc[p] \in {"gui", "keys"}
  /\ pc' = [pc EXCEPT ![p] = "join"]
  /\ web' = [web EXCEPT ![p] = IF @ = "ended" THEN @ ELSE "stopped"]
  /\ UNCHANGED <<file, holder, port, io, signalled, told, ended>>

(* The window is closed, or q typed: both io_services are stopped.           *)
Quit(p) ==
  /\ pc[p] \in {"gui", "keys"}
  /\ pc' = [pc EXCEPT ![p] = "join"]
  /\ web' = [web EXCEPT ![p] = IF @ = "ended" THEN @ ELSE "stopped"]
  /\ io' = [io EXCEPT ![p] = "stopped"]
  /\ UNCHANGED <<file, holder, port, signalled, told, ended>>

(* All threads have ended: main() returns.                                   *)
Join(p) ==
  /\ pc[p] = "join" /\ io[p] = "ended" /\ web[p] = "ended"
  /\ End({p}, "done")

Main(p) == \/ Lock(p) \/ WritePid(p) \/ StartTask(p) \/ StartThreads(p)
           \/ BuildServer(p) \/ RunServer(p) \/ SetStorageTask(p) \/ SetPagesTask(p)
           \/ RegisterHandlers(p) \/ Join(p)

-----------------------------------------------------------------------------
(* The threads of a process                                                  *)

othersFixed == UNCHANGED <<pc, file, holder, told, ended>>

(* The io threads end when their io_service was stopped: the timer and the   *)
(* acquisition keep it busy otherwise.                                       *)
IoEnds(p) ==
  /\ io[p] = "stopped"
  /\ io' = [io EXCEPT ![p] = "ended"]
  /\ othersFixed /\ UNCHANGED <<port, web, signalled>>

WebEnds(p) ==
  /\ web[p] = "stopped"
  /\ web' = [web EXCEPT ![p] = "ended"]
  /\ othersFixed /\ UNCHANGED <<port, io, signalled>>

(* The first waveform is due for display at once: operator<< posts it by     *)
(* task_, a null pointer until setTask.                                      *)
StoreTooEarly(p) ==
  /\ io[p] = "running" /\ "storage" \notin told[p]
  /\ End({p}, "crashed")

(* An edit of the page goes to task_ of the page handler.                    *)
EditTooEarly(p) ==
  /\ web[p] = "running" /\ "pages" \notin told[p]
  /\ End({p}, "crashed")

(* do_await_stop: the acceptor and the connections are closed, once; the     *)
(* next signal finds no operation waiting for it.                            *)
HandleSignal(p) ==
  /\ signalled[p] /\ web[p] = "running"
  /\ signalled' = [signalled EXCEPT ![p] = FALSE]
  /\ web' = [web EXCEPT ![p] = "closed"]
  /\ port' = None
  /\ othersFixed /\ UNCHANGED io

(* Its io_service has nothing left to do, unless a stream stays open.        *)
WebDrained(p) ==
  /\ web[p] = "closed"
  /\ web' = [web EXCEPT ![p] = "ended"]
  /\ othersFixed /\ UNCHANGED <<port, io, signalled>>

Threads(p) == IoEnds(p) \/ WebEnds(p) \/ HandleSignal(p)

-----------------------------------------------------------------------------
(* Signals from outside                                                      *)

(* kill -TERM: caught once the server's constructor has run.                 *)
Terminate(p) ==
  \/ /\ Alive(p) /\ web[p] = "none"
     /\ End({p}, "killed")
  \/ /\ web[p] \in {"built", "running"} /\ ~signalled[p]
     /\ signalled' = [signalled EXCEPT ![p] = TRUE]
     /\ othersFixed /\ UNCHANGED <<port, io, web>>

(* `cat` of the pid file: the pids between the newlines.                     *)
Breaks == {0} \cup {i \in DOMAIN file : file[i] = Newline}
Word(i) == LET j == CHOOSE k \in Breaks : k > i /\ \A l \in Breaks : l > i => l >= k
           IN  SubSeq(file, i + 1, j - 1)
Words == {Word(i) : i \in {b \in Breaks : \E k \in Breaks : k > b}} \ {<<>>}

(* Mutant: the script sends TERM.                                            *)
StopScript_Terminates ==
  \E p \in Process : Alive(p) /\ Pid[p] \in Words /\ Terminate(p)

(* stop and restart of httpd.sh: kill -HUP, which nothing catches; restart   *)
(* launches the program 3 s later.                                           *)
StopScript ==
  LET hit == {p \in Process : Alive(p) /\ Pid[p] \in Words}
  IN  hit # {} /\ End(hit, "killed")

Next ==
  \/ StopScript
  \/ \E p \in Process : \/ Launch(p) \/ Main(p) \/ Quit(p) \/ Threads(p)
                        \/ StoreTooEarly(p) \/ EditTooEarly(p) \/ WebDrained(p)
                        \/ Terminate(p)

(* main() and the threads go on; nobody must close the window.               *)
Fairness == \A p \in Process : WF_vars(Main(p)) /\ WF_vars(IoEnds(p)) /\ WF_vars(WebEnds(p))

Spec == Init /\ [][Next]_vars /\ Fairness

-----------------------------------------------------------------------------
(* One instance at a time, other than those for debugging, drives the        *)
(* instrument, however starts, ends and kills interleave (main.cpp:73-88).   *)
OneDaemon ==
  \A p, q \in Process :
    Mode[p] # "debug" /\ Mode[q] # "debug" /\ io[p] # "none" /\ io[q] # "none" => p = q

(* The first line of the pid file is the pid of the process that holds the   *)
(* lock, whatever older instances left and whoever was refused               *)
(* (main.cpp:79-87).                                                         *)
PidOfHolder == holder # None /\ pc[holder] # "pid" => Word(0) = Pid[holder]

(* The script's stop ends the instance that holds the lock, so that the next *)
(* start gets it (httpd.sh.in:24, :29).                                      *)
StopFreesLock ==
  [][StopScript /\ holder # None /\ pc[holder] # "pid" => holder' = None]_vars

(* Closing the window, or q, ends the process, also while a signal is being  *)
(* handled (main.cpp:129-143).                                               *)
QuitEnds == \A p \in Process : Mode[p] # "daemon" /\ pc[p] = "join" ~> pc[p] = "gone"
=============================================================================
