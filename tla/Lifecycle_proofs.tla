-------------------------- MODULE Lifecycle_proofs --------------------------
(* Theorems about Lifecycle, for any number of processes, any pids and any   *)
(* mix of modes.                                                             *)
EXTENDS Lifecycle, SequenceTheorems, TLAPS

-----------------------------------------------------------------------------
(* The inductive invariant                                                   *)

(* Who has passed the lock holds it.  A debugging instance has not tried.    *)
PastLock(p) == pc[p] = "pid" \/ (Mode[p] # "debug" /\ pc[p] \notin {"off", "lock", "gone"})

LockHeld == \A p \in Process : PastLock(p) => holder = p

(* A lock has a living owner, threads belong to a process past the lock.     *)
OwnerAlive == holder # None => Alive(holder)
ThreadsOwned == \A p \in Process : io[p] # "none" => pc[p] \notin {"off", "lock", "gone"}

(* The first line of the file is complete and names the holder.              *)
FirstLine ==
  holder # None /\ pc[holder] # "pid"
    => (\E k \in Breaks : k > 0) /\ Word(0) = Pid[holder]

LockInv == TypeOK /\ LockHeld /\ OwnerAlive /\ ThreadsOwned /\ FirstLine

-----------------------------------------------------------------------------
(* The pid file                                                              *)

LEMMA LineType ==
  ASSUME NEW p \in Process
  PROVE  /\ Line(p) \in Seq(Char)
         /\ Len(Line(p)) = Len(Pid[p]) + 1
         /\ Len(Pid[p]) \in Nat \ {0}
         /\ \A i \in 1..Len(Pid[p]) : Line(p)[i] = Pid[p][i] /\ Pid[p][i] # Newline
         /\ Line(p)[Len(Pid[p]) + 1] = Newline
<1>1. Pid[p] \in Seq(Nat) /\ Pid[p] # <<>> /\ Newline \notin {Pid[p][i] : i \in DOMAIN Pid[p]}
  BY LifecycleAssumption
<1>2. Len(Pid[p]) \in Nat \ {0} /\ DOMAIN Pid[p] = 1..Len(Pid[p])
  BY <1>1
<1>3. \A i \in 1..Len(Pid[p]) : Pid[p][i] \in Char /\ Pid[p][i] # Newline
  BY <1>1, <1>2 DEF Char
<1>4. Newline \in Char
  BY DEF Char
<1>5. Pid[p] \in [1..Len(Pid[p]) -> Char]
  BY <1>1, <1>2, <1>3
<1>6. Pid[p] \in Seq(Char)
  BY <1>2, <1>5, SeqDef
<1> QED
  BY <1>1, <1>2, <1>3, <1>4, <1>6 DEF Line

LEMMA WrittenFile ==
  ASSUME NEW p \in Process, NEW rest \in Seq(Char)
  PROVE  /\ Line(p) \o rest \in Seq(Char)
         /\ Len(Line(p) \o rest) \in Nat
         /\ Len(Line(p) \o rest) >= Len(Pid[p]) + 1
         /\ \A i \in 1..Len(Pid[p]) + 1 : (Line(p) \o rest)[i] = Line(p)[i]
<1>1. Line(p) \in Seq(Char) /\ Len(Line(p)) = Len(Pid[p]) + 1 /\ Len(Pid[p]) \in Nat \ {0}
  BY LineType
<1>2. Len(rest) \in Nat
  BY LenProperties
<1>3. Line(p) \o rest \in Seq(Char) /\ Len(Line(p) \o rest) = Len(Line(p)) + Len(rest)
  BY <1>1, ConcatProperties
<1>4. \A i \in 1..Len(Line(p)) + Len(rest) :
        (Line(p) \o rest)[i] = IF i <= Len(Line(p)) THEN Line(p)[i]
                               ELSE rest[i - Len(Line(p))]
  BY <1>1, ConcatProperties
<1>5. \A i \in 1..Len(Pid[p]) + 1 : (Line(p) \o rest)[i] = Line(p)[i]
  BY <1>1, <1>2, <1>4
<1> QED
  BY <1>1, <1>2, <1>3, <1>5

LEMMA FileRest ==
  ASSUME NEW f \in Seq(Char), NEW p \in Process
  PROVE  SubSeq(f, Len(Line(p)) + 1, Len(f)) \in Seq(Char)
<1>1. Len(Line(p)) + 1 \in Nat \ {0} /\ Len(f) \in Nat
  BY LineType, LenProperties
<1>2. \A i \in Len(Line(p)) + 1..Len(f) : f[i] \in Char
  BY <1>1, ElementOfSeq
<1> QED
  BY <1>1, <1>2, SubSeqProperties

LEMMA FirstWord ==
  ASSUME NEW p \in Process, NEW rest \in Seq(Char), file' = Line(p) \o rest
  PROVE  (\E k \in Breaks' : k > 0) /\ Word(0)' = Pid[p]
<1> DEFINE n == Len(Pid[p])
<1>1. file' \in Seq(Char) /\ Len(file') >= n + 1 /\ n \in Nat \ {0}
      /\ \A i \in 1..n + 1 : file'[i] = Line(p)[i]
  BY WrittenFile, LineType
<1>2. \A i \in 1..n : file'[i] = Pid[p][i] /\ file'[i] # Newline
  BY <1>1, LineType
<1>3. file'[n + 1] = Newline
  BY <1>1, LineType
<1>4. DOMAIN file' = 1..Len(file') /\ Len(file') \in Nat
  BY <1>1
<1>5. n + 1 \in Breaks'
  BY <1>1, <1>3, <1>4 DEF Breaks
<1>6. \A l \in Breaks' : l \in Nat /\ (l > 0 => l >= n + 1)
  BY <1>1, <1>2, <1>4 DEF Breaks
<1>7. \A k \in Breaks' :
        (k > 0 /\ \A l \in Breaks' : l > 0 => l >= k) <=> k = n + 1
  BY <1>1, <1>5, <1>6
<1> DEFINE j == CHOOSE k \in Breaks' : k > 0 /\ \A l \in Breaks' : l > 0 => l >= k
<1>8. j = n + 1
  BY <1>5, <1>7
<1>9. Word(0)' = SubSeq(file', 1, j - 1)
  BY DEF Word
<1> HIDE DEF j
<1>10. Word(0)' = SubSeq(file', 1, n)
  BY <1>1, <1>8, <1>9
<1>11. \A f \in Seq(Char) : (Len(f) >= n /\ \A i \in 1..n : f[i] = Pid[p][i])
                             => SubSeq(f, 1, n) = Pid[p]
  <2> TAKE f \in Seq(Char)
  <2> HAVE Len(f) >= n /\ \A i \in 1..n : f[i] = Pid[p][i]
  <2>1. n \in Nat /\ Len(f) \in Nat
    BY <1>1, LenProperties
  <2>2. \A i \in 1..n : f[i] \in Char /\ Pid[p][i] \in Char
    BY <2>1, ElementOfSeq
  <2>3. SubSeq(f, 1, n) \in Seq(Char) /\ Len(SubSeq(f, 1, n)) = n
        /\ \A i \in 1..n : SubSeq(f, 1, n)[i] = f[i]
    BY <2>1, <2>2, SubSeqProperties
  <2>4. Pid[p] \in Seq(Char)
    <3>1. Pid[p] \in Seq(Nat)
      BY LifecycleAssumption
    <3>2. Pid[p] \in [1..n -> Char]
      BY <2>2, <3>1, LenProperties
    <3> QED
      BY <2>1, <3>2, SeqDef
  <2> QED
    BY <2>3, <2>4, SeqEqual
<1>12. Len(file') >= n
  <2>1. Len(file') \in Nat
    BY <1>1, LenProperties
  <2> QED
    BY <1>1, <2>1
<1>13. \E k \in Breaks' : k > 0
  BY <1>1, <1>5
<1>14. SubSeq(file', 1, n) = Pid[p]
  <2> HIDE DEF n
  <2>1. file' \in Seq(Char) /\ Len(file') >= n /\ \A i \in 1..n : file'[i] = Pid[p][i]
    BY <1>1, <1>2, <1>12
  <2> QED
    BY <2>1, <1>11, Zenon
<1> QED
  BY <1>10, <1>13, <1>14

LEMMA SameFile == UNCHANGED file => Breaks' = Breaks /\ Word(0)' = Word(0)
BY DEF Breaks, Word

-----------------------------------------------------------------------------
(* Every step preserves the invariant                                        *)

LEMMA LockInit == Init => LockInv
<1> SUFFICES ASSUME Init PROVE LockInv
  OBVIOUS
<1>1. TypeOK
  BY DEF Init, TypeOK, StartUp
<1> QED
  BY <1>1 DEF Init, LockInv, LockHeld, PastLock, OwnerAlive, ThreadsOwned, FirstLine

(* A step of main() that leaves the lock and the file alone, after the pid.  *)
LEMMA GoStep ==
  ASSUME LockInv, NEW p \in Process, NEW here, NEW next, Go(p, here, next),
         here \in {"task", "threads", "server", "thread", "storage", "pages", "handlers",
                  "gui", "keys"},
         next \in {"threads", "server", "thread", "storage", "pages", "handlers",
                  "gui", "keys", "join"},
         UNCHANGED <<file, holder>>,
         \A q \in Process \ {p} : io'[q] = io[q]
  PROVE  LockHeld' /\ OwnerAlive' /\ ThreadsOwned' /\ FirstLine'
<1> USE DEF LockInv, TypeOK, Go
<1>1. pc'[p] = next /\ \A q \in Process \ {p} : pc'[q] = pc[q]
  OBVIOUS
<1>2. LockHeld'
  BY <1>1 DEF LockHeld, PastLock
<1>3. OwnerAlive'
  BY <1>1 DEF OwnerAlive, Alive
<1>4. ThreadsOwned'
  BY <1>1 DEF ThreadsOwned
<1>5. FirstLine'
  BY <1>1, SameFile DEF FirstLine
<1> QED
  BY <1>2, <1>3, <1>4, <1>5

(* Threads and signals, as far as nobody dies.                               *)
LEMMA ThreadStep ==
  ASSUME LockInv, NEW p \in Process, UNCHANGED <<pc, file, holder>>,
         io' = io \/ (io[p] # "none" /\ \A q \in Process \ {p} : io'[q] = io[q])
  PROVE  LockHeld' /\ OwnerAlive' /\ ThreadsOwned' /\ FirstLine'
<1> USE DEF LockInv
<1>1. LockHeld' /\ OwnerAlive'
  BY DEF LockHeld, PastLock, OwnerAlive, Alive
<1>2. ThreadsOwned'
  BY DEF ThreadsOwned
<1>3. FirstLine'
  BY SameFile DEF FirstLine
<1> QED
  BY <1>1, <1>2, <1>3

LEMMA EndStep ==
  ASSUME LockInv, NEW dead \in SUBSET Process,
         NEW how \in {"refused", "killed", "failed", "crashed", "done"}, End(dead, how)
  PROVE  LockInv'
<1> USE DEF LockInv, TypeOK, End
<1>1. \A q \in Process : /\ q \in dead => pc'[q] = "gone" /\ io'[q] = "none"
                         /\ q \notin dead => pc'[q] = pc[q] /\ io'[q] = io[q]
  OBVIOUS
<1>2. holder' = (IF holder \in dead THEN None ELSE holder) /\ None \notin Process
  BY LifecycleAssumption
<1>3. TypeOK'
  BY <1>2
<1>4. LockHeld'
  BY <1>1, <1>2 DEF LockHeld, PastLock
<1>5. OwnerAlive'
  BY <1>1, <1>2 DEF OwnerAlive, Alive
<1>6. ThreadsOwned'
  BY <1>1 DEF ThreadsOwned
<1>7. FirstLine'
  BY <1>1, <1>2, SameFile DEF FirstLine
<1> QED
  BY <1>3, <1>4, <1>5, <1>6, <1>7

LEMMA LockStep == ASSUME LockInv, NEW p \in Process, Lock(p) PROVE LockInv'
<1> USE DEF LockInv, TypeOK
<1>1. CASE holder = None /\ Go(p, "lock", "pid") /\ holder' = p
           /\ UNCHANGED <<file, port, io, web, signalled, told, ended>>
  <2>1. pc'[p] = "pid" /\ \A q \in Process \ {p} : pc'[q] = pc[q]
    BY <1>1 DEF Go
  <2>2. \A q \in Process : ~ PastLock(q)
    BY <1>1, LifecycleAssumption DEF LockHeld
  <2>3. TypeOK'
    BY <1>1 DEF Go, StartUp
  <2>4. LockHeld'
    BY <1>1, <2>1, <2>2 DEF LockHeld, PastLock
  <2>5. OwnerAlive' /\ FirstLine'
    BY <1>1, <2>1 DEF OwnerAlive, Alive, FirstLine
  <2>6. ThreadsOwned'
    BY <1>1, <2>1 DEF ThreadsOwned
  <2> QED
    BY <2>3, <2>4, <2>5, <2>6
<1>2. CASE End({p}, "refused")
  BY <1>2, EndStep
<1> QED
  BY <1>1, <1>2 DEF Lock

LEMMA WritePidStep == ASSUME LockInv, NEW p \in Process, WritePid(p) PROVE LockInv'
<1> USE DEF LockInv
<1> DEFINE rest == SubSeq(file, Len(Line(p)) + 1, Len(file))
<1>1. rest \in Seq(Char) /\ file' = Line(p) \o rest
  BY FileRest DEF TypeOK, WritePid
<1> HIDE DEF rest
<1>2. file' \in Seq(Char) /\ (\E k \in Breaks' : k > 0) /\ Word(0)' = Pid[p]
  BY <1>1, WrittenFile, FirstWord
<1>3. pc[p] = "pid" /\ pc'[p] = "task" /\ \A q \in Process \ {p} : pc'[q] = pc[q]
  BY DEF WritePid, Go, TypeOK
<1>4. holder = p /\ UNCHANGED <<holder, port, io, web, signalled, told, ended>>
  BY <1>3 DEF LockHeld, PastLock, WritePid
<1>5. TypeOK'
  BY <1>2, <1>4 DEF TypeOK, WritePid, Go, StartUp
<1>6. LockHeld'
  BY <1>3, <1>4 DEF LockHeld, PastLock
<1>7. OwnerAlive'
  BY <1>3, <1>4 DEF OwnerAlive, Alive
<1>8. ThreadsOwned'
  BY <1>3, <1>4 DEF ThreadsOwned
<1>9. FirstLine'
  BY <1>2, <1>4 DEF FirstLine
<1> QED
  BY <1>5, <1>6, <1>7, <1>8, <1>9

LEMMA LockStepAll == LockInv /\ [Next]_vars => LockInv'
<1> SUFFICES ASSUME LockInv, [Next]_vars PROVE LockInv'
  OBVIOUS
<1> USE DEF LockInv, TypeOK
<1>1. ASSUME NEW p \in Process, Launch(p) PROVE LockInv'
  <2>1. pc[p] = "off" /\ pc'[p] \in {"lock", "task"} /\ (pc'[p] = "task" => Mode[p] = "debug")
        /\ \A q \in Process \ {p} : pc'[q] = pc[q]
    BY <1>1 DEF Launch, Go
  <2>2. UNCHANGED <<file, holder, port, io, web, signalled, told, ended>>
    BY <1>1 DEF Launch
  <2>3. TypeOK'
    BY <1>1, <2>2 DEF Launch, Go, StartUp
  <2>4. LockHeld'
    BY <2>1, <2>2 DEF LockHeld, PastLock
  <2>5. OwnerAlive'
    BY <2>1, <2>2 DEF OwnerAlive, Alive
  <2>6. ThreadsOwned'
    BY <2>1, <2>2 DEF ThreadsOwned
  <2>7. FirstLine'
    BY <2>1, <2>2, SameFile DEF FirstLine, OwnerAlive, Alive
  <2> QED
    BY <2>3, <2>4, <2>5, <2>6, <2>7
<1>2. ASSUME NEW p \in Process, StartTask(p) PROVE LockInv'
  <2>1. TypeOK'
    BY <1>2 DEF StartTask, Go, StartUp, Singleton
  <2> QED
    BY <1>2, <2>1, GoStep DEF StartTask
<1>3. ASSUME NEW p \in Process, StartThreads(p) PROVE LockInv'
  <2>1. TypeOK'
    BY <1>3 DEF StartThreads, Go, StartUp, Singleton
  <2> QED
    BY <1>3, <2>1, GoStep DEF StartThreads
<1>4. ASSUME NEW p \in Process, BuildServer(p) PROVE LockInv'
  <2>1. CASE port = None /\ Go(p, "server", "thread") /\ port' = p
             /\ web' = [web EXCEPT ![p] = "built"]
             /\ UNCHANGED <<file, holder, io, signalled, told, ended>>
    <3>1. TypeOK'
      BY <2>1 DEF Go, StartUp
    <3> QED
      BY <2>1, <3>1, GoStep
  <2>2. CASE End({p}, "failed")
    BY <2>2, EndStep
  <2> QED
    BY <1>4, <2>1, <2>2 DEF BuildServer
<1>5. ASSUME NEW p \in Process, RunServer(p) PROVE LockInv'
  <2>1. TypeOK'
    BY <1>5 DEF RunServer, Go, StartUp, Singleton
  <2> QED
    BY <1>5, <2>1, GoStep DEF RunServer
<1>6. ASSUME NEW p \in Process, SetStorageTask(p) PROVE LockInv'
  <2>1. TypeOK'
    BY <1>6 DEF SetStorageTask, Go, StartUp, Singleton, SetTask
  <2> QED
    BY <1>6, <2>1, GoStep DEF SetStorageTask, SetTask
<1>7. ASSUME NEW p \in Process, SetPagesTask(p) PROVE LockInv'
  <2>1. TypeOK'
    BY <1>7 DEF SetPagesTask, Go, StartUp, Singleton, SetTask
  <2> QED
    BY <1>7, <2>1, GoStep DEF SetPagesTask, SetTask
<1>8. ASSUME NEW p \in Process, RegisterHandlers(p) PROVE LockInv'
  <2>1. TypeOK'
    BY <1>8 DEF RegisterHandlers, Go, StartUp, Singleton
  <2> QED
    BY <1>8, <2>1, GoStep DEF RegisterHandlers
<1>9. ASSUME NEW p \in Process, Quit(p) PROVE LockInv'
  <2>1. TypeOK'
    BY <1>9 DEF Quit
  <2>2. PICK here \in {"gui", "keys"} : Go(p, here, "join")
    BY <1>9 DEF Quit, Go
  <2> QED
    BY <1>9, <2>1, <2>2, GoStep DEF Quit
<1>10. ASSUME NEW p \in Process, Join(p) \/ StoreTooEarly(p) \/ EditTooEarly(p)
       PROVE  LockInv'
  BY <1>10, EndStep DEF Join, StoreTooEarly, EditTooEarly
<1>11. ASSUME NEW p \in Process, IoEnds(p) PROVE LockInv'
  <2>1. TypeOK'
    BY <1>11 DEF IoEnds, othersFixed
  <2> QED
    BY <1>11, <2>1, ThreadStep DEF IoEnds, othersFixed
<1>12. ASSUME NEW p \in Process, WebEnds(p) PROVE LockInv'
  <2>1. TypeOK'
    BY <1>12 DEF WebEnds, othersFixed
  <2> QED
    BY <1>12, <2>1, ThreadStep DEF WebEnds, othersFixed
<1>13. ASSUME NEW p \in Process, HandleSignal(p) PROVE LockInv'
  <2>1. TypeOK'
    BY <1>13 DEF HandleSignal, othersFixed
  <2> QED
    BY <1>13, <2>1, ThreadStep DEF HandleSignal, othersFixed
<1>14. ASSUME NEW p \in Process, WebDrained(p) PROVE LockInv'
  <2>1. TypeOK'
    BY <1>14 DEF WebDrained, othersFixed
  <2> QED
    BY <1>14, <2>1, ThreadStep DEF WebDrained, othersFixed
<1>15. ASSUME NEW p \in Process, Terminate(p) PROVE LockInv'
  <2>1. CASE End({p}, "killed")
    BY <2>1, EndStep
  <2>2. CASE signalled' = [signalled EXCEPT ![p] = TRUE] /\ othersFixed
             /\ UNCHANGED <<port, io, web>>
    <3>1. TypeOK'
      BY <2>2 DEF othersFixed
    <3> QED
      BY <2>2, <3>1, ThreadStep DEF othersFixed
  <2> QED
    BY <1>15, <2>1, <2>2 DEF Terminate
<1>16. CASE StopScript
  BY <1>16, EndStep DEF StopScript
<1>17. CASE UNCHANGED vars
  BY <1>17, SameFile DEF vars, LockHeld, PastLock, OwnerAlive, Alive, ThreadsOwned, FirstLine
<1> QED
  <2> HIDE DEF LockInv, TypeOK
  <2> QED
    BY <1>1, <1>2, <1>3, <1>4, <1>5, <1>6, <1>7, <1>8, <1>9, <1>10, <1>11, <1>12, <1>13,
       <1>14, <1>15, <1>16, <1>17, LockStep, WritePidStep DEF Next, Main, Threads

LEMMA LockAlways == Spec => []LockInv
BY LockInit, LockStepAll, PTL DEF Spec

-----------------------------------------------------------------------------
(* The results                                                               *)

(* Every variable keeps its type; the pid file holds nothing but digits and  *)
(* newlines (main.cpp:72-147).                                               *)
THEOREM LifecycleTypes == Spec => []TypeOK
<1>1. LockInv => TypeOK
  BY DEF LockInv
<1> QED
  BY <1>1, LockAlways, PTL

(* Two instances never drive the instrument at once, unless one was started  *)
(* for debugging: a process that has threads is past the lock, and who is    *)
(* past the lock holds it (main.cpp:73-98).                                  *)
THEOREM OneDaemonAlways == Spec => []OneDaemon
<1>1. LockInv => OneDaemon
  BY DEF LockInv, ThreadsOwned, LockHeld, PastLock, OneDaemon
<1> QED
  BY <1>1, LockAlways, PTL

(* The first line of the pid file is the holder's pid, whatever longer or    *)
(* shorter pids were written before (main.cpp:79-87).                        *)
THEOREM FileNamesHolder == Spec => []PidOfHolder
<1>1. LockInv => PidOfHolder
  BY DEF LockInv, FirstLine, PidOfHolder
<1> QED
  BY <1>1, LockAlways, PTL

(* A stop by the script frees the lock for the next start: the first word of *)
(* the file is the holder's, and no process catches the signal               *)
(* (httpd.sh.in:24, :29).                                                    *)
THEOREM StopEndsHolder == Spec => StopFreesLock
<1>1. LockInv /\ [Next]_vars
        => [StopScript /\ holder # None /\ pc[holder] # "pid" => holder' = None]_vars
  <2> SUFFICES ASSUME LockInv, StopScript, holder # None, pc[holder] # "pid"
               PROVE  holder' = None
    OBVIOUS
  <2>1. (\E k \in Breaks : k > 0) /\ Word(0) = Pid[holder] /\ Alive(holder)
        /\ holder \in Process
    BY DEF LockInv, TypeOK, FirstLine, OwnerAlive
  <2>2. Pid[holder] # <<>>
    BY <2>1, LifecycleAssumption
  <2>3. 0 \in Breaks
    BY DEF Breaks
  <2>4. Pid[holder] \in Words
    BY <2>1, <2>2, <2>3 DEF Words
  <2> QED
    BY <2>1, <2>4 DEF StopScript, End
<1> QED
  BY <1>1, LockAlways, PTL DEF Spec, StopFreesLock
=============================================================================
