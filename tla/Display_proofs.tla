---------------------------- MODULE Display_proofs ----------------------------
(* Theorems about Display, for every number of io threads, every modulus of  *)
(* the event numbers and every bound on ages, jobs and requests.             *)
EXTENDS Display, TLAPS

-----------------------------------------------------------------------------
(* The order of waveforms                                                    *)

(* v is a waveform, and not one posted after w.                              *)
NotNewer(v, w) == v # None /\ (w # None => v <= w)

LEMMA Ages ==
  /\ \A w \in Wave : Aged(w) \in Wave /\ (Aged(w) = None <=> w = None)
  /\ \A v, w \in Wave : NotNewer(v, w) => NotNewer(Aged(v), Aged(w))
  /\ \A w \in Wave : NotNewer(0, w)
  /\ 0 \in Wave /\ None \in Wave
  /\ \A v, w \in Wave : NotNewer(w, v) => ~Older(w, v)
<1> USE DisplayAssumption
<1>1. ASSUME NEW w \in 0..MaxAge
      PROVE  w \in Nat /\ w # None /\ Aged(w) \in 0..MaxAge /\ Aged(w) # None
             /\ (Aged(w) = IF w < MaxAge THEN w + 1 ELSE w)
  BY <1>1 DEF Aged
<1>2. Aged(None) = None
  BY DEF Aged
<1>3. \A w \in Wave : Aged(w) \in Wave /\ (Aged(w) = None <=> w = None)
  BY <1>1, <1>2 DEF Wave
<1>4. ASSUME NEW v \in Wave, NEW w \in Wave, NotNewer(v, w)
      PROVE  NotNewer(Aged(v), Aged(w))
  <2>1. v \in 0..MaxAge
    BY <1>4 DEF NotNewer, Wave
  <2>2. CASE w = None
    BY <2>1, <2>2, <1>1, <1>2 DEF NotNewer
  <2>3. CASE w \in 0..MaxAge
    BY <2>1, <2>3, <1>1, <1>4 DEF NotNewer
  <2> QED
    BY <2>2, <2>3 DEF Wave
<1>5. \A w \in Wave : NotNewer(0, w)
  BY DEF NotNewer, Wave
<1>6. 0 \in Wave /\ None \in Wave
  BY DEF Wave
<1>7. \A v, w \in Wave : NotNewer(w, v) => ~Older(w, v)
  BY DEF NotNewer, Older, Wave
<1> QED
  BY <1>3, <1>4, <1>5, <1>6, <1>7

LEMMA NextId ==
  /\ 0 \in Id
  /\ \A n \in Id : (n + 1) % IdMod \in Id
BY DisplayAssumption DEF Id

-----------------------------------------------------------------------------
(* Type correctness                                                          *)

Thread == [at : {"idle", "test", "push", "assign", "ask"} \cup Numbering,
           w : Wave, id : Id, gui : BOOLEAN]

LEMMA IdleThreadType == IdleThread \in Thread
BY Ages, NextId DEF IdleThread, Thread

(* Going on to a stage of the same job, or ending it.                        *)
LEMMA StageMoves ==
  ASSUME work \in [Workers -> Thread], NEW t \in Workers,
         NEW stage \in {"idle", "test", "push", "assign", "ask"} \cup Numbering,
         Finish(t, stage) \/ (Become(t, stage) /\ stage # "idle")
  PROVE  /\ work' \in [Workers -> Thread]
         /\ \A u \in Workers : u # t => work'[u] = work[u]
         /\ work'[t] = IdleThread \/ (work'[t].w = work[t].w /\ work'[t].at # "idle")
<1>0. IdleThread \in Thread /\ 0 \in Id
  BY IdleThreadType, NextId
<1>1. CASE work' = [work EXCEPT ![t] = IdleThread]
  BY <1>0, <1>1
<1>2. CASE work' = [work EXCEPT ![t] = [@ EXCEPT !.at = stage, !.id = 0]] /\ stage # "idle"
  BY <1>0, <1>2 DEF Thread
<1>3. CASE Become(t, stage) /\ stage # "idle"
  BY <1>3 DEF Become, Thread
<1> QED
  BY <1>1, <1>2, <1>3 DEF Finish

(* A thread that handles a job leaves the others alone, keeps its job to the *)
(* end, and asks for no waveform but its own.                                *)
LEMMA ThreadMoves ==
  ASSUME TypeOK, NEW t \in Workers, Page(t) \/ Push(t)
  PROVE  /\ work' \in [Workers -> Thread]
         /\ \A u \in Workers : u # t => work'[u] = work[u]
         /\ work[t].at # "idle"
         /\ work'[t] = IdleThread \/ (work'[t].w = work[t].w /\ work'[t].at # "idle")
         /\ pool' = pool /\ overlap' = overlap
<1> USE DEF Numbering
<1>0. work \in [Workers -> Thread] /\ eventId \in Id
  BY DEF TypeOK, Thread
<1>1. CASE TestMark(t)
  BY <1>0, <1>1, StageMoves DEF TestMark, AfterPage
<1>2. CASE LoadId(t)
  BY <1>0, <1>2 DEF LoadId, Thread, pageVars, historyVars
<1>3. CASE StoreId(t)
  BY <1>0, <1>3, StageMoves DEF StoreId, historyVars
<1>4. CASE Deliver(t)
  BY <1>0, <1>4, StageMoves DEF Deliver, AfterPage, historyVars
<1>5. CASE LockDocument(t)
  BY <1>0, <1>5, StageMoves DEF LockDocument, historyVars
<1>6. CASE Assign(t)
  BY <1>0, <1>6, StageMoves DEF Assign, historyVars
<1>7. CASE AskToDraw(t)
  BY <1>0, <1>7, StageMoves DEF AskToDraw, historyVars
<1> QED
  BY <1>1, <1>2, <1>3, <1>4, <1>5, <1>6, <1>7 DEF Page, Push

LEMMA TypeInit == Init => TypeOK
<1> SUFFICES ASSUME Init PROVE TypeOK
  OBVIOUS
<1>1. pool \in Seq(Wave) /\ work \in [Workers -> Thread]
  BY IdleThreadType DEF Init
<1>2. /\ browser \in [id : Id \cup {None}, wave : Wave]
      /\ eventId \in Id /\ que \in Wave /\ asked \in Wave
  BY NextId, Ages DEF Init
<1>3. requests \in 0..MaxRequests /\ elapsed \in 0..(DrawPeriod + 1)
  BY DisplayAssumption DEF Init
<1> QED
  BY <1>1, <1>2, <1>3 DEF Init, TypeOK, Thread

LEMMA RememberType ==
  ASSUME NEW b \in [id : Id \cup {None}, wave : Wave], NEW over \in BOOLEAN,
         NEW mixed \in BOOLEAN
  PROVE  Remember(b, over, mixed) \in [id : Id \cup {None}, wave : Wave]
BY Ages DEF Remember

LEMMA TypeStep == TypeOK /\ [Next]_vars => TypeOK'
<1> SUFFICES ASSUME TypeOK, [Next]_vars PROVE TypeOK'
  OBVIOUS
<1> USE DEF TypeOK
<1>0. work \in [Workers -> Thread]
  BY DEF Thread
<1>1. CASE PostWave
  <2>1. pool' \in Seq(Wave)
    <3>1. [i \in DOMAIN pool |-> Aged(pool[i])] \in Seq(Wave)
      BY Ages
    <3> QED
      BY <1>1, <3>1, Ages DEF PostWave
  <2>2. work' \in [Workers -> Thread]
    BY <1>0, <1>1, Ages DEF PostWave, Thread
  <2>3. que' \in Wave /\ asked' \in Wave /\ browser' \in [id : Id \cup {None}, wave : Wave]
    BY <1>1, Ages DEF PostWave
  <2>4. elapsed' \in 0..(DrawPeriod + 1)
    BY <1>1, DisplayAssumption DEF PostWave, Later
  <2> QED
    BY <1>1, <2>1, <2>2, <2>3, <2>4 DEF PostWave, Thread, historyVars
<1>2. CASE PostTick
  <2>1. pool' \in Seq(Wave)
    BY <1>2, Ages DEF PostTick, Tick
  <2> QED
    BY <1>2, <2>1 DEF PostTick, pageVars, documentVars, historyVars
<1>3. CASE OpenWindow
  BY <1>3 DEF OpenWindow, pageVars, documentVars, historyVars
<1>4. CASE CloseWindow
  BY <1>4, DisplayAssumption DEF CloseWindow, pageVars, documentVars, historyVars
<1>5. CASE CopyRecent
  <2>1. crashed' \in BOOLEAN
    BY <1>5, Zenon DEF CopyRecent
  <2>2. requests' \in 0..MaxRequests
    BY <1>5, DisplayAssumption DEF CopyRecent
  <2> QED
    BY <1>5, <2>1, <2>2 DEF CopyRecent, pageVars, documentVars, historyVars
<1>6. CASE Draw
  BY <1>6 DEF Draw, pageVars, documentVars, historyVars
<1>7. CASE DrawWaveformCompleted
  BY <1>7 DEF DrawWaveformCompleted, pageVars, historyVars
<1>8. ASSUME NEW t \in Workers, Take(t) PROVE TypeOK'
  <2>1. pool' \in Seq(Wave) /\ Head(pool) \in Wave
    BY <1>8 DEF Take
  <2>2. work' \in [Workers -> Thread]
    BY <1>0, <1>8, <2>1, NextId DEF Take, Thread, Numbering
  <2>3. overlap' \in BOOLEAN /\ eventsMixed' \in BOOLEAN
    BY <1>8, Zenon DEF Take
  <2>4. asked' \in Wave
    BY <1>8, Ages DEF Take
  <2>5. browser' \in [id : Id \cup {None}, wave : Wave]
    BY <1>8, <2>3, RememberType DEF Take
  <2> QED
    BY <1>8, <2>1, <2>2, <2>3, <2>4, <2>5 DEF Take, Thread
<1>9. ASSUME NEW t \in Workers, TestMark(t) PROVE TypeOK'
  <2>1. eventsMixed' \in BOOLEAN
    BY <1>9, Zenon DEF TestMark
  <2>2. browser' \in [id : Id \cup {None}, wave : Wave]
    BY <1>9, <2>1, RememberType DEF TestMark
  <2> QED
    BY <1>9, <2>1, <2>2, ThreadMoves DEF TestMark, Page, Thread, documentVars
<1>10. ASSUME NEW t \in Workers, LoadId(t) PROVE TypeOK'
  BY <1>10, ThreadMoves DEF LoadId, Page, Thread, pageVars, documentVars, historyVars
<1>11. ASSUME NEW t \in Workers, StoreId(t) PROVE TypeOK'
  <2>1. eventId' \in Id
    BY <1>0, <1>11, NextId DEF StoreId, Thread
  <2> QED
    BY <1>11, <2>1, ThreadMoves DEF StoreId, Page, Thread, documentVars, historyVars
<1>12. ASSUME NEW t \in Workers, Deliver(t) PROVE TypeOK'
  <2>1. browser' \in [id : Id \cup {None}, wave : Wave]
    <3> DEFINE b == [id |-> work[t].id,
                     wave |-> IF work[t].w = Tick THEN browser.wave ELSE work[t].w]
    <3>1. b \in [id : Id \cup {None}, wave : Wave]
      BY <1>0 DEF Thread
    <3>2. browser' = Remember(b, overlap, eventsMixed)
      BY <1>12 DEF Deliver
    <3> QED
      BY <3>1, <3>2, RememberType
  <2>2. mark' \in BOOLEAN
    BY <1>12 DEF Deliver
  <2> QED
    BY <1>12, <2>1, <2>2, ThreadMoves DEF Deliver, Page, Thread, documentVars, historyVars
<1>13. ASSUME NEW t \in Workers, LockDocument(t) PROVE TypeOK'
  BY <1>13, ThreadMoves DEF LockDocument, Push, Thread, pageVars, historyVars
<1>14. ASSUME NEW t \in Workers, Assign(t) PROVE TypeOK'
  BY <1>0, <1>14, ThreadMoves DEF Assign, Push, Thread, pageVars, historyVars
<1>15. ASSUME NEW t \in Workers, AskToDraw(t) PROVE TypeOK'
  <2>1. requests' \in 0..MaxRequests /\ asked' \in Wave
    <3>1. CASE UNCHANGED <<requests, asked>>
      BY <3>1
    <3>2. CASE EmitUpdateData(work[t].w)
      <4>1. work[t].w \in Wave
        BY <1>0 DEF Thread
      <4> QED
        BY <3>2, <4>1, DisplayAssumption, Ages DEF EmitUpdateData
    <3> QED
      BY <1>15, <3>1, <3>2 DEF AskToDraw
  <2>2. flag' \in BOOLEAN /\ elapsed' \in 0..(DrawPeriod + 1)
    BY <1>15, DisplayAssumption DEF AskToDraw, Due
  <2> QED
    BY <1>15, <2>1, <2>2, ThreadMoves DEF AskToDraw, Push, Thread, pageVars, historyVars
<1>16. CASE UNCHANGED vars
  BY <1>16 DEF vars, pageVars, documentVars, historyVars
<1> QED
  BY <1>1, <1>2, <1>3, <1>4, <1>5, <1>6, <1>7, <1>8, <1>9, <1>10, <1>11, <1>12,
     <1>13, <1>14, <1>15, <1>16
     DEF Next, Qt, Handle, Page, Push

LEMMA Types == Spec => []TypeOK
BY TypeInit, TypeStep, PTL DEF Spec

-----------------------------------------------------------------------------
(* Waveforms wait, are handled and are kept in the order they were posted    *)

(* Idle threads hold no job; what reaches the document is a waveform.        *)
StageInv ==
  \A t \in Workers :
    /\ work[t].at \in {"test", "push", "assign", "ask"} => work[t].w # None
    /\ work[t].at = "idle" => work[t].w = None

Kept == {que, asked, browser.wave}
Held == Kept \cup {None} \cup {work[t].w : t \in Workers}

(* A waveform in the pool is not newer than those that wait before it, are   *)
(* being handled or were kept.                                               *)
PoolInv ==
  \A i \in DOMAIN pool : pool[i] # Tick =>
    /\ \A j \in 1..i : NotNewer(pool[i], pool[j])
    /\ \A w \in Held : NotNewer(pool[i], w)

(* Until two are handled at the same time, the waveform being handled is not *)
(* older than those that were kept; in the last stage it is que_.            *)
WorkInv ==
  ~overlap => \A t \in Workers : HandlesWave(t) =>
    /\ \A u \in Workers : HandlesWave(u) => u = t
    /\ \A w \in Kept : NotNewer(work[t].w, w)
    /\ work[t].at = "ask" => que = work[t].w

AskInv == ~overlap /\ asked # None => NotNewer(que, asked)

LEMMA StageStep == TypeOK /\ StageInv /\ [Next]_vars => StageInv'
<1> SUFFICES ASSUME TypeOK, StageInv, [Next]_vars PROVE StageInv'
  OBVIOUS
<1> USE DEF StageInv
<1>1. CASE PostWave
  <2>1. \A t \in Workers : work'[t].at = work[t].at /\ work'[t].w = Aged(work[t].w)
    BY <1>1 DEF PostWave, TypeOK
  <2>2. \A t \in Workers : work[t].w \in Wave
    BY DEF TypeOK
  <2> QED
    BY <2>1, <2>2, Ages
<1>2. ASSUME NEW t \in Workers, Take(t) PROVE StageInv'
  BY <1>2 DEF Take, Tick, TypeOK
<1>3. ASSUME NEW t \in Workers, Page(t) \/ Push(t) PROVE StageInv'
  <2>1. /\ \A u \in Workers : u # t => work'[u] = work[u]
        /\ work'[t] = IdleThread \/ (work'[t].w = work[t].w /\ work'[t].at # "idle")
    BY <1>3, ThreadMoves
  <2>2. CASE work'[t] = IdleThread \/ work[t].w # None
    BY <2>1, <2>2 DEF IdleThread
  <2>3. CASE work'[t] # IdleThread /\ work[t].w = None
    <3>1. work'[t].at \in Numbering
      BY <1>3, <2>3 DEF Page, Push, TestMark, LoadId, StoreId, Deliver, LockDocument,
         Assign, AskToDraw, Finish, Become, Tick, Numbering, TypeOK
    <3> QED
      BY <2>1, <3>1 DEF Numbering
  <2> QED
    BY <2>2, <2>3
<1>4. CASE UNCHANGED work
  BY <1>4
<1> QED
  BY <1>1, <1>2, <1>3, <1>4
     DEF Next, Handle, PostTick, OpenWindow, CloseWindow, Qt, CopyRecent, Draw,
         DrawWaveformCompleted, vars

(* What a thread that handles a job keeps: nothing but what was kept, and    *)
(* its own waveform.                                                         *)
LEMMA KeptMoves ==
  ASSUME TypeOK, NEW t \in Workers, Page(t) \/ Push(t)
  PROVE  /\ que' = que \/ (work[t].at = "assign" /\ que' = work[t].w)
         /\ work'[t].at = "ask" => work[t].at = "assign" /\ que' = work[t].w
         /\ \/ asked' \in {asked, None}
            \/ work[t].at = "ask" /\ asked' = work[t].w /\ que' = que
         /\ browser'.wave \in {browser.wave, None, work[t].w}
<1> USE DEF TypeOK, Finish, Become
<1>1. CASE TestMark(t)
  <2>1. work'[t].at # "ask"
    <3>1. CASE Become(t, "load")
      BY <3>1
    <3>2. CASE Finish(t, AfterPage(t))
      BY <3>2 DEF AfterPage, IdleThread
    <3> QED
      BY <1>1, <3>1, <3>2 DEF TestMark
  <2> QED
    BY <1>1, <2>1 DEF TestMark, documentVars, Remember
<1>2. CASE LoadId(t)
  BY <1>2 DEF LoadId, documentVars, pageVars
<1>3. CASE StoreId(t)
  BY <1>3 DEF StoreId, documentVars
<1>4. CASE Deliver(t)
  BY <1>4 DEF Deliver, documentVars, Remember, IdleThread, AfterPage
<1>5. CASE LockDocument(t)
  BY <1>5 DEF LockDocument, pageVars
<1>6. CASE Assign(t)
  BY <1>6 DEF Assign, pageVars
<1>7. CASE AskToDraw(t)
  BY <1>7 DEF AskToDraw, pageVars, EmitUpdateData, IdleThread
<1> QED
  BY <1>1, <1>2, <1>3, <1>4, <1>5, <1>6, <1>7 DEF Page, Push

(* What the rest of the program keeps.                                       *)
Elsewhere == PostTick \/ OpenWindow \/ CloseWindow \/ Qt \/ UNCHANGED vars

LEMMA ElsewhereKeeps ==
  Elsewhere => UNCHANGED <<work, que, asked, browser, overlap, eventId, eventsMixed>>
BY DEF Elsewhere, PostTick, OpenWindow, CloseWindow, Qt, CopyRecent, Draw,
       DrawWaveformCompleted, pageVars, documentVars, historyVars, vars

LEMMA PoolStep == TypeOK /\ PoolInv /\ [Next]_vars => PoolInv'
<1> SUFFICES ASSUME TypeOK, PoolInv, [Next]_vars PROVE PoolInv'
  OBVIOUS
<1> USE DEF PoolInv
<1>0. /\ pool \in Seq(Wave) /\ DOMAIN pool = 1..Len(pool) /\ Len(pool) \in Nat
      /\ Held \subseteq Wave
  BY Ages DEF TypeOK, Held, Kept
<1>1. CASE PostWave
  <2> DEFINE n == Len(pool)
             older == [i \in DOMAIN pool |-> Aged(pool[i])]
  <2>1. older \in Seq(Wave) /\ Len(older) = n
    BY <1>0, Ages
  <2>2. pool' = Append(older, 0)
    BY <1>1 DEF PostWave
  <2>3. /\ DOMAIN pool' = 1..(n + 1) /\ pool'[n + 1] = 0
        /\ \A i \in 1..n : pool'[i] = Aged(pool[i])
    BY <1>0, <2>1, <2>2
  <2>4. \A w \in Held' : \E v \in Held : w = Aged(v)
    <3>1. /\ que' = Aged(que) /\ asked' = Aged(asked) /\ None = Aged(None)
          /\ browser'.wave = Aged(browser.wave)
          /\ \A t \in Workers : work'[t].w = Aged(work[t].w)
      BY <1>1, Ages DEF PostWave, TypeOK
    <3> QED
      BY <3>1 DEF Held, Kept
  <2>5. ASSUME NEW i \in 1..n, pool'[i] # Tick
        PROVE  /\ \A j \in 1..i : NotNewer(pool'[i], pool'[j])
               /\ \A w \in Held' : NotNewer(pool'[i], w)
    <3>1. pool[i] \in Wave /\ pool[i] # Tick /\ \A j \in 1..i : j \in 1..n /\ pool[j] \in Wave
      BY <1>0, <2>3, <2>5, Ages DEF Tick
    <3> QED
      BY <1>0, <2>3, <2>4, <3>1, Ages
  <2>6. /\ \A j \in 1..(n + 1) : NotNewer(pool'[n + 1], pool'[j])
        /\ \A w \in Held' : NotNewer(pool'[n + 1], w)
    <3>1. \A j \in 1..(n + 1) : pool'[j] \in Wave
      BY <1>0, <2>3, Ages
    <3>2. \A w \in Held' : w \in Wave
      BY <1>0, <2>4, Ages
    <3> QED
      BY <2>3, <3>1, <3>2, Ages
  <2>7. \A i \in 1..(n + 1) : i \in 1..n \/ i = n + 1
    BY <1>0
  <2> HIDE DEF n
  <2> QED
    BY <2>3, <2>5, <2>6, <2>7
<1>2. ASSUME NEW t \in Workers, Take(t) PROVE PoolInv'
  <2>1. /\ Len(pool) > 0 /\ pool' = Tail(pool) /\ Head(pool) = pool[1]
        /\ DOMAIN pool' = 1..(Len(pool) - 1)
        /\ \A i \in 1..(Len(pool) - 1) : pool'[i] = pool[i + 1] /\ i + 1 \in DOMAIN pool
    BY <1>0, <1>2 DEF Take
  <2>2. \A w \in Held' : w \in Held \/ w = pool[1]
    <3>1. que' = que /\ asked' \in {asked, None} /\ browser'.wave \in {browser.wave, None}
      BY <1>2 DEF Take, Remember
    <3>2. \A u \in Workers : work'[u].w = work[u].w \/ work'[u].w = pool[1]
      BY <1>2, <2>1 DEF Take, TypeOK
    <3> QED
      BY <3>1, <3>2 DEF Held, Kept
  <2>3. \A i \in 1..(Len(pool) - 1) : \A j \in 1..i :
          j \in 1..(Len(pool) - 1) /\ j + 1 \in 1..(i + 1) /\ 1 \in 1..(i + 1)
    BY <1>0
  <2> QED
    BY <2>1, <2>2, <2>3
<1>3. ASSUME NEW t \in Workers, Page(t) \/ Push(t) PROVE PoolInv'
  <2>1. pool' = pool
    BY <1>3, ThreadMoves
  <2>2. \A u \in Workers : work'[u].w \in {work[u].w, None}
    BY <1>3, ThreadMoves DEF IdleThread
  <2>3. \A w \in Held' : w \in Held
    BY <1>3, <2>2, KeptMoves DEF Held, Kept
  <2> QED
    BY <2>1, <2>3
<1>4. CASE Elsewhere
  <2>1. \A w \in Held' : w \in Held
    BY <1>4, ElsewhereKeeps DEF Held, Kept
  <2>2. CASE pool' = pool
    BY <2>1, <2>2
  <2>3. CASE pool' = Append(pool, Tick)
    <3>1. /\ DOMAIN pool' = 1..(Len(pool) + 1) /\ pool'[Len(pool) + 1] = Tick
          /\ \A i \in 1..Len(pool) : pool'[i] = pool[i] /\ \A j \in 1..i : pool'[j] = pool[j]
      BY <1>0, <2>3, Ages DEF Tick
    <3>2. \A i \in 1..(Len(pool) + 1) : i \in 1..Len(pool) \/ i = Len(pool) + 1
      BY <1>0
    <3> QED
      BY <1>0, <2>1, <3>1, <3>2
  <2> QED
    BY <1>4, <2>2, <2>3 DEF Elsewhere, PostTick, OpenWindow, CloseWindow, Qt, CopyRecent,
       Draw, DrawWaveformCompleted, vars
<1> QED
  BY <1>1, <1>2, <1>3, <1>4 DEF Next, Handle, Elsewhere

LEMMA WorkStep ==
  TypeOK /\ StageInv /\ PoolInv /\ WorkInv /\ [Next]_vars => WorkInv'
<1> SUFFICES ASSUME TypeOK, StageInv, PoolInv, WorkInv, [Next]_vars, ~overlap',
                    NEW t \in Workers, HandlesWave(t)'
             PROVE  /\ \A u \in Workers : HandlesWave(u)' => u = t
                    /\ \A w \in Kept' : NotNewer(work'[t].w, w)
                    /\ work'[t].at = "ask" => que' = work'[t].w
  BY DEF WorkInv
<1> USE DEF WorkInv, HandlesWave, Kept
<1>1. CASE PostWave
  <2>1. \A u \in Workers : work'[u].at = work[u].at /\ work'[u].w = Aged(work[u].w)
                            /\ work[u].w \in Wave
    BY <1>1 DEF PostWave, TypeOK
  <2>2. /\ que' = Aged(que) /\ asked' = Aged(asked) /\ browser'.wave = Aged(browser.wave)
        /\ que \in Wave /\ asked \in Wave /\ browser.wave \in Wave
    BY <1>1 DEF PostWave, TypeOK
  <2>3. ~overlap
    BY <1>1 DEF PostWave, historyVars
  <2>4. \A u \in Workers : HandlesWave(u)' => HandlesWave(u)
    BY <2>1, Ages DEF Tick
  <2> QED
    BY <2>1, <2>2, <2>3, <2>4, Ages
<1>2. ASSUME NEW s \in Workers, Take(s)
      PROVE  /\ \A u \in Workers : HandlesWave(u)' => u = t
             /\ \A w \in Kept' : NotNewer(work'[t].w, w)
             /\ work'[t].at = "ask" => que' = work'[t].w
  <2>1. /\ ~overlap
        /\ Head(pool) # Tick => \A u \in Workers : ~HandlesWave(u)
        /\ que' = que /\ asked' \in {asked, None} /\ browser'.wave \in {browser.wave, None}
    BY <1>2 DEF Take, Remember
  <2>2. /\ \A u \in Workers : u # s => work'[u] = work[u]
        /\ work'[s].w = Head(pool) /\ work'[s].at # "ask"
    BY <1>2 DEF Take, TypeOK
  <2>3. Head(pool) = pool[1] /\ 1 \in DOMAIN pool
    BY <1>2 DEF Take, TypeOK
  <2>4. CASE Head(pool) = Tick
    BY <2>1, <2>2, <2>4 DEF NotNewer
  <2>5. CASE Head(pool) # Tick
    <3>1. \A u \in Workers : HandlesWave(u)' => u = s
      BY <2>1, <2>2, <2>5
    <3>2. \A w \in Kept \cup {None} : NotNewer(pool[1], w)
      BY <2>3, <2>5 DEF PoolInv, Held
    <3> QED
      BY <2>1, <2>2, <2>3, <3>1, <3>2
  <2> QED
    BY <2>4, <2>5
<1>3. ASSUME NEW s \in Workers, Page(s) \/ Push(s)
      PROVE  /\ \A u \in Workers : HandlesWave(u)' => u = t
             /\ \A w \in Kept' : NotNewer(work'[t].w, w)
             /\ work'[t].at = "ask" => que' = work'[t].w
  <2>1. /\ ~overlap
        /\ \A u \in Workers : u # s => work'[u] = work[u]
        /\ work'[s] = IdleThread \/ (work'[s].w = work[s].w /\ work'[s].at # "idle")
        /\ work[s].at # "idle"
    BY <1>3, ThreadMoves
  <2>2. \A u \in Workers : HandlesWave(u)' => HandlesWave(u) /\ work'[u].w = work[u].w
    BY <2>1 DEF IdleThread
  <2>3. \A u \in Workers : HandlesWave(u)' => u = t
    BY <2>1, <2>2
  <2>4. \A w \in Kept : NotNewer(work'[t].w, w)
    BY <2>1, <2>2
  <2>5. work[s].w # None => s = t
    BY <2>1, <2>2 DEF Tick
  <2>6. \A w \in {None, work[s].w} : NotNewer(work'[t].w, w)
    <3>1. work'[t].w # None
      BY DEF Tick
    <3>2. work[s].w # None => work'[t].w = work[s].w
      BY <2>2, <2>5
    <3>3. work[s].w \in Wave
      BY DEF TypeOK
    <3>4. \A w \in Wave : w # None => w <= w
      BY DisplayAssumption DEF Wave
    <3> QED
      BY <3>1, <3>2, <3>3, <3>4 DEF NotNewer
  <2>7. \A w \in Kept' : w \in Kept \cup {None, work[s].w}
    BY <1>3, KeptMoves
  <2>8. work'[t].at = "ask" => que' = work'[t].w
    <3>1. CASE s = t
      BY <1>3, <2>2, <3>1, KeptMoves
    <3>2. CASE s # t
      <4>1. work[s].w = None
        BY <2>5, <3>2
      <4>2. work[s].at # "assign"
        BY <4>1 DEF StageInv
      <4> QED
        BY <1>3, <2>1, <2>2, <3>2, <4>2, KeptMoves
    <3> QED
      BY <3>1, <3>2
  <2> QED
    BY <2>3, <2>4, <2>6, <2>7, <2>8
<1>4. CASE Elsewhere
  BY <1>4, ElsewhereKeeps
<1> QED
  BY <1>1, <1>2, <1>3, <1>4 DEF Next, Handle, Elsewhere

LEMMA AskStep ==
  TypeOK /\ StageInv /\ WorkInv /\ AskInv /\ [Next]_vars => AskInv'
<1> SUFFICES ASSUME TypeOK, StageInv, WorkInv, AskInv, [Next]_vars, ~overlap', asked' # None
             PROVE  NotNewer(que', asked')
  BY DEF AskInv
<1> USE DEF AskInv
<1>1. CASE PostWave
  BY <1>1, Ages DEF PostWave, TypeOK, historyVars
<1>2. ASSUME NEW t \in Workers, Take(t) PROVE NotNewer(que', asked')
  BY <1>2 DEF Take
<1>3. ASSUME NEW t \in Workers, Page(t) \/ Push(t) PROVE NotNewer(que', asked')
  <2>1. ~overlap
    BY <1>3, ThreadMoves
  <2>2. CASE que' = que /\ asked' = asked
    BY <2>1, <2>2
  <2>3. CASE work[t].at = "assign" /\ que' = work[t].w /\ asked' = asked
    <3>1. HandlesWave(t)
      BY <2>3 DEF StageInv, HandlesWave, Tick
    <3> QED
      BY <2>1, <2>3, <3>1 DEF WorkInv, Kept
  <2>4. CASE work[t].at = "ask" /\ asked' = work[t].w /\ que' = que
    <3>1. HandlesWave(t)
      BY <2>4 DEF StageInv, HandlesWave, Tick
    <3>2. que = work[t].w /\ NotNewer(work[t].w, que)
      BY <2>1, <2>4, <3>1 DEF WorkInv, Kept
    <3> QED
      BY <2>4, <3>2
  <2> QED
    BY <1>3, <2>2, <2>3, <2>4, KeptMoves
<1>4. CASE Elsewhere
  BY <1>4, ElsewhereKeeps
<1> QED
  BY <1>1, <1>2, <1>3, <1>4 DEF Next, Handle, Elsewhere

WaveInv == StageInv /\ PoolInv /\ WorkInv /\ AskInv

LEMMA WaveHolds == Spec => []WaveInv
<1>1. Init => WaveInv
  BY DEF Init, WaveInv, StageInv, PoolInv, WorkInv, AskInv, IdleThread, HandlesWave
<1>2. TypeOK /\ WaveInv /\ [Next]_vars => WaveInv'
  BY StageStep, PoolStep, WorkStep, AskStep DEF WaveInv
<1> QED
  BY <1>1, <1>2, Types, PTL DEF Spec

-----------------------------------------------------------------------------
(* Events are numbered in one count                                          *)

(* Until two events are numbered at the same time: one thread is at it; what *)
(* it loaded is what is there to store; what it delivers follows what the    *)
(* browser got last, and when none delivers, so does the next.               *)
NumberInv ==
  ~eventsMixed =>
    /\ \A t, u \in Workers : Numbers(t) /\ Numbers(u) => u = t
    /\ \A t \in Workers : work[t].at = "store" => work[t].id = eventId
    /\ \A t \in Workers : work[t].at = "deliver" =>
         /\ eventId = (work[t].id + 1) % IdMod
         /\ browser.id # None => work[t].id = (browser.id + 1) % IdMod
    /\ (browser.id # None /\ \A t \in Workers : work[t].at # "deliver")
         => eventId = (browser.id + 1) % IdMod

(* A step that numbers nothing.                                              *)
LEMMA NumbersStand ==
  ASSUME NumberInv, ~eventsMixed, eventId' = eventId, browser'.id = browser.id,
         \A t \in Workers :
           \/ work'[t].at = work[t].at /\ work'[t].id = work[t].id
           \/ ~Numbers(t) /\ work'[t].at \notin Numbering
  PROVE  NumberInv'
BY DEF NumberInv, Numbers, Numbering

LEMMA NumberStep == TypeOK /\ NumberInv /\ [Next]_vars => NumberInv'
<1> SUFFICES ASSUME TypeOK, NumberInv, [Next]_vars, ~eventsMixed' PROVE NumberInv'
  BY DEF NumberInv
<1>1. CASE PostWave
  <2>1. \A u \in Workers : work'[u].at = work[u].at /\ work'[u].id = work[u].id
    BY <1>1 DEF PostWave, TypeOK
  <2>2. ~eventsMixed /\ eventId' = eventId /\ browser'.id = browser.id
    BY <1>1 DEF PostWave, TypeOK, historyVars
  <2> QED
    BY <2>1, <2>2, NumbersStand
<1>2. ASSUME NEW t \in Workers, Take(t) PROVE NumberInv'
  <2>1. /\ ~eventsMixed /\ eventId' = eventId /\ browser'.id = browser.id
        /\ Head(pool) = Tick => \A u \in Workers : ~Numbers(u)
        /\ work[t].at = "idle"
    BY <1>2 DEF Take, Remember
  <2>2. /\ \A u \in Workers : u # t => work'[u] = work[u]
        /\ work'[t].at = IF Head(pool) = Tick THEN "load" ELSE "test"
    BY <1>2 DEF Take, TypeOK
  <2>3. CASE Head(pool) # Tick
    <3>1. ~Numbers(t) /\ work'[t].at \notin Numbering
      BY <2>1, <2>2, <2>3 DEF Numbers, Numbering
    <3> QED
      BY <2>1, <2>2, <3>1, NumbersStand
  <2>4. CASE Head(pool) = Tick
    <3>1. work'[t].at = "load" /\ \A u \in Workers : Numbers(u)' => u = t
      BY <2>1, <2>2, <2>4 DEF Numbers
    <3>2. \A u \in Workers : work[u].at # "deliver" /\ work'[u].at \notin {"store", "deliver"}
      BY <2>1, <2>2, <2>4, <3>1 DEF Numbers, Numbering
    <3> QED
      BY <2>1, <3>1, <3>2 DEF NumberInv
  <2> QED
    BY <2>3, <2>4
<1>3. ASSUME NEW t \in Workers, TestMark(t) PROVE NumberInv'
  <2>1. /\ ~eventsMixed /\ eventId' = eventId /\ browser'.id = browser.id
        /\ mark => \A u \in Workers : ~Numbers(u)
        /\ work[t].at = "test"
    BY <1>3 DEF TestMark, Remember
  <2>2. \A u \in Workers : u # t => work'[u] = work[u]
    BY <1>3, ThreadMoves DEF Page
  <2>3. CASE ~mark
    <3>1. ~Numbers(t) /\ work'[t].at \notin Numbering
      <4>1. Finish(t, AfterPage(t))
        BY <1>3, <2>3 DEF TestMark
      <4>2. work'[t].at \in {"idle", "push"}
        BY <4>1 DEF Finish, AfterPage, IdleThread, TypeOK
      <4> QED
        BY <2>1, <4>2 DEF Numbers, Numbering
    <3> QED
      BY <2>1, <2>2, <3>1, NumbersStand
  <2>4. CASE mark
    <3>1. work'[t].at = "load" /\ \A u \in Workers : Numbers(u)' => u = t
      BY <1>3, <2>1, <2>2, <2>4 DEF TestMark, Become, Numbers, TypeOK
    <3>2. \A u \in Workers : work[u].at # "deliver" /\ work'[u].at \notin {"store", "deliver"}
      BY <2>1, <2>2, <2>4, <3>1 DEF Numbers, Numbering
    <3> QED
      BY <2>1, <3>1, <3>2 DEF NumberInv
  <2> QED
    BY <2>3, <2>4
<1>4. ASSUME NEW t \in Workers, LoadId(t) PROVE NumberInv'
  <2>1. /\ ~eventsMixed /\ eventId' = eventId /\ browser' = browser
        /\ work[t].at = "load" /\ work'[t].at = "store" /\ work'[t].id = eventId
        /\ \A u \in Workers : u # t => work'[u] = work[u]
    BY <1>4 DEF LoadId, pageVars, historyVars, TypeOK
  <2>2. \A u \in Workers : u # t => ~Numbers(u)
    BY <2>1 DEF NumberInv, Numbers, Numbering
  <2>3. \A u \in Workers : u # t => ~Numbers(u)'
    BY <2>1, <2>2 DEF Numbers
  <2>4. \A u \in Workers : work[u].at # "deliver" /\ work'[u].at # "deliver"
    BY <2>1, <2>2, <2>3 DEF Numbers, Numbering
  <2>5. \A u \in Workers : work'[u].at = "store" => u = t
    BY <2>3 DEF Numbers, Numbering
  <2> QED
    BY <2>1, <2>3, <2>4, <2>5 DEF NumberInv
<1>5. ASSUME NEW t \in Workers, StoreId(t) PROVE NumberInv'
  <2>1. /\ ~eventsMixed /\ eventId' = (work[t].id + 1) % IdMod /\ browser' = browser
        /\ work[t].at = "store" /\ work'[t].at = "deliver" /\ work'[t].id = work[t].id
        /\ \A u \in Workers : u # t => work'[u] = work[u]
    BY <1>5 DEF StoreId, Become, historyVars, TypeOK
  <2>2. \A u \in Workers : u # t => ~Numbers(u)
    BY <2>1 DEF NumberInv, Numbers, Numbering
  <2>3. \A u \in Workers : u # t => ~Numbers(u)'
    BY <2>1, <2>2 DEF Numbers
  <2>4. \A u \in Workers : work[u].at # "deliver"
    BY <2>1, <2>2 DEF Numbers, Numbering
  <2>5. browser.id # None => work[t].id = (browser.id + 1) % IdMod
    BY <2>1, <2>4 DEF NumberInv
  <2>6. \A u \in Workers : work'[u].at \in {"store", "deliver"} => u = t
    BY <2>3 DEF Numbers, Numbering
  <2> QED
    BY <2>1, <2>3, <2>5, <2>6 DEF NumberInv
<1>6. ASSUME NEW t \in Workers, Deliver(t) PROVE NumberInv'
  <2>1. /\ ~eventsMixed /\ eventId' = eventId /\ browser'.id = work[t].id
        /\ work[t].at = "deliver"
    BY <1>6 DEF Deliver, Remember, historyVars
  <2>2. \A u \in Workers : u # t => work'[u] = work[u]
    BY <1>6, ThreadMoves DEF Page
  <2>3. work'[t].at \notin Numbering
    BY <1>6 DEF Deliver, Finish, AfterPage, IdleThread, Numbering, TypeOK
  <2>4. \A u \in Workers : u # t => ~Numbers(u)
    BY <2>1 DEF NumberInv, Numbers, Numbering
  <2>5. \A u \in Workers : ~Numbers(u)'
    BY <2>2, <2>3, <2>4 DEF Numbers
  <2>6. \A u \in Workers : work'[u].at \notin {"store", "deliver"}
    BY <2>5 DEF Numbers, Numbering
  <2>7. eventId = (work[t].id + 1) % IdMod
    BY <2>1 DEF NumberInv
  <2> QED
    BY <2>1, <2>5, <2>6, <2>7 DEF NumberInv
<1>7. ASSUME NEW t \in Workers, Push(t) PROVE NumberInv'
  <2>1. /\ ~eventsMixed /\ eventId' = eventId /\ browser' = browser
        /\ work[t].at \in {"push", "assign", "ask"}
        /\ work'[t].at \in {"assign", "ask", "idle"}
    BY <1>7 DEF Push, LockDocument, Assign, AskToDraw, Become, Finish, IdleThread,
       pageVars, historyVars, TypeOK
  <2>2. \A u \in Workers : u # t => work'[u] = work[u]
    BY <1>7, ThreadMoves
  <2>3. ~Numbers(t) /\ work'[t].at \notin Numbering
    BY <2>1 DEF Numbers, Numbering
  <2> QED
    BY <2>1, <2>2, <2>3, NumbersStand
<1>8. CASE Elsewhere
  BY <1>8, ElsewhereKeeps, NumbersStand
<1> QED
  BY <1>1, <1>2, <1>3, <1>4, <1>5, <1>6, <1>7, <1>8
     DEF Next, Handle, Page, Elsewhere

LEMMA NumberHolds == Spec => []NumberInv
<1>1. Init => NumberInv
  BY DEF Init, NumberInv, IdleThread, Numbers, Numbering
<1> QED
  BY <1>1, NumberStep, Types, PTL DEF Spec

-----------------------------------------------------------------------------
(* The theorems                                                              *)

(* The browser gets the events numbered without a gap until two are numbered *)
(* at the same time, and the waveforms in order until two are handled at the *)
(* same time.                                                                *)
THEOREM EventsReachBrowserInOrder == Spec => []EventsInOrder
<1>1. TypeOK /\ WaveInv /\ NumberInv => EventsInOrder
  <2> SUFFICES ASSUME TypeOK, WaveInv, NumberInv, NEW t \in Workers, work[t].at = "deliver"
               PROVE  /\ ~eventsMixed /\ browser.id # None
                           => work[t].id = (browser.id + 1) % IdMod
                      /\ ~overlap /\ work[t].w # Tick => ~Older(work[t].w, browser.wave)
    BY DEF EventsInOrder
  <2>1. ~eventsMixed /\ browser.id # None => work[t].id = (browser.id + 1) % IdMod
    BY DEF NumberInv
  <2>2. ASSUME ~overlap, work[t].w # Tick PROVE ~Older(work[t].w, browser.wave)
    <3>1. NotNewer(work[t].w, browser.wave)
      BY <2>2 DEF WaveInv, WorkInv, HandlesWave, Kept
    <3>2. work[t].w \in Wave /\ browser.wave \in Wave
      BY DEF TypeOK
    <3> QED
      BY <3>1, <3>2, Ages
  <2> QED
    BY <2>1, <2>2
<1> QED
  BY <1>1, Types, WaveHolds, NumberHolds, PTL

(* Every variable keeps its type, and a request to draw finds the waveform   *)
(* it was made for or a newer one, until two are handled at the same time.   *)
THEOREM RequestsFindTheirWaveform == Spec => []RequestFindsWaveform
<1>1. TypeOK /\ WaveInv => RequestFindsWaveform
  <2> SUFFICES ASSUME TypeOK, WaveInv, ~overlap PROVE ~Older(que, asked)
    BY DEF RequestFindsWaveform
  <2>1. CASE asked = None
    BY <2>1 DEF Older
  <2>2. CASE asked # None
    BY <2>2, Ages DEF WaveInv, AskInv, TypeOK
  <2> QED
    BY <2>1, <2>2
<1> QED
  BY <1>1, Types, WaveHolds, PTL

=============================================================================
