-------------------------- MODULE DataStorage_proofs --------------------------
(* Theorems about DataStorage, for every number of io threads and every      *)
(* bound: what the queue and its batches hold, the refinement of             *)
(* WaveformFeed and the order of the exports.                                *)
EXTENDS DataStorage, FiniteSetTheorems, TLAPS

-----------------------------------------------------------------------------
(* Serial numbers: the k-th after s, without the modulus.                    *)

Step(s, k) == IF s + k < SerialMod THEN s + k ELSE s + k - SerialMod

LEMMA ModWrap ==
  ASSUME NEW M \in Nat \ {0}, NEW s \in Nat, NEW k \in Nat, s < M, k <= M
  PROVE  /\ s + k < M => (s + k) % M = s + k
         /\ ~(s + k < M) => (s + k) % M = s + k - M
OBVIOUS

LEMMA StepIsMod ==
  ASSUME NEW s \in Serial, NEW k \in 0..SerialMod
  PROVE  (s + k) % SerialMod = Step(s, k) /\ Step(s, k) \in Serial
<1>1. SerialMod \in Nat \ {0} /\ s \in Nat /\ s < SerialMod /\ k \in Nat /\ k <= SerialMod
  BY StorageAssumption DEF Serial
<1>2. (s + k) % SerialMod = Step(s, k)
  BY <1>1, ModWrap, Zenon DEF Step
<1>3. Step(s, k) \in Serial
  BY <1>1 DEF Step, Serial
<1> QED
  BY <1>2, <1>3

LEMMA SuccIsStep ==
  ASSUME NEW s \in Serial
  PROVE  Succ(s) = Step(s, 1) /\ Succ(s) \in Serial
BY StepIsMod, StorageAssumption DEF Succ

LEMMA SuccOfStep ==
  ASSUME NEW s \in Serial, NEW k \in 0..(SerialMod - 1)
  PROVE  Succ(Step(s, k)) = Step(s, k + 1)
<1>1. /\ SerialMod \in Nat \ {0} /\ s \in Nat /\ s < SerialMod
      /\ k \in 0..SerialMod /\ k + 1 <= SerialMod
  BY StorageAssumption DEF Serial
<1>2. Step(s, k) \in Serial
  BY <1>1, StepIsMod
<1>3. Succ(Step(s, k)) = Step(Step(s, k), 1)
  BY <1>2, SuccIsStep
<1> QED
  BY <1>1, <1>3 DEF Step

LEMMA SuccIdType == ASSUME NEW n \in Id PROVE SuccId(n) \in Id
<1>1. IdMod \in Nat \ {0} /\ n + 1 \in Nat
  BY StorageAssumption DEF Id
<1> QED
  BY <1>1 DEF SuccId, Id

-----------------------------------------------------------------------------
(* Type correctness                                                          *)

LEMMA MovedFromType ==
  ASSUME NEW q \in Seq(Waveform)
  PROVE  /\ [i \in DOMAIN q |-> None] \in Seq(Waveform)
         /\ Len([i \in DOMAIN q |-> None]) = Len(q)
<1>1. DOMAIN q = 1..Len(q) /\ Len(q) \in Nat
  OBVIOUS
<1>2. [i \in 1..Len(q) |-> None] \in [1..Len(q) -> Waveform]
  BY DEF Waveform
<1> QED
  BY <1>1, <1>2

LEMMA LastType ==
  ASSUME NEW q \in Seq(Waveform), q # <<>>
  PROVE  Last(q) \in Waveform
BY DEF Last

LEMMA IdleType == IdleThread \in [at : Stages, vec : Seq(Waveform), id : Id]
BY StorageAssumption DEF IdleThread, Stages, Id

LEMMA TypeInit == Init => TypeOK
<1> SUFFICES ASSUME Init PROVE TypeOK
  OBVIOUS
<1>1. queue \in Seq(Waveform) /\ pool \in Seq(Job)
  BY DEF Init
<1>2. serial \in Serial /\ id \in Id /\ sse \in 0..SsePeriod /\ blob \in 0..BlobPeriod
  BY StorageAssumption DEF Init, Serial, Id
<1> QED
  BY <1>1, <1>2, IdleType DEF Init, TypeOK

LEMMA ProduceTypes == ASSUME TypeOK, Produce PROVE TypeOK'
<1> USE DEF TypeOK
<1>1. CASE Push
  <2>1. serial' \in Serial
    BY <1>1, SuccIsStep DEF Push
  <2>2. Append(queue, serial) \in Seq(Waveform)
    BY DEF Waveform
  <2>3. sse' \in 0..SsePeriod /\ blob' \in 0..BlobPeriod
    BY <1>1, StorageAssumption DEF Push, AtMost
  <2> QED
    BY <1>1, <2>1, <2>2, <2>3 DEF Push, flagVars
<1>2. CASE PostWave
  <2>1. CASE queue = <<>>
    BY <1>2, <2>1 DEF PostWave, flagVars, exportVars
  <2>2. CASE queue # <<>>
    <3>1. [kind |-> "wave", w |-> Last(queue)] \in Job
      BY <2>2, LastType DEF Job
    <3>2. pool' \in Seq(Job)
      <4>1. Append(pool, [kind |-> "wave", w |-> Last(queue)]) \in Seq(Job)
        BY <3>1
      <4> QED
        BY <1>2, <2>2, <4>1 DEF PostWave
    <3>3. sse' \in 0..SsePeriod
      BY <1>2, <2>2, StorageAssumption DEF PostWave
    <3> QED
      BY <1>2, <2>2, <3>2, <3>3 DEF PostWave, flagVars, exportVars
  <2> QED
    BY <2>1, <2>2
<1>3. CASE SkipWave
  BY <1>3 DEF SkipWave, flagVars, exportVars
<1>4. CASE PostExport
  <2>1. [kind |-> "export", w |-> None] \in Job
    BY DEF Job
  <2>2. Append(pool, [kind |-> "export", w |-> None]) \in Seq(Job)
    BY <2>1
  <2>3. pool' \in Seq(Job) /\ blob' \in 0..BlobPeriod
    <3>1. CASE flag
      <4>1. pool' = Append(pool, [kind |-> "export", w |-> None]) /\ blob' = 0
        BY <1>4, <3>1 DEF PostExport
      <4> QED
        BY <2>2, <4>1, StorageAssumption
    <3>2. CASE ~flag
      BY <1>4, <3>2 DEF PostExport
    <3> QED
      BY <3>1, <3>2
  <2> QED
    BY <1>4, <2>3 DEF PostExport, exportVars
<1>5. CASE SkipExport
  BY <1>5 DEF SkipExport, flagVars, exportVars
<1> QED
  BY <1>1, <1>2, <1>3, <1>4, <1>5 DEF Produce

LEMMA WorkerTypes ==
  ASSUME TypeOK, NEW w \in Workers, Take(w) \/ Export(w) \/ HandleWaveform(w)
  PROVE  TypeOK'
<1> USE DEF TypeOK, Stages, ExportStages
<1>1. CASE Take(w)
  <2>1. Head(pool) \in Job /\ Tail(pool) \in Seq(Job)
    BY <1>1 DEF Take
  <2>2. <<Head(pool).w>> \in Seq(Waveform)
    BY <2>1 DEF Job, Waveform
  <2>3. CASE Head(pool).kind = "export"
    BY <1>1, <2>1, <2>3 DEF Take, flagVars, pushVars
  <2>4. CASE Head(pool).kind # "export"
    <3>1. work' = [work EXCEPT ![w].at = "test", ![w].vec = <<Head(pool).w>>]
      BY <1>1, <2>4 DEF Take
    <3>2. ASSUME NEW v \in Seq(Waveform)
          PROVE  [work EXCEPT ![w].at = "test", ![w].vec = v]
                   \in [Workers -> [at : Stages, vec : Seq(Waveform), id : Id]]
      OBVIOUS
    <3>3. work' \in [Workers -> [at : Stages, vec : Seq(Waveform), id : Id]]
      BY <2>2, <3>1, <3>2
    <3> QED
      BY <1>1, <2>1, <2>4, <3>3 DEF Take, flagVars, pushVars
  <2> QED
    BY <2>3, <2>4
<1>2. CASE Drain(w)
  BY <1>2, MovedFromType DEF Drain, flagVars, pushVars, exportVars
<1>3. CASE Clear(w)
  <2>1. queue' \in Seq(Waveform)
    BY <1>3 DEF Clear
  <2> QED
    BY <1>3, <2>1 DEF Clear, flagVars, pushVars, exportVars
<1>4. CASE LoadId(w)
  BY <1>4 DEF LoadId, flagVars, pushVars, exportVars
<1>5. CASE StoreId(w)
  BY <1>5, SuccIdType DEF StoreId, flagVars, pushVars
<1>6. CASE Deliver(w)
  <2>1. times' \in [Serial -> 0..2]
    BY <1>6 DEF Deliver, AtMost
  <2>2. 0 \in Id /\ <<>> \in Seq(Waveform)
    BY StorageAssumption DEF Id
  <2>3. work' \in [Workers -> [at : Stages, vec : Seq(Waveform), id : Id]]
    BY <1>6, <2>2 DEF Deliver
  <2> QED
    BY <1>6, <2>1, <2>3 DEF Deliver, flagVars, pushVars
<1>7. CASE Unflag(w)
  BY <1>7, IdleType DEF Unflag, pushVars, exportVars
<1>8. CASE TestMark(w)
  BY <1>8, IdleType DEF TestMark, pushVars, exportVars
<1>9. CASE Render(w)
  BY <1>9 DEF Render, flagVars, pushVars, exportVars
<1>10. CASE Unmark(w)
  BY <1>10, IdleType DEF Unmark, pushVars, exportVars
<1> QED
  BY <1>1, <1>2, <1>3, <1>4, <1>5, <1>6, <1>7, <1>8, <1>9, <1>10
     DEF Export, HandleWaveform

LEMMA TypeStep == TypeOK /\ [Next]_vars => TypeOK'
<1> SUFFICES ASSUME TypeOK, [Next]_vars PROVE TypeOK'
  OBVIOUS
<1>1. CASE UNCHANGED vars
  BY <1>1 DEF TypeOK, vars, flagVars, pushVars, exportVars
<1> QED
  BY <1>1, ProduceTypes, WorkerTypes DEF Next

-----------------------------------------------------------------------------
(* What the queue and the batches hold                                       *)

Holding(w) == work[w].at \in {"clear", "load", "store", "deliver"}

(* Consecutive serial numbers, at most a full turn of them.                  *)
Run(v) ==
  /\ Len(v) <= SerialMod
  /\ \A i \in 1..Len(v) : v[i] \in Serial /\ v[i] = Step(v[1], i - 1)

(* The thread between the two loops of handle_data_out has the lock; the     *)
(* queue is then all moved-from pointers, and otherwise it ends with the     *)
(* last waveform pushed.                                                     *)
LockInv ==
  /\ \A w \in Workers : work[w].at = "clear" <=> mutex = w
  /\ mutex # None => \A i \in 1..Len(queue) : queue[i] = None
  /\ mutex = None /\ queue # <<>> => serial = Step(queue[1], Len(queue))

(* The queue and every batch on its way is a run.                            *)
RunInv ==
  /\ mutex = None => Run(queue)
  /\ \A w \in Workers : Holding(w) => Run(work[w].vec)

(* No waveform is in two places.                                             *)
ApartInv ==
  /\ \A w \in Workers : Holding(w) => ToSet(work[w].vec) \cap ToSet(queue) = {}
  /\ \A u, w \in Workers :
       u # w /\ Holding(u) /\ Holding(w) => ToSet(work[u].vec) \cap ToSet(work[w].vec) = {}

(* What is pending has not gone out.                                         *)
TimesInv == \A s \in Pending : times[s] = 0

QueueInv == LockInv /\ RunInv /\ ApartInv /\ TimesInv

(* As long as no two exports have met: there is one exporter, its batch      *)
(* comes before the queue, and nobody takes a number between its load and    *)
(* its store.                                                                *)
Behind(w) == IF queue = <<>> \/ mutex = w THEN serial ELSE queue[1]

OrderInv ==
  ~overlap => \A w \in Workers :
    /\ \A u \in Workers : Exporting(u) /\ Exporting(w) => u = w
    /\ Holding(w) /\ work[w].vec # <<>> => Behind(w) = Step(work[w].vec[1], Len(work[w].vec))
    /\ work[w].at = "store" => id = work[w].id
    /\ work[w].at = "deliver" => id = SuccId(work[w].id)

(* Membership of Pending, and of a batch, without the union.                 *)
LEMMA PendingIs ==
  /\ \A x : x \in Pending <=>
       /\ x # None
       /\ x \in ToSet(queue) \/ \E w \in Workers : Holding(w) /\ x \in ToSet(work[w].vec)
  /\ \A x : x \in Pending' <=>
       /\ x # None
       /\ x \in ToSet(queue') \/ \E w \in Workers : Holding(w)' /\ x \in ToSet(work'[w].vec)
BY DEF Pending, Held, Holding

LEMMA InSeq ==
  ASSUME NEW S, NEW v \in Seq(S)
  PROVE  \A x : x \in ToSet(v) <=> \E i \in 1..Len(v) : x = v[i]
BY DEF ToSet

LEMMA PendingInSerial == TypeOK => Pending \subseteq Serial
<1> SUFFICES ASSUME TypeOK, NEW x \in Pending PROVE x \in Serial
  OBVIOUS
<1>1. x # None /\ x \in Waveform
  BY PendingIs, InSeq DEF TypeOK
<1> QED
  BY <1>1 DEF Waveform

LEMMA RunIsSerial ==
  ASSUME NEW v \in Seq(Waveform), Run(v)
  PROVE  ToSet(v) \subseteq Serial
BY InSeq DEF Run

LEMMA AppendSet ==
  ASSUME NEW S, NEW q \in Seq(S), NEW e \in S
  PROVE  ToSet(Append(q, e)) = ToSet(q) \cup {e}
<1>1. /\ DOMAIN q = 1..Len(q) /\ DOMAIN Append(q, e) = 1..(Len(q) + 1) /\ Len(q) \in Nat
      /\ \A i \in 1..Len(q) : Append(q, e)[i] = q[i]
      /\ Append(q, e)[Len(q) + 1] = e
  OBVIOUS
<1>2. \A i : i \in 1..(Len(q) + 1) <=> i \in 1..Len(q) \/ i = Len(q) + 1
  BY <1>1
<1> QED
  BY <1>1, <1>2, Zenon DEF ToSet

LEMMA AppendRun ==
  ASSUME NEW q \in Seq(Waveform), NEW e \in Serial, Run(q), Len(q) < SerialMod,
         q # <<>> => e = Step(q[1], Len(q))
  PROVE  Run(Append(q, e)) /\ (Append(q,e)[1] = IF q = <<>> THEN e ELSE q[1])
<1> DEFINE a == Append(q, e)
<1>0. SerialMod \in Nat \ {0}
  BY StorageAssumption
<1>1. /\ Len(q) \in Nat /\ Len(a) = Len(q) + 1
      /\ \A i \in 1..Len(q) : a[i] = q[i]
      /\ a[Len(q) + 1] = e
  BY DEF Waveform
<1>3. CASE q = <<>>
  <2>1. Len(q) = 0
    BY <1>3
  <2>2. Len(a) = 1 /\ a[1] = e
    BY <1>1, <2>1
  <2> HIDE DEF a
  <2>3. e = Step(e, 0)
    BY <1>0 DEF Step, Serial
  <2>4. \A i \in 1..Len(a) : a[i] \in Serial /\ a[i] = Step(a[1], i - 1)
    <3> SUFFICES ASSUME NEW i \in 1..Len(a) PROVE a[i] \in Serial /\ a[i] = Step(a[1], i - 1)
      OBVIOUS
    <3>1. i = 1 /\ i - 1 = 0
      BY <2>2
    <3> QED
      BY <2>2, <2>3, <3>1
  <2>5. Run(a)
    BY <2>2, <2>4, <1>0 DEF Run
  <2> QED
    BY <1>3, <2>2, <2>5 DEF a
<1>4. CASE q # <<>>
  <2>1. Len(q) # 0 /\ a[1] = q[1]
    BY <1>1, <1>4
  <2> HIDE DEF a
  <2>4. \A i \in 1..Len(a) : a[i] \in Serial /\ a[i] = Step(a[1], i - 1)
    <3> SUFFICES ASSUME NEW i \in 1..Len(a) PROVE a[i] \in Serial /\ a[i] = Step(a[1], i - 1)
      OBVIOUS
    <3>1. CASE i \in 1..Len(q)
      BY <1>1, <2>1, <3>1 DEF Run
    <3>2. CASE i = Len(q) + 1
      BY <1>1, <2>1, <3>2, <1>4
    <3> QED
      BY <1>1, <3>1, <3>2
  <2>5. Run(a)
    BY <1>1, <2>4, <1>0 DEF Run
  <2> QED
    BY <1>4, <2>1, <2>5 DEF a
<1> QED
  BY <1>3, <1>4

(* Steps that leave the queue, the lock and the batches alone.               *)
Quiet ==
  /\ UNCHANGED <<queue, mutex, serial, times>>
  /\ \A w \in Workers :
       /\ Holding(w)' <=> Holding(w)
       /\ work'[w].at = "clear" <=> work[w].at = "clear"
       /\ Holding(w) => work'[w].vec = work[w].vec

LEMMA QuietPending == Quiet => Pending' = Pending
<1> SUFFICES ASSUME Quiet, NEW x PROVE x \in Pending' <=> x \in Pending
  OBVIOUS
<1> QED
  BY PendingIs DEF Quiet, Holding

LEMMA QuietInv == QueueInv /\ Quiet => QueueInv'
<1> SUFFICES ASSUME QueueInv, Quiet PROVE QueueInv'
  OBVIOUS
<1>1. LockInv'
  BY DEF QueueInv, LockInv, Quiet, Holding
<1>2. RunInv'
  BY DEF QueueInv, RunInv, Run, Quiet, Holding
<1>3. ApartInv'
  BY DEF QueueInv, ApartInv, Quiet, Holding
<1>4. TimesInv'
  BY QuietPending DEF QueueInv, TimesInv, Quiet
<1> QED
  BY <1>1, <1>2, <1>3, <1>4 DEF QueueInv

LEMMA QuietSteps ==
  ASSUME TypeOK,
         \/ UNCHANGED vars
         \/ PostWave \/ SkipWave \/ PostExport \/ SkipExport
         \/ \E w \in Workers :
              Take(w) \/ LoadId(w) \/ StoreId(w) \/ Unflag(w) \/ HandleWaveform(w)
  PROVE  Quiet
<1> USE DEF Quiet, Holding, pushVars, flagVars, exportVars
<1>1. CASE UNCHANGED vars
  BY <1>1 DEF vars
<1>2. CASE PostWave
  BY <1>2 DEF PostWave
<1>3. CASE SkipWave
  BY <1>3 DEF SkipWave
<1>4. CASE PostExport
  BY <1>4 DEF PostExport
<1>5. CASE SkipExport
  BY <1>5 DEF SkipExport
<1>6. ASSUME NEW w \in Workers, Take(w) PROVE Quiet
  <2>1. /\ UNCHANGED <<queue, mutex, serial, times>>
        /\ \A u \in Workers \ {w} : work'[u] = work[u]
        /\ work[w].at = "idle" /\ work'[w].at \in {"drain", "test"}
    BY <1>6 DEF Take, TypeOK
  <2> QED
    BY <2>1
<1>7. ASSUME NEW w \in Workers, LoadId(w) PROVE Quiet
  BY <1>7 DEF LoadId, TypeOK
<1>8. ASSUME NEW w \in Workers, StoreId(w) PROVE Quiet
  BY <1>8 DEF StoreId, TypeOK
<1>9. ASSUME NEW w \in Workers, Unflag(w) PROVE Quiet
  BY <1>9 DEF Unflag, TypeOK, IdleThread
<1>10. ASSUME NEW w \in Workers, TestMark(w) PROVE Quiet
  BY <1>10 DEF TestMark, TypeOK, IdleThread
<1>11. ASSUME NEW w \in Workers, Render(w) PROVE Quiet
  BY <1>11 DEF Render, TypeOK
<1>12. ASSUME NEW w \in Workers, Unmark(w) PROVE Quiet
  BY <1>12 DEF Unmark, TypeOK, IdleThread
<1> QED
  BY <1>1, <1>2, <1>3, <1>4, <1>5, <1>6, <1>7, <1>8, <1>9, <1>10, <1>11, <1>12
     DEF HandleWaveform

LEMMA PushShape ==
  ASSUME TypeOK, QueueInv, Push
  PROVE  /\ Len(queue) < SerialMod
         /\ Len(queue') = Len(queue) + 1
         /\ \A i \in 1..Len(queue) : queue'[i] = queue[i]
         /\ queue'[Len(queue')] = serial
         /\ ToSet(queue') = ToSet(queue) \cup {serial}
         /\ Pending' = Pending \cup {serial}
<1>1. /\ queue \in Seq(Waveform) /\ queue' = Append(queue, serial) /\ mutex = None
      /\ serial \in Serial /\ serial \notin Pending /\ work' = work
  BY DEF TypeOK, Push
<1>2. /\ Len(queue') = Len(queue) + 1
      /\ \A i \in 1..Len(queue) : queue'[i] = queue[i]
      /\ queue'[Len(queue')] = serial
  BY <1>1
<1>3. queue' \in Seq(Waveform)
  BY <1>1 DEF Waveform
<1>4. Len(queue) # SerialMod
  <2> SUFFICES ASSUME Len(queue) = SerialMod PROVE FALSE
    OBVIOUS
  <2>1. SerialMod \in Nat \ {0} /\ None \notin Nat
    BY StorageAssumption
  <2>2. queue[1] \in Serial /\ serial = Step(queue[1], SerialMod)
    BY <1>1, <2>1 DEF QueueInv, LockInv, RunInv, Run
  <2>3. serial = queue[1]
    BY <2>1, <2>2 DEF Step, Serial
  <2>4. queue[1] \in ToSet(queue) /\ queue[1] # None
    BY <1>1, <2>1, <2>2, InSeq DEF Serial
  <2> QED
    BY <1>1, <2>3, <2>4, PendingIs
<1>5. Len(queue) < SerialMod
  BY <1>1, <1>4, StorageAssumption DEF QueueInv, RunInv, Run
<1>6. ToSet(queue') = ToSet(queue) \cup {serial}
  BY <1>1, AppendSet DEF Waveform
<1>7. Pending' = Pending \cup {serial}
  <2>1. serial # None
    BY <1>1, StorageAssumption DEF Serial
  <2>2. ASSUME NEW x PROVE x \in Pending' <=> x \in Pending \/ x = serial
    BY <1>1, <1>6, <2>1, PendingIs DEF Holding
  <2> QED
    BY <2>2
<1> QED
  BY <1>2, <1>5, <1>6, <1>7

LEMMA PushInv == TypeOK /\ QueueInv /\ Push => QueueInv'
<1> SUFFICES ASSUME TypeOK, QueueInv, Push PROVE QueueInv'
  OBVIOUS
<1>0. /\ queue \in Seq(Waveform) /\ mutex = None /\ mutex' = None /\ work' = work
      /\ serial \in Serial /\ serial' = Succ(serial)
  BY DEF TypeOK, Push
<1>1. Run(queue) /\ (queue # <<>> => serial = Step(queue[1], Len(queue)))
  BY <1>0 DEF QueueInv, LockInv, RunInv
<1>2. Len(queue) < SerialMod /\ Len(queue') = Len(queue) + 1
  BY PushShape
<1>3. queue' = Append(queue, serial)
  BY DEF Push
<1>4. Run(queue') /\ queue'[1] = IF queue = <<>> THEN serial ELSE queue[1]
  BY <1>0, <1>1, <1>2, <1>3, AppendRun
<1>5. serial' = Step(queue'[1], Len(queue'))
  <2>1. CASE queue = <<>>
    <3>1. Len(queue') = 1
      BY <1>2, <2>1
    <3> QED
      BY <1>0, <1>4, <2>1, <3>1, SuccIsStep
  <2>2. CASE queue # <<>>
    <3>1. queue[1] \in Serial /\ Len(queue) \in 0..(SerialMod - 1)
      BY <1>0, <1>1, <1>2, <2>2, StorageAssumption DEF Run
    <3> QED
      BY <1>0, <1>1, <1>2, <1>4, <2>2, <3>1, SuccOfStep
  <2> QED
    BY <2>1, <2>2
<1>6. LockInv'
  BY <1>0, <1>5 DEF QueueInv, LockInv
<1>7. RunInv'
  BY <1>0, <1>4 DEF QueueInv, RunInv, Holding
<1>8. ApartInv'
  <2>1. \A w \in Workers : Holding(w) => serial \notin ToSet(work[w].vec)
    BY <1>0, PendingIs, StorageAssumption DEF Push, Serial
  <2> QED
    BY <1>0, <2>1, PushShape DEF QueueInv, ApartInv, Holding
<1>9. TimesInv'
  BY <1>0, PushShape DEF QueueInv, TimesInv, Push, TypeOK
<1> QED
  BY <1>6, <1>7, <1>8, <1>9 DEF QueueInv

LEMMA DrainShape ==
  ASSUME TypeOK, QueueInv, NEW w \in Workers, Drain(w)
  PROVE  /\ ~Holding(w) /\ Holding(w)'
         /\ \A u \in Workers \ {w} : work'[u] = work[u] /\ work[u].at # "clear"
         /\ work'[w].vec = queue /\ work'[w].at = "clear"
         /\ Run(queue)
         /\ ToSet(queue') \subseteq {None}
         /\ Pending' = Pending
<1>1. /\ mutex = None /\ work[w].at = "drain" /\ queue' = [i \in DOMAIN queue |-> None]
      /\ work'[w].vec = queue /\ work'[w].at = "clear"
      /\ \A u \in Workers \ {w} : work'[u] = work[u]
  BY DEF Drain, TypeOK
<1>2. \A u \in Workers : work[u].at # "clear"
  BY <1>1, StorageAssumption DEF QueueInv, LockInv
<1>3. Run(queue)
  BY <1>1 DEF QueueInv, RunInv
<1>4. ToSet(queue') \subseteq {None}
  BY <1>1 DEF ToSet
<1>5. ASSUME NEW x PROVE x \in Pending' <=> x \in Pending
  BY <1>1, <1>4, PendingIs DEF Holding
<1> QED
  BY <1>1, <1>2, <1>3, <1>4, <1>5 DEF Holding

LEMMA DrainInv == ASSUME TypeOK, QueueInv, NEW w \in Workers, Drain(w) PROVE QueueInv'
<1>1. queue \in Seq(Waveform) /\ mutex' = w /\ times' = times /\ None \notin Nat /\ w # None
  BY StorageAssumption DEF TypeOK, Drain, exportVars
<1>2. LockInv'
  <2>1. \A i \in 1..Len(queue') : queue'[i] = None
    BY <1>1, MovedFromType DEF Drain
  <2> QED
    BY <1>1, <2>1, DrainShape DEF LockInv
<1>3. RunInv'
  BY <1>1, DrainShape DEF QueueInv, RunInv, Holding
<1>4. ApartInv'
  <2>1. \A u \in Workers : Holding(u)' => ToSet(work'[u].vec) \subseteq Serial
    <3>1. ToSet(queue) \subseteq Serial
      BY <1>1, DrainShape, RunIsSerial
    <3>2. ASSUME NEW u \in Workers \ {w}, Holding(u) PROVE ToSet(work[u].vec) \subseteq Serial
      BY <3>2, RunIsSerial DEF TypeOK, QueueInv, RunInv
    <3> QED
      BY <3>1, <3>2, DrainShape DEF Holding
  <2>2. None \notin Serial
    BY <1>1, StorageAssumption DEF Serial
  <2>3. \A u \in Workers : Holding(u)' => ToSet(work'[u].vec) \cap ToSet(queue') = {}
    BY <2>1, <2>2, DrainShape
  <2>4. ASSUME NEW u \in Workers, NEW v \in Workers, u # v, Holding(u)', Holding(v)'
        PROVE  ToSet(work'[u].vec) \cap ToSet(work'[v].vec) = {}
    BY <2>4, DrainShape DEF QueueInv, ApartInv, Holding
  <2> QED
    BY <2>3, <2>4 DEF ApartInv
<1>5. TimesInv'
  BY <1>1, DrainShape DEF QueueInv, TimesInv
<1> QED
  BY <1>2, <1>3, <1>4, <1>5 DEF QueueInv

LEMMA ClearPending ==
  ASSUME TypeOK, QueueInv, NEW w \in Workers, Clear(w)
  PROVE  Pending' = Pending
<1>1. /\ queue' = <<>> /\ \A i \in 1..Len(queue) : queue[i] = None
      /\ \A u \in Workers : (Holding(u)' <=> Holding(u)) /\ work'[u].vec = work[u].vec
  BY StorageAssumption DEF Clear, TypeOK, QueueInv, LockInv, Holding
<1>2. ToSet(queue) \subseteq {None} /\ ToSet(queue') = {}
  BY <1>1 DEF ToSet, TypeOK
<1>3. ASSUME NEW x PROVE x \in Pending' <=> x \in Pending
  BY <1>1, <1>2, PendingIs DEF Holding
<1> QED
  BY <1>3

LEMMA ClearInv == ASSUME TypeOK, QueueInv, NEW w \in Workers, Clear(w) PROVE QueueInv'
<1>1. /\ queue' = <<>> /\ mutex' = None /\ mutex = w /\ times' = times
      /\ work[w].at = "clear" /\ work'[w].at = "load"
      /\ \A u \in Workers : (Holding(u)' <=> Holding(u)) /\ work'[u].vec = work[u].vec
      /\ \A u \in Workers \ {w} : work'[u] = work[u]
  BY DEF Clear, TypeOK, QueueInv, LockInv, Holding, exportVars
<1>2. LockInv'
  BY <1>1, StorageAssumption DEF QueueInv, LockInv
<1>3. RunInv'
  <2>1. Run(<<>>)
    BY StorageAssumption DEF Run
  <2> QED
    BY <1>1, <2>1 DEF QueueInv, RunInv, Holding, Run
<1>4. ApartInv'
  <2>1. ToSet(queue') = {}
    BY <1>1 DEF ToSet
  <2> QED
    BY <1>1, <2>1 DEF QueueInv, ApartInv, Holding
<1>5. TimesInv'
  BY <1>1, ClearPending DEF QueueInv, TimesInv
<1> QED
  BY <1>2, <1>3, <1>4, <1>5 DEF QueueInv

LEMMA DeliverShape ==
  ASSUME TypeOK, QueueInv, NEW w \in Workers, Deliver(w)
  PROVE  /\ Pending' = Pending \ ToSet(work[w].vec)
         /\ ToSet(work[w].vec) \subseteq Pending
         /\ times' = [s \in Serial |-> IF s \in ToSet(work[w].vec) THEN 1 ELSE times[s]]
<1>1. /\ queue' = queue /\ Holding(w) /\ ~Holding(w)'
      /\ \A u \in Workers \ {w} : work'[u] = work[u]
  BY DEF Deliver, TypeOK, Holding
<1>2. ToSet(work[w].vec) \subseteq Pending
  <2>1. ToSet(work[w].vec) \subseteq Serial
    BY <1>1, RunIsSerial DEF TypeOK, QueueInv, RunInv
  <2> QED
    BY <1>1, <2>1, PendingIs, StorageAssumption DEF Serial
<1>3. ASSUME NEW x PROVE x \in Pending' <=> x \in Pending /\ x \notin ToSet(work[w].vec)
  <2>1. x \in ToSet(work[w].vec) => x \notin ToSet(queue)
    BY <1>1 DEF QueueInv, ApartInv
  <2>2. \A u \in Workers \ {w} :
           Holding(u) /\ x \in ToSet(work[w].vec) => x \notin ToSet(work[u].vec)
    BY <1>1 DEF QueueInv, ApartInv
  <2> QED
    BY <1>1, <2>1, <2>2, PendingIs DEF Holding
<1>4. times' = [s \in Serial |-> IF s \in ToSet(work[w].vec) THEN 1 ELSE times[s]]
  <2>1. \A s \in ToSet(work[w].vec) : times[s] = 0
    BY <1>2 DEF QueueInv, TimesInv
  <2> QED
    BY <2>1 DEF Deliver, AtMost
<1> QED
  BY <1>2, <1>3, <1>4

LEMMA DeliverInv == ASSUME TypeOK, QueueInv, NEW w \in Workers, Deliver(w) PROVE QueueInv'
<1>1. /\ queue' = queue /\ mutex' = mutex /\ serial' = serial
      /\ work[w].at = "deliver" /\ work'[w].at = "unflag" /\ ~Holding(w)'
      /\ \A u \in Workers \ {w} : work'[u] = work[u]
  BY DEF Deliver, TypeOK, Holding, pushVars
<1>2. LockInv'
  BY <1>1 DEF QueueInv, LockInv
<1>3. RunInv'
  BY <1>1 DEF QueueInv, RunInv, Holding, Run
<1>4. ApartInv'
  BY <1>1 DEF QueueInv, ApartInv, Holding
<1>5. TimesInv'
  <2> SUFFICES ASSUME NEW s \in Pending' PROVE times'[s] = 0
    BY DEF TimesInv
  <2>1. s \in Pending /\ s \notin ToSet(work[w].vec) /\ times[s] = 0
    BY DeliverShape DEF QueueInv, TimesInv
  <2>2. s \in Serial
    <3>1. Pending \subseteq Serial
      BY PendingInSerial
    <3> QED
      BY <2>1, <3>1
  <2> QED
    BY <2>1, <2>2, DeliverShape
<1> QED
  BY <1>2, <1>3, <1>4, <1>5 DEF QueueInv

LEMMA QueueInit == Init => QueueInv
<1> SUFFICES ASSUME Init PROVE QueueInv
  OBVIOUS
<1>1. queue = <<>> /\ mutex = None /\ \A w \in Workers : work[w].at = "idle"
  BY DEF Init, IdleThread
<1>2. LockInv
  BY <1>1, StorageAssumption DEF LockInv
<1>3. RunInv
  BY <1>1, StorageAssumption DEF RunInv, Run, Holding
<1>4. ApartInv
  BY <1>1 DEF ApartInv, Holding
<1>5. Pending = {}
  BY <1>1 DEF Pending, Held, ToSet
<1>6. TimesInv
  BY <1>5 DEF TimesInv
<1> QED
  BY <1>2, <1>3, <1>4, <1>6 DEF QueueInv

LEMMA QueueStep == TypeOK /\ QueueInv /\ [Next]_vars => QueueInv'
BY QuietSteps, QuietInv, PushInv, DrainInv, ClearInv, DeliverInv
   DEF Next, Produce, Export

LEMMA QueueInvariant == Spec => [](TypeOK /\ QueueInv)
BY TypeInit, TypeStep, QueueInit, QueueStep, PTL DEF Spec

(* Every variable keeps its type, and an export throws away only what it     *)
(* moved out: the lock keeps every push out from between its two loops       *)
(* (DataStorage!DrainTakesAll).                                              *)
THEOREM NothingDropped == Spec => []DrainTakesAll
<1>1. TypeOK /\ QueueInv => DrainTakesAll
  <2> SUFFICES ASSUME TypeOK, QueueInv PROVE DrainTakesAll
    OBVIOUS
  <2>1. /\ \A w \in Workers : work[w].at = "clear" <=> mutex = w
        /\ mutex # None => \A i \in 1..Len(queue) : queue[i] = None
    BY DEF QueueInv, LockInv
  <2>2. ToSet(queue) = {queue[i] : i \in 1..Len(queue)}
    BY DEF TypeOK, ToSet
  <2>3. mutex # None => ToSet(queue) \subseteq {None}
    BY <2>1, <2>2
  <2> QED
    BY <2>1, <2>3 DEF DrainTakesAll
<1> QED
  BY <1>1, QueueInvariant, PTL

(* Between pushes the last element of the queue is the newest waveform: the  *)
(* rendering posted by operator<< shows it, unless an export is between its  *)
(* two loops (DataStorage!FreshWave).                                        *)
THEOREM NewestAtTheBack == Spec => []FreshWave
<1>1. TypeOK /\ QueueInv => FreshWave
  <2> SUFFICES ASSUME TypeOK, QueueInv, mutex = None, queue # <<>>
               PROVE  Succ(Last(queue)) = serial
    BY DEF FreshWave
  <2>1. /\ queue \in Seq(Waveform) /\ Run(queue) /\ serial = Step(queue[1], Len(queue))
        /\ SerialMod \in Nat \ {0}
    BY StorageAssumption DEF TypeOK, QueueInv, LockInv, RunInv
  <2>2. Len(queue) \in 1..SerialMod /\ Len(queue) - 1 \in 0..(SerialMod - 1)
    BY <2>1 DEF Run
  <2>3. queue[1] \in Serial /\ Last(queue) = Step(queue[1], Len(queue) - 1)
    BY <2>1, <2>2 DEF Run, Last
  <2>4. Succ(Last(queue)) = Step(queue[1], (Len(queue) - 1) + 1)
    BY <2>2, <2>3, SuccOfStep
  <2> QED
    BY <2>1, <2>2, <2>4
<1> QED
  BY <1>1, QueueInvariant, PTL

-----------------------------------------------------------------------------
(* The queue implements the feed of the blob clients                         *)

LEMMA BatchIsBlock ==
  ASSUME NEW v \in Seq(Waveform), Run(v), v # <<>>
  PROVE  v[1] \in Serial /\ Len(v) \in 1..SerialMod /\ ToSet(v) = Feed!Block(v[1], Len(v))
<1>1. v[1] \in Serial /\ Len(v) \in 1..SerialMod /\ SerialMod \in Nat
  BY StorageAssumption DEF Run
<1>2. \A k \in 0..(Len(v) - 1) : (v[1] + k) % SerialMod = v[k + 1]
  <2> SUFFICES ASSUME NEW k \in 0..(Len(v) - 1) PROVE (v[1] + k) % SerialMod = v[k + 1]
    OBVIOUS
  <2>1. k \in 0..SerialMod /\ k + 1 \in 1..Len(v) /\ (k + 1) - 1 = k
    BY <1>1
  <2>2. (v[1] + k) % SerialMod = Step(v[1], k)
    BY <1>1, <2>1, StepIsMod
  <2>3. v[k + 1] = Step(v[1], (k + 1) - 1)
    BY <2>1 DEF Run
  <2> QED
    BY <2>1, <2>2, <2>3
<1>3. ASSUME NEW x PROVE x \in ToSet(v) <=> \E k \in 0..(Len(v) - 1) : x = v[k + 1]
  <2>1. x \in ToSet(v) <=> \E i \in 1..Len(v) : x = v[i]
    BY InSeq
  <2>2. ASSUME NEW i \in 1..Len(v) PROVE i - 1 \in 0..(Len(v) - 1) /\ (i - 1) + 1 = i
    BY <1>1
  <2>3. ASSUME NEW k \in 0..(Len(v) - 1) PROVE k + 1 \in 1..Len(v)
    BY <1>1
  <2> QED
    BY <2>1, <2>2, <2>3
<1>4. ToSet(v) = Feed!Block(v[1], Len(v))
  BY <1>2, <1>3 DEF Feed!Block
<1> QED
  BY <1>1, <1>4

LEMMA FeedInit == Init => Feed!Init
<1> SUFFICES ASSUME Init PROVE Feed!Init
  OBVIOUS
<1>1. queue = <<>> /\ \A w \in Workers : work[w].at = "idle"
  BY DEF Init, IdleThread
<1>2. Pending = {}
  BY <1>1 DEF Pending, Held, ToSet
<1> QED
  BY <1>2 DEF Init, Feed!Init, Serial, Feed!Serial

LEMMA FeedStep ==
  TypeOK /\ QueueInv /\ [Next]_vars => [Feed!Next]_<<serial, Pending, times>>
<1> SUFFICES ASSUME TypeOK, QueueInv, [Next]_vars
             PROVE  Feed!Next \/ UNCHANGED <<serial, Pending, times>>
  OBVIOUS
<1>1. CASE Push
  <2>1. Pending' = Pending \cup {serial}
    BY <1>1, PushShape
  <2> QED
    BY <1>1, <2>1 DEF Push, Succ, Feed!Next, Feed!Accept
<1>2. ASSUME NEW w \in Workers, Drain(w) PROVE UNCHANGED <<serial, Pending, times>>
  BY <1>2, DrainShape DEF Drain, pushVars, exportVars
<1>3. ASSUME NEW w \in Workers, Clear(w) PROVE UNCHANGED <<serial, Pending, times>>
  BY <1>3, ClearPending DEF Clear, pushVars, exportVars
<1>4. ASSUME NEW w \in Workers, Deliver(w)
      PROVE  Feed!Next \/ UNCHANGED <<serial, Pending, times>>
  <2> DEFINE v == work[w].vec
  <2>1. v \in Seq(Waveform) /\ Run(v) /\ serial' = serial
    BY <1>4 DEF Deliver, TypeOK, QueueInv, RunInv, Holding, pushVars
  <2>2. CASE v = <<>>
    <3>1. ToSet(v) = {}
      BY <2>2 DEF ToSet
    <3>2. Pending' = Pending
      BY <1>4, <3>1, DeliverShape
    <3>3. times' = times
      BY <1>4, <3>1, DeliverShape DEF TypeOK
    <3> QED
      BY <2>1, <3>2, <3>3
  <2>3. CASE v # <<>>
    <3> DEFINE b == Feed!Block(v[1], Len(v))
    <3>1. v[1] \in Serial /\ Len(v) \in 1..SerialMod /\ ToSet(v) = b
      BY <2>1, <2>3, BatchIsBlock
    <3>2. /\ b \subseteq Pending /\ Pending' = Pending \ b
          /\ times' = [s \in Serial |-> IF s \in b THEN 1 ELSE times[s]]
      BY <1>4, <3>1, DeliverShape
    <3> HIDE DEF v
    <3> QED
      BY <2>1, <3>1, <3>2 DEF Feed!Next, Feed!Deliver, Serial, Feed!Serial
  <2> QED
    BY <2>2, <2>3
<1>5. Quiet => UNCHANGED <<serial, Pending, times>>
  BY QuietPending DEF Quiet
<1> QED
  BY <1>1, <1>2, <1>3, <1>4, <1>5, QuietSteps DEF Next, Produce, Export

(* Nothing the queue accepts is lost, sent twice or sent with a gap in its   *)
(* batch, however many exports run beside each other and beside the pushes:  *)
(* dataStorage implements WaveformFeed (DataStorage!FeedSpec).               *)
THEOREM QueueImplementsFeed == Spec => FeedSpec
BY FeedInit, FeedStep, QueueInvariant, PTL DEF Spec, FeedSpec, Feed!Spec

-----------------------------------------------------------------------------
(* Exports that never meet keep the waveforms in order                       *)

LEMMA StepStep ==
  ASSUME NEW s \in Serial, NEW j \in Nat, NEW k \in Nat, j + k <= SerialMod
  PROVE  Step(Step(s, j), k) = Step(s, j + k)
BY StorageAssumption DEF Step, Serial

LEMMA StepInjective ==
  ASSUME NEW s \in Serial, NEW j \in 0..(SerialMod - 1), NEW k \in 0..(SerialMod - 1),
         Step(s, j) = Step(s, k)
  PROVE  j = k
BY StorageAssumption DEF Step, Serial

LEMMA OrderInit == Init => OrderInv
BY DEF Init, OrderInv, IdleThread, Exporting, ExportStages, Holding

(* Steps of other threads, and of this one where it takes no number.         *)
LEMMA OrderFrame ==
  ASSUME OrderInv, Quiet, id' = id, overlap' = overlap,
         \A w \in Workers :
           /\ Exporting(w)' => Exporting(w)
           /\ work'[w].at \in {"store", "deliver"} => work'[w] = work[w]
  PROVE  OrderInv'
<1> SUFFICES ASSUME ~overlap', NEW w \in Workers
             PROVE  /\ \A u \in Workers : Exporting(u)' /\ Exporting(w)' => u = w
                    /\ Holding(w)' /\ work'[w].vec # <<>> =>
                         Behind(w)' = Step(work'[w].vec[1], Len(work'[w].vec))
                    /\ work'[w].at = "store" => id' = work'[w].id
                    /\ work'[w].at = "deliver" => id' = SuccId(work'[w].id)
  BY DEF OrderInv
<1>1. \A u \in Workers : Exporting(u)' /\ Exporting(w)' => u = w
  BY DEF OrderInv
<1>2. Holding(w)' /\ work'[w].vec # <<>> =>
        Behind(w)' = Step(work'[w].vec[1], Len(work'[w].vec))
  BY DEF OrderInv, Quiet, Behind
<1> QED
  BY <1>1, <1>2 DEF OrderInv

LEMMA OrderStep == TypeOK /\ QueueInv /\ OrderInv /\ [Next]_vars => OrderInv'
<1> SUFFICES ASSUME TypeOK, QueueInv, OrderInv, [Next]_vars, ~overlap' PROVE OrderInv'
  BY DEF OrderInv
<1> USE DEF Exporting, ExportStages
<1>1. CASE UNCHANGED vars
  BY <1>1, QuietSteps, OrderFrame DEF vars, exportVars
<1>2. CASE PostWave \/ SkipWave \/ PostExport \/ SkipExport
  <2>1. work' = work /\ id' = id /\ overlap' = overlap
    BY <1>2 DEF PostWave, SkipWave, PostExport, SkipExport, exportVars
  <2> QED
    BY <1>2, <2>1, QuietSteps, OrderFrame
<1>3. CASE Push
  <2>1. /\ work' = work /\ id' = id /\ overlap' = overlap /\ mutex = None /\ mutex' = None
        /\ queue' = Append(queue, serial) /\ queue \in Seq(Waveform)
    BY <1>3 DEF Push, TypeOK
  <2>2. queue' # <<>> /\ queue'[1] = IF queue = <<>> THEN serial ELSE queue[1]
    BY <2>1 DEF Waveform
  <2>3. \A w \in Workers : Behind(w)' = Behind(w)
    BY <2>1, <2>2, StorageAssumption DEF Behind
  <2> QED
    BY <2>1, <2>3 DEF OrderInv, Holding
<1>4. ASSUME NEW w \in Workers, Take(w) PROVE OrderInv'
  <2>1. Quiet /\ id' = id
    BY <1>4, QuietSteps DEF Take
  <2>2. \A u \in Workers \ {w} : work'[u] = work[u]
    BY <1>4 DEF Take, TypeOK
  <2>3. CASE Head(pool).kind = "export"
    <3>1. /\ \A u \in Workers : ~Exporting(u)
          /\ work'[w].at = "drain"
      BY <1>4, <2>3 DEF Take, TypeOK
    <3> QED
      BY <2>2, <3>1 DEF OrderInv, Holding
  <2>4. CASE Head(pool).kind # "export"
    <3>1. work'[w].at = "test" /\ overlap' = overlap
      BY <1>4, <2>4 DEF Take, TypeOK
    <3> QED
      BY <2>1, <2>2, <3>1, OrderFrame
  <2> QED
    BY <2>3, <2>4
<1>5. ASSUME NEW w \in Workers, Drain(w) PROVE OrderInv'
  <2>1. /\ ~overlap /\ mutex = None /\ mutex' = w /\ serial' = serial
        /\ work[w].at = "drain" /\ work'[w].at = "clear" /\ work'[w].vec = queue
        /\ \A u \in Workers \ {w} : work'[u] = work[u]
    BY <1>5 DEF Drain, TypeOK, exportVars, pushVars
  <2>2. queue # <<>> => serial = Step(queue[1], Len(queue))
    BY <2>1 DEF QueueInv, LockInv
  <2>3. \A u \in Workers \ {w} : ~Exporting(u)
    BY <2>1 DEF OrderInv
  <2> QED
    BY <2>1, <2>2, <2>3 DEF OrderInv, Holding, Behind
<1>6. ASSUME NEW w \in Workers, Clear(w) PROVE OrderInv'
  <2>1. /\ ~overlap /\ mutex = w /\ queue' = <<>> /\ serial' = serial
        /\ work[w].at = "clear" /\ work'[w].at = "load" /\ work'[w].vec = work[w].vec
        /\ \A u \in Workers \ {w} : work'[u] = work[u]
    BY <1>6 DEF Clear, TypeOK, exportVars, pushVars, QueueInv, LockInv
  <2>2. \A u \in Workers \ {w} : ~Exporting(u)
    BY <2>1 DEF OrderInv
  <2> QED
    BY <2>1, <2>2 DEF OrderInv, Holding, Behind
<1>7. ASSUME NEW w \in Workers, LoadId(w) PROVE OrderInv'
  <2>1. /\ ~overlap /\ id' = id /\ Quiet
        /\ work[w].at = "load" /\ work'[w].at = "store" /\ work'[w].id = id
        /\ work'[w].vec = work[w].vec
        /\ \A u \in Workers \ {w} : work'[u] = work[u]
    BY <1>7, QuietSteps DEF LoadId, TypeOK, exportVars
  <2>2. \A u \in Workers \ {w} : ~Exporting(u)
    BY <2>1 DEF OrderInv
  <2> QED
    BY <2>1, <2>2 DEF OrderInv, Holding, Behind, Quiet
<1>8. ASSUME NEW w \in Workers, StoreId(w) PROVE OrderInv'
  <2>1. /\ ~overlap /\ Quiet
        /\ work[w].at = "store" /\ work'[w].at = "deliver" /\ id' = SuccId(work[w].id)
        /\ work'[w].vec = work[w].vec /\ work'[w].id = work[w].id
        /\ \A u \in Workers \ {w} : work'[u] = work[u]
    BY <1>8, QuietSteps DEF StoreId, TypeOK
  <2>2. \A u \in Workers \ {w} : ~Exporting(u)
    BY <2>1 DEF OrderInv
  <2> QED
    BY <2>1, <2>2 DEF OrderInv, Holding, Behind, Quiet
<1>9. ASSUME NEW w \in Workers, Deliver(w) PROVE OrderInv'
  <2>1. /\ ~overlap /\ work[w].at = "deliver" /\ work'[w].at = "unflag"
        /\ \A u \in Workers \ {w} : work'[u] = work[u]
    BY <1>9 DEF Deliver, TypeOK
  <2>2. \A u \in Workers \ {w} : ~Exporting(u)
    BY <2>1 DEF OrderInv
  <2> QED
    BY <2>1, <2>2 DEF OrderInv, Holding
<1>10. ASSUME NEW w \in Workers, Unflag(w) \/ HandleWaveform(w) PROVE OrderInv'
  <2>1. /\ Quiet /\ id' = id /\ overlap' = overlap
        /\ \A u \in Workers \ {w} : work'[u] = work[u]
        /\ work'[w].at \in {"idle", "render", "unmark"}
    <3>1. Quiet
      BY <1>10, QuietSteps
    <3>2. CASE Unflag(w)
      BY <3>1, <3>2 DEF Unflag, TypeOK, exportVars, IdleThread
    <3>3. CASE TestMark(w)
      BY <3>1, <3>3 DEF TestMark, TypeOK, exportVars, IdleThread
    <3>4. CASE Render(w)
      BY <3>1, <3>4 DEF Render, TypeOK, exportVars
    <3>5. CASE Unmark(w)
      BY <3>1, <3>5 DEF Unmark, TypeOK, exportVars, IdleThread
    <3> QED
      BY <1>10, <3>2, <3>3, <3>4, <3>5 DEF HandleWaveform
  <2> QED
    BY <2>1, OrderFrame
<1> QED
  BY <1>1, <1>2, <1>3, <1>4, <1>5, <1>6, <1>7, <1>8, <1>9, <1>10
     DEF Next, Produce, Export

LEMMA StepsCounted ==
  ASSUME NEW s \in Serial, NEW n \in 0..SerialMod
  PROVE  Cardinality({Step(s, k) : k \in 0..(n - 1)}) = n
<1> DEFINE S == {Step(s, k) : k \in 0..(n - 1)}
           f == [i \in 1..n |-> Step(s, i - 1)]
<1>1. SerialMod \in Nat \ {0}
  BY StorageAssumption
<1>2. f \in [1..n -> S]
  BY <1>1
<1>3. \A i, j \in 1..n : f[i] = f[j] => i = j
  <2> SUFFICES ASSUME NEW i \in 1..n, NEW j \in 1..n, Step(s, i - 1) = Step(s, j - 1)
               PROVE  i = j
    OBVIOUS
  <2>1. i - 1 \in 0..(SerialMod - 1) /\ j - 1 \in 0..(SerialMod - 1)
    BY <1>1
  <2>2. i - 1 = j - 1
    BY <2>1, StepInjective
  <2> QED
    BY <2>2
<1>4. \A t \in S : \E i \in 1..n : f[i] = t
  <2> SUFFICES ASSUME NEW k \in 0..(n - 1) PROVE \E i \in 1..n : f[i] = Step(s, k)
    OBVIOUS
  <2>1. k + 1 \in 1..n /\ (k + 1) - 1 = k
    BY <1>1
  <2>2. f[k + 1] = Step(s, k)
    BY <2>1
  <2> QED
    BY <2>1, <2>2
<1>5. f \in Bijection(1..n, S)
  BY <1>2, <1>3, <1>4 DEF Bijection, Injection, Surjection, IsInjective
<1>6. ExistsBijection(1..n, S)
  BY <1>5 DEF ExistsBijection
<1> QED
  BY <1>6, FS_CountingElements

(* What is pending while an only exporter delivers: its batch, then the      *)
(* queue, one run from the batch's first waveform to the last one pushed.    *)
LEMMA PendingIsOneRun ==
  ASSUME TypeOK, QueueInv, OrderInv, ~overlap,
         NEW w \in Workers, work[w].at = "deliver", work[w].vec # <<>>
  PROVE  LET v == work[w].vec
             n == Len(v) + Len(queue)
         IN  /\ v[1] \in Serial /\ n \in 0..SerialMod
             /\ serial = Step(v[1], n)
             /\ Pending = {Step(v[1], k) : k \in 0..(n - 1)}
<1> DEFINE v == work[w].vec
           n == Len(v) + Len(queue)
<1>0. SerialMod \in Nat \ {0} /\ None \notin Nat
  BY StorageAssumption
<1>1. /\ v \in Seq(Waveform) /\ Run(v) /\ Holding(w) /\ Exporting(w)
      /\ queue \in Seq(Waveform) /\ serial \in Serial
  BY DEF TypeOK, QueueInv, RunInv, Holding, Exporting, ExportStages
<1>2. \A u \in Workers \ {w} : ~Exporting(u) /\ ~Holding(u)
  BY <1>1 DEF OrderInv, Exporting, ExportStages, Holding
<1>3. mutex = None
  <2> SUFFICES ASSUME mutex \in Workers PROVE FALSE
    BY DEF TypeOK
  <2>1. work[mutex].at = "clear"
    BY DEF QueueInv, LockInv
  <2> QED
    BY <1>2, <2>1 DEF Exporting, ExportStages
<1>4. /\ Run(queue) /\ ToSet(v) \cap ToSet(queue) = {}
      /\ queue # <<>> => serial = Step(queue[1], Len(queue))
      /\ (IF queue = <<>> THEN serial ELSE queue[1]) = Step(v[1], Len(v))
  BY <1>1, <1>3, StorageAssumption DEF QueueInv, LockInv, RunInv, ApartInv, OrderInv, Behind
<1>5. /\ Len(v) \in 1..SerialMod /\ Len(queue) \in 0..SerialMod /\ v[1] \in Serial
      /\ queue = <<>> <=> Len(queue) = 0
  BY <1>0, <1>1, <1>4 DEF Run
<1>6. n <= SerialMod
  <2> SUFFICES ASSUME n > SerialMod PROVE FALSE
    BY <1>0, <1>5
  <2> DEFINE j == SerialMod - Len(v)
  <2>1. j \in Nat /\ Len(v) + j = SerialMod /\ j + 1 \in 1..Len(queue) /\ (j + 1) - 1 = j
        /\ queue # <<>>
    BY <1>0, <1>5
  <2>2. queue[j + 1] = Step(queue[1], j)
    BY <1>4, <2>1 DEF Run
  <2>3. queue[1] = Step(v[1], Len(v))
    BY <1>4, <2>1
  <2> HIDE DEF j
  <2>4. queue[j + 1] = Step(v[1], SerialMod)
    <3>1. Step(Step(v[1], Len(v)), j) = Step(v[1], Len(v) + j)
      BY <1>0, <1>5, <2>1, StepStep
    <3> QED
      BY <2>1, <2>2, <2>3, <3>1
  <2>5. Step(v[1], SerialMod) = v[1]
    BY <1>0, <1>5 DEF Step, Serial
  <2>6. v[1] \in ToSet(v) /\ queue[j + 1] \in ToSet(queue)
    BY <1>1, <1>5, <2>1, InSeq
  <2> QED
    BY <1>4, <2>4, <2>5, <2>6
<1>7. serial = Step(v[1], n)
  <2>1. CASE queue = <<>>
    BY <1>4, <1>5, <2>1
  <2>2. CASE queue # <<>>
    BY <1>4, <1>5, <1>6, <2>2, StepStep
  <2> QED
    BY <2>1, <2>2
<1>8. ASSUME NEW x
      PROVE  x \in ToSet(v) \/ x \in ToSet(queue) <=> \E k \in 0..(n - 1) : x = Step(v[1], k)
  <2>1. ASSUME x \in ToSet(v) PROVE \E k \in 0..(n - 1) : x = Step(v[1], k)
    <3>1. PICK i \in 1..Len(v) : x = v[i]
      BY <1>1, <2>1, InSeq
    <3>2. x = Step(v[1], i - 1) /\ i - 1 \in 0..(n - 1)
      BY <1>1, <1>5, <3>1 DEF Run
    <3> QED
      BY <3>2
  <2>2. ASSUME x \in ToSet(queue) PROVE \E k \in 0..(n - 1) : x = Step(v[1], k)
    <3>1. PICK i \in 1..Len(queue) : x = queue[i]
      BY <1>1, <2>2, InSeq
    <3>2. x = Step(Step(v[1], Len(v)), i - 1)
      BY <1>4, <1>5, <3>1 DEF Run
    <3>3. x = Step(v[1], Len(v) + (i - 1))
      <4>1. Len(v) \in Nat /\ i - 1 \in Nat /\ Len(v) + (i - 1) <= SerialMod
        BY <1>0, <1>5, <1>6, <3>1
      <4> QED
        BY <1>5, <3>2, <4>1, StepStep
    <3>4. Len(v) + (i - 1) \in 0..(n - 1)
      BY <1>5, <3>1
    <3> QED
      BY <3>3, <3>4
  <2>3. ASSUME NEW k \in 0..(n - 1), x = Step(v[1], k)
        PROVE  x \in ToSet(v) \/ x \in ToSet(queue)
    <3>1. CASE k < Len(v)
      <4>1. k + 1 \in 1..Len(v) /\ (k + 1) - 1 = k
        BY <1>5, <3>1
      <4>2. v[k + 1] = x
        BY <1>1, <2>3, <4>1 DEF Run
      <4> QED
        BY <1>1, <4>1, <4>2, InSeq
    <3>2. CASE k >= Len(v)
      <4> DEFINE j == k - Len(v)
      <4>1. j \in Nat /\ j + 1 \in 1..Len(queue) /\ (j + 1) - 1 = j /\ Len(v) + j = k
        BY <1>5, <3>2
      <4> HIDE DEF j
      <4>2. k <= SerialMod /\ queue # <<>>
        BY <1>0, <1>5, <1>6, <4>1
      <4>3. queue[j + 1] = Step(Step(v[1], Len(v)), j)
        BY <1>4, <4>1, <4>2 DEF Run
      <4>4. queue[j + 1] = x
        <5>1. Len(v) \in Nat /\ j \in Nat /\ Len(v) + j <= SerialMod
          BY <1>5, <4>1, <4>2
        <5>2. Step(Step(v[1], Len(v)), j) = Step(v[1], Len(v) + j)
          BY <1>5, <5>1, StepStep
        <5> QED
          BY <2>3, <4>1, <4>3, <5>2
      <4> QED
        BY <1>1, <4>1, <4>4, InSeq
    <3> QED
      BY <1>5, <3>1, <3>2
  <2> QED
    BY <2>1, <2>2, <2>3
<1>9. ASSUME NEW x PROVE x \in Pending <=> x \in ToSet(v) \/ x \in ToSet(queue)
  <2>1. None \notin ToSet(v) /\ None \notin ToSet(queue)
    BY <1>0, <1>1, <1>4, RunIsSerial DEF Serial
  <2> QED
    BY <1>1, <1>2, <2>1, PendingIs
<1>10. Pending = {Step(v[1], k) : k \in 0..(n - 1)}
  BY <1>8, <1>9
<1>11. n \in 0..SerialMod
  BY <1>5, <1>6
<1> QED
  BY <1>5, <1>7, <1>10, <1>11

LEMMA OrderInvariant == Spec => [](TypeOK /\ QueueInv /\ OrderInv)
BY QueueInvariant, OrderInit, OrderStep, PTL DEF Spec

(* Until two exports have run at the same time every batch starts with the   *)
(* oldest waveform pending and nobody else has its number: the blob clients  *)
(* get the waveforms in order (DataStorage!ExportsInOrder).                  *)
THEOREM OrderUntilOverlap == Spec => []ExportsInOrder
<1>1. TypeOK /\ QueueInv /\ OrderInv => ExportsInOrder
  <2> SUFFICES ASSUME TypeOK, QueueInv, OrderInv, ~overlap,
                      NEW w \in Workers, work[w].at = "deliver"
               PROVE  /\ work[w].vec # <<>> => Head(work[w].vec) = Oldest
                      /\ id = SuccId(work[w].id)
    BY DEF ExportsInOrder
  <2>1. id = SuccId(work[w].id)
    BY DEF OrderInv
  <2>2. ASSUME work[w].vec # <<>> PROVE Head(work[w].vec) = Oldest
    <3> DEFINE v == work[w].vec
               n == Len(v) + Len(queue)
    <3>1. /\ v[1] \in Serial /\ n \in 0..SerialMod /\ serial = Step(v[1], n)
          /\ Pending = {Step(v[1], k) : k \in 0..(n - 1)}
      BY <2>2, PendingIsOneRun
    <3>2. Head(v) = v[1]
      BY <2>2 DEF TypeOK
    <3> HIDE DEF n, v
    <3>3. Cardinality(Pending) = n
      BY <3>1, StepsCounted
    <3> DEFINE m == SerialMod - n
    <3>4. m \in 0..SerialMod /\ serial + SerialMod - n = serial + m /\ serial \in Serial
      BY <3>1, StepIsMod, StorageAssumption DEF Serial
    <3>5. Step(serial, m) = v[1]
      BY <3>1, StorageAssumption DEF Step, Serial
    <3> HIDE DEF m
    <3>6. Oldest = Step(serial, m)
      BY <3>3, <3>4, StepIsMod DEF Oldest
    <3> QED
      BY <3>2, <3>5, <3>6 DEF v
  <2> QED
    BY <2>1, <2>2
<1> QED
  BY <1>1, OrderInvariant, PTL

=============================================================================
