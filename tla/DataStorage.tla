----------------------------- MODULE DataStorage -----------------------------
(* The queue between the acquisition and the clients (datastorage.cpp) and   *)
(* the rendering of a waveform for the browser (page_handler.cpp).           *)
(*                                                                           *)
(* The strand pushes each waveform with operator<<, one call at a time.      *)
(* Every SsePeriod it posts the newest waveform for display, every           *)
(* BlobPeriod an export of the whole queue.  The io threads run these jobs   *)
(* beside the next pushes: an export empties the queue under mutex_, but     *)
(* operator<< reads queue_.back() without it.  Both spin flags are used the  *)
(* wrong way round: a job goes ahead when the flag was already set.          *)
EXTENDS Naturals, Sequences, SequencesExt, FiniteSets

CONSTANTS
  Workers,      \* io threads left for the posted jobs
  None,         \* no thread; a moved-from pointer
  SerialMod,    \* bound: serialCounter_ counts modulo SerialMod
  IdMod,        \* bound: id_ counts modulo IdMod
  SsePeriod,    \* 100 ms in ticks
  BlobPeriod,   \* 250 ms in ticks
  MaxPending,   \* bound: waveforms accepted and not exported
  MaxPool       \* bound: jobs waiting for an io thread

ASSUME StorageAssumption ==
  /\ SerialMod \in Nat /\ MaxPending \in 1..(SerialMod - 1)
  /\ IdMod \in Nat \ {0}
  /\ SsePeriod \in Nat \ {0} /\ BlobPeriod \in Nat \ {0}
  /\ MaxPool \in Nat \ {0}
  /\ None \notin Nat /\ None \notin Workers

VARIABLES
  crashed,   \* the process dereferenced a null or wild pointer
  queue,     \* queue_, a vector of serial numbers or moved-from pointers
  mutex,     \* the thread exporting under mutex_
  flag,      \* dataStorage::spin_flag_
  mark,      \* page_handler::spin_flag_
  sse, blob, \* ticks since tp_sse_commit_, tp_blob_commit_, up to the period
  serial,    \* the next waveform's serial number
  at,        \* where operator<< is: "push", "sse", "blob"
  pool,      \* jobs posted on the io_service
  work,      \* what each io thread is doing
  id,        \* id_
  times,     \* history: how often a serial number went out since its push (at most 2)
  overlap    \* history: two exports have run at the same time

pushVars == <<serial, at, sse, blob>>
flagVars == <<flag, mark>>
exportVars == <<id, times, overlap>>
vars == <<crashed, queue, mutex, flagVars, pushVars, pool, work, exportVars>>

Serial == 0..(SerialMod - 1)
Succ(s) == (s + 1) % SerialMod
Id == 0..(IdMod - 1)
SuccId(n) == (n + 1) % IdMod
Waveform == Serial \cup {None}

Job == [kind : {"export"}, w : {None}] \cup [kind : {"wave"}, w : Waveform]
ExportStages == {"drain", "clear", "load", "store", "deliver", "unflag"}
Stages == {"idle", "test", "render", "unmark"} \cup ExportStages
IdleThread == [at |-> "idle", vec |-> <<>>, id |-> 0]

TypeOK ==
  /\ crashed \in BOOLEAN
  /\ queue \in Seq(Waveform)
  /\ mutex \in Workers \cup {None}
  /\ flag \in BOOLEAN /\ mark \in BOOLEAN
  /\ sse \in 0..SsePeriod /\ blob \in 0..BlobPeriod
  /\ serial \in Serial
  /\ at \in {"push", "sse", "blob"}
  /\ pool \in Seq(Job)
  /\ work \in [Workers -> [at : Stages, vec : Seq(Waveform), id : Id]]
  /\ id \in Id
  /\ times \in [Serial -> 0..2]
  /\ overlap \in BOOLEAN

(* The time points start at the epoch: both periods have long passed.        *)
Init ==
  /\ crashed = FALSE
  /\ queue = <<>>
  /\ mutex = None
  /\ flag = FALSE /\ mark = FALSE
  /\ sse = SsePeriod /\ blob = BlobPeriod
  /\ serial = 0
  /\ at = "push"
  /\ pool = <<>>
  /\ work = [w \in Workers |-> IdleThread]
  /\ id = 0
  /\ times = [s \in Serial |-> 0]
  /\ overlap = FALSE

(* Waveforms accepted and not yet handed to blob_handler_.                   *)
Held(w) == IF work[w].at \in {"clear", "load", "store", "deliver"}
             THEN ToSet(work[w].vec) ELSE {}
Pending == (ToSet(queue) \cup UNION {Held(w) : w \in Workers}) \ {None}

-----------------------------------------------------------------------------
(* operator<<                                                                *)

AtMost(n, period) == IF n < period THEN n ELSE period

(* Mutant: waveforms enter at the front.                                     *)
Push_Front ==
  /\ ~crashed
  /\ at = "push"
  /\ mutex = None
  /\ serial \notin Pending /\ Cardinality(Pending) < MaxPending
  /\ queue' = <<serial>> \o queue
  /\ serial' = Succ(serial)
  /\ times' = [times EXCEPT ![serial] = 0]
  /\ \E ticks \in 1..BlobPeriod : /\ sse' = AtMost(sse + ticks, SsePeriod)
                                  /\ blob' = AtMost(blob + ticks, BlobPeriod)
  /\ at' = "sse"
  /\ UNCHANGED <<crashed, mutex, flagVars, pool, work, id, overlap>>

(* Mutant: a waveform enters without the lock.                               *)
Push_Unlocked ==
  /\ ~crashed
  /\ at = "push"
  /\ serial \notin Pending /\ Cardinality(Pending) < MaxPending
  /\ queue' = Append(queue, serial)
  /\ serial' = Succ(serial)
  /\ times' = [times EXCEPT ![serial] = 0]
  /\ \E ticks \in 1..BlobPeriod : /\ sse' = AtMost(sse + ticks, SsePeriod)
                                  /\ blob' = AtMost(blob + ticks, BlobPeriod)
  /\ at' = "sse"
  /\ UNCHANGED <<crashed, mutex, flagVars, pool, work, id, overlap>>

Push ==
  /\ ~crashed
  /\ at = "push"
  /\ mutex = None
  /\ serial \notin Pending /\ Cardinality(Pending) < MaxPending
  /\ queue' = Append(queue, serial)
  /\ serial' = Succ(serial)
  /\ times' = [times EXCEPT ![serial] = 0]
  /\ \E ticks \in 1..BlobPeriod : /\ sse' = AtMost(sse + ticks, SsePeriod)
                                  /\ blob' = AtMost(blob + ticks, BlobPeriod)
  /\ at' = "sse"
  /\ UNCHANGED <<crashed, mutex, flagVars, pool, work, id, overlap>>

(* queue_.back() without the lock: an export may have moved the pointer out  *)
(* or emptied the vector; the element before its start is no pointer at all. *)
PostWave ==
  /\ ~crashed
  /\ at = "sse"
  /\ sse = SsePeriod
  /\ IF queue = <<>>
       THEN crashed' = TRUE /\ UNCHANGED <<pool, sse, at>>
       ELSE /\ Len(pool) < MaxPool
            /\ pool' = Append(pool, [kind |-> "wave", w |-> Last(queue)])
            /\ sse' = 0
            /\ at' = "blob"
            /\ UNCHANGED crashed
  /\ UNCHANGED <<queue, mutex, flagVars, serial, blob, work, exportVars>>

SkipWave ==
  /\ ~crashed
  /\ at = "sse"
  /\ sse < SsePeriod
  /\ at' = "blob"
  /\ UNCHANGED <<crashed, queue, mutex, flagVars, serial, sse, blob, pool, work,
                 exportVars>>

(* Mutant: the flag is tested but not set.                                   *)
PostExport_TestOnly ==
  /\ ~crashed
  /\ at = "blob"
  /\ blob = BlobPeriod /\ queue # <<>>
  /\ IF flag THEN /\ Len(pool) < MaxPool
                  /\ pool' = Append(pool, [kind |-> "export", w |-> None])
                  /\ blob' = 0
             ELSE UNCHANGED <<pool, blob>>
  /\ at' = "push"
  /\ UNCHANGED <<crashed, queue, mutex, flagVars, serial, sse, work, exportVars>>

(* The flag is set by each push that is due; only one that finds it set      *)
(* posts the export.                                                         *)
PostExport ==
  /\ ~crashed
  /\ at = "blob"
  /\ blob = BlobPeriod /\ queue # <<>>
  /\ flag' = TRUE
  /\ IF flag THEN /\ Len(pool) < MaxPool
                  /\ pool' = Append(pool, [kind |-> "export", w |-> None])
                  /\ blob' = 0
             ELSE UNCHANGED <<pool, blob>>
  /\ at' = "push"
  /\ UNCHANGED <<crashed, queue, mutex, mark, serial, sse, work, exportVars>>

SkipExport ==
  /\ ~crashed
  /\ at = "blob"
  /\ blob < BlobPeriod \/ queue = <<>>
  /\ at' = "push"
  /\ UNCHANGED <<crashed, queue, mutex, flagVars, serial, sse, blob, pool, work,
                 exportVars>>

Produce == Push \/ PostWave \/ SkipWave \/ PostExport \/ SkipExport

-----------------------------------------------------------------------------
(* The io thread w takes a job                                               *)

Exporting(w) == work[w].at \in ExportStages

Take(w) ==
  /\ ~crashed
  /\ work[w].at = "idle"
  /\ pool # <<>>
  /\ pool' = Tail(pool)
  /\ LET job == Head(pool) IN
       IF job.kind = "export"
         THEN /\ work' = [work EXCEPT ![w].at = "drain"]
              /\ overlap' = (overlap \/ \E u \in Workers : Exporting(u))
         ELSE /\ work' = [work EXCEPT ![w].at = "test", ![w].vec = <<job.w>>]
              /\ UNCHANGED overlap
  /\ UNCHANGED <<crashed, queue, mutex, flagVars, pushVars, id, times>>

(* Mutants: the elements are moved from the back; the lock is not taken.     *)
Drain_Backwards(w) ==
  /\ ~crashed
  /\ work[w].at = "drain"
  /\ mutex = None
  /\ mutex' = w
  /\ work' = [work EXCEPT ![w].at = "clear", ![w].vec = Reverse(queue)]
  /\ queue' = [i \in DOMAIN queue |-> None]
  /\ UNCHANGED <<crashed, flagVars, pushVars, pool, exportVars>>

Drain_Unlocked(w) ==
  /\ ~crashed
  /\ work[w].at = "drain"
  /\ work' = [work EXCEPT ![w].at = "clear", ![w].vec = queue]
  /\ queue' = [i \in DOMAIN queue |-> None]
  /\ UNCHANGED <<crashed, mutex, flagVars, pushVars, pool, exportVars>>

(* handle_data_out: the elements are moved out under the lock ...            *)
Drain(w) ==
  /\ ~crashed
  /\ work[w].at = "drain"
  /\ mutex = None
  /\ mutex' = w
  /\ work' = [work EXCEPT ![w].at = "clear", ![w].vec = queue]
  /\ queue' = [i \in DOMAIN queue |-> None]
  /\ UNCHANGED <<crashed, flagVars, pushVars, pool, exportVars>>

(* ... which is released when the queue is empty ...                         *)
Clear(w) ==
  /\ ~crashed
  /\ work[w].at = "clear"
  /\ queue' = <<>>
  /\ mutex' = None
  /\ work' = [work EXCEPT ![w].at = "load"]
  /\ UNCHANGED <<crashed, flagVars, pushVars, pool, exportVars>>

(* ... the batch takes a number (id_++ is a load and a store) ...            *)
LoadId(w) ==
  /\ ~crashed
  /\ work[w].at = "load"
  /\ work' = [work EXCEPT ![w].at = "store", ![w].id = id]
  /\ UNCHANGED <<crashed, queue, mutex, flagVars, pushVars, pool, exportVars>>

StoreId(w) ==
  /\ ~crashed
  /\ work[w].at = "store"
  /\ id' = SuccId(work[w].id)
  /\ work' = [work EXCEPT ![w].at = "deliver"]
  /\ UNCHANGED <<crashed, queue, mutex, flagVars, pushVars, pool, times, overlap>>

(* ... goes to the blob clients ...                                          *)
Deliver(w) ==
  /\ ~crashed
  /\ work[w].at = "deliver"
  /\ times' = [s \in Serial |-> IF s \in ToSet(work[w].vec) THEN AtMost(times[s] + 1, 2)
                                                            ELSE times[s]]
  /\ work' = [work EXCEPT ![w].at = "unflag", ![w].vec = <<>>, ![w].id = 0]
  /\ UNCHANGED <<crashed, queue, mutex, flagVars, pushVars, pool, id, overlap>>

(* ... and the job clears the flag.                                          *)
Unflag(w) ==
  /\ ~crashed
  /\ work[w].at = "unflag"
  /\ flag' = FALSE
  /\ work' = [work EXCEPT ![w] = IdleThread]
  /\ UNCHANGED <<crashed, queue, mutex, mark, pushVars, pool, exportVars>>

Export(w) == Drain(w) \/ Clear(w) \/ LoadId(w) \/ StoreId(w) \/ Deliver(w) \/ Unflag(w)

(* Mutant: the flag is tested but not set.                                   *)
TestMark_TestOnly(w) ==
  /\ ~crashed
  /\ work[w].at = "test"
  /\ work' = [work EXCEPT ![w] = IF mark THEN [@ EXCEPT !.at = "render"]
                                         ELSE IdleThread]
  /\ UNCHANGED <<crashed, queue, mutex, flagVars, pushVars, pool, exportVars>>

(* handle_waveform: a waveform is dropped when no other marked the handler.  *)
TestMark(w) ==
  /\ ~crashed
  /\ work[w].at = "test"
  /\ mark' = TRUE
  /\ work' = [work EXCEPT ![w] = IF mark THEN [@ EXCEPT !.at = "render"]
                                         ELSE IdleThread]
  /\ UNCHANGED <<crashed, queue, mutex, flag, pushVars, pool, exportVars>>

(* json_waveform reads through the pointer it was given.                     *)
Render(w) ==
  /\ ~crashed
  /\ work[w].at = "render"
  /\ IF work[w].vec = <<None>>
       THEN crashed' = TRUE /\ UNCHANGED work
       ELSE work' = [work EXCEPT ![w].at = "unmark"] /\ UNCHANGED crashed
  /\ UNCHANGED <<queue, mutex, flagVars, pushVars, pool, exportVars>>

Unmark(w) ==
  /\ ~crashed
  /\ work[w].at = "unmark"
  /\ mark' = FALSE
  /\ work' = [work EXCEPT ![w] = IdleThread]
  /\ UNCHANGED <<crashed, queue, mutex, flag, pushVars, pool, exportVars>>

HandleWaveform(w) == TestMark(w) \/ Render(w) \/ Unmark(w)

Next == Produce \/ \E w \in Workers : Take(w) \/ Export(w) \/ HandleWaveform(w)

(* acquire() keeps storing waveforms and the io threads keep running.        *)
Fairness ==
  /\ WF_vars(Produce)
  /\ \A w \in Workers : WF_vars(Take(w) \/ Export(w) \/ HandleWaveform(w))

Spec == Init /\ [][Next]_vars /\ Fairness

-----------------------------------------------------------------------------
(* Properties                                                                *)

(* The feed of the blob clients: nothing accepted is lost, sent twice or     *)
(* sent with a gap in the batch, however exports overlap each other and the  *)
(* pushes.                                                                   *)
Feed == INSTANCE WaveformFeed WITH next <- serial, pending <- Pending
FeedSpec == Feed!Spec

(* Every variable keeps its type; mutex_ is held by the export that is       *)
(* between its two loops and by no other; and what that export is about to   *)
(* throw away with queue_.clear() are the pointers it moved out, never a     *)
(* waveform pushed meanwhile (datastorage.cpp:73-76, 102-107).               *)
DrainTakesAll ==
  /\ TypeOK
  /\ \A w \in Workers : mutex = w <=> work[w].at = "clear"
  /\ mutex # None => ToSet(queue) \subseteq {None}

(* As long as exports never ran at the same time, the clients get the        *)
(* waveforms in order: a batch starts with the oldest one pending, and       *)
(* nobody else takes a batch number meanwhile.                               *)
Oldest == (serial + SerialMod - Cardinality(Pending)) % SerialMod

ExportsInOrder ==
  \A w \in Workers : work[w].at = "deliver" /\ ~overlap =>
    /\ work[w].vec # <<>> => Head(work[w].vec) = Oldest
    /\ id = SuccId(work[w].id)

(* Outside an export's critical section, what operator<< finds at the back   *)
(* of a queue that is not empty is the waveform it has just pushed.          *)
FreshWave ==
  at = "sse" /\ mutex = None /\ queue # <<>> => Succ(Last(queue)) = serial

(* Every accepted waveform goes out although a push that finds the flag      *)
(* clear posts nothing (or the process dies of a bad pointer).               *)
EventuallyExported == \A s \in Serial : s \in Pending ~> (s \notin Pending \/ crashed)

(* The browser keeps getting waveforms although every idle handler drops one.*)
WavesKeepFlowing == []<>(crashed \/ \E w \in Workers : work[w].at = "unmark")
=============================================================================
