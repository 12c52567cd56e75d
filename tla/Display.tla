------------------------------ MODULE Display ------------------------------
(* The two displays of a waveform.  dataStorage posts it to the io threads,  *)
(* which call the slots of gui_handler_ in turn: the page handler renders it *)
(* for the browser (page_handler.cpp), the document keeps it and asks the Qt *)
(* thread to draw it (document.cpp, mainwindow.cpp).  The strand sends the   *)
(* temperature through the same numbering of events.  What happens before    *)
(* the posting is the subject of module DataStorage.                         *)
EXTENDS Naturals, Sequences, SequencesExt, FiniteSets

CONSTANTS
  Workers,      \* io threads
  None,         \* no waveform
  MaxAge,       \* bound: ages of waveforms are counted up to MaxAge
  IdMod,        \* bound: event_id_ counts modulo IdMod
  DrawPeriod,   \* 200 ms in periods of dataStorage
  MaxJobs,      \* bound: waveforms posted and not handled
  MaxRequests   \* bound: requests to draw in the queue of the Qt thread

ASSUME DisplayAssumption ==
  /\ MaxJobs \in Nat \ {0} /\ MaxAge \in Nat /\ MaxAge > MaxJobs
  /\ IdMod \in Nat \ {0} /\ DrawPeriod \in Nat /\ MaxRequests \in Nat \ {0}
  /\ None \notin Nat

VARIABLES
  crashed,     \* que_ was copied while it was assigned
  window,      \* the GUI: "none", "connected" to gui_handler_, "shown", "closed"
  pool,        \* jobs posted on the io_service
  work,        \* what each io thread is doing
  mark,        \* page_handler::spin_flag_
  eventId,     \* event_id_
  browser,     \* history: the id and the waveform the browser got last, as
               \* long as nothing was mixed
  mutex,       \* a thread holds document::mutex_
  que,         \* que_
  flag,        \* document::lock_flag_
  elapsed,     \* periods since tp_data_handled, up to DrawPeriod + 1
  requests,    \* updateData signals in the queue of the Qt thread
  qt,          \* the Qt thread: "idle", "draw", "done"
  asked,       \* history: the waveform whose push last asked to draw, likewise
  overlap,     \* history: two waveforms have been handled at the same time
  eventsMixed  \* history: two events have been numbered at the same time

pageVars == <<mark, eventId, browser>>
documentVars == <<mutex, que, flag, elapsed, asked>>
historyVars == <<overlap, eventsMixed>>
vars == <<crashed, window, pool, work, pageVars, documentVars, requests, qt,
          historyVars>>

(* A waveform is told by its age: how many have been posted after it.        *)
Wave == 0..MaxAge \cup {None}
Id == 0..(IdMod - 1)
Tick == None                      \* the job of the temperature
Numbering == {"load", "store", "deliver"}
IdleThread == [at |-> "idle", w |-> None, id |-> 0, gui |-> FALSE]

TypeOK ==
  /\ crashed \in BOOLEAN
  /\ window \in {"none", "connected", "shown", "closed"}
  /\ pool \in Seq(Wave)
  /\ work \in [Workers -> [at : {"idle", "test", "push", "assign", "ask"} \cup Numbering,
                           w : Wave, id : Id, gui : BOOLEAN]]
  /\ mark \in BOOLEAN /\ eventId \in Id
  /\ browser \in [id : Id \cup {None}, wave : Wave]
  /\ mutex \in BOOLEAN /\ que \in Wave /\ flag \in BOOLEAN
  /\ elapsed \in 0..(DrawPeriod + 1)
  /\ requests \in 0..MaxRequests
  /\ qt \in {"idle", "draw", "done"}
  /\ asked \in Wave
  /\ overlap \in BOOLEAN /\ eventsMixed \in BOOLEAN

Init ==
  /\ crashed = FALSE /\ window = "none"
  /\ pool = <<>>
  /\ work = [t \in Workers |-> IdleThread]
  /\ mark = FALSE /\ eventId = 0 /\ browser = [id |-> None, wave |-> None]
  /\ mutex = FALSE /\ que = None /\ flag = FALSE /\ elapsed = 0
  /\ requests = 0 /\ qt = "idle" /\ asked = None
  /\ overlap = FALSE /\ eventsMixed = FALSE

HandlesWave(t) == work[t].at # "idle" /\ work[t].w # Tick

Older(v, w) == w # None /\ (v = None \/ v > w)
Aged(w) == IF w \in 0..(MaxAge - 1) THEN w + 1 ELSE w

-----------------------------------------------------------------------------
(* The rest of the program                                                   *)

Later(n) == IF n > DrawPeriod THEN n ELSE n + 1

(* dataStorage posts the newest waveform, a period after the last or later.  *)
PostWave ==
  /\ ~crashed
  /\ Len(SelectSeq(pool, LAMBDA w : w # Tick)) + Cardinality({t \in Workers : HandlesWave(t)})
       < MaxJobs
  /\ pool' = Append([i \in DOMAIN pool |-> Aged(pool[i])], 0)
  /\ work' = [t \in Workers |-> [work[t] EXCEPT !.w = Aged(@)]]
  /\ que' = Aged(que) /\ asked' = Aged(asked)
  /\ browser' = [browser EXCEPT !.wave = Aged(@)]
  /\ elapsed' \in IF que = None THEN {0} ELSE Later(elapsed)..(DrawPeriod + 1)
  /\ UNCHANGED <<crashed, window, mark, eventId, mutex, flag, requests, qt, historyVars>>

(* The strand takes the temperature, one reading after the other.            *)
PostTick ==
  /\ ~crashed
  /\ Tick \notin ToSet(pool)
  /\ \A t \in Workers : work[t].at = "idle" \/ HandlesWave(t)
  /\ pool' = Append(pool, Tick)
  /\ UNCHANGED <<crashed, window, work, pageVars, documentVars, requests, qt,
                 historyVars>>

(* main() connects the document to gui_handler_, then the window is built.   *)
OpenWindow ==
  /\ ~crashed
  /\ window \in {"none", "connected"}
  /\ window' = IF window = "none" THEN "connected" ELSE "shown"
  /\ UNCHANGED <<crashed, pool, work, pageVars, documentVars, requests, qt,
                 historyVars>>

(* The window is gone with the requests that were meant for it.              *)
CloseWindow ==
  /\ ~crashed
  /\ window = "shown" /\ qt = "idle"
  /\ window' = "closed" /\ requests' = 0
  /\ UNCHANGED <<crashed, pool, work, pageVars, documentVars, qt, historyVars>>

-----------------------------------------------------------------------------
(* The io threads                                                            *)

(* What is worth remembering of the events of the browser.                   *)
Remember(b, over, mixed) == [id   |-> IF mixed THEN None ELSE b.id,
                             wave |-> IF over THEN None ELSE b.wave]

Numbers(t) == work[t].at \in Numbering

Become(t, stage) == work' = [work EXCEPT ![t].at = stage]

Take(t) ==
  /\ ~crashed
  /\ work[t].at = "idle" /\ pool # <<>>
  /\ pool' = Tail(pool)
  /\ work' = [work EXCEPT ![t] = [at |-> IF Head(pool) = Tick THEN "load" ELSE "test",
                                  w |-> Head(pool), id |-> 0,
                                  gui |-> Head(pool) # Tick /\ window # "none"]]
  /\ overlap' = (overlap \/ (Head(pool) # Tick /\ \E u \in Workers : HandlesWave(u)))
  /\ eventsMixed' = (eventsMixed \/ (Head(pool) = Tick /\ \E u \in Workers : Numbers(u)))
  /\ asked' = IF overlap' THEN None ELSE asked
  /\ browser' = Remember(browser, overlap', eventsMixed')
  /\ UNCHANGED <<crashed, window, mark, eventId, mutex, que, flag, elapsed, requests, qt>>

(* The slots of the signal: the page handler's, then the document's, if it   *)
(* was connected when the signal was raised.                                 *)
AfterPage(t) == IF work[t].gui THEN "push" ELSE "idle"
Finish(t, stage) == work' = [work EXCEPT ![t] = IF stage = "idle" THEN IdleThread
                                                ELSE [@ EXCEPT !.at = stage, !.id = 0]]

(* handle_waveform: only a waveform that finds the flag set is rendered.     *)
TestMark(t) ==
  /\ ~crashed
  /\ work[t].at = "test"
  /\ mark' = TRUE
  /\ IF mark THEN Become(t, "load") ELSE Finish(t, AfterPage(t))
  /\ eventsMixed' = (eventsMixed \/ (mark /\ \E u \in Workers : Numbers(u)))
  /\ browser' = Remember(browser, overlap, eventsMixed')
  /\ UNCHANGED <<crashed, window, pool, eventId, documentVars, requests, qt, overlap>>

(* event_id_++ is a load ...                                                 *)
LoadId(t) ==
  /\ ~crashed
  /\ work[t].at = "load"
  /\ work' = [work EXCEPT ![t].at = "store", ![t].id = eventId]
  /\ UNCHANGED <<crashed, window, pool, pageVars, documentVars, requests, qt,
                 historyVars>>

(* Mutant: only a waveform counts.                                           *)
StoreId_Waves(t) ==
  /\ ~crashed
  /\ work[t].at = "store"
  /\ eventId' = IF work[t].w = Tick THEN eventId ELSE (work[t].id + 1) % IdMod
  /\ Become(t, "deliver")
  /\ UNCHANGED <<crashed, window, pool, mark, browser, documentVars, requests, qt,
                 historyVars>>

(* ... and a store.                                                          *)
StoreId(t) ==
  /\ ~crashed
  /\ work[t].at = "store"
  /\ eventId' = (work[t].id + 1) % IdMod
  /\ Become(t, "deliver")
  /\ UNCHANGED <<crashed, window, pool, mark, browser, documentVars, requests, qt,
                 historyVars>>

(* The event goes out; handle_waveform clears its flag.                      *)
Deliver(t) ==
  /\ ~crashed
  /\ work[t].at = "deliver"
  /\ browser' = Remember([id |-> work[t].id, wave |-> IF work[t].w = Tick THEN browser.wave
                                                      ELSE work[t].w], overlap, eventsMixed)
  /\ mark' = (mark /\ work[t].w = Tick)
  /\ Finish(t, IF work[t].w = Tick THEN "idle" ELSE AfterPage(t))
  /\ UNCHANGED <<crashed, window, pool, eventId, documentVars, requests, qt,
                 historyVars>>

Page(t) == TestMark(t) \/ LoadId(t) \/ StoreId(t) \/ Deliver(t)

(* document::push, under its mutex: que_ is assigned ...                     *)
LockDocument(t) ==
  /\ ~crashed
  /\ work[t].at = "push"
  /\ ~mutex /\ mutex' = TRUE
  /\ Become(t, "assign")
  /\ UNCHANGED <<crashed, window, pool, pageVars, que, flag, elapsed, asked,
                 requests, qt, historyVars>>

(* Mutant: a waveform is kept only while no drawing is asked for.            *)
Assign_Unasked(t) ==
  /\ ~crashed
  /\ work[t].at = "assign"
  /\ que' = IF que = None \/ ~flag THEN work[t].w ELSE que
  /\ Become(t, "ask")
  /\ UNCHANGED <<crashed, window, pool, pageVars, mutex, flag, elapsed, asked,
                 requests, qt, historyVars>>

Assign(t) ==
  /\ ~crashed
  /\ work[t].at = "assign"
  /\ que' = work[t].w
  /\ Become(t, "ask")
  /\ UNCHANGED <<crashed, window, pool, pageVars, mutex, flag, elapsed, asked,
                 requests, qt, historyVars>>

Due == elapsed > DrawPeriod

(* A signal is queued for the window, if there is one.                       *)
EmitUpdateData(w) ==
  IF window = "shown"
    THEN /\ requests < MaxRequests /\ requests' = requests + 1
         /\ asked' = IF overlap THEN None ELSE w
    ELSE UNCHANGED <<requests, asked>>

(* Mutant: the flag is used the right way round, once per drawing.           *)
AskToDraw_Once(t) ==
  /\ ~crashed
  /\ work[t].at = "ask"
  /\ flag' = (flag \/ Due)
  /\ IF Due /\ ~flag THEN EmitUpdateData(work[t].w) ELSE UNCHANGED <<requests, asked>>
  /\ elapsed' = IF Due THEN 0 ELSE elapsed
  /\ mutex' = FALSE
  /\ Finish(t, "idle")
  /\ UNCHANGED <<crashed, window, pool, pageVars, que, qt, historyVars>>

(* ... and every DrawPeriod the flag is set, and a drawing asked for if it   *)
(* was set before.                                                           *)
AskToDraw(t) ==
  /\ ~crashed
  /\ work[t].at = "ask"
  /\ flag' = (flag \/ Due)
  /\ IF Due /\ flag THEN EmitUpdateData(work[t].w) ELSE UNCHANGED <<requests, asked>>
  /\ elapsed' = IF Due THEN 0 ELSE elapsed
  /\ mutex' = FALSE
  /\ Finish(t, "idle")
  /\ UNCHANGED <<crashed, window, pool, pageVars, que, qt, historyVars>>

Push(t) == LockDocument(t) \/ Assign(t) \/ AskToDraw(t)

Handle(t) == Take(t) \/ Page(t) \/ Push(t)

-----------------------------------------------------------------------------
(* The Qt thread                                                             *)

(* handleUpdateData: recentWaveform copies que_ without the mutex.           *)
CopyRecent ==
  /\ ~crashed
  /\ window = "shown" /\ qt = "idle" /\ requests > 0
  /\ requests' = requests - 1
  /\ IF \E t \in Workers : work[t].at = "assign"
       THEN crashed' \in BOOLEAN
       ELSE UNCHANGED crashed
  /\ qt' = "draw"
  /\ UNCHANGED <<window, pool, work, pageVars, documentVars, historyVars>>

(* WaveformView::setData.                                                    *)
Draw ==
  /\ ~crashed
  /\ qt = "draw"
  /\ qt' = "done"
  /\ UNCHANGED <<crashed, window, pool, work, pageVars, documentVars, requests,
                 historyVars>>

DrawWaveformCompleted ==
  /\ ~crashed
  /\ qt = "done"
  /\ qt' = "idle"
  /\ flag' = FALSE
  /\ UNCHANGED <<crashed, window, pool, work, pageVars, mutex, que, elapsed, asked,
                 requests, historyVars>>

Qt == CopyRecent \/ Draw \/ DrawWaveformCompleted

Next ==
  \/ PostWave \/ PostTick \/ OpenWindow \/ CloseWindow \/ Qt
  \/ \E t \in Workers : Handle(t)

(* Waveforms keep coming, the threads keep running, main() opens the window. *)
Fairness ==
  /\ WF_vars(PostWave) /\ WF_vars(OpenWindow) /\ WF_vars(Qt)
  /\ \A t \in Workers : WF_vars(Handle(t))

Spec == Init /\ [][Next]_vars /\ Fairness

-----------------------------------------------------------------------------
(* As long as no two events were numbered at the same time, the browser gets *)
(* them numbered without a gap, waveforms and temperatures in one count; as  *)
(* long as no two waveforms were handled at the same time, it gets them in   *)
(* order (page_handler.cpp:181, :272).                                       *)
EventsInOrder ==
  \A t \in Workers : work[t].at = "deliver" =>
    /\ ~eventsMixed /\ browser.id # None => work[t].id = (browser.id + 1) % IdMod
    /\ ~overlap /\ work[t].w # Tick => ~Older(work[t].w, browser.wave)

(* Every variable keeps its type.  A request to draw finds in que_ the       *)
(* waveform whose push asked for it or a newer one, as long as no two        *)
(* waveforms were handled at the same time (document.cpp:128-140,            *)
(* mainwindow.cpp:346).                                                      *)
RequestFindsWaveform ==
  /\ TypeOK
  /\ requests > 0 /\ ~overlap => ~Older(que, asked)

(* The window keeps being redrawn although the flag is used the wrong way    *)
(* round, requests made before the window exists are lost, and a drawing may *)
(* end at any point of a push (document.cpp:138, mainwindow.cpp:349).        *)
DrawingGoesOn == []<>(crashed \/ window = "closed" \/ qt = "draw")
=============================================================================
