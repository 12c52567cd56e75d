-------------------------------- MODULE Task --------------------------------
(* The acquisition task of the daemon (src/httpd/acqiris/task.cpp) and the   *)
(* instrument driver it owns (digitizer.cpp).                                *)
(*                                                                           *)
(* Two threads hand over settings: "http" runs modifyMethod for a request of *)
(* the web page, "main" runs start() and, when the process shows a GUI,      *)
(* prepare_for_run for each edit of the Qt widgets.  Each hand-over writes   *)
(* dc122.json, replaces method_ and posts a setup on the strand.  The strand *)
(* runs setups, the self-reposting acquire() and the temperature readings    *)
(* one at a time, in the order posted.  A kill (the stop script sends HUP)   *)
(* loses everything but the file.                                            *)
EXTENDS Naturals, Sequences

CONSTANTS
  Vals,        \* values a setting takes (a time base, a full scale)
  Default,     \* the value a freshly created sub-method holds
  None,        \* an absent sub-method, an uninitialised member
  NoMethod,    \* the null method_ and the absence of a method
  Absent,      \* dc122.json does not exist
  Empty,       \* dc122.json was truncated and not written yet
  Torn,        \* dc122.json holds the remains of two overlapping writes
  HasGui,      \* the process was started without --nogui
  MaxEdits,    \* bound: settings handed over by the two threads
  MaxKills,    \* bound: times the process dies
  MaxStrand    \* bound: handlers waiting on the strand when the timer fires

(* acqiris_method is a record of optional sub-methods.  Two stand for the    *)
(* five: the time base, whose delay labels each waveform, and a channel.     *)
Subs == {"hor", "ch1"}
Method == [Subs -> Vals \cup {None}]
FullMethod == [Subs -> Vals]
DefaultMethod == [s \in Subs |-> Default]
BareMethod == [s \in Subs |-> None]

Damaged == {Empty, Torn}

ASSUME ValsAssumption ==
  /\ Default \in Vals
  /\ None \notin Vals
  /\ NoMethod \notin Method
  /\ {Absent, Empty, Torn} \cap Method = {}
  /\ Absent \notin Damaged

ASSUME BoundsAssumption ==
  /\ HasGui \in BOOLEAN
  /\ MaxEdits \in Nat
  /\ MaxKills \in Nat
  /\ MaxStrand \in Nat \ {0}

Threads == {"main", "http"}

VARIABLES
  life,      \* "down", "starting" (start() runs, the io threads do not), "up"
  file,      \* dc122.json
  method,    \* method_
  pc,        \* where each thread is in modifyMethod / prepare_for_run
  arg,       \* the method each thread works on, none once it is handed over
  posted,    \* acquire_posted_
  strand,    \* handlers waiting on strand_, oldest first
  job,       \* the handler the strand is running
  phase,     \* where acquire() is: "begin", "arm", "wait"
  inst,      \* the time base in the instrument; whether the driver failed to learn it
  label,     \* digitizer::delayTime_ (written together with nbrSamples_)
  armed,     \* inst when AcqrsD1_acquire last succeeded
  wave,      \* the last waveform given to dataStorage
  applied,   \* history: the method of the last digitizer_setup
  overlap,   \* history: "now" when another thread was handing over settings since
             \* the last one to begin did, "past" when one was before that and the
             \* file has not been written since, else "none"
  torn,      \* history: some start() read a damaged file
  edits, kills

threadVars == <<pc, arg, overlap, edits>>
devVars == <<inst, label, armed, wave, applied>>
strandVars == <<strand, job, phase>>
vars == <<life, file, method, threadVars, posted, strandVars, devVars, torn, kills>>

Handler == [kind : {"setup"}, m : Method]
             \cup [kind : {"acquire", "temp", "none"}, m : {NoMethod}]
Setup(m) == [kind |-> "setup", m |-> m]
Acquire == [kind |-> "acquire", m |-> NoMethod]
Temp == [kind |-> "temp", m |-> NoMethod]
Idle == [kind |-> "none", m |-> NoMethod]

TimeBase == [hor : Vals \cup {None}, refused : BOOLEAN]
Unset == [hor |-> None, refused |-> FALSE]
NoWave == [label |-> None, hor |-> None, refused |-> FALSE, stored |-> FALSE]
Waveform == [label : Vals \cup {None}, hor : Vals \cup {None},
             refused : BOOLEAN, stored : BOOLEAN]

TypeOK ==
  /\ life \in {"down", "starting", "up"}
  /\ file \in Method \cup Damaged \cup {Absent}
  /\ method \in Method \cup {NoMethod}
  /\ pc \in [Threads -> {"idle", "copy", "stale", "open", "write", "publish",
                         "post", "flag", "postacq"}]
  /\ arg \in [Threads -> Method \cup {NoMethod}]
  /\ posted \in BOOLEAN
  /\ strand \in Seq(Handler)
  /\ job \in Handler
  /\ phase \in {"begin", "arm", "wait"}
  /\ inst \in TimeBase
  /\ label \in Vals \cup {None}
  /\ armed \in TimeBase
  /\ wave \in Waveform
  /\ applied \in Method \cup {NoMethod}
  /\ overlap \in {"none", "past", "now"}
  /\ torn \in BOOLEAN
  /\ edits \in 0..MaxEdits
  /\ kills \in 0..MaxKills

(* The state task::task leaves: flag clear, nothing posted, the driver's     *)
(* members never written.                                                    *)
Init ==
  /\ life = "down"
  /\ file = Absent
  /\ method = NoMethod
  /\ pc = [t \in Threads |-> "idle"]
  /\ arg = [t \in Threads |-> NoMethod]
  /\ posted = FALSE
  /\ strand = <<>>
  /\ job = Idle
  /\ phase = "begin"
  /\ inst = Unset
  /\ label = None
  /\ armed = Unset
  /\ wave = NoWave
  /\ applied = NoMethod
  /\ overlap = "none"
  /\ torn = FALSE
  /\ edits = 0
  /\ kills = 0

-----------------------------------------------------------------------------
(* start()                                                                   *)

(* Mutants: a damaged file is taken for a method; the sub-methods of the     *)
(* default are not created.                                                  *)
Loaded_Unchecked == IF file = Absent THEN DefaultMethod ELSE file
Loaded_NoParts == IF file \in Damaged \cup {Absent} THEN BareMethod ELSE file

(* What start() reads: the file's method, the default when there is none.    *)
(* From a damaged file the external read_json gives a method without parts   *)
(* (when it throws instead, main() ends before any thread runs: no step).    *)
Loaded == CASE file = Absent -> DefaultMethod
            [] file \in Damaged -> BareMethod
            [] OTHER -> file

Start ==
  /\ life = "down"
  /\ life' = "starting"
  /\ arg' = [t \in Threads |-> IF t = "main" THEN Loaded ELSE NoMethod]
  /\ pc' = [pc EXCEPT !["main"] = "open"]
  /\ overlap' = "none"
  /\ torn' = (torn \/ file \in Damaged)
  /\ UNCHANGED <<file, method, posted, strandVars, devVars, edits, kills>>

-----------------------------------------------------------------------------
(* Settings from the web page: modifyMethod                                  *)

Others(t) == Threads \ {t}
OthersIdle(t) == \A u \in Others(t) : pc[u] = "idle"
Overlap(t) == IF ~OthersIdle(t) THEN "now" ELSE IF overlap = "none" THEN "none" ELSE "past"

(* Mutant: a request starts from a fresh method, not from *method_.          *)
CopyMethod_Fresh ==
  /\ life = "up"
  /\ pc["http"] = "idle"
  /\ edits < MaxEdits
  /\ edits' = edits + 1
  /\ arg' = [arg EXCEPT !["http"] = DefaultMethod]
  /\ pc' = [pc EXCEPT !["http"] = "copy"]
  /\ overlap' = Overlap("http")
  /\ UNCHANGED <<life, file, method, posted, strandVars, devVars, torn, kills>>

(* modifyMethod takes *method_ without a lock ...                            *)
CopyMethod ==
  /\ life = "up"
  /\ pc["http"] = "idle"
  /\ edits < MaxEdits
  /\ edits' = edits + 1
  /\ arg' = [arg EXCEPT !["http"] = method]
  /\ pc' = [pc EXCEPT !["http"] = "copy"]
  /\ overlap' = Overlap("http")
  /\ UNCHANGED <<life, file, method, posted, strandVars, devVars, torn, kills>>

(* ... and changes one part of the copy, or none when the key is unknown.    *)
Edited(m) == {m} \cup {[m EXCEPT ![s] = v] : s \in Subs, v \in Vals}

ModifyMethod ==
  /\ pc["http"] \in {"copy", "stale"}
  /\ \E m \in Edited(arg["http"]) : arg' = [arg EXCEPT !["http"] = m]
  /\ pc' = [pc EXCEPT !["http"] = "open"]
  /\ UNCHANGED <<life, file, method, posted, strandVars, devVars, overlap, torn,
                 edits, kills>>

(* Settings from the Qt widgets: method_changed_ hands over a whole method.  *)
GuiApply ==
  /\ HasGui
  /\ life = "up"
  /\ pc["main"] = "idle"
  /\ edits < MaxEdits
  /\ edits' = edits + 1
  /\ \E m \in FullMethod : arg' = [arg EXCEPT !["main"] = m]
  /\ pc' = [pc EXCEPT !["main"] = "open"]
  /\ overlap' = Overlap("main")
  /\ UNCHANGED <<life, file, method, posted, strandVars, devVars, torn, kills>>

-----------------------------------------------------------------------------
(* prepare_for_run, on the thread t                                          *)

OpenFile(t) ==
  /\ pc[t] = "open"
  /\ file' = Empty
  /\ pc' = [pc EXCEPT ![t] = "write"]
  /\ UNCHANGED <<life, method, arg, posted, strandVars, devVars, overlap, torn,
                 edits, kills>>

(* Mutant: method_ is saved, if there is one, before it is replaced.         *)
WriteFile_Stale(t) ==
  /\ pc[t] = "write"
  /\ file' = IF method = NoMethod THEN arg[t] ELSE method
  /\ pc' = [pc EXCEPT ![t] = "publish"]
  /\ overlap' = IF overlap = "past" THEN "none" ELSE overlap
  /\ UNCHANGED <<life, method, arg, posted, strandVars, devVars, torn, edits, kills>>

(* The stream is flushed by one write at offset 0 when it closes: over the   *)
(* text of another writer, whose tail survives if it is the longer one.      *)
WriteFile(t) ==
  /\ pc[t] = "write"
  /\ file' \in IF file = Empty THEN {arg[t]} ELSE {arg[t], Torn}
  /\ pc' = [pc EXCEPT ![t] = "publish"]
  /\ overlap' = IF overlap = "past" THEN "none" ELSE overlap
  /\ UNCHANGED <<life, method, arg, posted, strandVars, devVars, torn, edits, kills>>

(* Replacing method_ frees the object another thread may still be copying.   *)
Publish(t) ==
  /\ pc[t] = "publish"
  /\ method' = arg[t]
  /\ pc' = [u \in Threads |-> IF u = t THEN "post"
                              ELSE IF pc[u] = "copy" THEN "stale" ELSE pc[u]]
  /\ UNCHANGED <<life, file, arg, posted, strandVars, devVars, overlap, torn,
                 edits, kills>>

(* Configuring the time base v: the instrument takes some time base w and    *)
(* the driver reads it back, or adapts without telling, or refuses v.        *)
Configure(v) ==
  \/ \E w \in Vals : inst' = [hor |-> w, refused |-> FALSE] /\ label' = w
  \/ /\ \E w \in Vals \cup {inst.hor} : inst' = [hor |-> w, refused |-> TRUE]
     /\ label' = v

(* Mutant: the calling thread configures the instrument itself.              *)
PostSetup_Direct(t) ==
  /\ pc[t] = "post"
  /\ applied' = arg[t]
  /\ IF arg[t]["hor"] = None THEN UNCHANGED <<inst, label>>
                             ELSE Configure(arg[t]["hor"])
  /\ pc' = [pc EXCEPT ![t] = "flag"]
  /\ UNCHANGED <<life, file, method, arg, posted, strandVars, armed, wave, overlap,
                 torn, edits, kills>>

PostSetup(t) ==
  /\ pc[t] = "post"
  /\ strand' = Append(strand, Setup(arg[t]))
  /\ pc' = [pc EXCEPT ![t] = "flag"]
  /\ UNCHANGED <<life, file, method, arg, posted, job, phase, devVars, overlap,
                 torn, edits, kills>>

(* The end of prepare_for_run: the method handed over goes out of scope;     *)
(* start() returns and main() runs the threads.                              *)
Return(t) ==
  /\ pc' = [pc EXCEPT ![t] = "idle"]
  /\ arg' = [arg EXCEPT ![t] = NoMethod]
  /\ life' = IF t = "main" THEN "up" ELSE life

(* Mutant: the flag is set without a test.                                   *)
TestFlag_Blind(t) ==
  /\ pc[t] = "flag"
  /\ posted' = TRUE
  /\ pc' = [pc EXCEPT ![t] = "postacq"]
  /\ UNCHANGED <<life, file, method, arg, strandVars, devVars, overlap, torn,
                 edits, kills>>

TestFlag(t) ==
  /\ pc[t] = "flag"
  /\ posted' = TRUE
  /\ IF posted THEN Return(t)
               ELSE pc' = [pc EXCEPT ![t] = "postacq"] /\ UNCHANGED <<arg, life>>
  /\ UNCHANGED <<file, method, strandVars, devVars, overlap, torn, edits, kills>>

PostAcquire(t) ==
  /\ pc[t] = "postacq"
  /\ strand' = Append(strand, Acquire)
  /\ Return(t)
  /\ UNCHANGED <<file, method, posted, job, phase, devVars, overlap, torn,
                 edits, kills>>

PrepareForRun(t) == \/ OpenFile(t) \/ WriteFile(t) \/ Publish(t)
                    \/ PostSetup(t) \/ TestFlag(t) \/ PostAcquire(t)

-----------------------------------------------------------------------------
(* The strand: one handler at a time, in the order posted                    *)

(* Mutant: handlers posted on the io_service itself run in any order.        *)
Dispatch_AnyOrder ==
  /\ life = "up"
  /\ job = Idle
  /\ \E i \in DOMAIN strand :
       /\ job' = strand[i]
       /\ strand' = SubSeq(strand, 1, i - 1) \o SubSeq(strand, i + 1, Len(strand))
  /\ phase' = "begin"
  /\ UNCHANGED <<life, file, method, threadVars, posted, devVars, torn, kills>>

Dispatch ==
  /\ life = "up"
  /\ job = Idle
  /\ strand # <<>>
  /\ job' = Head(strand)
  /\ strand' = Tail(strand)
  /\ phase' = "begin"
  /\ UNCHANGED <<life, file, method, threadVars, posted, devVars, torn, kills>>

(* digitizer_setup, with the calls of the instrument library it makes.       *)
RunSetup ==
  /\ job.kind = "setup"
  /\ applied' = job.m
  /\ IF job.m["hor"] = None THEN UNCHANGED <<inst, label>>
                            ELSE Configure(job.m["hor"])
  /\ job' = Idle
  /\ UNCHANGED <<life, file, method, threadVars, posted, strand, phase, armed,
                 wave, torn, kills>>

(* Mutants: the successor overtakes what waits; it is not posted at all.     *)
Repost_Front ==
  /\ job.kind = "acquire"
  /\ phase = "begin"
  /\ strand' = <<Acquire>> \o strand
  /\ phase' = "arm"
  /\ UNCHANGED <<life, file, method, threadVars, posted, job, devVars, torn, kills>>

Repost_Never ==
  /\ job.kind = "acquire"
  /\ phase = "begin"
  /\ posted' = FALSE
  /\ phase' = "arm"
  /\ UNCHANGED <<life, file, method, threadVars, strand, job, devVars, torn, kills>>

(* acquire() first posts its successor ...                                   *)
Repost ==
  /\ job.kind = "acquire"
  /\ phase = "begin"
  /\ IF posted THEN strand' = Append(strand, Acquire) /\ UNCHANGED posted
               ELSE posted' = FALSE /\ UNCHANGED strand
  /\ phase' = "arm"
  /\ UNCHANGED <<life, file, method, threadVars, job, devVars, torn, kills>>

(* ... then starts the instrument, or stops it and gives up this turn ...    *)
Arm ==
  /\ job.kind = "acquire"
  /\ phase = "arm"
  /\ \/ armed' = inst /\ phase' = "wait" /\ UNCHANGED job
     \/ job' = Idle /\ UNCHANGED <<armed, phase>>
  /\ UNCHANGED <<life, file, method, threadVars, posted, strand, inst, label,
                 wave, applied, torn, kills>>

(* ... and stores the waveform, read or not, unless the wait fails.          *)
Store ==
  /\ job.kind = "acquire"
  /\ phase = "wait"
  /\ \/ wave' = [label |-> label, hor |-> armed.hor, refused |-> armed.refused,
                 stored |-> TRUE]
     \/ UNCHANGED wave
  /\ job' = Idle
  /\ UNCHANGED <<life, file, method, threadVars, posted, strand, phase, inst,
                 label, armed, applied, torn, kills>>

(* on_timer posts a reading and rearms itself; the reading is sent.          *)
OnTimer ==
  /\ life = "up"
  /\ Len(strand) < MaxStrand
  /\ strand' = Append(strand, Temp)
  /\ UNCHANGED <<life, file, method, threadVars, posted, job, phase, devVars,
                 torn, kills>>

ReadTemperature ==
  /\ job.kind = "temp"
  /\ job' = Idle
  /\ UNCHANGED <<life, file, method, threadVars, posted, strand, phase, devVars,
                 torn, kills>>

StrandStep == Dispatch \/ RunSetup \/ Repost \/ Arm \/ Store \/ ReadTemperature

-----------------------------------------------------------------------------
(* The process dies: the file survives, the memory does not.  method, arg    *)
(* and overlap stay, as a history of what was in force or being handed over  *)
(* then; start() overwrites them before any read.                            *)
Die ==
  /\ kills < MaxKills
  /\ kills' = kills + 1
  /\ life' = "down"
  /\ pc' = [t \in Threads |-> "idle"]
  /\ posted' = FALSE
  /\ strand' = <<>>
  /\ job' = Idle
  /\ phase' = "begin"
  /\ inst' = Unset
  /\ label' = None
  /\ armed' = Unset
  /\ wave' = NoWave
  /\ applied' = NoMethod
  /\ UNCHANGED <<file, method, arg, overlap, edits, torn>>

(* A signal, an exit, or modifyMethod copying a method_ already freed.       *)
Kill == life # "down" /\ Die

Next ==
  \/ Start
  \/ CopyMethod \/ ModifyMethod \/ GuiApply
  \/ \E t \in Threads : PrepareForRun(t)
  \/ StrandStep
  \/ OnTimer
  \/ Kill

(* The io threads and the callers keep running: every wait of the code ends  *)
(* (6 s for an acquisition, the timer every 6 s).  Nobody must edit or kill. *)
Fairness ==
  /\ WF_vars(Start)
  /\ WF_vars(ModifyMethod)
  /\ \A t \in Threads : WF_vars(PrepareForRun(t))
  /\ WF_vars(StrandStep)
  /\ WF_vars(OnTimer)

Spec == Init /\ [][Next]_vars /\ Fairness

-----------------------------------------------------------------------------
(* Properties                                                                *)

(* Every place an acquire() can be: on the strand, about to be posted by a   *)
(* thread that found the flag clear, or running and about to repost itself.  *)
QueuedAcquires == {i \in DOMAIN strand : strand[i].kind = "acquire"}
PostingThreads == {t \in Threads : pc[t] = "postacq"}
AboutToRepost == job.kind = "acquire" /\ phase = "begin"

(* At most one acquire() is pending, whatever the two threads and the strand *)
(* do to acquire_posted_ between each other's test and post; and one is      *)
(* pending exactly when the flag is set, so acquisition never stops.         *)
SingleAcquire ==
  /\ \A i, j \in QueuedAcquires : i = j
  /\ \A t, u \in PostingThreads : t = u
  /\ QueuedAcquires # {} => PostingThreads = {} /\ ~AboutToRepost
  /\ PostingThreads # {} => ~AboutToRepost
  /\ posted <=> (QueuedAcquires # {} \/ PostingThreads # {} \/ AboutToRepost)

(* No acquisition runs on an instrument nobody configured: the setup posted  *)
(* by prepare_for_run runs before the first acquire(), also after a restart. *)
SetupBeforeAcquire == job.kind = "acquire" => applied # NoMethod

(* readData and the stored label use nbrSamples_ and delayTime_ before any   *)
(* setup wrote them only in a process whose file was cut short by a kill, or *)
(* written by such a process.                                                *)
UninitializedOnlyAfterTornFile == wave.stored /\ wave.label = None => torn

(* The delay stored with a waveform is the one the instrument was armed      *)
(* with, unless the instrument had refused the setting: no setup slips in    *)
(* between arming and reading.                                               *)
LabelConsistent == wave.stored => wave.label = wave.hor \/ wave.refused

(* When hand-overs did not overlap and none is in progress, the file and     *)
(* method_ are the same, and the instrument was last set up for them.        *)
SettingsAgree ==
  overlap # "now" /\ life = "up" /\ (\A t \in Threads : pc[t] = "idle") =>
    /\ file = method
    /\ (\A i \in DOMAIN strand : strand[i].kind # "setup") /\ job.kind # "setup"
         => applied = method

(* A restart takes up the settings last in force or the ones a thread was    *)
(* handing over when the process died (arg of one that was not is none),     *)
(* unless the file was caught empty or torn, or last written by hand-overs   *)
(* that overlapped.  The first start finds no file.                          *)
RestartRestores ==
  [][life = "down" /\ life' = "starting" /\ file \in Method /\ overlap = "none"
       => arg'["main"] \in ({method} \cup {arg[t] : t \in Threads}) \ {NoMethod}]_vars

(* A request of the web page changes one part of the settings in force and   *)
(* keeps the others, unless a hand-over of the GUI overlapped it.            *)
EditKeepsTheRest ==
  [][pc["http"] = "publish" /\ pc'["http"] = "post" /\ overlap # "now"
       => \E s \in Subs : \A r \in Subs \ {s} : method'[r] = method[r]]_vars

(* Settings on the strand reach the instrument although acquire() reposts    *)
(* itself forever: the strand is first come, first served.                   *)
SetupApplied ==
  \A m \in Method :
    (\E i \in DOMAIN strand : strand[i] = Setup(m)) ~> (applied = m \/ life = "down")

(* A running daemon keeps reporting the temperature.                         *)
TemperatureReported == (life = "up") ~> (job.kind = "temp" \/ life = "down")

(* A running daemon keeps starting the instrument.                           *)
AcquisitionContinues ==
  (life = "up") ~> (life = "down" \/ (job.kind = "acquire" /\ phase = "arm"))
=============================================================================
