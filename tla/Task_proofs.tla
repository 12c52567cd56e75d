----------------------------- MODULE Task_proofs -----------------------------
(* Theorems about Task, for every set of values and every bound.             *)
EXTENDS Task, TLAPS

-----------------------------------------------------------------------------
(* Type correctness                                                          *)

LEMMA MethodTypes ==
  /\ DefaultMethod \in Method
  /\ BareMethod \in Method
  /\ FullMethod \subseteq Method
  /\ \A m \in Method : Edited(m) \subseteq Method
  /\ \A m \in Method : m["hor"] \in Vals \cup {None}
BY ValsAssumption DEF DefaultMethod, BareMethod, FullMethod, Method, Edited, Subs

LEMMA HandlerTypes ==
  /\ \A m \in Method : Setup(m) \in Handler
  /\ Acquire \in Handler /\ Temp \in Handler /\ Idle \in Handler
  /\ \A h \in Handler : h.kind = "setup" => h.m \in Method
BY DEF Setup, Acquire, Temp, Idle, Handler

LEMMA LoadedType == file \in Method \cup Damaged \cup {Absent} => Loaded \in Method
BY MethodTypes DEF Loaded

(* A thread that hands over settings has a method to hand over, a process    *)
(* that serves requests has a method_ to copy, a dead one has no threads.    *)
MethodThere ==
  /\ life = "down" => \A t \in Threads : pc[t] = "idle"
  /\ \A t \in Threads : pc[t] # "idle" => arg[t] \in Method
  /\ life = "up" => method \in Method
  /\ \A t \in Threads : pc[t] \in {"post", "flag", "postacq"} => method \in Method

TypeInv == TypeOK /\ MethodThere

LEMMA DeviceTypes == Unset \in TimeBase /\ NoWave \in Waveform
BY DEF Unset, TimeBase, NoWave, Waveform

LEMMA TypeInit == Init => TypeInv
<1> SUFFICES ASSUME Init PROVE TypeInv
  OBVIOUS
<1> USE DEF Init
<1>1. strand \in Seq(Handler)
  OBVIOUS
<1>2. job \in Handler
  BY HandlerTypes
<1>3. inst \in TimeBase /\ armed \in TimeBase /\ wave \in Waveform
  BY DeviceTypes
<1>4. edits \in 0..MaxEdits /\ kills \in 0..MaxKills
  BY BoundsAssumption
<1>5. TypeOK
  BY <1>1, <1>2, <1>3, <1>4 DEF TypeOK
<1>6. MethodThere
  BY DEF MethodThere
<1> QED
  BY <1>5, <1>6 DEF TypeInv

LEMMA TypeStep == TypeInv /\ [Next]_vars => TypeInv'
<1> SUFFICES ASSUME TypeInv, [Next]_vars PROVE TypeInv'
  OBVIOUS
<1> USE DEF TypeInv, TypeOK, MethodThere
<1>1. CASE Start
  BY <1>1, LoadedType DEF Start, Threads, strandVars, devVars
<1>2. CASE CopyMethod
  <2>1. edits' \in 0..MaxEdits /\ overlap' \in {"none", "past", "now"}
    BY <1>2, BoundsAssumption DEF CopyMethod, Overlap
  <2> QED
    BY <1>2, <2>1 DEF CopyMethod, Threads, strandVars, devVars
<1>3. CASE ModifyMethod
  <2>1. arg["http"] \in Method
    BY <1>3 DEF ModifyMethod, Threads
  <2> QED
    BY <1>3, <2>1, MethodTypes DEF ModifyMethod, Threads, strandVars, devVars
<1>4. CASE GuiApply
  <2>1. edits' \in 0..MaxEdits /\ overlap' \in {"none", "past", "now"}
    BY <1>4, BoundsAssumption DEF GuiApply, Overlap
  <2>2. arg' \in [Threads -> Method \cup {NoMethod}] /\ arg'["main"] \in Method
        /\ arg'["http"] = arg["http"]
    BY <1>4, MethodTypes DEF GuiApply, Threads
  <2> QED
    BY <1>4, <2>1, <2>2 DEF GuiApply, Threads, strandVars, devVars
<1>5. ASSUME NEW t \in Threads, OpenFile(t) PROVE TypeInv'
  BY <1>5 DEF OpenFile, Damaged, strandVars, devVars
<1>6. ASSUME NEW t \in Threads, WriteFile(t) PROVE TypeInv'
  BY <1>6 DEF WriteFile, Damaged, strandVars, devVars
<1>7. ASSUME NEW t \in Threads, Publish(t) PROVE TypeInv'
  BY <1>7 DEF Publish, strandVars, devVars
<1>8. ASSUME NEW t \in Threads, PostSetup(t) PROVE TypeInv'
  <2>1. Setup(arg[t]) \in Handler
    BY <1>8, HandlerTypes DEF PostSetup
  <2> QED
    BY <1>8, <2>1 DEF PostSetup, devVars
<1>9. ASSUME NEW t \in Threads, TestFlag(t) PROVE TypeInv'
  BY <1>9 DEF TestFlag, Return, strandVars, devVars
<1>10. ASSUME NEW t \in Threads, PostAcquire(t) PROVE TypeInv'
  BY <1>10, HandlerTypes DEF PostAcquire, Return, devVars
<1>11. CASE Dispatch
  <2>1. strand # <<>> /\ Head(strand) \in Handler /\ Tail(strand) \in Seq(Handler)
    BY <1>11 DEF Dispatch
  <2> QED
    BY <1>11, <2>1 DEF Dispatch, threadVars, devVars
<1>12. CASE RunSetup
  <2>1. job.m \in Method /\ job.m["hor"] \in Vals \cup {None}
    BY <1>12, HandlerTypes, MethodTypes DEF RunSetup
  <2>2. inst' \in TimeBase /\ label' \in Vals \cup {None}
    <3>1. inst.hor \in Vals \cup {None}
      BY DEF TimeBase
    <3>2. ASSUME NEW v \in Vals \cup {None}, v # None, Configure(v)
          PROVE inst' \in TimeBase /\ label' \in Vals \cup {None}
      <4>1. CASE \E w \in Vals : inst' = [hor |-> w, refused |-> FALSE] /\ label' = w
        BY <4>1 DEF TimeBase
      <4>2. ASSUME NEW w \in Vals \cup {None},
                   inst' = [hor |-> w, refused |-> TRUE], label' = v
            PROVE inst' \in TimeBase /\ label' \in Vals \cup {None}
        BY <4>2 DEF TimeBase
      <4> QED
        BY <3>1, <3>2, <4>1, <4>2 DEF Configure
    <3> QED
      BY <1>12, <2>1, <3>2 DEF RunSetup
  <2> QED
    BY <1>12, <2>1, <2>2, HandlerTypes DEF RunSetup, threadVars
<1>13. CASE Repost
  <2>1. strand' \in Seq(Handler) /\ posted' \in BOOLEAN
    <3>1. Append(strand, Acquire) \in Seq(Handler)
      BY HandlerTypes
    <3>2. CASE posted
      BY <1>13, <3>1, <3>2 DEF Repost
    <3>3. CASE ~posted
      BY <1>13, <3>3 DEF Repost
    <3> QED
      BY <3>2, <3>3
  <2> QED
    BY <1>13, <2>1 DEF Repost, threadVars, devVars
<1>14. CASE Arm
  BY <1>14, HandlerTypes DEF Arm, threadVars
<1>15. CASE Store
  <2>1. wave' \in Waveform
    <3>1. armed.hor \in Vals \cup {None} /\ armed.refused \in BOOLEAN
      BY DEF TimeBase
    <3>2. [label |-> label, hor |-> armed.hor, refused |-> armed.refused,
           stored |-> TRUE] \in Waveform
      BY <3>1 DEF Waveform
    <3> QED
      BY <1>15, <3>2 DEF Store
  <2> QED
    BY <1>15, <2>1, HandlerTypes DEF Store, threadVars
<1>16. CASE ReadTemperature
  BY <1>16, HandlerTypes DEF ReadTemperature, threadVars, devVars
<1>17. CASE OnTimer
  BY <1>17, HandlerTypes DEF OnTimer, threadVars, devVars
<1>18. CASE Kill
  <2>1. kills' \in 0..MaxKills
    BY <1>18, BoundsAssumption DEF Kill, Die
  <2>2. strand' \in Seq(Handler)
    BY <1>18 DEF Kill, Die
  <2> QED
    BY <1>18, <2>1, <2>2, HandlerTypes, DeviceTypes DEF Kill, Die
<1>19. CASE UNCHANGED vars
  BY <1>19 DEF vars, threadVars, strandVars, devVars
<1> QED
  BY <1>1, <1>2, <1>3, <1>4, <1>5, <1>6, <1>7, <1>8, <1>9, <1>10, <1>11, <1>12,
     <1>13, <1>14, <1>15, <1>16, <1>17, <1>18, <1>19
     DEF Next, PrepareForRun, StrandStep

LEMMA TypeInvariant == Spec => []TypeInv
BY TypeInit, TypeStep, PTL DEF Spec

(* Every variable of the task keeps its type.                                *)
THEOREM TypeCorrect == Spec => []TypeOK
<1>1. TypeInv => TypeOK
  BY DEF TypeInv
<1> QED
  BY <1>1, TypeInvariant, PTL

-----------------------------------------------------------------------------
(* The acquire() on the strand                                               *)

LEMMA AppendPositions ==
  ASSUME NEW q \in Seq(Handler), NEW h \in Handler
  PROVE  /\ Append(q, h) \in Seq(Handler)
         /\ Len(Append(q, h)) = Len(q) + 1
         /\ DOMAIN q = 1..Len(q)
         /\ DOMAIN Append(q, h) = 1..(Len(q) + 1)
         /\ \A i \in 1..Len(q) : Append(q, h)[i] = q[i]
         /\ Append(q, h)[Len(q) + 1] = h
OBVIOUS

LEMMA TailPositions ==
  ASSUME NEW q \in Seq(Handler), q # <<>>
  PROVE  /\ Tail(q) \in Seq(Handler)
         /\ Len(q) \in Nat \ {0}
         /\ DOMAIN q = 1..Len(q)
         /\ DOMAIN Tail(q) = 1..(Len(q) - 1)
         /\ \A i \in 1..(Len(q) - 1) : Tail(q)[i] = q[i + 1]
         /\ Head(q) = q[1] /\ Head(q) \in Handler
<1>1. Tail(q) \in Seq(Handler) /\ Head(q) = q[1] /\ Head(q) \in Handler
  OBVIOUS
<1>2. Len(q) \in Nat \ {0} /\ DOMAIN q = 1..Len(q)
  OBVIOUS
<1>3. Len(Tail(q)) = Len(q) - 1
  OBVIOUS
<1>4. DOMAIN Tail(q) = 1..(Len(q) - 1)
  BY <1>1, <1>3
<1>5. \A i \in 1..(Len(q) - 1) : Tail(q)[i] = q[i + 1]
  BY <1>2
<1> QED
  BY <1>1, <1>2, <1>4, <1>5

LEMMA HandlerKinds ==
  /\ \A m : Setup(m).kind = "setup"
  /\ Acquire.kind = "acquire" /\ Temp.kind = "temp" /\ Idle.kind = "none"
BY DEF Setup, Acquire, Temp, Idle

LEMMA SingleInit == Init => SingleAcquire
BY DEF Init, SingleAcquire, QueuedAcquires, PostingThreads, AboutToRepost, Idle

(* Appending another kind of handler leaves the acquires on the strand alone.*)
LEMMA AppendOther ==
  ASSUME TypeOK, NEW h \in Handler, h.kind # "acquire", strand' = Append(strand, h)
  PROVE  QueuedAcquires' = QueuedAcquires
BY AppendPositions DEF TypeOK, QueuedAcquires

LEMMA AppendAcquire ==
  ASSUME TypeOK, strand' = Append(strand, Acquire)
  PROVE  QueuedAcquires' = QueuedAcquires \cup {Len(strand) + 1}
BY AppendPositions, HandlerTypes, HandlerKinds DEF TypeOK, QueuedAcquires

LEMMA SingleStep == TypeInv /\ SingleAcquire /\ [Next]_vars => SingleAcquire'
<1> SUFFICES ASSUME TypeInv, SingleAcquire, [Next]_vars PROVE SingleAcquire'
  OBVIOUS
<1> TypeOK
  BY DEF TypeInv
<1>0. ASSUME QueuedAcquires' = QueuedAcquires, PostingThreads' = PostingThreads,
             AboutToRepost' = AboutToRepost, posted' = posted
      PROVE  SingleAcquire'
  BY <1>0 DEF SingleAcquire
<1>0a. ASSUME UNCHANGED strand PROVE QueuedAcquires' = QueuedAcquires
  BY <1>0a DEF QueuedAcquires
<1>0b. ASSUME UNCHANGED <<job, phase>> PROVE AboutToRepost' = AboutToRepost
  BY <1>0b DEF AboutToRepost
<1>0c. ASSUME UNCHANGED pc PROVE PostingThreads' = PostingThreads
  BY <1>0c DEF PostingThreads
<1>1. CASE Start \/ CopyMethod \/ ModifyMethod \/ GuiApply
  <2>1. PostingThreads' = PostingThreads
    <3>1. ASSUME NEW t \in Threads, NEW place, pc[t] # "postacq", place # "postacq",
                 pc' = [pc EXCEPT ![t] = place]
          PROVE  PostingThreads' = PostingThreads
      BY <3>1 DEF TypeOK, PostingThreads
    <3>2. CASE Start
      <4>1. pc["main"] # "postacq"
        BY <3>2 DEF Start, TypeInv, MethodThere, Threads
      <4> QED
        BY <3>1, <3>2, <4>1 DEF Start, Threads
    <3>3. CASE CopyMethod
      BY <3>1, <3>3 DEF CopyMethod, Threads
    <3>4. CASE ModifyMethod
      BY <3>1, <3>4 DEF ModifyMethod, Threads
    <3>5. CASE GuiApply
      BY <3>1, <3>5 DEF GuiApply, Threads
    <3> QED
      BY <1>1, <3>2, <3>3, <3>4, <3>5
  <2> QED
    BY <1>1, <2>1, <1>0, <1>0a, <1>0b
       DEF Start, CopyMethod, ModifyMethod, GuiApply, strandVars
<1>2. ASSUME NEW t \in Threads, OpenFile(t) \/ WriteFile(t) \/ Publish(t)
      PROVE  SingleAcquire'
  <2>1. PostingThreads' = PostingThreads
    BY <1>2 DEF TypeOK, PostingThreads, OpenFile, WriteFile, Publish
  <2> QED
    BY <1>2, <2>1, <1>0, <1>0a, <1>0b DEF OpenFile, WriteFile, Publish, strandVars
<1>3. ASSUME NEW t \in Threads, PostSetup(t) PROVE SingleAcquire'
  <2>1. Setup(arg[t]) \in Handler
    BY <1>3, HandlerTypes DEF PostSetup, TypeInv, MethodThere
  <2>2. QueuedAcquires' = QueuedAcquires
    BY <1>3, <2>1, HandlerKinds, AppendOther DEF PostSetup
  <2>3. PostingThreads' = PostingThreads
    BY <1>3 DEF TypeOK, PostingThreads, PostSetup
  <2> QED
    BY <1>3, <2>2, <2>3, <1>0, <1>0b DEF PostSetup
<1>4. ASSUME NEW t \in Threads, TestFlag(t) PROVE SingleAcquire'
  <2>1. CASE posted
    <3>1. PostingThreads' = PostingThreads
      BY <1>4, <2>1 DEF TypeOK, PostingThreads, TestFlag, Return
    <3> QED
      BY <1>4, <2>1, <3>1, <1>0, <1>0a, <1>0b DEF TestFlag, strandVars
  <2>2. CASE ~posted
    <3>1. QueuedAcquires = {} /\ PostingThreads = {} /\ ~AboutToRepost
      BY <2>2 DEF SingleAcquire
    <3>2. PostingThreads' = {t} /\ posted'
      BY <1>4, <2>2, <3>1 DEF TypeOK, PostingThreads, TestFlag
    <3>3. QueuedAcquires' = {} /\ ~AboutToRepost'
      BY <1>4, <3>1, <1>0a, <1>0b DEF TestFlag, strandVars
    <3> QED
      BY <3>2, <3>3 DEF SingleAcquire
  <2> QED
    BY <2>1, <2>2
<1>5. ASSUME NEW t \in Threads, PostAcquire(t) PROVE SingleAcquire'
  <2>1. t \in PostingThreads
    BY <1>5 DEF PostAcquire, PostingThreads
  <2>2. PostingThreads = {t} /\ QueuedAcquires = {} /\ ~AboutToRepost /\ posted
    BY <2>1 DEF SingleAcquire
  <2>3. PostingThreads' = {}
    BY <1>5, <2>2 DEF TypeOK, PostingThreads, PostAcquire, Return
  <2>4. QueuedAcquires' = {Len(strand) + 1}
    BY <1>5, <2>2, AppendAcquire DEF PostAcquire
  <2>5. ~AboutToRepost' /\ posted'
    BY <1>5, <2>2, <1>0b DEF PostAcquire
  <2> QED
    BY <2>3, <2>4, <2>5 DEF SingleAcquire
<1>6. CASE Dispatch
  <2> strand \in Seq(Handler) /\ strand # <<>>
    BY <1>6 DEF Dispatch, TypeOK
  <2>1. ~AboutToRepost /\ PostingThreads' = PostingThreads /\ posted' = posted
    BY <1>6, HandlerKinds, <1>0c DEF Dispatch, AboutToRepost, threadVars
  <2>2. QueuedAcquires' = {i \in 1..(Len(strand) - 1) : i + 1 \in QueuedAcquires}
    BY <1>6, TailPositions DEF Dispatch, QueuedAcquires
  <2>3. AboutToRepost' <=> 1 \in QueuedAcquires
    BY <1>6, TailPositions DEF Dispatch, QueuedAcquires, AboutToRepost
  <2>4. QueuedAcquires \subseteq 1..Len(strand)
    BY TailPositions DEF QueuedAcquires
  <2>5. CASE 1 \in QueuedAcquires
    <3>1. QueuedAcquires = {1}
      BY <2>5 DEF SingleAcquire
    <3>2. QueuedAcquires' = {}
      BY <2>2, <3>1
    <3> QED
      BY <2>1, <2>3, <2>5, <3>2 DEF SingleAcquire
  <2>6. CASE 1 \notin QueuedAcquires
    <3>1. QueuedAcquires' # {} <=> QueuedAcquires # {}
      <4>1. ASSUME NEW i \in QueuedAcquires PROVE i - 1 \in QueuedAcquires'
        BY <2>2, <2>4, <2>6, TailPositions
      <4> QED
        BY <4>1, <2>2
    <3>2. \A i, j \in QueuedAcquires' : i = j
      <4> SUFFICES ASSUME NEW i \in QueuedAcquires', NEW j \in QueuedAcquires'
                   PROVE  i = j
        OBVIOUS
      <4>1. i + 1 = j + 1 /\ i \in Nat /\ j \in Nat
        BY <2>2 DEF SingleAcquire
      <4> QED
        BY <4>1
    <3> QED
      BY <2>1, <2>3, <2>6, <3>1, <3>2 DEF SingleAcquire
  <2> QED
    BY <2>5, <2>6
<1>7. CASE RunSetup \/ Arm \/ Store \/ ReadTemperature
  <2>1. AboutToRepost' = AboutToRepost
    BY <1>7, HandlerKinds DEF RunSetup, Arm, Store, ReadTemperature, AboutToRepost
  <2> QED
    BY <1>7, <2>1, <1>0, <1>0a, <1>0c
       DEF RunSetup, Arm, Store, ReadTemperature, threadVars
<1>8. CASE Repost
  <2>1. AboutToRepost
    BY <1>8 DEF Repost, AboutToRepost
  <2>2. posted /\ QueuedAcquires = {} /\ PostingThreads = {}
    BY <2>1 DEF SingleAcquire
  <2>3. QueuedAcquires' = {Len(strand) + 1} /\ posted'
    BY <1>8, <2>2, AppendAcquire DEF Repost
  <2>4. PostingThreads' = {} /\ ~AboutToRepost'
    BY <1>8, <2>2, <1>0c DEF Repost, AboutToRepost, threadVars
  <2> QED
    BY <2>3, <2>4 DEF SingleAcquire
<1>9. CASE OnTimer
  <2>1. QueuedAcquires' = QueuedAcquires
    BY <1>9, HandlerTypes, HandlerKinds, AppendOther DEF OnTimer
  <2> QED
    BY <1>9, <2>1, <1>0, <1>0b, <1>0c DEF OnTimer, threadVars
<1>10. CASE Kill
  <2>1. QueuedAcquires' = {} /\ PostingThreads' = {} /\ ~AboutToRepost' /\ ~posted'
    BY <1>10, HandlerKinds DEF Kill, Die, QueuedAcquires, PostingThreads, AboutToRepost
  <2> QED
    BY <2>1 DEF SingleAcquire
<1>11. CASE UNCHANGED vars
  BY <1>11, <1>0, <1>0a, <1>0b, <1>0c DEF vars, threadVars, strandVars
<1> QED
  BY <1>1, <1>2, <1>3, <1>4, <1>5, <1>6, <1>7, <1>8, <1>9, <1>10, <1>11
     DEF Next, PrepareForRun, StrandStep

(* At most one acquire() is pending, and one is exactly when the flag is set:*)
(* the two threads and the strand may interleave their uses of               *)
(* acquire_posted_ in any way.                                               *)
THEOREM AcquireIsSingle == Spec => []SingleAcquire
BY SingleInit, SingleStep, TypeInvariant, PTL DEF Spec

-----------------------------------------------------------------------------
(* The instrument is set up before it is started                             *)

(* The instrument has been set up, or a setup is on its way to it.           *)
SetupQueued == \E i \in DOMAIN strand : strand[i].kind = "setup"
Configured == applied # NoMethod \/ job.kind = "setup" \/ SetupQueued

(* Whoever posts an acquire() has a setup ahead of it, and the strand, first *)
(* come first served, keeps it ahead.                                        *)
SetupFirst ==
  /\ posted => Configured
  /\ \A t \in Threads : pc[t] \in {"flag", "postacq"} => Configured
  /\ \A i \in QueuedAcquires :
       \/ applied # NoMethod
       \/ job.kind = "setup"
       \/ \E j \in DOMAIN strand : j < i /\ strand[j].kind = "setup"
  /\ SetupBeforeAcquire

LEMMA SetupFirstInit == Init => SetupFirst
BY DEF Init, SetupFirst, SetupBeforeAcquire, QueuedAcquires, Idle

(* A step that changes neither the strand nor what it has run.               *)
LEMMA SetupFirstElsewhere ==
  ASSUME SetupFirst, UNCHANGED <<strandVars, applied>>,
         posted' => posted,
         \A t \in Threads : pc'[t] \in {"flag", "postacq"} => pc[t] \in {"flag", "postacq"}
  PROVE  SetupFirst'
BY DEF SetupFirst, SetupBeforeAcquire, QueuedAcquires, Configured, SetupQueued, strandVars

(* A handler is appended: an acquire() only when the instrument is           *)
(* Configured; whoever enters "flag" has just appended a setup.              *)
LEMMA SetupFirstAppend ==
  ASSUME TypeOK, SetupFirst, NEW h \in Handler, strand' = Append(strand, h),
         UNCHANGED <<applied, posted>>,
         job' = job,
         h.kind = "acquire" => Configured,
         \A t \in Threads : \/ pc'[t] \notin {"flag", "postacq"}
                            \/ pc[t] \in {"flag", "postacq"}
                            \/ h.kind = "setup"
  PROVE  SetupFirst'
<1> strand \in Seq(Handler)
  BY DEF TypeOK
<1>1. Configured => Configured'
  <2>1. ASSUME NEW i \in DOMAIN strand
        PROVE  i \in DOMAIN strand' /\ strand'[i] = strand[i]
    BY <2>1, AppendPositions
  <2> QED
    BY <2>1 DEF Configured, SetupQueued
<1>2. h.kind = "setup" => Configured'
  BY AppendPositions DEF Configured, SetupQueued
<1>3. ASSUME NEW i \in QueuedAcquires', ~(applied # NoMethod), ~(job.kind = "setup")
      PROVE  \E j \in DOMAIN strand' : j < i /\ strand'[j].kind = "setup"
  <2>1. CASE i \in QueuedAcquires
    <3>1. PICK j \in DOMAIN strand : j < i /\ strand[j].kind = "setup"
      BY <1>3, <2>1 DEF SetupFirst
    <3> QED
      BY <3>1, AppendPositions
  <2>2. CASE i \notin QueuedAcquires
    <3>1. i = Len(strand) + 1 /\ h.kind = "acquire"
      BY <2>2, AppendPositions DEF QueuedAcquires
    <3>2. PICK j \in DOMAIN strand : strand[j].kind = "setup"
      BY <1>3, <3>1 DEF Configured, SetupQueued
    <3> QED
      BY <3>1, <3>2, AppendPositions
  <2> QED
    BY <2>1, <2>2
<1>4. SetupBeforeAcquire'
  BY DEF SetupFirst, SetupBeforeAcquire
<1> QED
  BY <1>1, <1>2, <1>3, <1>4 DEF SetupFirst

LEMMA SetupFirstStep == TypeInv /\ SetupFirst /\ [Next]_vars => SetupFirst'
<1> SUFFICES ASSUME TypeInv, SetupFirst, [Next]_vars PROVE SetupFirst'
  OBVIOUS
<1> TypeOK
  BY DEF TypeInv
<1>1. CASE Start
  BY <1>1, SetupFirstElsewhere DEF Start, TypeOK, Threads, devVars
<1>2. CASE CopyMethod
  BY <1>2, SetupFirstElsewhere DEF CopyMethod, TypeOK, Threads, devVars
<1>3. CASE ModifyMethod
  BY <1>3, SetupFirstElsewhere DEF ModifyMethod, TypeOK, Threads, devVars
<1>4. CASE GuiApply
  BY <1>4, SetupFirstElsewhere DEF GuiApply, TypeOK, Threads, devVars
<1>5. ASSUME NEW t \in Threads, OpenFile(t) \/ WriteFile(t) \/ Publish(t)
      PROVE  SetupFirst'
  BY <1>5, SetupFirstElsewhere DEF OpenFile, WriteFile, Publish, TypeOK, devVars
<1>6. ASSUME NEW t \in Threads, PostSetup(t) PROVE SetupFirst'
  <2>1. Setup(arg[t]) \in Handler
    BY <1>6, HandlerTypes DEF PostSetup, TypeInv, MethodThere
  <2> QED
    BY <1>6, <2>1, HandlerKinds, SetupFirstAppend DEF PostSetup, devVars
<1>7. ASSUME NEW t \in Threads, TestFlag(t) PROVE SetupFirst'
  <2>1. Configured /\ (Configured' <=> Configured)
    BY <1>7 DEF TestFlag, SetupFirst, Configured, SetupQueued, strandVars, devVars
  <2>2. QueuedAcquires' = QueuedAcquires /\ SetupBeforeAcquire'
    BY <1>7 DEF TestFlag, SetupFirst, SetupBeforeAcquire, QueuedAcquires,
                strandVars, devVars
  <2> QED
    BY <1>7, <2>1, <2>2 DEF TestFlag, SetupFirst, strandVars, devVars
<1>8. ASSUME NEW t \in Threads, PostAcquire(t) PROVE SetupFirst'
  <2>1. Configured
    BY <1>8 DEF PostAcquire, SetupFirst
  <2> QED
    BY <1>8, <2>1, HandlerTypes, SetupFirstAppend DEF PostAcquire, Return, TypeOK, devVars
<1>9. CASE Dispatch
  <2> strand \in Seq(Handler) /\ strand # <<>> /\ job.kind = "none"
    BY <1>9, HandlerKinds DEF Dispatch, TypeOK
  <2>1. ASSUME NEW i \in DOMAIN strand, strand[i].kind = "setup"
        PROVE  \/ job'.kind = "setup"
               \/ i - 1 \in DOMAIN strand' /\ strand'[i - 1].kind = "setup"
    <3>1. CASE i = 1
      BY <1>9, <2>1, <3>1, TailPositions DEF Dispatch
    <3>2. CASE i # 1
      <4>1. i - 1 \in 1..(Len(strand) - 1) /\ (i - 1) + 1 = i
        BY <3>2, TailPositions
      <4> QED
        BY <1>9, <2>1, <4>1, TailPositions DEF Dispatch
    <3> QED
      BY <3>1, <3>2
  <2>2. applied' = applied
    BY <1>9 DEF Dispatch, devVars
  <2>3. Configured => Configured'
    BY <2>1, <2>2 DEF Configured, SetupQueued
  <2>4. ASSUME NEW i \in QueuedAcquires', applied = NoMethod, job'.kind # "setup"
        PROVE  \E j \in DOMAIN strand' : j < i /\ strand'[j].kind = "setup"
    <3>1. i \in 1..(Len(strand) - 1) /\ i + 1 \in QueuedAcquires
      BY <1>9, TailPositions DEF Dispatch, QueuedAcquires
    <3>2. PICK j \in DOMAIN strand : j < i + 1 /\ strand[j].kind = "setup"
      BY <2>4, <3>1 DEF SetupFirst
    <3>3. j - 1 \in DOMAIN strand' /\ strand'[j - 1].kind = "setup"
      BY <2>1, <2>4, <3>2
    <3>4. j - 1 < i
      BY <3>1, <3>2, TailPositions
    <3> QED
      BY <3>3, <3>4
  <2>5. SetupBeforeAcquire'
    <3> SUFFICES ASSUME job'.kind = "acquire" PROVE applied # NoMethod
      BY <2>2 DEF SetupBeforeAcquire
    <3>1. 1 \in QueuedAcquires
      BY <1>9, TailPositions DEF Dispatch, QueuedAcquires
    <3>2. ~\E j \in DOMAIN strand : j < 1
      BY TailPositions
    <3> QED
      BY <3>1, <3>2 DEF SetupFirst
  <2> QED
    BY <1>9, <2>2, <2>3, <2>4, <2>5 DEF Dispatch, SetupFirst, threadVars
<1>10. CASE RunSetup
  <2>1. applied' # NoMethod
    BY <1>10, HandlerTypes, ValsAssumption DEF RunSetup, TypeOK
  <2> QED
    BY <2>1 DEF SetupFirst, SetupBeforeAcquire, Configured
<1>11. CASE Repost \/ Arm \/ Store
  <2>1. applied # NoMethod /\ applied' = applied
    BY <1>11 DEF Repost, Arm, Store, SetupFirst, SetupBeforeAcquire, devVars
  <2> QED
    BY <2>1 DEF SetupFirst, SetupBeforeAcquire, Configured
<1>12. CASE ReadTemperature
  BY <1>12, HandlerKinds
     DEF ReadTemperature, SetupFirst, SetupBeforeAcquire, QueuedAcquires, Configured,
         SetupQueued, threadVars, devVars
<1>13. CASE OnTimer
  BY <1>13, HandlerTypes, HandlerKinds, SetupFirstAppend DEF OnTimer, threadVars, devVars
<1>14. CASE Kill
  BY <1>14, HandlerKinds
     DEF Kill, Die, SetupFirst, SetupBeforeAcquire, QueuedAcquires
<1>15. CASE UNCHANGED vars
  BY <1>15, SetupFirstElsewhere DEF vars, threadVars, devVars
<1> QED
  BY <1>1, <1>2, <1>3, <1>4, <1>5, <1>6, <1>7, <1>8, <1>9, <1>10, <1>11, <1>12,
     <1>13, <1>14, <1>15
     DEF Next, PrepareForRun, StrandStep

(* No acquire() runs on an instrument that was never set up: prepare_for_run *)
(* posts the setup before it tests the flag, and the strand keeps the order. *)
THEOREM SetupRunsFirst == Spec => []SetupBeforeAcquire
<1>1. SetupFirst => SetupBeforeAcquire
  BY DEF SetupFirst
<1> QED
  BY <1>1, SetupFirstInit, SetupFirstStep, TypeInvariant, PTL DEF Spec

-----------------------------------------------------------------------------
(* The label of a waveform                                                   *)

(* The driver knows the time base of the instrument unless it was refused,   *)
(* and nothing changes either while an acquisition is in progress.           *)
LabelInv ==
  /\ label = inst.hor \/ inst.refused
  /\ job.kind = "acquire" /\ phase = "wait" => armed = inst
  /\ LabelConsistent

LEMMA LabelInit == Init => LabelInv
BY DEF Init, LabelInv, LabelConsistent, Unset, NoWave, Idle

LEMMA LabelStep == LabelInv /\ [Next]_vars => LabelInv'
<1> SUFFICES ASSUME LabelInv, [Next]_vars PROVE LabelInv'
  OBVIOUS
<1> USE DEF LabelInv, LabelConsistent
<1>1. CASE Start \/ CopyMethod \/ ModifyMethod \/ GuiApply
  BY <1>1 DEF Start, CopyMethod, ModifyMethod, GuiApply, strandVars, devVars
<1>2. ASSUME NEW t \in Threads, PrepareForRun(t) PROVE LabelInv'
  BY <1>2 DEF PrepareForRun, OpenFile, WriteFile, Publish, PostSetup, TestFlag,
              PostAcquire, strandVars, devVars
<1>3. CASE Dispatch
  BY <1>3 DEF Dispatch, devVars
<1>4. CASE RunSetup
  <2>1. label' = inst'.hor \/ inst'.refused
    <3>1. CASE job.m["hor"] = None
      BY <1>4, <3>1 DEF RunSetup
    <3>2. CASE job.m["hor"] # None
      BY <1>4, <3>2 DEF RunSetup, Configure
    <3> QED
      BY <3>1, <3>2
  <2> QED
    BY <1>4, <2>1, HandlerKinds DEF RunSetup
<1>5. CASE Repost
  BY <1>5 DEF Repost, devVars
<1>6. CASE Arm
  BY <1>6, HandlerKinds DEF Arm
<1>7. CASE Store
  <2>1. wave' = wave \/ (wave'.label = wave'.hor \/ wave'.refused)
    BY <1>7 DEF Store
  <2> QED
    BY <1>7, <2>1, HandlerKinds DEF Store
<1>8. CASE ReadTemperature
  BY <1>8, HandlerKinds DEF ReadTemperature, devVars
<1>9. CASE OnTimer
  BY <1>9 DEF OnTimer, devVars
<1>10. CASE Kill
  BY <1>10, HandlerKinds DEF Kill, Die, Unset, NoWave
<1>11. CASE UNCHANGED vars
  BY <1>11 DEF vars, strandVars, devVars
<1> QED
  BY <1>1, <1>2, <1>3, <1>4, <1>5, <1>6, <1>7, <1>8, <1>9, <1>10, <1>11
     DEF Next, StrandStep

(* The delay stored with a waveform is the one the instrument was armed      *)
(* with, unless it had refused the setting: the strand keeps every setup out *)
(* of the time between arming and storing.                                   *)
THEOREM LabelsAgree == Spec => []LabelConsistent
<1>1. LabelInv => LabelConsistent
  BY DEF LabelInv
<1> QED
  BY <1>1, LabelInit, LabelStep, PTL DEF Spec

-----------------------------------------------------------------------------
(* Uninitialised labels                                                      *)

(* As long as no start() read a damaged file, every method has all its parts,*)
(* so the first setup gives the driver's members their values.               *)
FullInv ==
  ~torn =>
    /\ file \in Method => file \in FullMethod
    /\ \A t \in Threads : pc[t] # "idle" => arg[t] \in FullMethod
    /\ life = "up" => method \in FullMethod
    /\ \A t \in Threads : pc[t] \in {"post", "flag", "postacq"} => method \in FullMethod
    /\ \A i \in DOMAIN strand : strand[i].kind = "setup" => strand[i].m \in FullMethod
    /\ job.kind = "setup" => job.m \in FullMethod
    /\ applied # NoMethod => label # None
    /\ wave.stored => wave.label # None

LEMMA FullMethods ==
  /\ DefaultMethod \in FullMethod
  /\ \A m \in FullMethod : Edited(m) \subseteq FullMethod
  /\ \A m \in FullMethod : m["hor"] \in Vals
  /\ FullMethod \subseteq Method
  /\ Damaged \cap Method = {} /\ Absent \notin Method
BY ValsAssumption DEF DefaultMethod, FullMethod, Method, Edited, Subs, Damaged

LEMMA FullInit == Init => FullInv
<1> SUFFICES ASSUME Init PROVE FullInv
  OBVIOUS
<1> QED
  BY FullMethods DEF Init, FullInv, Idle, NoWave

LEMMA FullStep == TypeInv /\ SetupFirst /\ FullInv /\ [Next]_vars => FullInv'
<1> SUFFICES ASSUME TypeInv, SetupFirst, FullInv, [Next]_vars, ~torn' PROVE FullInv'
  BY DEF FullInv
<1> TypeOK
  BY DEF TypeInv
<1>0. ~torn
  BY DEF Next, Start, CopyMethod, ModifyMethod, GuiApply, PrepareForRun, OpenFile, WriteFile,
         Publish, PostSetup, TestFlag, PostAcquire, StrandStep, Dispatch, RunSetup, Repost, Arm,
         Store, ReadTemperature, OnTimer, Kill, Die, vars
<1>1. CASE Start
  <2>1. Loaded \in FullMethod
    BY <1>0, <1>1, FullMethods DEF Start, Loaded, FullInv, TypeOK
  <2> QED
    BY <1>0, <1>1, <2>1 DEF Start, FullInv, TypeOK, TypeInv, MethodThere, Threads, strandVars, devVars
<1>2. CASE CopyMethod
  BY <1>0, <1>2 DEF CopyMethod, FullInv, TypeOK, Threads, strandVars, devVars
<1>3. CASE ModifyMethod
  <2>1. arg["http"] \in FullMethod
    BY <1>0, <1>3 DEF ModifyMethod, FullInv, Threads
  <2> QED
    BY <1>0, <1>3, <2>1, FullMethods DEF ModifyMethod, FullInv, TypeOK, Threads, strandVars, devVars
<1>4. CASE GuiApply
  BY <1>0, <1>4 DEF GuiApply, FullInv, TypeOK, Threads, strandVars, devVars
<1>5. ASSUME NEW t \in Threads, OpenFile(t) PROVE FullInv'
  BY <1>0, <1>5, FullMethods DEF OpenFile, FullInv, TypeOK, Damaged, strandVars, devVars
<1>6. ASSUME NEW t \in Threads, WriteFile(t) PROVE FullInv'
  BY <1>0, <1>6, FullMethods DEF WriteFile, FullInv, TypeOK, Damaged, strandVars, devVars
<1>7. ASSUME NEW t \in Threads, Publish(t) PROVE FullInv'
  BY <1>0, <1>7 DEF Publish, FullInv, TypeOK, strandVars, devVars
<1>8. ASSUME NEW t \in Threads, PostSetup(t) PROVE FullInv'
  <2>1. Setup(arg[t]) \in Handler /\ Setup(arg[t]).m \in FullMethod
    BY <1>0, <1>8, HandlerTypes DEF PostSetup, FullInv, TypeInv, MethodThere, Setup
  <2>2. \A i \in DOMAIN strand' : strand'[i].kind = "setup" => strand'[i].m \in FullMethod
    BY <1>0, <1>8, <2>1, AppendPositions DEF PostSetup, FullInv, TypeOK
  <2> QED
    BY <1>0, <1>8, <2>2 DEF PostSetup, FullInv, TypeOK, devVars
<1>9. ASSUME NEW t \in Threads, TestFlag(t) PROVE FullInv'
  BY <1>0, <1>9 DEF TestFlag, Return, FullInv, TypeOK, strandVars, devVars
<1>10. ASSUME NEW t \in Threads, PostAcquire(t) PROVE FullInv'
  <2>1. \A i \in DOMAIN strand' : strand'[i].kind = "setup" => strand'[i].m \in FullMethod
    BY <1>0, <1>10, HandlerTypes, HandlerKinds, AppendPositions DEF PostAcquire, FullInv, TypeOK
  <2> QED
    BY <1>0, <1>10, <2>1 DEF PostAcquire, Return, FullInv, TypeOK, devVars
<1>11. CASE Dispatch
  <2>1. /\ \A i \in DOMAIN strand' : strand'[i].kind = "setup" => strand'[i].m \in FullMethod
        /\ job'.kind = "setup" => job'.m \in FullMethod
    BY <1>0, <1>11, TailPositions DEF Dispatch, FullInv, TypeOK
  <2> QED
    BY <1>0, <1>11, <2>1 DEF Dispatch, FullInv, threadVars, devVars
<1>12. CASE RunSetup
  <2>1. job.m["hor"] \in Vals /\ job.m["hor"] # None
    BY <1>0, <1>12, FullMethods, ValsAssumption DEF RunSetup, FullInv
  <2>2. label' # None
    BY <1>12, <2>1, ValsAssumption DEF RunSetup, Configure
  <2> QED
    BY <1>0, <1>12, <2>2, HandlerKinds DEF RunSetup, FullInv, threadVars
<1>13. CASE Repost
  <2>1. \A i \in DOMAIN strand' : strand'[i].kind = "setup" => strand'[i].m \in FullMethod
    <3>1. strand' = Append(strand, Acquire) \/ strand' = strand
      BY <1>13 DEF Repost
    <3>2. CASE strand' = Append(strand, Acquire)
      BY <1>0, <3>2, HandlerTypes, HandlerKinds, AppendPositions DEF FullInv, TypeOK
    <3>3. CASE strand' = strand
      BY <1>0, <3>3 DEF FullInv
    <3> QED
      BY <3>1, <3>2, <3>3
  <2> QED
    BY <1>0, <1>13, <2>1 DEF Repost, FullInv, threadVars, devVars
<1>14. CASE Arm
  BY <1>0, <1>14, HandlerKinds DEF Arm, FullInv, threadVars
<1>15. CASE Store
  <2>1. label # None
    BY <1>0, <1>15 DEF Store, FullInv, SetupFirst, SetupBeforeAcquire
  <2>2. wave'.stored => wave'.label # None
    BY <1>0, <1>15, <2>1 DEF Store, FullInv
  <2> QED
    BY <1>0, <1>15, <2>2, HandlerKinds DEF Store, FullInv, threadVars
<1>16. CASE ReadTemperature
  BY <1>0, <1>16, HandlerKinds DEF ReadTemperature, FullInv, threadVars, devVars
<1>17. CASE OnTimer
  <2>1. \A i \in DOMAIN strand' : strand'[i].kind = "setup" => strand'[i].m \in FullMethod
    BY <1>0, <1>17, HandlerTypes, HandlerKinds, AppendPositions DEF OnTimer, FullInv, TypeOK
  <2> QED
    BY <1>0, <1>17, <2>1 DEF OnTimer, FullInv, threadVars, devVars
<1>18. CASE Kill
  BY <1>0, <1>18, HandlerKinds DEF Kill, Die, FullInv, NoWave
<1>19. CASE UNCHANGED vars
  BY <1>0, <1>19 DEF vars, threadVars, strandVars, devVars, FullInv
<1> QED
  BY <1>1, <1>2, <1>3, <1>4, <1>5, <1>6, <1>7, <1>8, <1>9, <1>10, <1>11, <1>12,
     <1>13, <1>14, <1>15, <1>16, <1>17, <1>18, <1>19
     DEF Next, PrepareForRun, StrandStep

(* A waveform labelled with members nobody wrote comes only from a process   *)
(* descended from one that read a damaged file                               *)
(* (Task!UninitializedOnlyAfterTornFile).                                    *)
THEOREM UninitializedNeedsTornFile == Spec => []UninitializedOnlyAfterTornFile
<1>1. FullInv => UninitializedOnlyAfterTornFile
  BY DEF FullInv, UninitializedOnlyAfterTornFile
<1> QED
  BY <1>1, FullInit, FullStep, SetupFirstInit, SetupFirstStep, TypeInvariant, PTL DEF Spec

-----------------------------------------------------------------------------
(* File, method_ and instrument                                              *)

(* The settings the strand leaves in the instrument when it has run what     *)
(* waits on it: those of the last setup, or those of the setup that runs or  *)
(* ran last.                                                                 *)
LastSetup(m) ==
  \/ \E i \in DOMAIN strand :
       /\ strand[i].kind = "setup" /\ strand[i].m = m
       /\ \A j \in DOMAIN strand : j > i => strand[j].kind # "setup"
  \/ /\ \A i \in DOMAIN strand : strand[i].kind # "setup"
     /\ IF job.kind = "setup" THEN job.m = m ELSE applied = m

(* A step that neither posts nor runs a setup.                               *)
LEMMA LastSetupKept ==
  ASSUME strand' = strand, applied' = applied,
         job' = job \/ (job.kind # "setup" /\ job'.kind # "setup")
  PROVE  \A m : LastSetup(m) => LastSetup(m)'
BY DEF LastSetup

LEMMA LastSetupAppend ==
  ASSUME TypeOK, NEW h \in Handler, strand' = Append(strand, h), UNCHANGED <<job, applied>>, NEW m
  PROVE  /\ h.kind = "setup" /\ h.m = m => LastSetup(m)'
         /\ h.kind # "setup" /\ LastSetup(m) => LastSetup(m)'
<1> strand \in Seq(Handler)
  BY DEF TypeOK
<1> DEFINE n == Len(strand)
<1>1. /\ n \in Nat /\ DOMAIN strand = 1..n /\ DOMAIN strand' = 1..(n + 1)
      /\ \A i \in 1..n : strand'[i] = strand[i]
      /\ strand'[n + 1] = h
  BY AppendPositions
<1> HIDE DEF n
<1>2. ASSUME h.kind = "setup", h.m = m PROVE LastSetup(m)'
  <2>1. n + 1 \in DOMAIN strand' /\ \A j \in DOMAIN strand' : ~(j > n + 1)
    BY <1>1
  <2> QED
    BY <1>1, <1>2, <2>1 DEF LastSetup
<1>3. ASSUME h.kind # "setup", LastSetup(m) PROVE LastSetup(m)'
  <2>1. ASSUME NEW j \in DOMAIN strand', strand'[j].kind = "setup"
        PROVE  j \in DOMAIN strand /\ strand'[j] = strand[j]
    BY <1>1, <1>3, <2>1
  <2>2. CASE \A i \in DOMAIN strand : strand[i].kind # "setup"
    BY <1>3, <2>1, <2>2 DEF LastSetup
  <2>3. ASSUME NEW i \in DOMAIN strand, strand[i].kind = "setup", strand[i].m = m,
               \A j \in DOMAIN strand : j > i => strand[j].kind # "setup"
        PROVE  LastSetup(m)'
    <3>1. i \in DOMAIN strand' /\ strand'[i] = strand[i]
      BY <1>1
    <3> QED
      BY <2>1, <2>3, <3>1 DEF LastSetup
  <2> QED
    BY <1>3, <2>2, <2>3 DEF LastSetup
<1> QED
  BY <1>2, <1>3

LEMMA LastSetupRun ==
  ASSUME TypeOK, Dispatch \/ RunSetup, NEW m, LastSetup(m)
  PROVE  LastSetup(m)'
<1>1. CASE RunSetup
  BY <1>1, HandlerKinds DEF RunSetup, LastSetup
<1>2. CASE Dispatch
  <2> strand \in Seq(Handler) /\ strand # <<>> /\ job.kind = "none"
    BY <1>2, HandlerKinds DEF Dispatch, TypeOK
  <2> DEFINE n == Len(strand)
  <2>1. /\ n \in Nat \ {0} /\ DOMAIN strand = 1..n /\ DOMAIN strand' = 1..(n - 1)
        /\ \A i \in 1..(n - 1) : strand'[i] = strand[i + 1]
        /\ job' = strand[1] /\ applied' = applied
    BY <1>2, TailPositions DEF Dispatch, devVars
  <2> HIDE DEF n
  <2>2. CASE \A i \in DOMAIN strand : strand[i].kind # "setup"
    <3>1. applied = m /\ strand[1].kind # "setup"
      BY <2>1, <2>2 DEF LastSetup
    <3>2. \A i \in DOMAIN strand' : strand'[i].kind # "setup"
      BY <2>1, <2>2
    <3> QED
      BY <2>1, <3>1, <3>2 DEF LastSetup
  <2>3. ASSUME NEW i \in DOMAIN strand, strand[i].kind = "setup", strand[i].m = m,
               \A j \in DOMAIN strand : j > i => strand[j].kind # "setup"
        PROVE  LastSetup(m)'
    <3>1. ASSUME NEW j \in DOMAIN strand', j > i - 1 PROVE strand'[j].kind # "setup"
      <4>1. j + 1 \in DOMAIN strand /\ j + 1 > i /\ strand'[j] = strand[j + 1]
        BY <2>1, <3>1
      <4> QED
        BY <2>3, <4>1
    <3>2. CASE i = 1
      <4>1. \A j \in DOMAIN strand' : strand'[j].kind # "setup"
        BY <2>1, <3>1, <3>2
      <4> QED
        BY <2>1, <2>3, <3>2, <4>1 DEF LastSetup
    <3>3. CASE i # 1
      <4>1. i - 1 \in DOMAIN strand' /\ strand'[i - 1] = strand[i]
        BY <2>1, <3>3
      <4> QED
        BY <2>3, <3>1, <4>1 DEF LastSetup
    <3> QED
      BY <3>2, <3>3
  <2> QED
    BY <2>2, <2>3 DEF LastSetup
<1> QED
  BY <1>1, <1>2

(* Where a lone hand-over of thread t stands: what the file, method_ and the *)
(* strand already have of it, and that a request only edits method_.         *)
Stands(t) ==
  /\ \A u \in Others(t) : pc[u] = "idle"
  /\ pc[t] # "stale"
  /\ pc[t] = "copy" => arg[t] = method
  /\ t = "http" /\ pc[t] \in {"open", "write", "publish"} => arg[t] \in Edited(method)
  /\ pc[t] = "write" => file = Empty
  /\ pc[t] = "publish" => file = arg[t]
  /\ pc[t] \in {"post", "flag", "postacq"} => file = arg[t] /\ file = method
  /\ pc[t] \in {"flag", "postacq"} => LastSetup(method)
  /\ pc[t] \in {"publish", "post", "flag", "postacq"} => overlap = "none"

(* While hand-overs do not overlap, the file holds method_ between them.     *)
SettingsInv ==
  /\ life = "starting" =>
       /\ pc["main"] \notin {"idle", "copy", "stale"} /\ pc["http"] = "idle"
       /\ pc["main"] = "open" => overlap = "none" /\ (file \in Method => arg["main"] = file)
  /\ overlap # "now" =>
       /\ \A t \in Threads : pc[t] # "idle" => Stands(t)
       /\ life = "up" /\ (\A t \in Threads : pc[t] = "idle") =>
            overlap = "none" /\ LastSetup(method)
  /\ overlap = "none" =>
       /\ life = "up" /\ (\A t \in Threads : pc[t] \in {"idle", "copy", "open"}) =>
            file = method
       /\ life = "down" /\ file \in Method =>
            file = method \/ \E t \in Threads : file = arg[t]

LEMMA SettingsInit == Init => SettingsInv
<1> SUFFICES ASSUME Init PROVE SettingsInv
  OBVIOUS
<1>1. file \notin Method
  BY ValsAssumption DEF Init
<1> QED
  BY <1>1 DEF Init, SettingsInv

(* A step of the strand or of the timer.                                     *)
LEMMA SettingsOnStrand ==
  ASSUME SettingsInv, UNCHANGED <<life, file, method, pc, arg, overlap>>,
         \A m : LastSetup(m) => LastSetup(m)'
  PROVE  SettingsInv'
<1>1. ASSUME NEW t \in Threads, Stands(t) PROVE Stands(t)'
  BY <1>1 DEF Stands
<1> QED
  BY <1>1 DEF SettingsInv

LEMMA ThreadTurns ==
  /\ Threads = {"main", "http"}
  /\ Others("main") = {"http"} /\ Others("http") = {"main"}
BY DEF Threads, Others

(* The thread t moves on in prepare_for_run, while start() or another        *)
(* hand-over may be under way.                                               *)
LEMMA SettingsMove ==
  ASSUME SettingsInv, NEW t \in Threads, pc[t] # "idle",
         pc'[t] \in {"write", "publish", "post", "flag", "postacq"},
         life # "down", life' = life, overlap' # "now" => overlap # "now",
         \A u \in Threads \ {t} : pc[u] = "idle" => pc'[u] = "idle",
         overlap' # "now" => Stands(t)'
  PROVE  SettingsInv'
<1>1. ASSUME life = "starting" PROVE t = "main" /\ pc'["http"] = "idle"
  BY <1>1, ThreadTurns DEF SettingsInv
<1>2. ASSUME overlap' # "now", NEW u \in Threads, pc'[u] # "idle" PROVE u = t
  BY <1>2, ThreadTurns DEF SettingsInv, Stands
<1> QED
  BY <1>1, <1>2 DEF SettingsInv

LEMMA SettingsStep == TypeInv /\ SettingsInv /\ [Next]_vars => SettingsInv'
<1> SUFFICES ASSUME TypeInv, SettingsInv, [Next]_vars PROVE SettingsInv'
  OBVIOUS
<1> TypeOK
  BY DEF TypeInv
<1>1. CASE Start
  <2>1. /\ pc["http"] = "idle" /\ pc'["http"] = "idle" /\ pc'["main"] = "open"
        /\ life' = "starting" /\ overlap' = "none" /\ file' = file /\ arg'["main"] = Loaded
    BY <1>1, ThreadTurns DEF Start, TypeInv, TypeOK, MethodThere
  <2>2. file \in Method => Loaded = file
    BY ValsAssumption DEF Loaded, Damaged
  <2>3. Stands("main")'
    BY <2>1, ThreadTurns DEF Stands
  <2> QED
    BY <2>1, <2>2, <2>3, ThreadTurns DEF SettingsInv
<1>2. CASE CopyMethod
  <2>1. /\ life = "up" /\ life' = "up" /\ pc["http"] = "idle" /\ pc'["http"] = "copy"
        /\ pc'["main"] = pc["main"] /\ file' = file /\ method' = method
        /\ arg'["http"] = method /\ overlap' = Overlap("http")
    BY <1>2, ThreadTurns DEF CopyMethod, TypeOK
  <2>2. overlap' # "now" => pc["main"] = "idle"
    BY <2>1, ThreadTurns DEF Overlap, OthersIdle
  <2>3. overlap' # "now" => Stands("http")'
    BY <2>1, <2>2, ThreadTurns DEF Stands
  <2>4. overlap' = "none" => overlap = "none" /\ file' = method'
    BY <2>1, <2>2, ThreadTurns DEF Overlap, SettingsInv
  <2> QED
    BY <2>1, <2>2, <2>3, <2>4, ThreadTurns DEF SettingsInv
<1>3. CASE ModifyMethod
  <2>1. /\ pc["http"] \in {"copy", "stale"} /\ pc'["http"] = "open"
        /\ pc'["main"] = pc["main"] /\ file' = file /\ method' = method
        /\ arg'["http"] \in Edited(arg["http"]) /\ overlap' = overlap /\ life' = life
    BY <1>3, ThreadTurns DEF ModifyMethod, TypeOK
  <2>2. life = "up"
    BY <2>1, ThreadTurns DEF SettingsInv, TypeInv, TypeOK, MethodThere
  <2>3. overlap' # "now" => pc["http"] = "copy" /\ Stands("http")'
    BY <2>1, ThreadTurns DEF SettingsInv, Stands
  <2>4. overlap' # "now" => pc["main"] = "idle"
    BY <2>1, ThreadTurns DEF SettingsInv, Stands
  <2>5. overlap' = "none" => file' = method'
    BY <2>1, <2>2, <2>3, <2>4, ThreadTurns DEF SettingsInv
  <2> QED
    BY <2>1, <2>2, <2>3, <2>4, <2>5, ThreadTurns DEF SettingsInv
<1>4. CASE GuiApply
  <2>1. /\ life = "up" /\ life' = "up" /\ pc["main"] = "idle" /\ pc'["main"] = "open"
        /\ pc'["http"] = pc["http"] /\ file' = file /\ method' = method
        /\ overlap' = Overlap("main")
    BY <1>4, ThreadTurns DEF GuiApply, TypeOK
  <2>2. overlap' # "now" => pc["http"] = "idle"
    BY <2>1, ThreadTurns DEF Overlap, OthersIdle
  <2>3. overlap' # "now" => Stands("main")'
    BY <2>1, <2>2, ThreadTurns DEF Stands
  <2>4. overlap' = "none" => overlap = "none" /\ file' = method'
    BY <2>1, <2>2, ThreadTurns DEF Overlap, SettingsInv
  <2> QED
    BY <2>1, <2>2, <2>3, <2>4, ThreadTurns DEF SettingsInv
<1>5. ASSUME NEW t \in Threads, pc[t] # "idle"
      PROVE  life # "down" /\ (overlap # "now" => Stands(t))
  BY <1>5 DEF TypeInv, MethodThere, SettingsInv
<1>6. ASSUME NEW t \in Threads, OpenFile(t) PROVE SettingsInv'
  <2>1. /\ pc[t] = "open" /\ pc'[t] = "write" /\ file' = Empty /\ method' = method
        /\ life' = life /\ arg' = arg /\ overlap' = overlap
        /\ \A u \in Threads \ {t} : pc'[u] = pc[u]
    BY <1>6 DEF OpenFile, TypeOK
  <2>2. overlap' # "now" => Stands(t)'
    BY <1>5, <2>1 DEF Stands, Others
  <2> QED
    BY <1>5, <2>1, <2>2, SettingsMove
<1>7. ASSUME NEW t \in Threads, WriteFile(t) PROVE SettingsInv'
  <2>1. /\ pc[t] = "write" /\ pc'[t] = "publish" /\ method' = method
        /\ file' \in IF file = Empty THEN {arg[t]} ELSE {arg[t], Torn}
        /\ life' = life /\ arg' = arg
        /\ overlap' = IF overlap = "past" THEN "none" ELSE overlap
        /\ \A u \in Threads \ {t} : pc'[u] = pc[u]
    BY <1>7 DEF WriteFile, TypeOK
  <2>2. overlap' # "now" => Stands(t)'
    <3>1. ASSUME overlap # "now" PROVE file' = arg[t] /\ overlap' = "none" /\ Stands(t)
      BY <1>5, <2>1, <3>1 DEF Stands, TypeOK
    <3> QED
      BY <2>1, <3>1 DEF Stands, Others
  <2> QED
    BY <1>5, <2>1, <2>2, SettingsMove
<1>8. ASSUME NEW t \in Threads, Publish(t) PROVE SettingsInv'
  <2>1. /\ pc[t] = "publish" /\ pc'[t] = "post" /\ method' = arg[t] /\ file' = file
        /\ life' = life /\ arg' = arg /\ overlap' = overlap
        /\ \A u \in Threads \ {t} : pc'[u] = IF pc[u] = "copy" THEN "stale" ELSE pc[u]
    BY <1>8 DEF Publish, TypeOK
  <2>2. overlap' # "now" => Stands(t)'
    BY <1>5, <2>1 DEF Stands, Others
  <2> QED
    BY <1>5, <2>1, <2>2, SettingsMove
<1>9. ASSUME NEW t \in Threads, PostSetup(t) PROVE SettingsInv'
  <2>1. /\ pc[t] = "post" /\ pc'[t] = "flag" /\ method' = method /\ file' = file
        /\ life' = life /\ arg' = arg /\ overlap' = overlap
        /\ \A u \in Threads \ {t} : pc'[u] = pc[u]
    BY <1>9 DEF PostSetup, TypeOK
  <2>2. LastSetup(arg[t])'
    <3>1. /\ Setup(arg[t]) \in Handler /\ Setup(arg[t]).kind = "setup"
          /\ Setup(arg[t]).m = arg[t]
      BY <2>1, HandlerTypes DEF TypeInv, MethodThere, Setup
    <3>2. strand' = Append(strand, Setup(arg[t])) /\ job' = job /\ applied' = applied
      BY <1>9 DEF PostSetup, devVars
    <3>3. ASSUME NEW m, m = arg[t] PROVE LastSetup(m)'
      BY <3>1, <3>2, <3>3, LastSetupAppend
    <3> QED
      BY <2>1, <3>3
  <2>3. overlap' # "now" => Stands(t)'
    <3>1. ASSUME overlap # "now" PROVE Stands(t) /\ method = arg[t]
      BY <1>5, <2>1, <3>1 DEF Stands
    <3>2. overlap # "now" => LastSetup(method)'
      BY <2>1, <2>2, <3>1 DEF LastSetup
    <3> QED
      BY <2>1, <3>1, <3>2 DEF Stands, Others
  <2> QED
    BY <1>5, <2>1, <2>3, SettingsMove
<1>10. ASSUME NEW t \in Threads, pc[t] \in {"flag", "postacq"}, pc'[t] = "idle",
              \A u \in Threads \ {t} : pc'[u] = pc[u],
              life' = IF t = "main" THEN "up" ELSE life,
              UNCHANGED <<file, method, overlap>>,
              \A m : LastSetup(m) => LastSetup(m)'
       PROVE  SettingsInv'
  <2>1. life # "down" /\ (overlap # "now" => Stands(t))
    BY <1>5, <1>10
  <2>2. life = "starting" => t = "main"
    BY <1>10, ThreadTurns DEF SettingsInv
  <2>3. life' = "up"
    BY <1>10, <2>1, <2>2 DEF TypeOK
  <2>4. ASSUME overlap # "now"
        PROVE  /\ \A u \in Threads : pc'[u] = "idle"
               /\ overlap = "none" /\ file = method /\ LastSetup(method)
    BY <1>10, <2>1, <2>4 DEF Stands, Others
  <2>5. overlap # "now" => LastSetup(method)'
    BY <1>10, <2>4
  <2> QED
    BY <1>10, <2>3, <2>4, <2>5 DEF SettingsInv
<1>11. ASSUME NEW t \in Threads, TestFlag(t) PROVE SettingsInv'
  <2>1. /\ pc[t] = "flag" /\ UNCHANGED <<file, method, overlap, strand, job, applied>>
        /\ \A u \in Threads \ {t} : pc'[u] = pc[u]
        /\ \/ pc'[t] = "idle" /\ life' = IF t = "main" THEN "up" ELSE life
           \/ pc'[t] = "postacq" /\ life' = life /\ arg' = arg
    BY <1>11 DEF TestFlag, Return, TypeOK, strandVars, devVars
  <2>2. \A m : LastSetup(m) => LastSetup(m)'
    <3>1. strand' = strand /\ job' = job /\ applied' = applied
      BY <2>1
    <3> QED
      BY <3>1, LastSetupKept
  <2>3. CASE pc'[t] = "idle" /\ life' = IF t = "main" THEN "up" ELSE life
    BY <1>10, <2>1, <2>2, <2>3
  <2>4. CASE pc'[t] = "postacq" /\ life' = life /\ arg' = arg
    <3>1. overlap' # "now" => Stands(t)'
      <4>1. overlap # "now" => Stands(t)
        BY <1>5, <2>1
      <4>2. overlap # "now" => LastSetup(method)'
        BY <2>1, <2>2, <4>1 DEF Stands
      <4> QED
        BY <2>1, <2>4, <4>1, <4>2 DEF Stands, Others
    <3> QED
      BY <1>5, <2>1, <2>4, <3>1, SettingsMove
  <2> QED
    BY <2>1, <2>3, <2>4
<1>12. ASSUME NEW t \in Threads, PostAcquire(t) PROVE SettingsInv'
  <2>1. /\ pc[t] = "postacq" /\ pc'[t] = "idle"
        /\ UNCHANGED <<file, method, overlap>>
        /\ \A u \in Threads \ {t} : pc'[u] = pc[u]
        /\ life' = IF t = "main" THEN "up" ELSE life
    BY <1>12 DEF PostAcquire, Return, TypeOK
  <2>2. \A m : LastSetup(m) => LastSetup(m)'
    BY <1>12, HandlerTypes, HandlerKinds, LastSetupAppend DEF PostAcquire, devVars
  <2> QED
    BY <1>10, <2>1, <2>2
<1>13. CASE Dispatch \/ RunSetup
  <2>1. \A m : LastSetup(m) => LastSetup(m)'
    BY <1>13, LastSetupRun
  <2> QED
    BY <1>13, <2>1, SettingsOnStrand DEF Dispatch, RunSetup, threadVars
<1>14. CASE Arm \/ Store \/ ReadTemperature
  <2>1. \A m : LastSetup(m) => LastSetup(m)'
    BY <1>14, HandlerKinds, LastSetupKept DEF Arm, Store, ReadTemperature, devVars
  <2> QED
    BY <1>14, <2>1, SettingsOnStrand DEF Arm, Store, ReadTemperature, threadVars
<1>15. CASE Repost
  <2>1. \A m : LastSetup(m) => LastSetup(m)'
    <3>1. strand' = Append(strand, Acquire) \/ strand' = strand
      BY <1>15 DEF Repost
    <3>2. job' = job /\ applied' = applied
      BY <1>15 DEF Repost, devVars
    <3> QED
      <4>1. CASE strand' = strand
        BY <3>2, <4>1, LastSetupKept
      <4>2. CASE strand' = Append(strand, Acquire)
        BY <3>2, <4>2, HandlerTypes, HandlerKinds, LastSetupAppend
      <4> QED
        BY <3>1, <4>1, <4>2
  <2> QED
    BY <1>15, <2>1, SettingsOnStrand DEF Repost, threadVars
<1>16. CASE OnTimer
  <2>1. \A m : LastSetup(m) => LastSetup(m)'
    BY <1>16, HandlerTypes, HandlerKinds, LastSetupAppend DEF OnTimer, devVars
  <2> QED
    BY <1>16, <2>1, SettingsOnStrand DEF OnTimer, threadVars
<1>17. CASE Kill
  <2>1. /\ life # "down" /\ life' = "down" /\ UNCHANGED <<file, method, arg, overlap>>
        /\ \A t \in Threads : pc'[t] = "idle"
    BY <1>17 DEF Kill, Die
  <2>2. ASSUME overlap = "none", file \in Method
        PROVE  file = method \/ \E t \in Threads : file = arg[t]
    <3>1. CASE \A t \in Threads : pc[t] \in {"idle", "copy", "open"}
      BY <2>1, <2>2, <3>1, ThreadTurns DEF SettingsInv, TypeOK
    <3>2. ASSUME NEW t \in Threads, pc[t] \notin {"idle", "copy", "open"}
          PROVE  file = method \/ \E u \in Threads : file = arg[u]
      <4>1. Stands(t) /\ pc[t] # "stale" /\ file # Empty
        BY <1>5, <2>2, <3>2, ValsAssumption DEF Stands
      <4> QED
        BY <3>2, <4>1 DEF Stands, TypeOK
    <3> QED
      BY <3>1, <3>2
  <2> QED
    BY <2>1, <2>2 DEF SettingsInv
<1>18. CASE UNCHANGED vars
  <2>1. \A m : LastSetup(m) => LastSetup(m)'
    <3>1. strand' = strand /\ job' = job /\ applied' = applied
      BY <1>18 DEF vars, strandVars, devVars
    <3> QED
      BY <3>1, LastSetupKept
  <2> QED
    BY <1>18, <2>1, SettingsOnStrand DEF vars, threadVars
<1> QED
  BY <1>1, <1>2, <1>3, <1>4, <1>6, <1>7, <1>8, <1>9, <1>11, <1>12, <1>13, <1>14, <1>15,
     <1>16, <1>17, <1>18
     DEF Next, PrepareForRun, StrandStep

LEMMA SettingsInvariant == Spec => [](TypeInv /\ SettingsInv)
BY TypeInit, TypeStep, SettingsInit, SettingsStep, PTL DEF Spec

(* Between hand-overs that did not overlap the file and method_ are the same,*)
(* and once no setup is waiting the instrument was last set up for them      *)
(* (Task!SettingsAgree).                                                     *)
THEOREM SettingsInAgreement == Spec => []SettingsAgree
<1>1. SettingsInv => SettingsAgree
  BY DEF SettingsInv, SettingsAgree, LastSetup
<1> QED
  BY <1>1, SettingsInvariant, PTL

(* A request of the web page changes one part of the settings in force and   *)
(* keeps the others, unless another hand-over overlaps it: between copying   *)
(* method_ and replacing it no one else replaces it (Task!EditKeepsTheRest). *)
THEOREM EditIsLocal == Spec => EditKeepsTheRest
<1>1. TypeInv /\ SettingsInv /\ [Next]_vars =>
        (pc["http"] = "publish" /\ pc'["http"] = "post" /\ overlap # "now"
           => \E s \in Subs : \A r \in Subs \ {s} : method'[r] = method[r])
  <2> SUFFICES ASSUME TypeInv, SettingsInv, [Next]_vars,
                      pc["http"] = "publish", pc'["http"] = "post", overlap # "now"
               PROVE  \E s \in Subs : \A r \in Subs \ {s} : method'[r] = method[r]
    OBVIOUS
  <2>1. arg["http"] \in Edited(method)
    BY ThreadTurns DEF SettingsInv, Stands
  <2>2. method' = arg["http"]
    BY ThreadTurns
       DEF TypeInv, TypeOK, Next, Start, CopyMethod, ModifyMethod, GuiApply, PrepareForRun, OpenFile,
           WriteFile, Publish, PostSetup, TestFlag, PostAcquire, Return, StrandStep, Dispatch,
           RunSetup, Repost, Arm, Store, ReadTemperature, OnTimer, Kill, Die, vars, threadVars
  <2>3. "hor" \in Subs
    BY DEF Subs
  <2>4. CASE method' = method
    BY <2>3, <2>4
  <2>5. ASSUME NEW s \in Subs, NEW v \in Vals, method' = [method EXCEPT ![s] = v]
        PROVE  \E p \in Subs : \A r \in Subs \ {p} : method'[r] = method[r]
    <3>1. \A r \in Subs \ {s} : method'[r] = method[r]
      BY <2>5
    <3> QED
      BY <3>1
  <2> QED
    BY <2>1, <2>2, <2>4, <2>5 DEF Edited
<1> QED
  BY <1>1, SettingsInvariant, PTL DEF Spec, EditKeepsTheRest

(* A restart takes up the settings last in force or the ones a thread was    *)
(* still handing over when the process died, unless the file was caught      *)
(* empty or torn, or last written by hand-overs that overlapped: no edit     *)
(* that had been completed is lost (Task!RestartRestores).                   *)
THEOREM RestartTakesUp == Spec => RestartRestores
<1>1. TypeInv /\ SettingsInv /\ [Next]_vars =>
        (life = "down" /\ life' = "starting" /\ file \in Method /\ overlap = "none"
           => arg'["main"] \in ({method} \cup {arg[t] : t \in Threads}) \ {NoMethod})
  <2> SUFFICES ASSUME TypeInv, SettingsInv, [Next]_vars,
                      life = "down", life' = "starting", file \in Method, overlap = "none"
               PROVE  arg'["main"] \in ({method} \cup {arg[t] : t \in Threads}) \ {NoMethod}
    OBVIOUS
  <2>1. Start
    BY DEF Next, Start, CopyMethod, ModifyMethod, GuiApply, PrepareForRun, OpenFile,
           WriteFile, Publish, PostSetup, TestFlag, PostAcquire, Return, StrandStep, Dispatch,
           RunSetup, Repost, Arm, Store, ReadTemperature, OnTimer, Kill, Die, vars
  <2>2. arg'["main"] = file
    BY <2>1, ThreadTurns, ValsAssumption DEF Start, Loaded, Damaged, TypeInv, TypeOK
  <2>3. file \in {method} \cup {arg[t] : t \in Threads}
    BY DEF SettingsInv
  <2>4. file # NoMethod
    BY ValsAssumption
  <2> QED
    BY <2>2, <2>3, <2>4
<1> QED
  BY <1>1, SettingsInvariant, PTL DEF Spec, RestartRestores

=============================================================================
