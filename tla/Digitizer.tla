----------------------------- MODULE Digitizer -----------------------------
(* The driver of the instrument (digitizer.cpp, digitizer.hpp), call by call:*)
(* finding it, one setup after each edit of the method, and acquisitions.    *)
(* Every call of the instrument library may do as asked, adapt the setting,  *)
(* or refuse; the driver goes on in all three cases.  The strand runs setups *)
(* and acquisitions one at a time (module Task): between the calls of one    *)
(* nothing else touches the instrument.                                      *)
EXTENDS MethodEdit, Sequences, FiniteSets

CONSTANTS
  Fronts,      \* settings of trigger and channels the Qt widgets hand over ...
  TimeBases,   \* ... with each of these time bases
  MaxOdd       \* bound: calls of one setup not done as asked

ASSUME DigitizerAssumption ==
  /\ MaxOdd \in Nat
  /\ Fronts \subseteq [ext : BOOLEAN, source : {"ext", "channel", "none"}, ch2 : BOOLEAN]
  /\ TimeBases \subseteq [delayTime : Nat, sampInterval : Nat \ {0}, nbrSamples : Nat]

VARIABLES
  front,     \* the external trigger's range and channel 2 are enabled or not;
             \* where the trigger pattern takes the trigger from, "none" in a
             \* method without a trigger part
  hor,       \* the method has a time base (it may be started without)
  pending,   \* an edit whose setup has not begun
  session,   \* inst_ is a session of the library
  bits,      \* nbrADCBits_
  call,      \* the next call of findDevice, digitizer_setup or acquire
  taken,     \* what the instrument made of each part of the last setup
  odd,       \* calls of this setup not done as asked
  trigger,   \* trigChannel, and the external range in force when its level was set
  inst,      \* the instrument: delay, sampling interval, samples of its memory
  driver,    \* delayTime_ and nbrSamples_
  wave       \* the waveform being read

outcomeVars == <<taken, odd>>
driverVars == <<front, hor, pending, session, bits, call, outcomeVars, trigger, inst,
                driver, wave>>

(* Mutant: the trigger is set before the range of the external input.        *)
SetupOrder_TriggerFirst == <<"trigClass", "trigSource", "ext", "ch1", "ch2", "hor", "mem">>

(* The parts in the order digitizer_setup configures them.                   *)
SetupOrder == <<"ext", "trigClass", "trigSource", "ch1", "ch2", "hor", "mem">>

Part == {SetupOrder[i] : i \in DOMAIN SetupOrder}
After(p) == LET i == CHOOSE j \in DOMAIN SetupOrder : SetupOrder[j] = p
            IN  IF i = Len(SetupOrder) THEN "idle" ELSE SetupOrder[i + 1]

(* What the instrument made of a part: as asked; other values, which the     *)
(* driver read back, or could not; refused, or not configured.               *)
Result == {"asked", "told", "untold", "older"}
Unset == [delay |-> 0, samples |-> 0]
NoWave == [samples |-> 0, words |-> 0, interval |-> 1, label |-> 0, delay |-> 0]

DriverTypeOK ==
  /\ TypeOK
  /\ front \in Fronts /\ hor \in BOOLEAN
  /\ pending \in BOOLEAN /\ session \in BOOLEAN
  /\ bits \in {8, 10}
  /\ call \in Part \cup {"find", "idle", "wait", "read", "store"}
  /\ taken \in [Part -> Result]
  /\ odd \in 0..MaxOdd
  /\ trigger \in [on : {"ext", "channel"}, range : Result]
  /\ inst \in [delay : Nat, interval : Nat \ {0}, samples : Nat]
  /\ driver \in [delay : Nat, samples : Nat]
  /\ wave \in [samples : Nat, words : Nat, interval : Nat, label : Nat, delay : Nat]

DriverInit ==
  /\ Init
  /\ front \in Fronts /\ hor \in BOOLEAN /\ pending = TRUE
  /\ session = FALSE /\ bits = 8 /\ call = "find"
  /\ taken = [p \in Part |-> "older"]
  /\ odd = 0
  /\ trigger = [on |-> "channel", range |-> "older"]
  /\ inst = [delay |-> 0, interval |-> DefaultInterval, samples |-> 0]
  /\ driver = Unset
  /\ wave = NoWave

(* initialize() and findDevice(): a session, and the width of its samples    *)
(* when the library tells it, 8 bits otherwise.  Their results are ignored:  *)
(* without a session every later call fails.                                 *)
FindDevice ==
  /\ call = "find"
  /\ \/ session' = TRUE /\ bits' \in {8, 10}
     \/ UNCHANGED <<session, bits>>
  /\ call' = "idle"
  /\ UNCHANGED <<vars, front, hor, pending, outcomeVars, trigger, inst, driver, wave>>

(* The Qt widgets hand over all they show, whatever the page asked for.      *)
HandOver ==
  /\ front' \in Fronts /\ hor' = TRUE
  /\ \E base \in TimeBases : /\ delayTime' = base.delayTime
                            /\ sampInterval' = base.sampInterval
                            /\ nbrSamples' = base.nbrSamples
  /\ fullScale' \in Scales /\ offset' \in Offsets
  /\ width' = None /\ rate' = None

(* An edit of the page, which creates the part it edits, or of the widgets.  *)
Edit ==
  /\ call = "idle" /\ ~pending
  /\ \/ EditHorizontal /\ hor' = TRUE /\ UNCHANGED front
     \/ EditChannel /\ UNCHANGED <<front, hor>>
     \/ HandOver
  /\ pending' = TRUE
  /\ UNCHANGED <<session, bits, call, outcomeVars, trigger, inst, driver, wave>>

-----------------------------------------------------------------------------
(* digitizer_setup                                                           *)

(* configMultiInput, configControlIO: their results are only logged.         *)
BeginSetup ==
  /\ call = "idle" /\ pending
  /\ pending' = FALSE
  /\ taken' = [p \in Part |-> "older"]
  /\ odd' = 0
  /\ call' = SetupOrder[1]
  /\ UNCHANGED <<vars, front, hor, session, bits, trigger, inst, driver, wave>>

Odd == odd < MaxOdd /\ odd' = odd + 1

(* A call that configures part p is done as asked, adapted and read back,    *)
(* adapted and not read back, or refused.  The adapted method that           *)
(* digitizer_setup returns is dropped by its only caller (task.cpp:174).     *)
Asked(p) ==
  /\ session
  /\ taken' = [taken EXCEPT ![p] = "asked"]
  /\ UNCHANGED odd
Adapted(p) ==
  /\ session /\ Odd
  /\ \E result \in {"told", "untold"} : taken' = [taken EXCEPT ![p] = result]
Refused(p) ==
  /\ IF session THEN Odd ELSE UNCHANGED odd
  /\ UNCHANGED taken

Outcome(p) == Asked(p) \/ Adapted(p) \/ Refused(p)

At(p) == call = p /\ call' = After(p)
Fixed == UNCHANGED <<vars, front, hor, pending, session, bits, wave>>

(* The parts of the method, and the inputs that are enabled.                 *)
Present(p) ==
  CASE p = "ext" -> front.ext
    [] p = "ch2" -> front.ch2
    [] p \in {"trigClass", "trigSource"} -> front.source # "none"
    [] p \in {"hor", "mem"} -> hor
    [] OTHER -> TRUE

Configures(p) == At(p) /\ Present(p) /\ Outcome(p)

Skip(p) ==
  /\ At(p) /\ ~Present(p)
  /\ Fixed /\ UNCHANGED <<outcomeVars, trigger, inst, driver>>

(* configVertical of the external input and the channels.                    *)
ConfigVertical(p) ==
  /\ Configures(p)
  /\ Fixed /\ UNCHANGED <<trigger, inst, driver>>

(* The trigger's channel follows the pattern asked for, or the one adapted   *)
(* to and read back.                                                         *)
ConfigTrigClass ==
  /\ Configures("trigClass")
  /\ \E on \in IF taken'["trigClass"] = "told" THEN {"ext", "channel"} ELSE {front.source} :
       trigger' = [trigger EXCEPT !.on = on]
  /\ Fixed /\ UNCHANGED <<inst, driver>>

(* A level of the external trigger counts under the range it is set under.   *)
ConfigTrigSource ==
  /\ Configures("trigSource")
  /\ trigger' = [trigger EXCEPT !.range = IF taken'["trigSource"] = "older" THEN @
                                          ELSE taken["ext"]]
  /\ Fixed /\ UNCHANGED <<inst, driver>>

(* Mutant: the delay read back goes into the returned method only.           *)
ConfigHorizontal_KeepsDelay ==
  /\ Configures("hor")
  /\ driver' = [driver EXCEPT !.delay = delayTime, !.samples = nbrSamples]
  /\ inst' = CASE taken'["hor"] = "asked" ->
                    [inst EXCEPT !.delay = delayTime, !.interval = sampInterval]
               [] taken'["hor"] \in {"told", "untold"} ->
                    [inst EXCEPT !.delay = delayTime + 1, !.interval = 2 * sampInterval]
               [] OTHER -> inst
  /\ Fixed /\ UNCHANGED trigger

(* configHorizontal: the driver remembers what was asked for, and the delay  *)
(* read back.  The instrument adapts to other values than those asked for.   *)
ConfigHorizontal ==
  /\ Configures("hor")
  /\ inst' = CASE taken'["hor"] = "asked" ->
                    [inst EXCEPT !.delay = delayTime, !.interval = sampInterval]
               [] taken'["hor"] \in {"told", "untold"} ->
                    [inst EXCEPT !.delay = delayTime + 1, !.interval = 2 * sampInterval]
               [] OTHER -> inst
  /\ driver' = [delay   |-> IF taken'["hor"] = "told" THEN inst'.delay ELSE delayTime,
                samples |-> nbrSamples]
  /\ Fixed /\ UNCHANGED trigger

(* configMemory, then configMode, whose result is only logged.               *)
ConfigMemory ==
  /\ Configures("mem")
  /\ inst' = CASE taken'["mem"] = "asked" -> [inst EXCEPT !.samples = nbrSamples]
               [] taken'["mem"] \in {"told", "untold"} ->
                    [inst EXCEPT !.samples = nbrSamples \div 2]
               [] OTHER -> inst
  /\ driver' = [driver EXCEPT !.samples = IF taken'["mem"] = "told" THEN inst'.samples ELSE @]
  /\ Fixed /\ UNCHANGED trigger

Setup == \/ BeginSetup
         \/ \E p \in Part : Skip(p)
         \/ \E p \in {"ext", "ch1", "ch2"} : ConfigVertical(p)
         \/ ConfigTrigClass \/ ConfigTrigSource \/ ConfigHorizontal \/ ConfigMemory

-----------------------------------------------------------------------------
(* task::acquire                                                             *)

acquireFixed == <<vars, front, hor, pending, session, bits, outcomeVars, trigger, inst,
                  driver>>

(* Started; one that is refused is stopped and leaves things as they are.    *)
(* The strand has run a setup before (SetupBeforeAcquire of module Task); the*)
(* members of a driver that was never given a time base are Task's subject.  *)
Acquire ==
  /\ call = "idle" /\ driver # Unset
  /\ session
  /\ call' = "wait"
  /\ UNCHANGED <<acquireFixed, wave>>

(* waitForEndOfAcquisition: over, or an error; an unknown status counts as   *)
(* over.                                                                     *)
WaitForEnd ==
  /\ call = "wait"
  /\ call' \in {"read", "idle"}
  /\ UNCHANGED <<acquireFixed, wave>>

SizeOfSample == IF bits <= 8 THEN 1 ELSE 2
DataArraySize(n) == (n + 32) * SizeOfSample      \* in bytes

(* Mutant: the size is not rounded up to whole words.                        *)
Words_RoundsDown(n) == DataArraySize(n) \div 4

Words(n) == (DataArraySize(n) + 3) \div 4        \* data.resize

(* readData asks for nbrSamples_ samples; the waveform gets delayTime_.      *)
ReadData ==
  /\ call = "read"
  /\ call' = "store"
  /\ wave' = [samples |-> driver.samples, words |-> Words(driver.samples),
              interval |-> inst.interval, label |-> driver.delay, delay |-> inst.delay]
  /\ UNCHANGED acquireFixed

(* The waveform goes to dataStorage, whatever the read returned.             *)
Store ==
  /\ call = "store"
  /\ call' = "idle"
  /\ wave' = NoWave
  /\ UNCHANGED acquireFixed

DriverNext == FindDevice \/ Edit \/ Setup \/ Acquire \/ WaitForEnd \/ ReadData \/ Store

DriverSpec == DriverInit /\ [][DriverNext]_<<vars, driverVars>>

-----------------------------------------------------------------------------
(* The settings the page asked for are in force: the last edit was set up    *)
(* and the instrument did as asked.                                          *)
InForce == ~pending /\ taken["hor"] = "asked" /\ taken["mem"] = "asked"
Known == {taken["hor"], taken["mem"]} \subseteq {"asked", "told"}

(* A waveform covers the width asked for, to one sample, in whatever order   *)
(* rates and widths were edited, until the interval changes under the width: *)
(* what task.cpp:138-150 computes, digitizer.cpp:288-325 configures and      *)
(* digitizer.hpp:82 reads.                                                   *)
WaveCoversWidth ==
  call = "store" /\ InForce /\ width # None =>
    /\ wave.samples * wave.interval <= width * Microsecond
    /\ width * Microsecond <= (wave.samples + 1) * wave.interval

(* The driver reads the samples there are and labels them with the delay     *)
(* they were taken with, also when the instrument adapted the time base, as  *)
(* long as it told (digitizer.cpp:290-319, task.cpp:224).                    *)
WaveAsTaken ==
  call = "store" /\ Known => wave.label = wave.delay /\ wave.samples = inst.samples

(* Every variable keeps its type, and the buffer of readData holds the bytes *)
(* it offers the library, for samples of either width (digitizer.hpp:84-91). *)
BufferHoldsRead ==
  /\ DriverTypeOK
  /\ call = "store" => 4 * wave.words >= DataArraySize(wave.samples)

(* The level of an external trigger is set under the range of the same       *)
(* method, as the instrument took it, in a method that enables the external  *)
(* input and whose range the instrument did not refuse (digitizer.cpp:197:   *)
(* configVertical of channel -1 must be done before configTrigSource).       *)
(* Otherwise the level is set under the range left by an older method.       *)
LevelUnderItsRange ==
  call \in {"idle", "wait"} /\ trigger.on = "ext"
      /\ taken["trigSource"] # "older" /\ taken["ext"] # "older"
    => trigger.range = taken["ext"]
=============================================================================
