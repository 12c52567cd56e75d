--------------------------- MODULE Digitizer_proofs ---------------------------
(* Theorems about Digitizer and the edits it serves (MethodEdit), for every  *)
(* rate, width, delay and bound on calls that are not done as asked.         *)
EXTENDS Digitizer, TLAPS

-----------------------------------------------------------------------------
(* The order of a setup                                                      *)

LEMMA Order ==
  /\ Part = {"ext", "trigClass", "trigSource", "ch1", "ch2", "hor", "mem"}
  /\ After("ext") = "trigClass" /\ After("trigClass") = "trigSource"
  /\ After("trigSource") = "ch1" /\ After("ch1") = "ch2" /\ After("ch2") = "hor"
  /\ After("hor") = "mem" /\ After("mem") = "idle"
  /\ SetupOrder[1] = "ext"
<1>1. /\ DOMAIN SetupOrder = 1..7 /\ Len(SetupOrder) = 7
      /\ SetupOrder[1] = "ext" /\ SetupOrder[2] = "trigClass" /\ SetupOrder[3] = "trigSource"
      /\ SetupOrder[4] = "ch1" /\ SetupOrder[5] = "ch2" /\ SetupOrder[6] = "hor"
      /\ SetupOrder[7] = "mem"
  BY DEF SetupOrder
<1>2. \A i \in 1..7 : i = 1 \/ i = 2 \/ i = 3 \/ i = 4 \/ i = 5 \/ i = 6 \/ i = 7
  OBVIOUS
<1>3. Part = {"ext", "trigClass", "trigSource", "ch1", "ch2", "hor", "mem"}
  BY <1>1, <1>2 DEF Part
<1>4. ASSUME NEW n \in 1..7, NEW p, SetupOrder[n] = p
      PROVE  After(p) = IF n = 7 THEN "idle" ELSE SetupOrder[n + 1]
  <2>1. \A j \in 1..7 : SetupOrder[j] = p => j = n
    BY <1>1, <1>2, <1>4
  <2> DEFINE i == CHOOSE j \in DOMAIN SetupOrder : SetupOrder[j] = p
  <2>2. i = n
    BY <1>1, <1>4, <2>1
  <2>3. After(p) = IF i = Len(SetupOrder) THEN "idle" ELSE SetupOrder[i + 1]
    BY DEF After
  <2> HIDE DEF i
  <2> QED
    BY <1>1, <2>2, <2>3
<1> QED
  BY <1>1, <1>3, <1>4

-----------------------------------------------------------------------------
(* Type correctness                                                          *)

LEMMA Quotient ==
  ASSUME NEW a \in Nat, NEW b \in Nat \ {0}
  PROVE  /\ a \div b \in Nat
         /\ (a \div b) * b <= a /\ a < (a \div b) * b + b
OBVIOUS

LEMMA WordsType ==
  ASSUME bits \in {8, 10}, NEW n \in Nat
  PROVE  Words(n) \in Nat /\ 4 * Words(n) >= DataArraySize(n)
<1>1. (n + 32) * SizeOfSample \in Nat
  BY DEF SizeOfSample
<1> QED
  BY <1>1 DEF Words, DataArraySize

LEMMA EditTypes == TypeOK /\ [Next]_vars => TypeOK'
<1> SUFFICES ASSUME TypeOK, [Next]_vars PROVE TypeOK'
  OBVIOUS
<1> USE EditAssumption DEF TypeOK, horVars, chVars
<1>1. ASSUME NEW value \in Delays, EditDelay(value) PROVE TypeOK'
  BY <1>1 DEF EditDelay, Microsecond
<1>2. ASSUME NEW value \in Widths, EditWidth(value) PROVE TypeOK'
  <2>1. value * Microsecond \in Nat \ {0}
    BY DEF Microsecond
  <2> DEFINE exact == (value * Microsecond) \div sampInterval
  <2>2. exact \in Nat
    BY <2>1, Quotient
  <2>3. exact * sampInterval = value * Microsecond => exact # 0
    BY <2>1
  <2>4. nbrSamples' \in Nat
    BY <1>2, <2>2, <2>3 DEF EditWidth
  <2> QED
    BY <1>2, <2>4 DEF EditWidth
<1>3. ASSUME NEW value \in Rates, EditRate(value) PROVE TypeOK'
  BY <1>3 DEF EditRate, Interval
<1>4. ASSUME NEW value \in Scales, EditFullScale(value) PROVE TypeOK'
  BY <1>4 DEF EditFullScale
<1>5. ASSUME NEW value \in Offsets, EditOffset(value) PROVE TypeOK'
  BY <1>5 DEF EditOffset
<1>6. CASE UNCHANGED vars
  BY <1>6 DEF vars
<1> QED
  BY <1>1, <1>2, <1>3, <1>4, <1>5, <1>6 DEF Next, EditHorizontal, EditChannel

(* The widgets hand over numbers of these types.                             *)
LEMMA HandOverTypes ==
  ASSUME HandOver
  PROVE  /\ TypeOK' /\ front' \in Fronts /\ hor'
         /\ width' = None
<1>1. PICK base \in TimeBases : /\ delayTime' = base.delayTime
                               /\ sampInterval' = base.sampInterval
                               /\ nbrSamples' = base.nbrSamples
  BY DEF HandOver
<1>2. /\ base.delayTime \in Nat /\ base.sampInterval \in Nat \ {0}
      /\ base.nbrSamples \in Nat
  BY DigitizerAssumption
<1> QED
  BY <1>1, <1>2 DEF HandOver, TypeOK

(* The numbers of the method in the units of the instrument.                 *)
LEMMA NumberTypes ==
  ASSUME TypeOK
  PROVE  /\ delayTime \in Nat /\ nbrSamples \in Nat
         /\ sampInterval \in Nat \ {0} /\ 2 * sampInterval \in Nat \ {0}
         /\ delayTime + 1 \in Nat /\ nbrSamples \div 2 \in Nat
<1>1. delayTime \in Nat
  BY DEF TypeOK
<1>2. nbrSamples \div 2 \in Nat
  BY Quotient DEF TypeOK
<1> QED
  BY <1>1, <1>2 DEF TypeOK

LEMMA DriverTypeInit == DriverInit => DriverTypeOK
<1> SUFFICES ASSUME DriverInit PROVE DriverTypeOK
  OBVIOUS
<1>1. TypeOK
  BY EditAssumption DEF DriverInit, Init, TypeOK
<1>2. odd \in 0..MaxOdd
  BY DigitizerAssumption DEF DriverInit
<1>3. taken \in [Part -> Result] /\ trigger \in [on : {"ext", "channel"}, range : Result]
  BY DEF DriverInit, Result
<1>4. inst \in [delay : Nat, interval : Nat \ {0}, samples : Nat]
  BY EditAssumption DEF DriverInit
<1>5. /\ driver \in [delay : Nat, samples : Nat]
      /\ wave \in [samples : Nat, words : Nat, interval : Nat, label : Nat, delay : Nat]
  BY DEF DriverInit, Unset, NoWave
<1> QED
  BY <1>1, <1>2, <1>3, <1>4, <1>5 DEF DriverInit, DriverTypeOK

LEMMA OutcomeTypes ==
  ASSUME DriverTypeOK, NEW p \in Part, Outcome(p)
  PROVE  /\ taken' \in [Part -> Result] /\ odd' \in 0..MaxOdd
         /\ \A q \in Part \ {p} : taken'[q] = taken[q]
<1>1. odd' \in 0..MaxOdd
  BY DigitizerAssumption DEF Outcome, Asked, Adapted, Refused, Odd, DriverTypeOK
<1>2. taken' \in [Part -> Result] /\ \A q \in Part \ {p} : taken'[q] = taken[q]
  BY DEF Outcome, Asked, Adapted, Refused, Result, DriverTypeOK
<1> QED
  BY <1>1, <1>2

LEMMA DriverTypeStep ==
  DriverTypeOK /\ [DriverNext]_<<vars, driverVars>> => DriverTypeOK'
<1> SUFFICES ASSUME DriverTypeOK, [DriverNext]_<<vars, driverVars>> PROVE DriverTypeOK'
  OBVIOUS
<1>0. ASSUME UNCHANGED vars PROVE TypeOK'
  BY <1>0 DEF vars, horVars, chVars, TypeOK, DriverTypeOK
<1>1. CASE FindDevice
  BY <1>0, <1>1 DEF FindDevice, DriverTypeOK, outcomeVars
<1>2. CASE Edit
  <2>1. /\ TypeOK' /\ front' \in Fronts /\ hor' \in BOOLEAN
    <3>1. CASE [Next]_vars /\ front' = front /\ hor' \in {hor, TRUE}
      BY <3>1, EditTypes DEF DriverTypeOK
    <3>2. CASE HandOver
      BY <3>2, HandOverTypes
    <3> QED
      BY <1>2, <3>1, <3>2 DEF Edit, Next
  <2> QED
    BY <1>2, <2>1 DEF Edit, DriverTypeOK, outcomeVars
<1>3. CASE BeginSetup
  <2>1. taken' \in [Part -> Result] /\ odd' \in 0..MaxOdd
    BY <1>3, DigitizerAssumption DEF BeginSetup, Result
  <2>2. call' \in Part /\ TypeOK'
    BY <1>0, <1>3, Order DEF BeginSetup
  <2> QED
    BY <1>3, <2>1, <2>2 DEF BeginSetup, DriverTypeOK
<1>4. ASSUME NEW p \in {"ext", "ch1", "ch2"}, ConfigVertical(p) PROVE DriverTypeOK'
  <2>1. taken' \in [Part -> Result] /\ odd' \in 0..MaxOdd
    BY <1>4, Order, OutcomeTypes DEF ConfigVertical, Configures
  <2>2. call' \in Part /\ TypeOK'
    BY <1>0, <1>4, Order DEF ConfigVertical, Configures, At, Fixed
  <2> QED
    BY <1>4, <2>1, <2>2 DEF ConfigVertical, Fixed, DriverTypeOK
<1>5. CASE ConfigTrigClass
  <2>1. taken' \in [Part -> Result] /\ odd' \in 0..MaxOdd
    BY <1>5, Order, OutcomeTypes DEF ConfigTrigClass, Configures
  <2>2. call' \in Part /\ TypeOK'
    BY <1>0, <1>5, Order DEF ConfigTrigClass, Configures, At, Fixed
  <2>3. trigger' \in [on : {"ext", "channel"}, range : Result]
    <3>1. front.source \in {"ext", "channel"}
      <4>1. front.source # "none"
        BY <1>5, Order DEF ConfigTrigClass, Configures, Present
      <4> QED
        BY <4>1, DigitizerAssumption DEF DriverTypeOK
    <3>2. PICK on \in {"ext", "channel"} : trigger' = [trigger EXCEPT !.on = on]
      BY <1>5, <3>1 DEF ConfigTrigClass
    <3> QED
      BY <3>2 DEF DriverTypeOK
  <2> QED
    BY <1>5, <2>1, <2>2, <2>3 DEF ConfigTrigClass, Fixed, DriverTypeOK
<1>6. CASE ConfigTrigSource
  <2>1. taken' \in [Part -> Result] /\ odd' \in 0..MaxOdd
    BY <1>6, Order, OutcomeTypes DEF ConfigTrigSource, Configures
  <2>2. call' \in Part /\ TypeOK'
    BY <1>0, <1>6, Order DEF ConfigTrigSource, Configures, At, Fixed
  <2>3. trigger' \in [on : {"ext", "channel"}, range : Result]
    <3>1. trigger.range \in Result /\ taken["ext"] \in Result
      BY Order DEF DriverTypeOK
    <3> QED
      BY <1>6, <3>1 DEF ConfigTrigSource, DriverTypeOK
  <2> QED
    BY <1>6, <2>1, <2>2, <2>3 DEF ConfigTrigSource, Fixed, DriverTypeOK
<1>7. CASE ConfigHorizontal
  <2>1. taken' \in [Part -> Result] /\ odd' \in 0..MaxOdd
    BY <1>7, Order, OutcomeTypes DEF ConfigHorizontal, Configures
  <2>2. call' \in Part /\ TypeOK'
    BY <1>0, <1>7, Order DEF ConfigHorizontal, Configures, At, Fixed
  <2>3. inst' \in [delay : Nat, interval : Nat \ {0}, samples : Nat]
    BY <1>7, NumberTypes DEF ConfigHorizontal, DriverTypeOK
  <2>4. driver' \in [delay : Nat, samples : Nat]
    BY <1>7, <2>3, NumberTypes DEF ConfigHorizontal, DriverTypeOK
  <2> QED
    BY <1>7, <2>1, <2>2, <2>3, <2>4 DEF ConfigHorizontal, Fixed, DriverTypeOK
<1>8. CASE ConfigMemory
  <2>1. taken' \in [Part -> Result] /\ odd' \in 0..MaxOdd
    BY <1>8, Order, OutcomeTypes DEF ConfigMemory, Configures
  <2>2. call' = "idle" /\ TypeOK'
    BY <1>0, <1>8, Order DEF ConfigMemory, Configures, At, Fixed
  <2>3. inst' \in [delay : Nat, interval : Nat \ {0}, samples : Nat]
    BY <1>8, NumberTypes DEF ConfigMemory, DriverTypeOK
  <2>4. driver' \in [delay : Nat, samples : Nat]
    BY <1>8, <2>3 DEF ConfigMemory, DriverTypeOK
  <2> QED
    BY <1>8, <2>1, <2>2, <2>3, <2>4 DEF ConfigMemory, Fixed, DriverTypeOK
<1>9. CASE Acquire \/ WaitForEnd
  BY <1>0, <1>9 DEF Acquire, WaitForEnd, acquireFixed, outcomeVars, DriverTypeOK
<1>10. CASE ReadData
  <2>1. Words(driver.samples) \in Nat
    BY WordsType DEF DriverTypeOK
  <2>2. wave' \in [samples : Nat, words : Nat, interval : Nat, label : Nat, delay : Nat]
    BY <1>10, <2>1 DEF ReadData, DriverTypeOK
  <2> QED
    BY <1>0, <1>10, <2>2 DEF ReadData, acquireFixed, outcomeVars, DriverTypeOK
<1>11. CASE Store
  <2>1. wave' \in [samples : Nat, words : Nat, interval : Nat, label : Nat, delay : Nat]
    BY <1>11 DEF Store, NoWave
  <2> QED
    BY <1>0, <1>11, <2>1 DEF Store, acquireFixed, outcomeVars, DriverTypeOK
<1>12. CASE UNCHANGED <<vars, driverVars>>
  BY <1>0, <1>12 DEF driverVars, outcomeVars, DriverTypeOK
<1>13. ASSUME NEW p \in Part, Skip(p) PROVE DriverTypeOK'
  <2>1. call' \in Part \cup {"idle"} /\ TypeOK'
    BY <1>0, <1>13, Order DEF Skip, At, Fixed
  <2> QED
    BY <1>13, <2>1 DEF Skip, Fixed, outcomeVars, DriverTypeOK
<1> QED
  BY <1>1, <1>2, <1>3, <1>4, <1>5, <1>6, <1>7, <1>8, <1>9, <1>10, <1>11, <1>12, <1>13
     DEF DriverNext, Setup

LEMMA DriverTypes == DriverSpec => []DriverTypeOK
BY DriverTypeInit, DriverTypeStep, PTL DEF DriverSpec

-----------------------------------------------------------------------------
(* A setup runs down its parts                                               *)

(* What the setup has not come to yet is older than the setup.               *)
OrderInv ==
  /\ call \in {"ext", "trigClass", "trigSource"} => taken["trigSource"] = "older"
  /\ call \in Part \ {"mem"} => taken["hor"] = "older"
  /\ call \in Part => taken["mem"] = "older" /\ ~pending

(* A trigger level that was set since, was set under the range in force.     *)
LevelInv == taken["trigSource"] # "older" => trigger.range = taken["ext"]

(* Where the driver and the instrument agree, and what they agree on.        *)
Agreed ==
  /\ taken["hor"] \in {"asked", "told"} => driver.delay = inst.delay
  /\ taken["mem"] \in {"asked", "told"} => driver.samples = inst.samples
  /\ call = "mem" /\ hor => driver.samples = nbrSamples
  /\ ~pending /\ taken["hor"] = "asked" => inst.interval = sampInterval
  /\ ~pending /\ taken["mem"] = "asked" => inst.samples = nbrSamples

(* The waveform being read is described by the driver.                       *)
ReadInv ==
  call = "store" =>
    wave = [samples |-> driver.samples, words |-> Words(driver.samples),
            interval |-> inst.interval, label |-> driver.delay, delay |-> inst.delay]

SetupInv == OrderInv /\ LevelInv /\ Agreed /\ ReadInv

LEMMA PartStep ==
  ASSUME DriverTypeOK, NEW p \in Part, Outcome(p)
  PROVE  /\ \A q \in Part : q # p => taken'[q] = taken[q]
         /\ taken'[p] \in {"asked", "told", "untold"} \/ taken'[p] = taken[p]
<1>1. \A q \in Part : q # p => taken'[q] = taken[q]
  BY OutcomeTypes
<1>2. taken'[p] \in {"asked", "told", "untold"} \/ taken'[p] = taken[p]
  BY DEF Outcome, Asked, Adapted, Refused, DriverTypeOK
<1> QED
  BY <1>1, <1>2

LEMMA SetupInit == DriverInit => SetupInv
BY Order DEF DriverInit, SetupInv, OrderInv, LevelInv, Agreed, ReadInv

LEMMA SetupStep ==
  DriverTypeOK /\ SetupInv /\ [DriverNext]_<<vars, driverVars>> => SetupInv'
<1> SUFFICES ASSUME DriverTypeOK, SetupInv, [DriverNext]_<<vars, driverVars>>
             PROVE  SetupInv'
  OBVIOUS
<1> USE DEF SetupInv, OrderInv, LevelInv, Agreed, ReadInv
<1>0. ASSUME UNCHANGED vars PROVE nbrSamples' = nbrSamples /\ sampInterval' = sampInterval
                                  /\ delayTime' = delayTime
  BY <1>0 DEF vars, horVars
<1>1. CASE FindDevice
  BY <1>0, <1>1, Order DEF FindDevice, outcomeVars
<1>2. CASE Edit
  BY <1>2, Order DEF Edit, outcomeVars
<1>3. CASE BeginSetup
  BY <1>0, <1>3, Order DEF BeginSetup
<1>4. ASSUME NEW p \in {"ext", "ch1", "ch2"}, ConfigVertical(p) PROVE SetupInv'
  <2>1. \A q \in {"trigSource", "hor", "mem"} : taken'[q] = taken[q]
    BY <1>4, Order, PartStep DEF ConfigVertical, Configures
  <2>2. p = "ext" \/ taken'["ext"] = taken["ext"]
    BY <1>4, Order, PartStep DEF ConfigVertical, Configures
  <2>3. /\ call = p /\ call' \in Part \ {"mem"}
        /\ p = "ext" => call' = "trigClass"
        /\ p # "ext" => call' \in {"ch2", "hor"}
    BY <1>4, Order DEF ConfigVertical, Configures, At
  <2> QED
    BY <1>0, <1>4, <2>1, <2>2, <2>3, Order DEF ConfigVertical, Fixed
<1>5. CASE ConfigTrigClass
  <2>1. \A q \in {"ext", "trigSource", "hor", "mem"} : taken'[q] = taken[q]
    BY <1>5, Order, PartStep DEF ConfigTrigClass, Configures
  <2>2. call = "trigClass" /\ call' = "trigSource"
    BY <1>5, Order DEF ConfigTrigClass, Configures, At
  <2>3. trigger'.range = trigger.range
    BY <1>5 DEF ConfigTrigClass, DriverTypeOK
  <2> QED
    BY <1>0, <1>5, <2>1, <2>2, <2>3, Order DEF ConfigTrigClass, Fixed
<1>6. CASE ConfigTrigSource
  <2>1. \A q \in {"ext", "hor", "mem"} : taken'[q] = taken[q]
    BY <1>6, Order, PartStep DEF ConfigTrigSource, Configures
  <2>2. call = "trigSource" /\ call' = "ch1"
    BY <1>6, Order DEF ConfigTrigSource, Configures, At
  <2>3. taken'["trigSource"] # "older" => trigger'.range = taken["ext"]
    BY <1>6 DEF ConfigTrigSource, DriverTypeOK
  <2> QED
    BY <1>0, <1>6, <2>1, <2>2, <2>3, Order DEF ConfigTrigSource, Fixed
<1>7. CASE ConfigHorizontal
  <2>1. /\ \A q \in {"ext", "trigSource", "mem"} : taken'[q] = taken[q]
        /\ taken["hor"] = "older" /\ taken["mem"] = "older"
    BY <1>7, Order, PartStep DEF ConfigHorizontal, Configures, At
  <2>2. call = "hor" /\ call' = "mem"
    BY <1>7, Order DEF ConfigHorizontal, Configures, At
  <2>3. driver'.samples = nbrSamples
    BY <1>7 DEF ConfigHorizontal
  <2>4. taken'["hor"] = "asked" => inst'.delay = delayTime /\ inst'.interval = sampInterval
    BY <1>7 DEF ConfigHorizontal, DriverTypeOK
  <2>5. taken'["hor"] \in {"asked", "told"} => driver'.delay = inst'.delay
    BY <1>7, <2>4 DEF ConfigHorizontal
  <2> QED
    BY <1>0, <1>7, <2>1, <2>2, <2>3, <2>4, <2>5, Order DEF ConfigHorizontal, Fixed
<1>8. CASE ConfigMemory
  <2>1. \A q \in {"ext", "trigSource", "hor"} : taken'[q] = taken[q]
    BY <1>8, Order, PartStep DEF ConfigMemory, Configures
  <2>2. call = "mem" /\ call' = "idle" /\ driver.samples = nbrSamples
    BY <1>8, Order DEF ConfigMemory, Configures, At, Present
  <2>3. inst'.delay = inst.delay /\ inst'.interval = inst.interval
    BY <1>8 DEF ConfigMemory, DriverTypeOK
  <2>4. /\ taken'["mem"] = "asked" => inst'.samples = nbrSamples
        /\ driver'.delay = driver.delay
        /\ taken'["mem"] = "asked" => driver'.samples = nbrSamples
        /\ taken'["mem"] = "told" => driver'.samples = inst'.samples
    BY <1>8, <2>2 DEF ConfigMemory, DriverTypeOK
  <2> QED
    BY <1>0, <1>8, <2>1, <2>2, <2>3, <2>4, Order DEF ConfigMemory, Fixed
<1>9. CASE Acquire \/ WaitForEnd
  BY <1>0, <1>9, Order DEF Acquire, WaitForEnd, acquireFixed, outcomeVars
<1>10. CASE ReadData
  <2>1. Words(driver.samples)' = Words(driver.samples)
    BY <1>10 DEF ReadData, acquireFixed, Words, DataArraySize, SizeOfSample
  <2> QED
    BY <1>0, <1>10, <2>1, Order DEF ReadData, acquireFixed, outcomeVars
<1>11. CASE Store
  BY <1>0, <1>11, Order DEF Store, acquireFixed, outcomeVars
<1>12. CASE UNCHANGED <<vars, driverVars>>
  <2>1. Words(driver.samples)' = Words(driver.samples)
    BY <1>12 DEF driverVars, Words, DataArraySize, SizeOfSample
  <2> QED
    BY <1>0, <1>12, <2>1 DEF driverVars, outcomeVars
<1>13. ASSUME NEW p \in Part, Skip(p) PROVE SetupInv'
  <2>1. /\ call = p /\ call' = After(p) /\ (p = "hor" => ~hor)
    BY <1>13 DEF Skip, At, Present
  <2>2. UNCHANGED <<vars, hor, pending, taken, trigger, inst, driver>>
    BY <1>13 DEF Skip, Fixed, outcomeVars
  <2>3. call' # "store" /\ hor' = hor /\ pending' = pending /\ taken' = taken
        /\ trigger' = trigger /\ inst' = inst /\ driver' = driver
    BY <2>1, <2>2, Order
  <2>4. OrderInv'
    BY <2>1, <2>3, Order
  <2>5. Agreed'
    BY <1>0, <2>1, <2>2, <2>3, Order
  <2> QED
    BY <2>3, <2>4, <2>5
<1> QED
  BY <1>1, <1>2, <1>3, <1>4, <1>5, <1>6, <1>7, <1>8, <1>9, <1>10, <1>11, <1>12, <1>13
     DEF DriverNext, Setup

LEMMA SetupHolds == DriverSpec => []SetupInv
BY SetupInit, SetupStep, DriverTypes, PTL DEF DriverSpec

-----------------------------------------------------------------------------
(* The samples of a width                                                    *)

(* The samples last asked for are those of the width in force, or one fewer. *)
WidthInv ==
  width # None =>
    /\ nbrSamples * sampInterval <= width * Microsecond
    /\ width * Microsecond <= (nbrSamples + 1) * sampInterval

LEMMA WidthStep == TypeOK /\ WidthInv /\ [Next]_vars => WidthInv'
<1> SUFFICES ASSUME TypeOK, WidthInv, [Next]_vars PROVE WidthInv'
  OBVIOUS
<1> USE DEF WidthInv
<1>1. ASSUME NEW value \in Widths, EditWidth(value) PROVE WidthInv'
  <2> DEFINE total == value * Microsecond
             exact == total \div sampInterval
  <2>1. /\ total \in Nat \ {0} /\ sampInterval \in Nat \ {0}
        /\ sampInterval' = sampInterval /\ width' = value
    BY <1>1, EditAssumption DEF EditWidth, Microsecond, TypeOK
  <2>2. exact \in Nat /\ exact * sampInterval <= total
        /\ total < exact * sampInterval + sampInterval
    BY <2>1, Quotient
  <2>3. CASE nbrSamples' = exact
    <3> HIDE DEF exact, total
    <3>1. total <= (exact + 1) * sampInterval
      BY <2>1, <2>2
    <3> QED
      BY <2>1, <2>2, <2>3, <3>1 DEF total
  <2>4. CASE exact * sampInterval = total /\ nbrSamples' = exact - 1
    <3> HIDE DEF exact, total
    <3>1. exact - 1 + 1 = exact /\ (exact - 1) * sampInterval <= total
      BY <2>1, <2>2, <2>4
    <3> QED
      BY <2>1, <2>2, <2>4, <3>1 DEF total
  <2> QED
    BY <1>1, <2>3, <2>4 DEF EditWidth
<1>2. ASSUME NEW value \in Rates, EditRate(value) PROVE WidthInv'
  BY <1>2 DEF EditRate
<1>3. CASE \/ \E value \in Delays : EditDelay(value)
           \/ \E value \in Scales : EditFullScale(value)
           \/ \E value \in Offsets : EditOffset(value)
           \/ UNCHANGED vars
  BY <1>3 DEF EditDelay, EditFullScale, EditOffset, vars, horVars
<1> QED
  BY <1>1, <1>2, <1>3 DEF Next, EditHorizontal, EditChannel

LEMMA WidthHolds == DriverSpec => []WidthInv
<1>1. DriverInit => WidthInv
  BY DEF DriverInit, Init, WidthInv
<1>2. DriverTypeOK /\ WidthInv /\ [DriverNext]_<<vars, driverVars>> => WidthInv'
  <2> SUFFICES ASSUME DriverTypeOK, WidthInv, [DriverNext]_<<vars, driverVars>>
               PROVE  WidthInv'
    OBVIOUS
  <2>1. [Next]_vars \/ HandOver
    BY DEF DriverNext, FindDevice, Edit, Next, Setup, BeginSetup, Skip, ConfigVertical,
           ConfigTrigClass, ConfigTrigSource, ConfigHorizontal, ConfigMemory, Fixed,
           Acquire, WaitForEnd, ReadData, Store, acquireFixed
  <2>2. CASE HandOver
    BY <2>2, HandOverTypes DEF WidthInv
  <2> QED
    BY <2>1, <2>2, WidthStep DEF DriverTypeOK
<1> QED
  BY <1>1, <1>2, DriverTypes, PTL DEF DriverSpec

-----------------------------------------------------------------------------
(* The theorems                                                              *)

(* Every variable keeps its type, and the buffer of readData holds the bytes *)
(* it offers the library, for every number of samples and both widths.       *)
THEOREM BufferFits == DriverSpec => []BufferHoldsRead
<1>1. DriverTypeOK /\ SetupInv => BufferHoldsRead
  <2> SUFFICES ASSUME DriverTypeOK, SetupInv PROVE BufferHoldsRead
    OBVIOUS
  <2>1. 4 * Words(driver.samples) >= DataArraySize(driver.samples)
    BY WordsType DEF DriverTypeOK
  <2> QED
    BY <2>1 DEF SetupInv, ReadInv, BufferHoldsRead
<1> QED
  BY <1>1, DriverTypes, SetupHolds, PTL

(* When the instrument took the range and the level of an external trigger,  *)
(* as asked or adapted, the level was set under that range; a range that is  *)
(* refused or not enabled leaves that of an older method, and is excepted    *)
(* (Digitizer!LevelUnderItsRange).                                           *)
THEOREM LevelSetUnderRange == DriverSpec => []LevelUnderItsRange
<1>1. SetupInv => LevelUnderItsRange
  BY DEF SetupInv, LevelInv, LevelUnderItsRange
<1> QED
  BY <1>1, SetupHolds, PTL

(* The driver reads the samples there are and labels them with their delay,  *)
(* whenever the instrument told what it adapted.                             *)
THEOREM WaveLabelledAsTaken == DriverSpec => []WaveAsTaken
<1>1. SetupInv => WaveAsTaken
  BY DEF SetupInv, Agreed, ReadInv, WaveAsTaken, Known
<1> QED
  BY <1>1, SetupHolds, PTL

(* A waveform read with the settings in force covers the width asked for, to *)
(* one sample, after any sequence of edits.                                  *)
THEOREM WaveCoversItsWidth == DriverSpec => []WaveCoversWidth
<1>1. SetupInv /\ WidthInv => WaveCoversWidth
  <2> SUFFICES ASSUME SetupInv, WidthInv, call = "store", InForce, width # None
               PROVE  /\ wave.samples * wave.interval <= width * Microsecond
                      /\ width * Microsecond <= (wave.samples + 1) * wave.interval
    BY DEF WaveCoversWidth
  <2>1. wave.samples = nbrSamples /\ wave.interval = sampInterval
    BY DEF SetupInv, Agreed, ReadInv, InForce
  <2> QED
    BY <2>1 DEF WidthInv
<1> QED
  BY <1>1, SetupHolds, WidthHolds, PTL

=============================================================================
