----------------------------- MODULE MethodEdit -----------------------------
(* What an edit of the web page does to the numbers of a method: the chain   *)
(* of keys in task::modifyMethod (task.cpp).  Lengths are counted in         *)
(* picoseconds, widths and delays arrive in microseconds.  How the edited    *)
(* method then reaches the instrument is the subject of module Task.         *)
EXTENDS Naturals

CONSTANTS
  Delays, Widths,       \* microseconds the page may send
  Rates,                \* the values of the page's rate menu
  Scales, Offsets,      \* channel settings the page may send
  None,
  DefaultInterval, DefaultSamples

ASSUME EditAssumption ==
  /\ Delays \subseteq Nat /\ Widths \subseteq Nat \ {0} /\ Rates \subseteq Nat \ {0}
  /\ DefaultInterval \in Nat \ {0} /\ DefaultSamples \in Nat
  /\ None \notin Nat

Microsecond == 1000000    \* in picoseconds

VARIABLES
  delayTime, sampInterval, nbrSamples,    \* the time base
  fullScale, offset,                      \* channel 1
  width,    \* history: the width in force, None once the rate changed after it
  rate      \* history: the rate asked for last

horVars == <<delayTime, sampInterval, nbrSamples, width, rate>>
chVars == <<fullScale, offset>>
vars == <<horVars, chVars>>

TypeOK ==
  /\ delayTime \in Nat
  /\ sampInterval \in Nat \ {0}
  /\ nbrSamples \in Nat
  /\ fullScale \in Scales \cup {None} /\ offset \in Offsets \cup {None}
  /\ width \in Widths \cup {None} /\ rate \in Rates \cup {None}

Init ==
  /\ delayTime = 0 /\ sampInterval = DefaultInterval /\ nbrSamples = DefaultSamples
  /\ fullScale = None /\ offset = None
  /\ width = None /\ rate = None

EditDelay(value) ==
  /\ delayTime' = value * Microsecond
  /\ UNCHANGED <<sampInterval, nbrSamples, width, rate, chVars>>

(* Mutant: the samples are counted in units of the other rate.               *)
EditWidth_FixedInterval(value) ==
  /\ nbrSamples' = (value * Microsecond) \div DefaultInterval
  /\ width' = value
  /\ UNCHANGED <<delayTime, sampInterval, rate, chVars>>

(* The quotient of two doubles, truncated: when it is a whole number it may  *)
(* fall just below it (1e-6 / 1e-9 gives 999 samples).                       *)
EditWidth(value) ==
  /\ LET exact == (value * Microsecond) \div sampInterval IN
       \/ nbrSamples' = exact
       \/ /\ exact * sampInterval = value * Microsecond
          /\ nbrSamples' = exact - 1
  /\ width' = value
  /\ UNCHANGED <<delayTime, sampInterval, rate, chVars>>

(* The chain of tests lacks an else after 4000 and 2000: from 1000 on, the   *)
(* last assignment is that of 1 GS/s.                                        *)
Interval(value) == IF value >= 1000 THEN 1000 ELSE 2000

EditRate(value) ==
  /\ sampInterval' = Interval(value)
  /\ rate' = value
  /\ width' = IF sampInterval' = sampInterval THEN width ELSE None
  /\ UNCHANGED <<delayTime, nbrSamples, chVars>>

EditFullScale(value) == fullScale' = value /\ UNCHANGED <<offset, horVars>>

EditOffset(value) == offset' = value /\ UNCHANGED <<fullScale, horVars>>

EditHorizontal ==
  \/ \E value \in Delays : EditDelay(value)
  \/ \E value \in Widths : EditWidth(value)
  \/ \E value \in Rates : EditRate(value)

EditChannel ==
  \/ \E value \in Scales : EditFullScale(value)
  \/ \E value \in Offsets : EditOffset(value)

Next == EditHorizontal \/ EditChannel

Spec == Init /\ [][Next]_vars

(* html/index.html:62-64 offers 2GS/s, 1GS/s and 0.5GS/s for the values      *)
(* 2000, 1000 and 500: the interval is that of the entry chosen.             *)
RateMatchesMenu == rate # None => sampInterval * rate = Microsecond
=============================================================================
