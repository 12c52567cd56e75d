---------------------------- MODULE WaveformFeed ----------------------------
(* What dataStorage promises the clients of its blob stream: a waveform it   *)
(* accepts stays pending until it goes out, once, in a batch of waveforms    *)
(* with consecutive serial numbers.                                          *)
EXTENDS Naturals

CONSTANT SerialMod     \* serial numbers are counted modulo SerialMod

Serial == 0..(SerialMod - 1)

(* The n serial numbers from s on.                                           *)
Block(s, n) == {(s + k) % SerialMod : k \in 0..(n - 1)}

VARIABLES
  next,       \* the serial number of the next waveform
  pending,    \* accepted and not delivered
  times       \* how often each serial number went out since it was last accepted

Init == next = 0 /\ pending = {} /\ times = [s \in Serial |-> 0]

Accept ==
  /\ next \notin pending
  /\ pending' = pending \cup {next}
  /\ times' = [times EXCEPT ![next] = 0]
  /\ next' = (next + 1) % SerialMod

Deliver ==
  /\ \E s \in Serial, n \in 1..SerialMod :
       /\ Block(s, n) \subseteq pending
       /\ pending' = pending \ Block(s, n)
       /\ times' = [k \in Serial |-> IF k \in Block(s, n) THEN 1 ELSE times[k]]
  /\ UNCHANGED next

Next == Accept \/ Deliver

Spec == Init /\ [][Next]_<<next, pending, times>>
=============================================================================
