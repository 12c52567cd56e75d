----------------------------- MODULE MCInstrument -----------------------------
(* The trigger on the external input, or on channel 1 with both channels on, *)
(* or no trigger part; the time base the widgets show at first.              *)
EXTENDS Digitizer

MCFronts == {[ext |-> TRUE, source |-> "ext", ch2 |-> FALSE],
             [ext |-> FALSE, source |-> "channel", ch2 |-> TRUE],
             [ext |-> TRUE, source |-> "none", ch2 |-> FALSE]}
MCTimeBases == {[delayTime |-> 0, sampInterval |-> DefaultInterval,
                 nbrSamples |-> DefaultSamples]}
=============================================================================
