---------------------------- MODULE MCLifecycle ----------------------------
(* Two daemons, one with a GUI and one for debugging; the pid 9 over 123     *)
(* leaves a line with the digit 3.                                           *)
EXTENDS Lifecycle, TLC

CONSTANTS d1, d2, gui, debug

MCPid == d1 :> <<1, 2, 3>> @@ d2 :> <<4, 5>> @@ gui :> <<9>> @@ debug :> <<3>>
MCMode == d1 :> "daemon" @@ d2 :> "daemon" @@ gui :> "gui" @@ debug :> "debug"
=============================================================================
