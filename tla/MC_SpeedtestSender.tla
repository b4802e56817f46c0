------------------------- MODULE MC_SpeedtestSender -------------------------
(* Small values for the sender: a buffer of 2 units, a window of 4 ticks   *)
(* and 7 units, output every 2 ticks, a clock bounded at 12 ticks.         *)
EXTENDS SpeedtestSenderProofs

MCSizeModulus == 64

=============================================================================
