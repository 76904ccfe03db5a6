----------------------------- MODULE MCSignals ------------------------------
(* Instances of Signals: an interrupt with two events, one of them for one     *)
(* shot, and two children, one of them with an event.                          *)
EXTENDS Signals, TLC

CONSTANTS i1, i2, p1, c1, c2

Watched == i1 :> "INT" @@ i2 :> "INT" @@ p1 :> c1
=============================================================================
