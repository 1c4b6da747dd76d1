------------------------------ MODULE MCCfgTimer ------------------------------
(* A small instance of CfgTimer: periods of zero, one and two ticks, and a *)
(* task that can be late by more than one of them.                         *)
EXTENDS CfgTimer

SmallCounters == {0, 1, 2}
===============================================================================
