------------------------------- MODULE MCSignal -------------------------------
(* Instances of Signal for TLC: who holds which line in clicky.            *)
EXTENDS Signal

(* Two lines behind one Changed trigger, each driven by its own thread:    *)
(* the hold switch by the UI thread, and a device line with two clones by  *)
(* the emulator thread (a GPIO block's interrupt line).                    *)
SplitHandles  == {"hold", "portA", "portB"}
SplitLines    == {"holdLine", "gpioIrq"}
SplitThreads  == {"ui", "emu"}
SplitLineOf   == [h \in SplitHandles |-> IF h = "hold" THEN "holdLine" ELSE "gpioIrq"]
SplitThreadOf == [h \in SplitHandles |-> IF h = "hold" THEN "ui" ELSE "emu"]
SplitUses     == [h \in SplitHandles |-> {"assert", "clear"}]

(* A timer line: the interrupter task asserts, the guest's read clears.    *)
TimerHandles  == {"task", "regs"}
TimerLines    == {"timer1"}
TimerThreads  == {"executor", "emu"}
TimerLineOf   == [h \in TimerHandles |-> "timer1"]
TimerThreadOf == [h \in TimerHandles |-> IF h = "task" THEN "executor" ELSE "emu"]
TimerUses     == [h \in TimerHandles |-> IF h = "task" THEN {"assert"} ELSE {"clear"}]
===============================================================================
