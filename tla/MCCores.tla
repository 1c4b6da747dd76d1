------------------------------- MODULE MCCores --------------------------------
(* Three programs for Cores in one run, chosen in the initial state: in    *)
(* "mail" the cores exchange messages, sleep, mask and route interrupts;   *)
(* in "lines" they toggle a source of the upper half and its master        *)
(* separately; in "wait" they start countdowns and sleep.  Together the    *)
(* three would only multiply their states.                                 *)
EXTENDS Cores

None == {}
Word(flow, source) == [flow |-> flow, source |-> source]

SleepWords == {Word({"sleep"}, "none")}
WaitWords  == {Word({}, "none"), Word({"sleep"}, "none"), Word({"wait"}, "one"),
               Word({"sleep", "wait"}, "one"), Word({"wait"}, "none"),
               Word({"wait"}, "many"), Word({"wakeInt"}, "none")}

NoneOrAll == {{}, {"irq", "fiq"}}
OpenMasks == {{}}

MailFiq  == {{Mailbox}}
IrqWords == {{Mailbox, "gpio0", HiToggle}}
HiWords  == {{"gpio0"}, {HiToggle}}
HiFiq    == {{"gpio0"}}
OneGpio  == {"gpio0"}
GpioIrq  == {{"gpio0", HiToggle}}
OneBit   == {{"b0"}}

VARIABLE program

Waiting == INSTANCE Cores WITH ControlWords <- WaitWords, EnableWords <- GpioIrq,
                               FiqWords <- None, Masks <- OpenMasks, MailWords <- None

Lines == INSTANCE Cores WITH EnableWords <- HiWords, FiqWords <- HiFiq, MailWords <- None

MCInit == Init /\ program \in {"mail", "lines", "wait"}

MCStepLoop == /\ UNCHANGED program
              /\ \/ program = "mail" /\ StepLoop
                 \/ program = "lines" /\ Lines!StepLoop
                 \/ program = "wait" /\ Waiting!StepLoop

MCExpire(c) == Expire(c) /\ UNCHANGED program

MCRaise == /\ \E d \in Lo \cup Hi : Raise(d)
           /\ UNCHANGED program

MCNext == \/ MCStepLoop
          \/ \E c \in CpuIds : MCExpire(c)
          \/ MCRaise

MCSpec == /\ MCInit /\ [][MCNext]_<<vars, program>>
          /\ WF_<<vars, program>>(MCStepLoop)
          /\ \A c \in CpuIds : WF_<<vars, program>>(MCExpire(c))
===============================================================================
