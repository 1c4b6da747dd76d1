--------------------------------- MODULE Gpio ---------------------------------
(***************************************************************************)
(* A GPIO block of the emulated PP5020 (devices/platform/pp/gpio.rs): four *)
(* ports whose registers the guest writes from the emulator thread, input  *)
(* lines that another thread drives (the hold switch, toggled by the UI    *)
(* thread in sys/ipod4g/controls.rs), the gpio_changed trigger that step   *)
(* polls, and the one interrupt line of the block.                         *)
(*                                                                         *)
(* An 8-bit register is the set of connected input lines whose bit is set: *)
(* a bit without a line is skipped by update.  No output line is ever      *)
(* registered, so the output registers have no effect and are left out.    *)
(* A line is driven from one thread (see Signal), so its change is two     *)
(* steps: the level, then the trigger.                                     *)
(***************************************************************************)
EXTENDS Integers

CONSTANTS
  Lines,   \* the input lines registered with the block
  PortOf   \* the port a line was registered with

Ports == {"A", "B", "C", "D"}
LastPort == "D"   \* GpioBlock::update visits the ports in this order

ASSUME GpioAssumption == PortOf \in [Lines -> Ports]

VARIABLES
  high,       \* the lines that are high
  owes,       \* lines whose sender has still to update the trigger
  trigger,    \* gpio_changed
  updating,   \* step has cleared the trigger and is about to update the block
  enable, level, intEnable, intStatus, inputVal,   \* the ports' registers
  irq,        \* the block's interrupt line
  halted      \* an access of the guest ended run()

lineVars == <<high, owes>>
regVars  == <<enable, level, intEnable, intStatus, inputVal, irq>>
vars == <<high, owes, trigger, updating, enable, level, intEnable, intStatus,
          inputVal, irq, halted>>

LinesOf(p) == {l \in Lines : PortOf[l] = p}

(* GpioBlock::new; Ipod4g::new then drives the hold line high.             *)
Init == /\ high = Lines
        /\ owes = {}
        /\ trigger = TRUE
        /\ updating = FALSE
        /\ enable = {} /\ level = {} /\ intEnable = {}
        /\ intStatus = {} /\ inputVal = {}
        /\ irq = FALSE
        /\ halted = FALSE

-------------------------------------------------------------------------------
(* The sender toggles its line and then updates the Edge trigger.          *)
Toggle(l) == /\ l \notin owes
             /\ high' = IF l \in high THEN high \ {l} ELSE high \cup {l}
             /\ owes' = owes \cup {l}
             /\ UNCHANGED <<trigger, updating, regVars, halted>>

(* Mutant: the trigger only sees a rise.                                 *)
NotifyOfRise(l) == /\ l \in owes
                   /\ owes' = owes \ {l}
                   /\ trigger' = (trigger \/ l \in high)
                   /\ UNCHANGED <<high, updating, regVars, halted>>

Notify(l) == /\ l \in owes
             /\ owes' = owes \ {l}
             /\ trigger' = TRUE
             /\ UNCHANGED <<high, updating, regVars, halted>>

-------------------------------------------------------------------------------
(* GpioPort::update of the ports ps, with the new enable and level sets en *)
(* and lv.  A line that is not enabled keeps its bits.                     *)
Visited(ps, en) == {l \in en : PortOf[l] \in ps}

InputAfter(ps, en) == (inputVal \ Visited(ps, en)) \cup (high \cap Visited(ps, en))

Edges(ps, en, lv) ==
  {l \in Visited(ps, en) : IF l \in lv THEN l \notin inputVal /\ l \in high
                                       ELSE l \in inputVal /\ l \notin high}

StatusAfter(ps, en, lv, st) == (st \ Visited(ps, en)) \cup Edges(ps, en, lv)

(* The ports hold clones of one irq::Sender, which share one flag: each    *)
(* port asserts or clears the line for all of them, so the last one decides*)
Deciding(ps) == IF LastPort \in ps THEN LastPort ELSE CHOOSE p \in ps : TRUE

Drive(ps) == irq' = (intStatus' \cap intEnable' \cap LinesOf(Deciding(ps)) # {})

Update(ps) == /\ inputVal' = InputAfter(ps, enable')
              /\ intStatus' = StatusAfter(ps, enable', level', intStatus)
              /\ Drive(ps)

Guest == ~halted /\ ~updating
Write(reg, p, v) == (reg \ LinesOf(p)) \cup v

(* GpioPort::w32, which ends with update() of that port.  The atomic mirror*)
(* is the same write with a value computed from the bits outside its mask. *)
WriteEnable(p) == /\ Guest
                  /\ \E v \in SUBSET LinesOf(p) : enable' = Write(enable, p, v)
                  /\ UNCHANGED <<level, intEnable>>
                  /\ Update({p})
                  /\ UNCHANGED <<lineVars, trigger, updating, halted>>

WriteIntLevel(p) == /\ Guest
                    /\ \E v \in SUBSET LinesOf(p) : level' = Write(level, p, v)
                    /\ UNCHANGED <<enable, intEnable>>
                    /\ Update({p})
                    /\ UNCHANGED <<lineVars, trigger, updating, halted>>

WriteIntEnable(p) == /\ Guest
                     /\ \E v \in SUBSET LinesOf(p) : intEnable' = Write(intEnable, p, v)
                     /\ UNCHANGED <<enable, level>>
                     /\ Update({p})
                     /\ UNCHANGED <<lineVars, trigger, updating, halted>>

(* IntClear drops the status bits first; update may set them again.        *)
WriteIntClear(p) ==
  /\ Guest
  /\ UNCHANGED <<enable, level, intEnable>>
  /\ \E v \in SUBSET LinesOf(p) :
       intStatus' = StatusAfter({p}, enable, level, intStatus \ v)
  /\ inputVal' = InputAfter({p}, enable)
  /\ Drive({p})
  /\ UNCHANGED <<lineVars, trigger, updating, halted>>

(* OutputEnable and OutputVal: nothing is wired to them, but update runs.  *)
WriteOutput(p) == /\ Guest
                  /\ UNCHANGED <<enable, level, intEnable>>
                  /\ Update({p})
                  /\ UNCHANGED <<lineVars, trigger, updating, halted>>

(* Read-only and write-only registers, through the mirror too: IntClear    *)
(* cannot be written there, because the mirror reads it first.             *)
BadAccess == /\ Guest
             /\ halted' = TRUE
             /\ UNCHANGED <<lineVars, trigger, updating, regVars>>

(* step(): gpio_changed.check_and_clear, then update of the whole block.   *)
CheckChanged == /\ Guest
                /\ trigger
                /\ trigger' = FALSE
                /\ updating' = TRUE
                /\ UNCHANGED <<lineVars, regVars, halted>>

(* Mutant: the update stops after the first port.                        *)
UpdateFirst == /\ updating
               /\ updating' = FALSE
               /\ UNCHANGED <<enable, level, intEnable>>
               /\ Update({"A"})
               /\ UNCHANGED <<lineVars, trigger, halted>>

UpdateBlock == /\ updating
               /\ updating' = FALSE
               /\ UNCHANGED <<enable, level, intEnable>>
               /\ Update(Ports)
               /\ UNCHANGED <<lineVars, trigger, halted>>

Access(p) == \/ WriteEnable(p) \/ WriteIntLevel(p) \/ WriteIntEnable(p)
             \/ WriteIntClear(p) \/ WriteOutput(p)

Next == \/ \E l \in Lines : Toggle(l) \/ Notify(l)
        \/ \E p \in Ports : Access(p)
        \/ BadAccess \/ CheckChanged \/ UpdateBlock

Spec == Init /\ [][Next]_vars

(* A sender inside set_high or set_low goes on, and step polls its trigger.*)
FairSpec == /\ Spec
            /\ \A l \in Lines : WF_vars(Notify(l))
            /\ WF_vars(CheckChanged)
            /\ WF_vars(UpdateBlock)

-------------------------------------------------------------------------------
TypeOK == /\ {high, owes, enable, level, intEnable, intStatus, inputVal} \subseteq SUBSET Lines
          /\ {trigger, updating, irq, halted} \subseteq BOOLEAN

(* InputVal never shows an old level of an enabled line for good: if it    *)
(* differs from the line, an update of the block is on its way.            *)
StaleInputIsOwed ==
  \A l \in enable : (l \in inputVal) # (l \in high) => trigger \/ updating \/ l \in owes

(* The interrupt line of the block is up as long as one of its ports has   *)
(* an enabled status bit, for which it asserted its Sender (irq.rs: a line *)
(* is "asserted if ANY Sender asserts").                                   *)
WiredOr == intStatus \cap intEnable # {} => irq

(* Once an enabled line settles, InputVal comes to show its level.         *)
InputSettles ==
  \A l \in Lines, b \in BOOLEAN :
     <>[](l \in enable /\ (l \in high) = b)
        => <>[]((l \in inputVal) = b) \/ <>halted
===============================================================================
