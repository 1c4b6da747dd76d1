-------------------------------- MODULE Cores ---------------------------------
(***************************************************************************)
(* How the two cores of the emulated PP5020 sleep, wake and interrupt each *)
(* other: the control words (devices/platform/pp/cpucon.rs), the interrupt *)
(* controller (intcon.rs), the mailbox (mailbox.rs), exception entry       *)
(* (vendor/armv4t_emu) and the part of Ipod4g::step that ties them.        *)
(*                                                                         *)
(* One round of the phases is one step(): an instruction of the CPU, one of*)
(* the COP, the devices, then interrupts to each core.  The guest program  *)
(* is any program; what a guest can write is given by the constants.  The  *)
(* other devices are the environment: in native builds their tasks raise   *)
(* interrupt lines at any moment.                                          *)
(***************************************************************************)
EXTENDS Integers

CONSTANTS
  Lo, Hi,       \* the shared interrupt sources: indices below 32, and above
  ControlWords, \* what the guest writes to a core's control register
  EnableWords,  \* what it writes to the interrupt enable and disable registers
  FiqWords,     \* what it writes to the interrupt priority registers
  Masks,        \* what it leaves in the I and F bits of its own CPSR
  MailWords,    \* what it writes to the mailbox
  MaxTasks      \* bound: countdown tasks of one core that are pending at once

CpuIds == {"cpu", "cop"}
Mailbox == "mailbox"   \* the only core-specific source, index 4
HiToggle == "hi"       \* enable bit 30, the master toggle of the Hi half
Sources == Lo \cup Hi \cup {Mailbox}
Enables == Sources \cup {HiToggle}

Flow == {"sleep", "wait", "wakeInt"}   \* FLOW_MASK, bits 31, 30 and 29

ASSUME CoresAssumption ==
  /\ Lo \cap Hi = {} /\ {Mailbox, HiToggle} \cap (Lo \cup Hi) = {}
  /\ ControlWords \subseteq [flow : SUBSET Flow, source : {"none", "one", "many", "bit26"}]
  /\ EnableWords \subseteq SUBSET Enables
  /\ FiqWords \subseteq SUBSET Enables
  /\ Masks \subseteq SUBSET {"irq", "fiq"}
  /\ MaxTasks \in Nat

VARIABLES
  ctl,        \* cpuctl and copctl: the flow bits and the counter source
  countdowns, \* how many countdown tasks of each core are pending
  mask,       \* the I and F bits of each core's CPSR
  enabled,    \* IntConCpuRegs::enabled of both halves, one set per core
  priority,   \* IntConCpuRegs::priority: the sources routed to FIQ
  lines,      \* the shared interrupt lines that are asserted
  bell,       \* the cores whose mailbox interrupt is asserted
  bits,       \* Mailbox::shared_bits
  knows,      \* history: the mailbox bits as each core knows them
  phase,      \* how far the current step() has come
  halted      \* run() has returned a FatalMemException

conVars  == <<ctl, countdowns>>
intVars  == <<enabled, priority>>
mailVars == <<bell, bits, knows>>
vars == <<ctl, countdowns, mask, enabled, priority, lines, bell, bits,
          knows, phase, halted>>

Other(c) == IF c = "cpu" THEN "cop" ELSE "cpu"
After == [cpu |-> "cop", cop |-> "devices", devices |-> "toCpu",
          toCpu |-> "toCop", toCop |-> "cpu"]

(* CpuCon::new, IntCon::new, Mailbox::new and Cpu::new (CPSR 0xd3).        *)
Init == /\ ctl = [c \in CpuIds |-> [flow |-> {}, source |-> "none"]]
        /\ countdowns = [c \in CpuIds |-> 0]
        /\ mask = [c \in CpuIds |-> {"irq", "fiq"}]
        /\ enabled = [c \in CpuIds |-> {}]
        /\ priority = [c \in CpuIds |-> {}]
        /\ lines = {}
        /\ bell = {}
        /\ bits = {}
        /\ knows = [c \in CpuIds |-> {}]
        /\ phase = "cpu"
        /\ halted = FALSE

(* is_cpu_running.                                                         *)
Awake(c) == ctl[c].flow = {}

Advance(p) == /\ ~halted
              /\ phase = p
              /\ phase' = After[p]

(* Core c executes its instruction of this step; a sleeping core has none. *)
Turn(c) == Advance(c) /\ Awake(c)
Skip(c) == Advance(c) /\ ~Awake(c)
           /\ UNCHANGED <<conVars, mask, intVars, lines, mailVars, halted>>

-------------------------------------------------------------------------------
(* An instruction that touches none of these registers.                    *)
Compute(c) == Turn(c) /\ UNCHANGED <<conVars, mask, intVars, lines, mailVars, halted>>

(* MSR, a software interrupt or a return from an exception.                *)
SetMask(c) ==
  /\ Turn(c)
  /\ \E m \in Masks : mask' = [mask EXCEPT ![c] = m]
  /\ UNCHANGED <<conVars, intVars, lines, mailVars, halted>>

(* CpuCon::w32: either core writes either register.  The word is stored    *)
(* first.  on_update_cpuctl then starts a countdown, returns early when the*)
(* word names no source, and ends run() for a bad source or WAKE_INT.      *)
Counts(w)  == "wait" \in w.flow /\ w.source = "one"
Rejects(w) == \/ "wait" \in w.flow /\ w.source \notin {"none", "one"}
              \/ ("wait" \in w.flow => w.source = "one") /\ "wakeInt" \in w.flow

WriteControl(c) ==
  /\ Turn(c)
  /\ \E t \in CpuIds, w \in ControlWords :
       /\ Counts(w) => countdowns[t] < MaxTasks
       /\ ctl' = [ctl EXCEPT ![t] = w]
       /\ countdowns' = [countdowns EXCEPT ![t] = IF Counts(w) THEN @ + 1 ELSE @]
       /\ halted' = Rejects(w)
  /\ UNCHANGED <<mask, intVars, lines, mailVars>>

(* Mutant: a countdown does not wake a core that also sleeps.            *)
ExpireUnlessAsleep(c) ==
  /\ ~halted
  /\ countdowns[c] > 0
  /\ countdowns' = [countdowns EXCEPT ![c] = @ - 1]
  /\ ctl' = IF "sleep" \in ctl[c].flow THEN ctl ELSE [ctl EXCEPT ![c].flow = {}]
  /\ UNCHANGED <<mask, intVars, lines, mailVars, phase, halted>>

(* Mutant: a countdown that was never started.                           *)
ExpireTwice(c) ==
  /\ ~halted
  /\ countdowns' = [countdowns EXCEPT ![c] = @ - 1]
  /\ ctl' = [ctl EXCEPT ![c].flow = {}]
  /\ UNCHANGED <<mask, intVars, lines, mailVars, phase, halted>>

(* The task of a countdown: it clears the flow bits of whatever control    *)
(* word the core has by now.                                               *)
Expire(c) ==
  /\ ~halted
  /\ countdowns[c] > 0
  /\ countdowns' = [countdowns EXCEPT ![c] = @ - 1]
  /\ ctl' = [ctl EXCEPT ![c].flow = {}]
  /\ UNCHANGED <<mask, intVars, lines, mailVars, phase, halted>>

(* IntCon32::w32, for either core's registers.                             *)
WriteIntCon(c) ==
  /\ Turn(c)
  /\ \E t \in CpuIds :
       \/ /\ \E w \in EnableWords : \/ enabled' = [enabled EXCEPT ![t] = @ \cup w]
                                    \/ enabled' = [enabled EXCEPT ![t] = @ \ w]
          /\ UNCHANGED priority
       \/ /\ \E w \in FiqWords : priority' = [priority EXCEPT ![t] = w]
          /\ UNCHANGED enabled
  /\ UNCHANGED <<conVars, mask, lines, mailVars, halted>>

(* Mailbox::r32(Status) clears the reading core's interrupt.               *)
ReadMail(c) ==
  /\ Turn(c)
  /\ MailWords # {}
  /\ bell' = bell \ {c}
  /\ knows' = [knows EXCEPT ![c] = bits]
  /\ UNCHANGED <<conVars, mask, intVars, lines, bits, halted>>

(* Mutant: the writer's own interrupt.                                   *)
RingSelf(c) == bell' = bell \cup {c}

(* Mailbox::w32(Set) and w32(Clear) interrupt the other core.              *)
Ring(c) == bell' = bell \cup {Other(c)}

WriteMail(c) ==
  /\ Turn(c)
  /\ \E w \in MailWords :
       \/ bits' = bits \cup w /\ knows' = [knows EXCEPT ![c] = @ \cup w]
       \/ bits' = bits \ w    /\ knows' = [knows EXCEPT ![c] = @ \ w]
  /\ Ring(c)
  /\ UNCHANGED <<conVars, mask, intVars, lines, halted>>

(* A write-only register read, an unimplemented one: run() ends.           *)
BadAccess(c) == /\ Turn(c)
                /\ halted' = TRUE
                /\ UNCHANGED <<conVars, mask, intVars, lines, mailVars>>

Instruction(c) == Compute(c) \/ SetMask(c) \/ WriteControl(c) \/ WriteIntCon(c)
                  \/ ReadMail(c) \/ WriteMail(c) \/ BadAccess(c)

-------------------------------------------------------------------------------
(* A pool thread raises a line at any moment.                              *)
Raise(d) == /\ ~halted
            /\ lines' = lines \cup {d}
            /\ UNCHANGED <<conVars, mask, intVars, mailVars, phase, halted>>

(* The middle of step(): what the guest's accesses and the devices' updates*)
(* left on the shared lines.                                               *)
Devices == /\ Advance("devices")
           /\ lines' \in SUBSET (Lo \cup Hi)
           /\ UNCHANGED <<conVars, mask, intVars, mailVars, halted>>

(* update_regs for core c: the irq_stat and fiq_stat that its lines, enables*)
(* and priorities give.  The guest can read them; no decision keeps them.  *)
Shown(c) == lines \cup (IF c \in bell THEN {Mailbox} ELSE {})
Routed(c) == [irq |-> (Shown(c) \cap enabled[c]) \ priority[c],
              fiq |-> Shown(c) \cap enabled[c] \cap priority[c]]

(* Mutant: the core-specific source is forgotten.                        *)
RequestsShared(c, raised) == \/ raised \cap Lo # {}
                             \/ HiToggle \in enabled[c] /\ raised \cap Hi # {}

(* Mutant: the Hi half is forgotten.                                     *)
RequestsLo(c, raised) == raised \cap (Lo \cup {Mailbox}) # {}

(* interrupt_status: the Hi half counts only while bit 30 is enabled.      *)
Requests(c, raised) == \/ raised \cap (Lo \cup {Mailbox}) # {}
                       \/ HiToggle \in enabled[c] /\ raised \cap Hi # {}

(* Cpu::exception: both kinds mask IRQ; an IRQ leaves the F bit clear.     *)
MaskAfter(m, kind) == IF kind = "irq" THEN {"irq"} ELSE {"irq", "fiq"}
Enter(m, asked, kind) == IF asked /\ kind \notin m THEN MaskAfter(m, kind) ELSE m

(* The end of step() for core c: an IRQ, then an FIQ, each with            *)
(* wake_on_interrupt, which wakes only a core whose SLEEP bit is set.      *)
Interrupts(c) ==
  LET asksIrq == Requests(c, Routed(c).irq)
      asksFiq == Requests(c, Routed(c).fiq)
      mid     == Enter(mask[c], asksIrq, "irq")
      taken   == \/ asksIrq /\ "irq" \notin mask[c]
                 \/ asksFiq /\ "fiq" \notin mid
  IN  /\ Advance(IF c = "cpu" THEN "toCpu" ELSE "toCop")
      /\ mask' = [mask EXCEPT ![c] = Enter(mid, asksFiq, "fiq")]
      /\ ctl' = IF taken /\ "sleep" \in ctl[c].flow
                THEN [ctl EXCEPT ![c].flow = {}]
                ELSE ctl
      /\ UNCHANGED <<countdowns, intVars, lines, mailVars, halted>>

StepLoop == \/ \E c \in CpuIds : Instruction(c) \/ Skip(c) \/ Interrupts(c)
            \/ Devices

Next == \/ StepLoop
        \/ \E c \in CpuIds : Expire(c)
        \/ \E d \in Lo \cup Hi : Raise(d)

Spec == Init /\ [][Next]_vars

(* The emulator thread keeps calling step(), and a countdown's timer fires.*)
FairSpec == Spec /\ WF_vars(StepLoop) /\ \A c \in CpuIds : WF_vars(Expire(c))

-------------------------------------------------------------------------------
TypeOK == /\ ctl \in [CpuIds -> [flow : SUBSET Flow,
                                 source : {"none", "one", "many", "bit26"}]]
          /\ countdowns \in [CpuIds -> 0 .. MaxTasks]
          /\ mask \in [CpuIds -> SUBSET {"irq", "fiq"}]
          /\ enabled \in [CpuIds -> SUBSET Enables]
          /\ priority \in [CpuIds -> SUBSET Enables]
          /\ lines \subseteq Lo \cup Hi
          /\ bell \subseteq CpuIds
          /\ bits \subseteq UNION MailWords
          /\ knows \in [CpuIds -> SUBSET UNION MailWords]
          /\ phase \in DOMAIN After
          /\ halted \in BOOLEAN

(* A core whose picture of the mailbox is out of date has its mailbox      *)
(* interrupt asserted: reading clears only the reader's, writing raises    *)
(* only the other's, and no order of the two loses a message.              *)
UnreadMeansRung == \A c \in CpuIds : knows[c] # bits => c \in bell

(* A core that waits for a countdown has one that is still running.        *)
WaitIsCounted ==
  \A c \in CpuIds : ~halted /\ Counts(ctl[c]) => countdowns[c] > 0

(* An interrupt of this kind that the core would take: some source is      *)
(* asserted, enabled, routed to the kind and not masked.                   *)
Asserted(c, s) == IF s = Mailbox THEN c \in bell ELSE s \in lines
Wanted(c, kind) ==
  /\ kind \notin mask[c]
  /\ \E s \in enabled[c] \cap Sources :
       /\ Asserted(c, s)
       /\ s \in priority[c] <=> kind = "fiq"
       /\ s \in Hi => HiToggle \in enabled[c]

(* A core sleeping until an interrupt wakes if an interrupt it would take  *)
(* stays: whichever half, kind and core it is for.                         *)
SleeperWakes ==
  \A c \in CpuIds : \A kind \in {"irq", "fiq"} :
     ("sleep" \in ctl[c].flow /\ Wanted(c, kind))
        ~> (halted \/ "sleep" \notin ctl[c].flow \/ ~Wanted(c, kind))

(* A message wakes its reader: a sleeping core that listens to the mailbox *)
(* and has not seen the latest bits runs again, unless it stops listening. *)
Listens(c) == /\ Mailbox \in enabled[c]
              /\ IF Mailbox \in priority[c] THEN "fiq" \notin mask[c]
                                            ELSE "irq" \notin mask[c]
MailWakes ==
  \A c \in CpuIds :
     ("sleep" \in ctl[c].flow /\ Listens(c) /\ knows[c] # bits)
        ~> (halted \/ "sleep" \notin ctl[c].flow \/ ~Listens(c))

(* A core that waits for a countdown does not wait for ever.               *)
WaitEnds ==
  \A c \in CpuIds : Counts(ctl[c]) ~> (halted \/ ~Counts(ctl[c]))
===============================================================================
