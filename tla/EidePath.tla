------------------------------- MODULE EidePath -------------------------------
(***************************************************************************)
(* The path of an IDE transfer through the emulated PP5020: the two cores' *)
(* register accesses (devices/platform/pp/eide.rs), the drive behind them  *)
(* (IdeDrive), the DMA block of Ipod4g::step and the interrupt latch that  *)
(* step samples last (sys/ipod4g/mod.rs).                                  *)
(*                                                                         *)
(* One round of the phases is one step(): the CPU's instruction, the COP's *)
(* instruction, the DMA block, the latch.  An instruction is one access of *)
(* an EIDE register or none of them; the guest program is any program.     *)
(***************************************************************************)
EXTENDS IdeDrive

CONSTANTS
  ActiveCores,   \* the cores that run; the others are parked
  CommandsUsed,  \* the commands the guest issues
  Values,        \* the bytes it writes to each task-file register
  ControlBytes,  \* what it writes to Device Control: the bits it sets
  DmaDirections, \* the values of bit 3 (read) it writes to DMA Control
  DmaLengths,    \* the values it writes to DMA Length
  LengthBound,   \* the width of dma_length, 2^32
  OverflowChecks \* TRUE in debug builds: arithmetic overflow panics

ASSUME EidePathAssumption ==
  /\ ActiveCores \subseteq {"cpu", "cop"}
  /\ CommandsUsed \subseteq Commands
  /\ Values \in [Regs -> SUBSET Nat]
  /\ ControlBytes \subseteq SUBSET {"SRST", "nIEN"}
  /\ DmaDirections \subseteq BOOLEAN
  /\ LengthBound \in Nat \ {0, 1, 2, 3}
  /\ DmaLengths \subseteq 0 .. LengthBound - 1
  /\ OverflowChecks \in BOOLEAN

VARIABLES
  drive,       \* IDE0; IDE1 is never attached
  selected,    \* IdeController::selected_device
  latched,     \* ide_irq_latched
  wasAsserted, \* ide_irq_was_asserted
  line,        \* the IDE interrupt line into the interrupt controller
  dma,         \* dma_control bit 3 and dma_length
  phase,       \* how far the current step() has come
  job,         \* history: the transfer the guest asked for last
  edge         \* history: what became of the last rising edge of INTRQ

driveVars == <<drive, selected, job, edge>>
latchVars == <<latched, wasAsserted, line>>
vars == <<drive, selected, latched, wasAsserted, line, dma, phase, job, edge>>

Running == drive.fault = "none"

NoJob == [kind |-> "none", first |-> 0, count |-> 0]
Jobs  == [kind : {"none", "read", "write"}, first : Int, count : Nat]

(* The next phase of step().                                               *)
After == [cpu |-> "cop", cop |-> "dma", dma |-> "latch", latch |-> "cpu"]

(* EIDECon::new and IdeController::attach(IDE0).                           *)
Init == /\ drive = NewDrive
        /\ selected = 0
        /\ latched = FALSE
        /\ wasAsserted = FALSE
        /\ line = FALSE
        /\ dma = [read |-> FALSE, length |-> 0]
        /\ phase = "cpu"
        /\ job = NoJob
        /\ edge = "none"

(* Core p executes its instruction of this step.                           *)
Turn(p) == /\ Running
           /\ phase = p
           /\ p \in ActiveCores
           /\ phase' = After[p]

(* The drive becomes e.  An edge of INTRQ is "fresh" until a step samples  *)
(* the line and "sampled" until the guest reads Status or acknowledges it. *)
Drives(e) == /\ drive' = e
             /\ edge' = CASE ~e.irq -> "none"
                          [] e.irq /\ ~drive.irq -> "fresh"
                          [] OTHER -> edge

(* Accesses to a drive that is not there read 0xff and only log (Info).    *)
OnDrive(e) == IF selected = 0 THEN e ELSE drive

-------------------------------------------------------------------------------
Task(e) == /\ Drives(OnDrive(e))
           /\ UNCHANGED <<selected, dma, job, latchVars>>

NoAccess(p)       == Turn(p) /\ UNCHANGED <<driveVars, dma, latchVars>>
ReadData(p)       == Turn(p) /\ Task(DataRead16(drive))
WriteData(p)      == Turn(p) /\ \E wide \in BOOLEAN : Task(DataWrite16(drive, wide))
ReadStatusReg(p)  == Turn(p) /\ Task(ReadStatus(drive))
WriteTaskReg(p)   == Turn(p) /\ \E r \in Regs \ {"head"} :
                       \E v \in Values[r] : Task(WriteReg(drive, r, v))
WriteDevCtl(p)    == Turn(p) /\ \E c \in ControlBytes :
                       Task(WriteDevControl(drive, "SRST" \in c, "nIEN" \in c))

(* write8(DeviceHead): the selection changes even when the drive selected  *)
(* is missing, the register only when it is there.                         *)
WriteDeviceHead(p) ==
  /\ Turn(p)
  /\ \E dev \in {0, 1}, l \in BOOLEAN, h \in Values["head"] :
       /\ selected' = dev
       /\ Drives(IF dev = 0 THEN WriteDevHead(drive, l, h) ELSE drive)
  /\ UNCHANGED <<dma, job, latchVars>>

(* write8(Command).  Only the start of a disk transfer changes the history.*)
JobOf(cmd) ==
  CASE cmd \in {"ReadSectors", "ReadMultiple", "ReadDMA"} ->
         [kind |-> "read", first |-> SectorOffset(drive), count |-> SectorCount(drive)]
    [] cmd \in {"WriteSectors", "WriteMultiple", "WriteDMA"} ->
         [kind |-> "write", first |-> SectorOffset(drive), count |-> SectorCount(drive)]
    [] cmd = "IdentifyDevice" -> NoJob
    [] OTHER -> job

WriteCommand(p) ==
  /\ Turn(p)
  /\ \E cmd \in CommandsUsed :
       /\ Drives(OnDrive(ExecCmd(drive, cmd)))
       /\ job' = IF selected = 0 THEN JobOf(cmd) ELSE job
  /\ UNCHANGED <<selected, dma, latchVars>>

(* IDE0 Cfg with bit 3 or 4: clears the latch and its line, not INTRQ.     *)
AckLatch(p) ==
  /\ Turn(p)
  /\ latched' = FALSE
  /\ line' = FALSE
  /\ edge' = IF edge = "sampled" THEN "none" ELSE edge
  /\ UNCHANGED <<drive, selected, dma, job, wasAsserted>>

(* DMA Control.  DMA Addr decides only whether the memory access of a word  *)
(* faults, and either can be: it is not kept.                              *)
WriteDmaControl(p) ==
  /\ Turn(p)
  /\ \E r \in DmaDirections : dma' = [dma EXCEPT !.read = r]
  /\ UNCHANGED <<driveVars, latchVars>>

(* DMA Length stores val + 4.                                              *)
WriteDmaLength(p) ==
  /\ Turn(p)
  /\ \E v \in DmaLengths :
       /\ dma' = [dma EXCEPT !.length = (v + 4) % LengthBound]
       /\ drive' = IF v + 4 >= LengthBound /\ OverflowChecks THEN Fail(drive, "panic") ELSE drive
  /\ UNCHANGED <<selected, job, edge, latchVars>>

(* IDE1 Cfg, Data Latch and unmapped offsets are errors that end run().    *)
Unimplemented(p) ==
  /\ Turn(p)
  /\ drive' = Fail(drive, "fatal")
  /\ UNCHANGED <<selected, dma, job, edge, latchVars>>

Access(p) ==
  \/ NoAccess(p) \/ ReadData(p) \/ WriteData(p) \/ ReadStatusReg(p)
  \/ WriteTaskReg(p) \/ WriteDevCtl(p) \/ WriteDeviceHead(p)
  \/ WriteCommand(p) \/ AckLatch(p) \/ WriteDmaControl(p) \/ WriteDmaLength(p)
  \/ Unimplemented(p)

(* A core that is not running is skipped.                                  *)
Parked(p) == /\ Running
             /\ phase = p
             /\ p \notin ActiveCores
             /\ phase' = After[p]
             /\ UNCHANGED <<driveVars, dma, latchVars>>

-------------------------------------------------------------------------------
(* The DMA block of step(): one word per rising edge of DMARQ.  Every error*)
(* on this path is unwrapped, so it is a panic; a missing length is too.   *)
MovesWord == drive.dmaPending /\ drive.dmarq

Moved(wide) ==
  LET d == IF dma.read THEN DataRead16(drive) ELSE DataWrite16(drive, wide)
  IN  IF d.fault # "none" THEN Fail(d, "panic") ELSE d

DmaPanics(faults) == \/ faults
                     \/ dma.length = 0
                     \/ dma.length = 1 /\ OverflowChecks
                     \/ selected # 0

DmaBlock ==
  /\ Running
  /\ phase = "dma"
  /\ phase' = After["dma"]
  /\ IF ~MovesWord
     THEN drive' = ClearDmaPending(drive) /\ UNCHANGED <<dma, edge>>
     ELSE /\ dma' = [dma EXCEPT !.length = IF @ = 0 THEN 0 ELSE (@ - 2) % LengthBound]
          /\ \E wide, faults \in BOOLEAN :
               Drives(ClearDmaPending(IF DmaPanics(faults) THEN Fail(drive, "panic")
                                                           ELSE Moved(wide)))
  /\ UNCHANGED <<selected, job, latchVars>>

(* Mutant: the last level is not kept when INTRQ falls.                  *)
SampleStuck ==
  /\ Running
  /\ phase = "latch"
  /\ phase' = After["latch"]
  /\ latched' = (latched \/ (drive.irq /\ ~wasAsserted))
  /\ wasAsserted' = (wasAsserted \/ drive.irq)
  /\ line' = latched'
  /\ edge' = IF edge = "fresh" THEN "sampled" ELSE edge
  /\ UNCHANGED <<drive, selected, job, dma>>

(* EIDECon::update_irq_latch.                                              *)
SampleLatch ==
  /\ Running
  /\ phase = "latch"
  /\ phase' = After["latch"]
  /\ latched' = (latched \/ (drive.irq /\ ~wasAsserted))
  /\ wasAsserted' = drive.irq
  /\ line' = latched'
  /\ edge' = IF edge = "fresh" THEN "sampled" ELSE edge
  /\ UNCHANGED <<drive, selected, job, dma>>

StepLoop == DmaBlock \/ SampleLatch \/ \E p \in {"cpu", "cop"} : Parked(p)

Next == StepLoop \/ \E p \in {"cpu", "cop"} : Access(p)

Spec == Init /\ [][Next]_vars

(* The emulator thread keeps calling step(), and an instruction completes. *)
FairSpec == Spec /\ WF_vars(Next)

-------------------------------------------------------------------------------
TypeOK == /\ drive \in Drive
          /\ selected \in {0, 1}
          /\ latched \in BOOLEAN
          /\ wasAsserted \in BOOLEAN
          /\ line \in BOOLEAN
          /\ dma \in [read : BOOLEAN, length : 0 .. LengthBound - 1]
          /\ phase \in DOMAIN After
          /\ job \in Jobs
          /\ edge \in {"none", "fresh", "sampled"}

(* Whatever the guest does, a drive that still runs is never left busy,    *)
(* asks for data only while a transfer is open, and an open transfer has a *)
(* sector to go and room in the buffer: the asserts and the "past end of   *)
(* iobuf" errors of data_read8 and data_write8 cannot be reached.          *)
DriveSound == Sound(drive)

(* The sector in the buffer, and the block the next flush goes to, are the *)
(* ones the guest asked for: no sector of a transfer is skipped, repeated  *)
(* or left out, and an idle drive has moved every sector of its last job.  *)
SectorsInOrder == Running =>
  LET done == job.count - drive.remaining
  IN  /\ drive.state = "ReadReady" /\ job.kind = "read" =>
           drive.buf = job.first + done /\ drive.cursor = drive.buf + 1
      /\ drive.state = "ReadReady" /\ job.kind # "read" => drive.buf = Identity
      /\ drive.state = "WriteReady" => job.kind = "write" /\ drive.cursor = job.first + done
      /\ drive.state = "Idle" /\ job.kind # "none" => drive.cursor = job.first + job.count

(* Every rising edge of INTRQ that a step has sampled is in the latch until*)
(* the guest reacts to it: "lost interrupt" does not happen.               *)
NoLostEdge == edge = "sampled" => latched

(* The sectors a drive still has to move, and the block of the next one.   *)
LeftOf(d)  == IF Transferring(d) THEN d.remaining ELSE 0
AtOf(d, j) == CASE j.kind = "none" -> 0
                [] j.kind # "none" /\ d.state = "ReadReady" -> d.buf
                [] OTHER -> d.cursor

(* Registers, bytes, buffer, DMA block and block device together implement *)
(* SectorStream: whatever the guest does, a job's sectors pass one by one, *)
(* none twice and none left out, and INTRQ announces each of them in PIO,  *)
(* and the last one always.                                                *)
Stream == INSTANCE SectorStream
            WITH left <- LeftOf(drive), at <- AtOf(drive, job), told <- drive.irq,
                 perSector <- ~drive.dma, stopped <- ~Running

ImplementsStream == Stream!SSpec
===============================================================================
