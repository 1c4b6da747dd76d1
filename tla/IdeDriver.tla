------------------------------- MODULE IdeDriver ------------------------------
(***************************************************************************)
(* EidePath with a guest that is an interrupt-driven PIO driver instead of *)
(* an arbitrary program.  It programs a transfer, waits for the IDE line   *)
(* and then runs its interrupt handler: acknowledge the PP latch, read     *)
(* Status, move one sector, in one of the orders in Orders, one register   *)
(* access per step.  The driver is guest software, not part of clicky; it  *)
(* stands for what docs/ipodlinux-ide-irq-findings.md says iPodLinux does. *)
(***************************************************************************)
EXTENDS EidePath, Sequences

CONSTANTS
  Orders,  \* the orders of a handler's work, sequences of "ack", "status", "data"
  Counts   \* how many sectors the driver may ask for

ASSUME IdeDriverAssumption ==
  /\ Orders \subseteq Seq({"ack", "status", "data"})
  /\ Counts \subseteq 1 .. 255
  /\ SectorBytes % 2 = 0
  /\ {"ReadSectors", "WriteSectors"} \subseteq CommandsUsed
  /\ 0 \in Values["head"]
  /\ Counts \subseteq Values["sector_count"]

VARIABLES
  order,   \* the handler's order
  kind,    \* "ReadSectors" or "WriteSectors"
  count,   \* sectors asked for
  todo,    \* what the driver still does before it waits again
  moved,   \* words of this transfer moved so far
  drq      \* the DRQ bit of the last Status it read

driverVars == <<order, kind, count, todo, moved, drq>>
allVars == <<vars, driverVars>>

WordsPerSector == SectorBytes \div 2

DriverInit == /\ Init
              /\ order \in Orders
              /\ kind \in {"ReadSectors", "WriteSectors"}
              /\ count \in Counts
              /\ todo = <<"address", "count", "command">>
              /\ moved = 0
              /\ drq = FALSE

Done == moved = count * WordsPerSector

Finished(op) == todo # <<>> /\ Head(todo) = op /\ todo' = Tail(todo)

(* The accesses, each the CPU's instruction of one step.  There is none for*)
(* a handler that finds no data: the driver would be stuck.                *)
Issue ==
  /\ Turn("cpu")
  /\ \/ Finished("address") /\ Task(WriteDevHead(drive, TRUE, 0))
     \/ Finished("count")   /\ Task(WriteReg(drive, "sector_count", count))
     \/ /\ Finished("command")
        /\ Drives(ExecCmd(drive, kind))
        /\ job' = JobOf(kind)
        /\ UNCHANGED <<selected, dma, latchVars>>
  /\ UNCHANGED <<order, kind, count, moved, drq>>

Ack == /\ AckLatch("cpu")
       /\ Finished("ack")
       /\ UNCHANGED <<order, kind, count, moved, drq>>

Status == /\ ReadStatusReg("cpu")
          /\ Finished("status")
          /\ drq' = ("DRQ" \in drive.status)
          /\ UNCHANGED <<order, kind, count, moved>>

MoveWord ==
  /\ Turn("cpu")
  /\ todo # <<>> /\ Head(todo) = "data" /\ drq
  /\ Task(IF kind = "ReadSectors" THEN DataRead16(drive) ELSE DataWrite16(drive, FALSE))
  /\ moved' = moved + 1
  /\ todo' = IF moved' % WordsPerSector = 0 THEN Tail(todo) ELSE todo
  /\ UNCHANGED <<order, kind, count, drq>>

Wait == /\ NoAccess("cpu")
        /\ todo = <<>>
        /\ UNCHANGED driverVars

(* The core takes the IDE interrupt at the end of a step, unless it is in  *)
(* the handler already (I is set) or has not started its transfer.         *)
EndOfStep ==
  /\ SampleLatch
  /\ todo' = IF line' /\ todo = <<>> /\ ~Done THEN order ELSE todo
  /\ UNCHANGED <<order, kind, count, moved, drq>>

OtherPhases == (DmaBlock \/ Parked("cop")) /\ UNCHANGED driverVars

DriverNext == \/ Issue \/ Ack \/ Status \/ MoveWord \/ Wait
              \/ EndOfStep \/ OtherPhases

(* The emulator thread keeps stepping; the driver does one thing per step. *)
DriverSpec == DriverInit /\ [][DriverNext]_allVars /\ WF_allVars(DriverNext)

-------------------------------------------------------------------------------
(* The driver gets all its sectors: no interrupt it waits for is lost, and *)
(* no access it makes ends the emulator.                                   *)
TransferCompletes == <>(Done /\ drive.state = "Idle")

(* A driver that waits with sectors left will be interrupted: the latch is *)
(* set, or INTRQ rose since update_irq_latch looked at it last.            *)
NoMissedIrq ==
  Running /\ todo = <<>> /\ ~Done => latched \/ (drive.irq /\ ~wasAsserted)

(* A handler that finds no data to move was interrupted for nothing; that  *)
(* never happens before the transfer is over.                              *)
NoSpuriousIrq == todo # <<>> /\ Head(todo) = "data" => drq

(* Interrupts and sectors come in pairs.                                   *)
InterruptsMatchWork == NoSpuriousIrq /\ NoMissedIrq
===============================================================================
