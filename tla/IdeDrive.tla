------------------------------- MODULE IdeDrive -------------------------------
(***************************************************************************)
(* The ATA drive of clicky-core (devices/generic/ide/mod.rs) as operators  *)
(* on a drive record: what each register access does to it.                *)
(*                                                                         *)
(* The emulator thread runs one access at a time, and the block device is  *)
(* awaited with block_on, so an access is one step and the Async states    *)
(* are seen from outside only when an access failed half-way.              *)
(*                                                                         *)
(* Data is abstracted to where it comes from: "buf" says which block the   *)
(* sector buffer was filled from, "cursor" which block the block device    *)
(* would transfer next.  "fault" says why the emulator stopped, if it did: *)
(* a MemException that MemException::resolve turns into the end of run(),  *)
(* or a Rust panic.  Warn, Info and Debug exceptions only log.             *)
(***************************************************************************)
EXTENDS Integers

CONSTANTS
  SectorBytes,  \* the size of IdeIoBuf::buf, 512 in the code
  ZeroCount,    \* the sectors a Sector Count of 0 stands for, 256
  DmaModes,     \* the transfer mode bytes is_dma() accepts, 16..63
  NumBlocks,    \* BlockDev::len() / 512 when the drive was attached
  Backend       \* "raw" grows when written past its end, "mem" refuses,
                \* "null" reads zeroes and swallows writes anywhere

ASSUME IdeDriveAssumption ==
  /\ SectorBytes \in Nat \ {0, 1}  \* a sector holds a word
  /\ ZeroCount   \in Nat \ {0}
  /\ NumBlocks   \in Nat
  /\ Backend     \in {"raw", "mem", "null"}

NumHeads   == 16
NumSectors == 63

Commands == {"IdentifyDevice", "ReadSectors", "ReadMultiple", "ReadDMA",
             "WriteSectors", "WriteMultiple", "WriteDMA",
             "SetMultipleMode", "SetFeatures", "StandbyImmediate", "Sleep",
             "FlushCache", "Recalibrate", "ReadNativeMaxAddress",
             "SetMaxAddress", "InitializeDriveParameters", "Unknown"}

(* What the sector buffer holds when it is not a block of the device.      *)
Identity == -1
GuestData == -2

(* The task-file registers a guest writes and the drive only reads.        *)
Regs == {"feature", "sector_count", "sector_no", "cyl_lo", "cyl_hi", "head"}

States == {"Idle", "ReadReady", "ReadAsyncLoad", "WriteReady", "WriteAsyncFlush"}

Drive == [state : States, remaining : Nat, pos : Nat, cursor : Nat,
          size : Nat, buf : Int,
          status : SUBSET {"BSY", "DRDY", "DSC", "DRQ", "ERR"},
          reg : [Regs -> Nat], lba : BOOLEAN, srst : BOOLEAN, nien : BOOLEAN,
          multi : Nat, dma : BOOLEAN, eightbit : BOOLEAN,
          irq : BOOLEAN, dmarq : BOOLEAN, dmaPending : BOOLEAN,
          fault : {"none", "fatal", "panic"}]

(* IdeDrive::new.                                                          *)
NewDrive == [state |-> "Idle", remaining |-> 0, pos |-> 0, cursor |-> 0,
             size |-> NumBlocks, buf |-> GuestData, status |-> {"DRDY", "DSC"},
             reg |-> [r \in Regs |-> 0], lba |-> FALSE,
             srst |-> FALSE, nien |-> FALSE,
             multi |-> 0, dma |-> FALSE, eightbit |-> FALSE,
             irq |-> FALSE, dmarq |-> FALSE, dmaPending |-> FALSE,
             fault |-> "none"]

-------------------------------------------------------------------------------
Fail(d, why) == [d EXCEPT !.fault = why]

SetStatus(d, on, off) == [d EXCEPT !.status = (@ \ off) \cup on]

(* pulse_irq: clear, then assert; nobody looks at the line in between.     *)
PulseIrq(d) == [d EXCEPT !.irq = TRUE]

(* dmarq.assert on a line whose trigger fires on a rising edge.            *)
AssertDmarq(d) == [d EXCEPT !.dmaPending = @ \/ ~d.dmarq, !.dmarq = TRUE]

(* get_sector_offset: the block the address registers name, or none.       *)
NoOffset == -1
CylOf(d) == d.reg["cyl_hi"] * 256 + d.reg["cyl_lo"]
SectorOffset(d) ==
  IF d.lba
  THEN d.reg["head"] * 16777216 + CylOf(d) * 256 + d.reg["sector_no"]
  ELSE IF \/ d.reg["sector_no"] < NumSectors
          \/ CylOf(d) < NumBlocks \div (NumHeads * NumSectors)
          \/ d.reg["head"] < NumHeads
       THEN NoOffset
       ELSE (CylOf(d) * NumHeads + d.reg["head"]) * NumSectors + d.reg["sector_no"]

SectorCount(d) ==
  IF d.reg["sector_count"] = 0 THEN ZeroCount ELSE d.reg["sector_count"]

-------------------------------------------------------------------------------
(* Mutant: the block device does not move on.                            *)
ReadSameBlock(d) ==
  IF d.cursor < d.size \/ Backend = "null"
  THEN [d EXCEPT !.buf = d.cursor, !.pos = 0, !.state = "ReadReady"]
  ELSE Fail(d, "fatal")

(* blockdev.read_exact into the sector buffer, then new_transfer.          *)
ReadBlock(d) ==
  IF d.cursor < d.size \/ Backend = "null"
  THEN [d EXCEPT !.buf = d.cursor, !.cursor = @ + 1, !.pos = 0, !.state = "ReadReady"]
  ELSE Fail(d, "fatal")

(* blockdev.write_all from the sector buffer, then new_transfer.           *)
WriteBlock(d) ==
  IF d.cursor < d.size \/ Backend # "mem"
  THEN [d EXCEPT !.size = IF Backend = "raw" /\ d.cursor >= d.size THEN d.cursor + 1 ELSE @,
                 !.cursor = @ + 1, !.pos = 0, !.state = "WriteReady"]
  ELSE Fail(d, "fatal")

(* The rest of an access is skipped once it has returned an error (the ?). *)
Try(d, next) == IF d.fault = "none" THEN next ELSE d

PulseUnlessDma(d) == IF d.dma THEN d ELSE PulseIrq(d)

(* Mutant: DRQ stays set.                                                *)
FinishWithDrq(d) ==
  PulseIrq([SetStatus(d, {"DRDY"}, {}) EXCEPT !.state = "Idle", !.dmarq = FALSE])

(* The last sector is through: back to Idle, an interrupt, no DMA request. *)
Finish(d) ==
  PulseIrq([SetStatus(d, {"DRDY"}, {"DRQ"}) EXCEPT !.state = "Idle", !.dmarq = FALSE])

(* Mutant: the last sector is taken for one too few.                     *)
EndReadSectorLate(d) ==
  LET left   == [d EXCEPT !.remaining = @ - 1]
      busy   == [SetStatus(left, {"BSY"}, {"DRQ"}) EXCEPT !.state = "ReadAsyncLoad"]
      loaded == ReadBlock(busy)
  IN  IF d.remaining = 0
      THEN Finish(SetStatus(left, {}, {"BSY"}))
      ELSE Try(loaded, PulseUnlessDma(SetStatus(loaded, {"DRQ"}, {"BSY"})))

(* data_read8 once it has taken the last byte of a sector.                 *)
EndReadSector(d) ==
  LET left   == [d EXCEPT !.remaining = @ - 1]
      busy   == [SetStatus(left, {"BSY"}, {"DRQ"}) EXCEPT !.state = "ReadAsyncLoad"]
      loaded == ReadBlock(busy)
  IN  CASE d.remaining = 0 -> Fail(d, "panic")
        [] d.remaining = 1 -> Finish(SetStatus(left, {}, {"BSY"}))
        [] OTHER -> Try(loaded, PulseUnlessDma(SetStatus(loaded, {"DRQ"}, {"BSY"})))

DataRead8(d) ==
  LET read == [d EXCEPT !.pos = @ + 1]
      next == IF read.pos < SectorBytes THEN read ELSE EndReadSector(read)
  IN  Try(d, IF d.state = "ReadReady" /\ d.pos < SectorBytes THEN next ELSE Fail(d, "fatal"))

(* data_write8 once it has stored the last byte of a sector.               *)
EndWriteSector(d) ==
  LET busy    == [SetStatus(d, {"BSY"}, {"DRQ"}) EXCEPT !.state = "WriteAsyncFlush"]
      flushed == WriteBlock(busy)
      pulsed  == PulseUnlessDma(SetStatus(flushed, {"DRQ"}, {"BSY"}))
      left    == [pulsed EXCEPT !.remaining = @ - 1]
      last    == IF left.remaining = 0 THEN Finish(left) ELSE left
  IN  IF d.remaining = 0 THEN Fail(d, "panic") ELSE Try(flushed, last)

DataWrite8(d) ==
  LET written == [d EXCEPT !.pos = @ + 1, !.buf = GuestData]
      next    == IF written.pos < SectorBytes THEN written ELSE EndWriteSector(written)
  IN  Try(d, IF d.state = "WriteReady" /\ d.pos < SectorBytes THEN next ELSE Fail(d, "fatal"))

(* read16 and write16 of the Data register.                                *)
DataRead16(d) == IF d.eightbit THEN DataRead8(d) ELSE DataRead8(DataRead8(d))

DataWrite16(d, wide) ==
  CASE ~d.eightbit -> DataWrite8(DataWrite8(d))
    [] d.eightbit /\ wide -> Fail(d, "fatal")
    [] d.eightbit /\ ~wide -> DataWrite8(d)

-------------------------------------------------------------------------------
(* Mutant: DRQ is left to a later access.                                *)
ReadSectorsNoDrq(d) ==
  LET sought == [d EXCEPT !.cursor = SectorOffset(d), !.state = "ReadAsyncLoad"]
      loaded == ReadBlock(sought)
      ready  == [loaded EXCEPT !.remaining = SectorCount(d)]
  IN  IF SectorOffset(d) = NoOffset
      THEN Fail(d, "fatal")
      ELSE Try(loaded, PulseIrq(SetStatus(ready, {"DSC", "DRDY"}, {"BSY"})))

(* The arms of exec_cmd, after BSY was set and ERR and Error were cleared. *)
IdentifyDevice(d) ==
  PulseIrq([SetStatus(d, {"DRQ"}, {"BSY"})
            EXCEPT !.buf = Identity, !.pos = 0, !.state = "ReadReady", !.remaining = 1])

ReadSectors(d) ==
  LET sought == [d EXCEPT !.cursor = SectorOffset(d), !.state = "ReadAsyncLoad"]
      loaded == ReadBlock(sought)
      ready  == [loaded EXCEPT !.remaining = SectorCount(d)]
  IN  IF SectorOffset(d) = NoOffset
      THEN Fail(d, "fatal")
      ELSE Try(loaded, PulseIrq(SetStatus(ready, {"DSC", "DRDY", "DRQ"}, {"BSY"})))

WriteSectors(d) ==
  LET sought == [d EXCEPT !.cursor = SectorOffset(d), !.state = "WriteReady",
                          !.remaining = SectorCount(d), !.pos = 0]
  IN  IF SectorOffset(d) = NoOffset
      THEN Fail(d, "fatal")
      ELSE PulseIrq(SetStatus(sought, {"DSC", "DRQ"}, {"BSY", "DRDY"}))

(* Multi-sector support is stubbed: only a block count of 1 gets through.  *)
Multiple(d, start) == IF d.multi = 1 THEN start ELSE Fail(d, "fatal")

WithDma(d, start) == IF d.dma THEN start ELSE Fail(d, "fatal")

SetMultipleMode(d) ==
  LET set == [d EXCEPT !.multi = d.reg["sector_count"]]
  IN  IF set.multi > 1 THEN Fail(set, "fatal") ELSE SetStatus(set, {}, {"BSY"})

SetFeatures(d) ==
  LET done == SetStatus(d, {}, {"BSY"})
  IN  CASE d.reg["feature"] = 1   -> [done EXCEPT !.eightbit = TRUE]
        [] d.reg["feature"] = 3   -> [done EXCEPT !.dma = d.reg["sector_count"] \in DmaModes]
        [] d.reg["feature"] = 129 -> [done EXCEPT !.eightbit = FALSE]
        [] OTHER -> Fail(d, "fatal")

(* Commands without a data phase that report "seek complete" and interrupt.*)
Settle(d) == PulseIrq(SetStatus(d, {"DRDY", "DSC"}, {"BSY", "DRQ"}))

ReadNativeMaxAddress(d) ==
  LET last   == IF NumBlocks = 0 THEN 0 ELSE NumBlocks - 1
      maxLba == IF last > 268435455 THEN 268435455 ELSE last
  IN  Settle([d EXCEPT !.reg["sector_no"] = maxLba % 256,
                       !.reg["cyl_lo"] = (maxLba \div 256) % 256,
                       !.reg["cyl_hi"] = (maxLba \div 65536) % 256,
                       !.reg["head"]   = maxLba \div 16777216])

Run(d, cmd) ==
  CASE cmd = "IdentifyDevice"   -> IdentifyDevice(d)
    [] cmd = "ReadSectors"      -> ReadSectors(d)
    [] cmd = "ReadMultiple"     -> Multiple(d, ReadSectors(d))
    [] cmd = "ReadDMA"          -> WithDma(d, ReadSectors(AssertDmarq(d)))
    [] cmd = "WriteSectors"     -> WriteSectors(d)
    [] cmd = "WriteMultiple"    -> Multiple(d, WriteSectors(d))
    [] cmd = "WriteDMA"         -> WithDma(d, WriteSectors(AssertDmarq(d)))
    [] cmd = "SetMultipleMode"  -> SetMultipleMode(d)
    [] cmd = "SetFeatures"      -> SetFeatures(d)
    [] cmd = "StandbyImmediate" -> SetStatus(d, {}, {"BSY"})
    [] cmd = "Sleep"            -> PulseIrq(SetStatus(d, {}, {"BSY"}))
    [] cmd = "FlushCache"       -> SetStatus(d, {"DRDY"}, {"BSY", "DRQ"})
    [] cmd = "ReadNativeMaxAddress" -> ReadNativeMaxAddress(d)
    [] cmd \in {"Recalibrate", "SetMaxAddress", "InitializeDriveParameters"} -> Settle(d)
    [] cmd = "Unknown"          -> SetStatus(d, {"ERR"}, {"BSY"})

(* exec_cmd: a busy drive refuses the command with a warning.              *)
ExecCmd(d, cmd) ==
  IF "BSY" \in d.status THEN d ELSE Run(SetStatus(d, {"BSY"}, {"ERR"}), cmd)

-------------------------------------------------------------------------------
(* The other registers, and the Status read that acknowledges INTRQ.       *)
WriteReg(d, r, v)     == [d EXCEPT !.reg[r] = v]
WriteDevHead(d, l, h) == [d EXCEPT !.lba = l, !.reg["head"] = h]
WriteDevControl(d, srst, nien) == [d EXCEPT !.srst = srst, !.nien = nien]
ReadStatus(d) == [d EXCEPT !.irq = FALSE]
ClearDmaPending(d) == [d EXCEPT !.dmaPending = FALSE]

(* Between accesses a running drive is never busy; it asks for data (DRQ,  *)
(* DMARQ) only while a transfer is open; and an open transfer has a sector *)
(* to go and a byte left in the buffer, so no access can trip the asserts  *)
(* and the "past end of iobuf" error of data_read8 and data_write8.        *)
NeverBusy(d)   == "BSY" \notin d.status
Transferring(d) == d.state \in {"ReadReady", "WriteReady"}
RoomLeft(d)    == Transferring(d) => d.remaining >= 1 /\ d.pos < SectorBytes
DrqIsBacked(d) == "DRQ" \in d.status \/ d.dmarq => Transferring(d)
Sound(d) == d.fault = "none" =>
  /\ d.state \in {"Idle", "ReadReady", "WriteReady"}
  /\ NeverBusy(d)
  /\ RoomLeft(d)
  /\ DrqIsBacked(d)
===============================================================================
