---------------------------- MODULE EidePath_proofs ---------------------------
(***************************************************************************)
(* Proofs about EidePath: whatever registers the guest touches, in any     *)
(* order and from either core, the drive stays sound and moves the sectors *)
(* of a transfer in order, as SectorStream promises; and one core alone    *)
(* loses no edge of INTRQ.                                                 *)
(***************************************************************************)
EXTENDS EidePath, TLAPS

(* The fields of a drive record, and the little the soundness of a drive   *)
(* needs to know about their types.                                        *)
Fields == {"state", "remaining", "pos", "cursor", "size", "buf", "status", "reg",
           "lba", "srst", "nien", "multi", "dma", "eightbit", "irq", "dmarq",
           "dmaPending", "fault"}
Shaped(d) == /\ DOMAIN d = Fields
             /\ d.pos \in Nat
             /\ d.remaining \in Nat
             /\ d.reg \in [Regs -> Nat]

Good(d) == Shaped(d) /\ Sound(d)

(* Stopping the emulator keeps a record well-typed, and a stopped emulator *)
(* owes nothing more.                                                      *)
LEMMA FailGood ==
  ASSUME NEW d, Shaped(d), NEW why \in {"fatal", "panic"}
  PROVE  Good(Fail(d, why)) /\ Fail(d, why).fault # "none"
BY DEF Good, Sound, Fail, Shaped, Fields

(* Filling the sector buffer from the block device opens it for reading.   *)
LEMMA ReadBlockGood ==
  ASSUME NEW d, Shaped(d), d.fault = "none"
  PROVE  LET e == ReadBlock(d)
         IN  /\ Shaped(e)
             /\ e.fault = "none" => /\ e.state = "ReadReady" /\ e.pos = 0
                                    /\ e.remaining = d.remaining
BY IdeDriveAssumption DEF ReadBlock, Fail, Shaped, Fields

(* The end of a transfer leaves an idle drive that requests nothing.       *)
LEMMA FinishGood ==
  ASSUME NEW d, Shaped(d), "BSY" \notin d.status
  PROVE  Good(Finish(d))
BY DEF Finish, PulseIrq, SetStatus, Good, Sound, Shaped, Fields,
   NeverBusy, RoomLeft, DrqIsBacked, Transferring

(* A drive with a sector in its buffer and one to go may request it.       *)
LEMMA OpenGood ==
  ASSUME NEW d, Shaped(d), Transferring(d), d.remaining >= 1, d.pos = 0
  PROVE  LET e == SetStatus(d, {"DRQ"}, {"BSY"}) IN Good(e) /\ Good(PulseIrq(e))
BY IdeDriveAssumption DEF PulseIrq, SetStatus, Good, Sound, Shaped, Fields,
   NeverBusy, RoomLeft, DrqIsBacked, Transferring

(* Reading a byte of the data register keeps the drive sound.              *)
LEMMA DataRead8Good ==
  ASSUME NEW d, Good(d)
  PROVE  Good(DataRead8(d))
<1> DEFINE read == [d EXCEPT !.pos = @ + 1]
<1>1. CASE d.fault # "none"
  BY <1>1 DEF DataRead8, Try
<1>2. CASE d.fault = "none" /\ ~(d.state = "ReadReady" /\ d.pos < SectorBytes)
  BY <1>2, FailGood DEF DataRead8, Try, Good
<1>3. CASE /\ d.fault = "none"
           /\ (d.state = "ReadReady" /\ d.pos < SectorBytes)
           /\ read.pos < SectorBytes
  <2>1. Shaped(read)
    BY DEF Good, Shaped, Fields
  <2>2. Sound(read)
    BY <1>3, <2>1 DEF Good, Sound, Shaped, Fields, NeverBusy, RoomLeft, DrqIsBacked, Transferring
  <2> QED BY <1>3, <2>1, <2>2 DEF DataRead8, Try, Good
<1>4. CASE /\ d.fault = "none"
           /\ (d.state = "ReadReady" /\ d.pos < SectorBytes)
           /\ ~(read.pos < SectorBytes)
  <2>1. DataRead8(d) = EndReadSector(read)
    BY <1>4 DEF DataRead8, Try
  <2>2. Shaped(read) /\ read.fault = "none" /\ read.remaining >= 1
    BY <1>4 DEF Good, Sound, Shaped, Fields, RoomLeft, Transferring
  <2> HIDE DEF read
  <2>3. CASE read.remaining = 1
    <3> DEFINE left == SetStatus([read EXCEPT !.remaining = @ - 1], {}, {"BSY"})
    <3>1. EndReadSector(read) = Finish(left)
      BY <2>2, <2>3 DEF EndReadSector
    <3>2. Shaped(left) /\ "BSY" \notin left.status
      BY <2>2, <2>3 DEF SetStatus, Shaped, Fields
    <3> HIDE DEF left
    <3> QED BY <2>1, <3>1, <3>2, FinishGood
  <2>4. CASE read.remaining > 1
    <3> DEFINE busy == [SetStatus([read EXCEPT !.remaining = @ - 1], {"BSY"}, {"DRQ"})
                        EXCEPT !.state = "ReadAsyncLoad"]
               loaded == ReadBlock(busy)
    <3>1. Shaped(busy) /\ busy.fault = "none" /\ busy.remaining >= 1
      BY <2>2, <2>4 DEF SetStatus, Shaped, Fields
    <3>2. EndReadSector(read) =
            Try(loaded, PulseUnlessDma(SetStatus(loaded, {"DRQ"}, {"BSY"})))
      BY <2>2, <2>4 DEF EndReadSector, Shaped, Fields
    <3> HIDE DEF busy
    <3>3. /\ Shaped(loaded)
          /\ loaded.fault = "none" => /\ loaded.state = "ReadReady" /\ loaded.pos = 0
                                      /\ loaded.remaining >= 1
      BY <3>1, ReadBlockGood
    <3> HIDE DEF loaded
    <3>4. CASE loaded.fault # "none"
      BY <2>1, <3>2, <3>3, <3>4 DEF Try, Good, Sound
    <3>5. CASE loaded.fault = "none"
      <4>1. LET e == SetStatus(loaded, {"DRQ"}, {"BSY"}) IN Good(e) /\ Good(PulseIrq(e))
        BY <3>3, <3>5, OpenGood DEF Transferring
      <4> QED BY <2>1, <3>2, <3>5, <4>1 DEF Try, PulseUnlessDma
    <3> QED BY <3>4, <3>5
  <2> QED BY <2>1, <2>2, <2>3, <2>4 DEF Shaped, Fields
<1> QED BY <1>1, <1>2, <1>3, <1>4

(* Flushing the sector buffer reopens it for the next sector.              *)
LEMMA WriteBlockGood ==
  ASSUME NEW d, Shaped(d), d.fault = "none"
  PROVE  LET e == WriteBlock(d)
         IN  /\ Shaped(e)
             /\ e.fault = "none" => /\ e.state = "WriteReady" /\ e.pos = 0
                                    /\ e.remaining = d.remaining
BY IdeDriveAssumption DEF WriteBlock, Fail, Shaped, Fields

(* Writing a byte of the data register keeps the drive sound.              *)
LEMMA DataWrite8Good ==
  ASSUME NEW d, Good(d)
  PROVE  Good(DataWrite8(d))
<1> DEFINE written == [d EXCEPT !.pos = @ + 1, !.buf = GuestData]
<1>1. CASE d.fault # "none"
  BY <1>1 DEF DataWrite8, Try
<1>2. CASE d.fault = "none" /\ ~(d.state = "WriteReady" /\ d.pos < SectorBytes)
  BY <1>2, FailGood DEF DataWrite8, Try, Good
<1>3. CASE /\ d.fault = "none"
           /\ (d.state = "WriteReady" /\ d.pos < SectorBytes)
           /\ written.pos < SectorBytes
  <2>1. Shaped(written)
    BY DEF Good, Shaped, Fields, GuestData
  <2>2. Sound(written)
    BY <1>3, <2>1 DEF Good, Sound, Shaped, Fields, NeverBusy, RoomLeft, DrqIsBacked, Transferring
  <2> QED BY <1>3, <2>1, <2>2 DEF DataWrite8, Try, Good
<1>4. CASE /\ d.fault = "none"
           /\ (d.state = "WriteReady" /\ d.pos < SectorBytes)
           /\ ~(written.pos < SectorBytes)
  <2>1. DataWrite8(d) = EndWriteSector(written)
    BY <1>4 DEF DataWrite8, Try
  <2>2. Shaped(written) /\ written.fault = "none" /\ written.remaining >= 1
    BY <1>4 DEF Good, Sound, Shaped, Fields, RoomLeft, Transferring, GuestData
  <2> HIDE DEF written
  <2> DEFINE busy == [SetStatus(written, {"BSY"}, {"DRQ"}) EXCEPT !.state = "WriteAsyncFlush"]
             flushed == WriteBlock(busy)
             pulsed == PulseUnlessDma(SetStatus(flushed, {"DRQ"}, {"BSY"}))
             left == [pulsed EXCEPT !.remaining = @ - 1]
  <2>3. Shaped(busy) /\ busy.fault = "none" /\ busy.remaining >= 1
    BY <2>2 DEF SetStatus, Shaped, Fields
  <2>4. EndWriteSector(written) = IF flushed.fault # "none" THEN flushed
                                  ELSE IF left.remaining = 0 THEN Finish(left) ELSE left
    BY <2>2 DEF EndWriteSector, Try, Shaped, Fields
  <2> HIDE DEF busy
  <2>5. /\ Shaped(flushed)
        /\ flushed.fault = "none" => /\ flushed.state = "WriteReady" /\ flushed.pos = 0
                                     /\ flushed.remaining >= 1
    BY <2>3, WriteBlockGood
  <2> HIDE DEF flushed
  <2>6. CASE flushed.fault # "none"
    BY <2>1, <2>4, <2>5, <2>6 DEF Good, Sound
  <2>7. CASE flushed.fault = "none"
    <3>1. /\ Shaped(left)
          /\ left.state = "WriteReady" /\ left.pos = 0
          /\ "BSY" \notin left.status
      BY <2>5, <2>7 DEF PulseUnlessDma, PulseIrq, SetStatus, Shaped, Fields
    <3> HIDE DEF left
    <3>2. CASE left.remaining = 0
      <4>1. EndWriteSector(written) = Finish(left)
        BY <2>4, <2>7, <3>2
      <4>2. Good(Finish(left))
        BY <3>1, FinishGood
      <4> QED BY <2>1, <4>1, <4>2
    <3>3. CASE left.remaining # 0
      <4>1. EndWriteSector(written) = left
        BY <2>4, <2>7, <3>3
      <4>2. Good(left)
        BY <3>1, <3>3, IdeDriveAssumption DEF Good, Sound, Shaped, Fields,
           NeverBusy, RoomLeft, DrqIsBacked, Transferring
      <4> QED BY <2>1, <4>1, <4>2
    <3> QED BY <3>2, <3>3
  <2> QED BY <2>1, <2>6, <2>7
<1> QED BY <1>1, <1>2, <1>3, <1>4

(* Changing a field that soundness does not mention.                       *)
LEMMA PulseGood ==
  ASSUME NEW d, Good(d)
  PROVE  Good(PulseIrq(d))
BY DEF PulseIrq, Good, Sound, Shaped, Fields, NeverBusy, RoomLeft, DrqIsBacked, Transferring

(* A word of the data register is one or two bytes.                        *)
LEMMA DataWordGood ==
  ASSUME NEW d, Good(d), NEW wide \in BOOLEAN
  PROVE  Good(DataRead16(d)) /\ Good(DataWrite16(d, wide))
<1>1. Good(DataRead16(d))
  BY DataRead8Good DEF DataRead16
<1>2. Good(Fail(d, "fatal"))
  BY FailGood DEF Good
<1>3. Good(DataWrite16(d, wide))
  BY <1>2, DataWrite8Good DEF DataWrite16
<1> QED BY <1>1, <1>3

(* A drive exec_cmd has just marked busy, before it runs the command.      *)
Started(d) == /\ Shaped(d)
              /\ d.fault = "none"
              /\ d.state \in {"Idle", "ReadReady", "WriteReady"}
              /\ RoomLeft(d)
              /\ DrqIsBacked(d)

(* A command that clears BSY and does not raise DRQ ends sound.            *)
LEMMA SettledGood ==
  ASSUME NEW d, Started(d), NEW on \in SUBSET {"DRDY", "DSC", "ERR"},
         NEW off \in {{"BSY"}, {"BSY", "DRQ"}}
  PROVE  Good(SetStatus(d, on, off))
BY DEF SetStatus, Started, Good, Sound, Shaped, Fields, NeverBusy, RoomLeft, DrqIsBacked,
   Transferring

(* A transfer command asks for at least one sector (0 means ZeroCount).    *)
LEMMA CountPositive ==
  ASSUME NEW d, d.reg \in [Regs -> Nat]
  PROVE  SectorCount(d) \in Nat /\ SectorCount(d) >= 1
BY IdeDriveAssumption DEF SectorCount, Regs

(* Starting a read leaves a sector in the buffer, or stops the emulator;   *)
(* a DMA request raised just before is then backed by the open transfer.   *)
LEMMA ReadSectorsGood ==
  ASSUME NEW d, Shaped(d), d.fault = "none"
  PROVE  Good(ReadSectors(d))
<1> DEFINE sought == [d EXCEPT !.cursor = SectorOffset(d), !.state = "ReadAsyncLoad"]
           loaded == ReadBlock(sought)
           ready  == [loaded EXCEPT !.remaining = SectorCount(d)]
<1>1. CASE SectorOffset(d) = NoOffset
  BY <1>1, FailGood DEF ReadSectors
<1>2. CASE SectorOffset(d) # NoOffset
  <2>1. Shaped(sought) /\ sought.fault = "none"
    BY DEF Shaped, Fields
  <2>2. ReadSectors(d) =
          Try(loaded, PulseIrq(SetStatus(ready, {"DSC", "DRDY", "DRQ"}, {"BSY"})))
    BY <1>2 DEF ReadSectors
  <2> HIDE DEF sought
  <2>3. /\ Shaped(loaded)
        /\ loaded.fault = "none" => loaded.state = "ReadReady" /\ loaded.pos = 0
    BY <2>1, ReadBlockGood
  <2> HIDE DEF loaded
  <2>4. CASE loaded.fault # "none"
    BY <2>2, <2>3, <2>4 DEF Try, Good, Sound
  <2>5. CASE loaded.fault = "none"
    <3>1. Shaped(ready) /\ Transferring(ready) /\ ready.remaining >= 1 /\ ready.pos = 0
      BY <2>3, <2>5, CountPositive DEF Shaped, Fields, Transferring
    <3> HIDE DEF ready
    <3>2. Good(SetStatus(ready, {"DSC", "DRDY", "DRQ"}, {"BSY"}))
      BY <3>1, IdeDriveAssumption DEF SetStatus, Good, Sound, Shaped, Fields,
         NeverBusy, RoomLeft, DrqIsBacked, Transferring
    <3> QED BY <2>2, <2>5, <3>2, PulseGood DEF Try
  <2> QED BY <2>4, <2>5
<1> QED BY <1>1, <1>2

(* Starting a write opens an empty buffer for the guest's first sector.    *)
LEMMA WriteSectorsGood ==
  ASSUME NEW d, Shaped(d), d.fault = "none"
  PROVE  Good(WriteSectors(d))
<1> DEFINE sought == [d EXCEPT !.cursor = SectorOffset(d), !.state = "WriteReady",
                               !.remaining = SectorCount(d), !.pos = 0]
<1>1. CASE SectorOffset(d) = NoOffset
  BY <1>1, FailGood DEF WriteSectors
<1>2. CASE SectorOffset(d) # NoOffset
  <2>1. Shaped(sought) /\ Transferring(sought) /\ sought.remaining >= 1 /\ sought.pos = 0
    BY CountPositive DEF Shaped, Fields, Transferring
  <2>2. WriteSectors(d) = PulseIrq(SetStatus(sought, {"DSC", "DRQ"}, {"BSY", "DRDY"}))
    BY <1>2 DEF WriteSectors
  <2> HIDE DEF sought
  <2>3. Good(SetStatus(sought, {"DSC", "DRQ"}, {"BSY", "DRDY"}))
    BY <2>1, IdeDriveAssumption DEF SetStatus, Good, Sound, Shaped, Fields,
       NeverBusy, RoomLeft, DrqIsBacked, Transferring
  <2> QED BY <2>2, <2>3, PulseGood
<1> QED BY <1>1, <1>2

(* Set Multiple Mode stores a byte soundness does not look at.             *)
LEMMA MultiStarted ==
  ASSUME NEW d, Started(d), NEW n \in Nat
  PROVE  Started([d EXCEPT !.multi = n])
BY DEF Started, Shaped, Fields, RoomLeft, DrqIsBacked, Transferring

(* The native maximum address goes into the address registers byte by byte.*)
LEMMA NativeMaxStarted ==
  ASSUME NEW d, Started(d),
         NEW a \in Nat, NEW b \in Nat, NEW c \in Nat, NEW h \in Nat
  PROVE  Started([d EXCEPT !.reg["sector_no"] = a, !.reg["cyl_lo"] = b,
                           !.reg["cyl_hi"] = c, !.reg["head"] = h])
<1> DEFINE e == [d EXCEPT !.reg["sector_no"] = a, !.reg["cyl_lo"] = b,
                          !.reg["cyl_hi"] = c, !.reg["head"] = h]
<1>1. e.reg \in [Regs -> Nat]
  BY DEF Started, Shaped, Fields, Regs
<1>2. /\ DOMAIN e = Fields /\ e.pos = d.pos /\ e.remaining = d.remaining
      /\ e.state = d.state /\ e.status = d.status /\ e.dmarq = d.dmarq /\ e.fault = d.fault
  BY DEF Started, Shaped, Fields
<1> HIDE DEF e
<1>3. Started(e)
  BY <1>1, <1>2 DEF Started, Shaped, RoomLeft, DrqIsBacked, Transferring
<1> QED BY <1>3 DEF e

(* Every byte of a block number is a number.                              *)
LEMMA NativeMaxBytes ==
  ASSUME NEW n \in Nat
  PROVE  /\ n % 256 \in Nat /\ (n \div 256) % 256 \in Nat
         /\ (n \div 65536) % 256 \in Nat /\ n \div 16777216 \in Nat
OBVIOUS

(* Every command, run on a drive marked busy, ends sound.                  *)
LEMMA RunGood ==
  ASSUME NEW d, Started(d), NEW cmd \in Commands
  PROVE  Good(Run(d, cmd))
<1>1. Good(Fail(d, "fatal"))
  BY FailGood DEF Started
<1>2. Good(ReadSectors(d)) /\ Good(WriteSectors(d))
  BY ReadSectorsGood, WriteSectorsGood DEF Started
<1>3. Shaped(AssertDmarq(d)) /\ AssertDmarq(d).fault = "none"
  BY DEF AssertDmarq, Started, Shaped, Fields
<1>4. Good(ReadSectors(AssertDmarq(d))) /\ Good(WriteSectors(AssertDmarq(d)))
  BY <1>3, ReadSectorsGood, WriteSectorsGood
<1>5. ASSUME NEW e, Started(e)
      PROVE  /\ Good(SetStatus(e, {}, {"BSY"}))
             /\ Good(SetStatus(e, {"ERR"}, {"BSY"}))
             /\ Good(SetStatus(e, {"DRDY"}, {"BSY", "DRQ"}))
             /\ Good(Settle(e))
  BY <1>5, SettledGood, PulseGood DEF Settle
<1>6. Good(IdentifyDevice(d))
  <2> DEFINE e == [SetStatus(d, {"DRQ"}, {"BSY"})
                   EXCEPT !.buf = Identity, !.pos = 0, !.state = "ReadReady", !.remaining = 1]
  <2>1. Good(e)
    BY IdeDriveAssumption DEF SetStatus, Started, Good, Sound, Shaped, Fields,
       NeverBusy, RoomLeft, DrqIsBacked, Transferring
  <2> HIDE DEF e
  <2>2. IdentifyDevice(d) = PulseIrq(e)
    BY DEF IdentifyDevice, e
  <2> QED BY <2>1, <2>2, PulseGood
<1>7. Good(SetMultipleMode(d))
  <2> DEFINE set == [d EXCEPT !.multi = d.reg["sector_count"]]
  <2>0. d.reg["sector_count"] \in Nat
    BY DEF Started, Shaped, Regs
  <2>1. Started(set)
    BY <2>0, MultiStarted
  <2>2. Good(Fail(set, "fatal"))
    BY <2>1, FailGood DEF Started
  <2> HIDE DEF set
  <2>3. Good(SetStatus(set, {}, {"BSY"}))
    BY <2>1, <1>5
  <2> QED BY <2>2, <2>3 DEF SetMultipleMode, set
<1>8. Good(SetFeatures(d))
  <2> DEFINE done == SetStatus(d, {}, {"BSY"})
  <2>1. Good(done)
    BY <1>5
  <2> HIDE DEF done
  <2>2. /\ Good([done EXCEPT !.dma = d.reg["sector_count"] \in DmaModes])
        /\ Good([done EXCEPT !.eightbit = TRUE])
        /\ Good([done EXCEPT !.eightbit = FALSE])
    BY <2>1 DEF Good, Sound, Shaped, Fields, NeverBusy, RoomLeft, DrqIsBacked, Transferring
  <2> QED BY <1>1, <2>2 DEF SetFeatures, done
<1>9. Good(ReadNativeMaxAddress(d))
  <2> DEFINE last   == IF NumBlocks = 0 THEN 0 ELSE NumBlocks - 1
             maxLba == IF last > 268435455 THEN 268435455 ELSE last
             n == maxLba % 256
             lo == (maxLba \div 256) % 256
             hi == (maxLba \div 65536) % 256
             h == maxLba \div 16777216
             e == [d EXCEPT !.reg["sector_no"] = n, !.reg["cyl_lo"] = lo,
                            !.reg["cyl_hi"] = hi, !.reg["head"] = h]
  <2>1. maxLba \in Nat
    BY IdeDriveAssumption
  <2>2. ReadNativeMaxAddress(d) = Settle(e)
    BY DEF ReadNativeMaxAddress
  <2> HIDE DEF maxLba
  <2>3. n \in Nat /\ lo \in Nat /\ hi \in Nat /\ h \in Nat
    BY <2>1, NativeMaxBytes
  <2> HIDE DEF n, lo, hi, h
  <2>4. Started(e)
    BY <2>3, NativeMaxStarted
  <2> QED BY <2>2, <2>4, <1>5
<1> QED BY <1>1, <1>2, <1>4, <1>5, <1>6, <1>7, <1>8, <1>9, PulseGood
        DEF Run, Commands, Multiple, WithDma

(* exec_cmd keeps a running drive sound.                                   *)
LEMMA ExecCmdGood ==
  ASSUME NEW d, Good(d), d.fault = "none", NEW cmd \in Commands
  PROVE  Good(ExecCmd(d, cmd))
<1>1. Started(SetStatus(d, {"BSY"}, {"ERR"}))
  BY DEF SetStatus, Started, Good, Sound, Shaped, Fields, RoomLeft, DrqIsBacked, Transferring
<1> QED BY <1>1, RunGood DEF ExecCmd

-------------------------------------------------------------------------------
DriveGood == Good(drive)

(* The drive a machine starts with is sound.                               *)
LEMMA InitGood == Init => DriveGood
BY DEF Init, DriveGood, NewDrive, Good, Sound, Shaped, Fields, Regs,
   NeverBusy, RoomLeft, DrqIsBacked, Transferring

(* Every register access, DMA word and latch sample keeps it sound.        *)
LEMMA StepGood ==
  ASSUME DriveGood, [Next]_vars
  PROVE  DriveGood'
<1>1. ASSUME NEW p, Access(p)
      PROVE  DriveGood'
  <2>1. ASSUME NEW e, Good(e), Drives(OnDrive(e))
        PROVE  DriveGood'
    BY <2>1 DEF Drives, OnDrive, DriveGood
  <2>2. Running
    BY <1>1 DEF Access, Turn, NoAccess, ReadData, WriteData, ReadStatusReg, WriteTaskReg,
       WriteDevCtl, WriteDeviceHead, WriteCommand, AckLatch, WriteDmaControl, WriteDmaLength,
       Unimplemented
  <2>3. CASE drive' = drive
    BY <2>3 DEF DriveGood
  <2>4. CASE ReadData(p)
    BY <2>1, <2>4, DataWordGood DEF ReadData, Task, DriveGood
  <2>5. CASE WriteData(p)
    BY <2>1, <2>5, DataWordGood DEF WriteData, Task, DriveGood
  <2>6. CASE ReadStatusReg(p)
    <3>1. Good(ReadStatus(drive))
      BY DEF DriveGood, ReadStatus, Good, Sound, Shaped, Fields, NeverBusy, RoomLeft,
         DrqIsBacked, Transferring
    <3> QED BY <2>1, <2>6, <3>1 DEF ReadStatusReg, Task
  <2>7. CASE WriteTaskReg(p)
    <3>1. PICK r \in Regs, v \in Nat : Drives(OnDrive(WriteReg(drive, r, v)))
      BY <2>7, EidePathAssumption DEF WriteTaskReg, Task
    <3>2. Good(WriteReg(drive, r, v))
      BY DEF DriveGood, WriteReg, Good, Sound, Shaped, Fields, NeverBusy, RoomLeft,
         DrqIsBacked, Transferring
    <3> QED BY <2>1, <3>1, <3>2
  <2>8. CASE WriteDevCtl(p)
    <3>1. ASSUME NEW srst, NEW nien
          PROVE  Good(WriteDevControl(drive, srst, nien))
      BY DEF DriveGood, WriteDevControl, Good, Sound, Shaped, Fields, NeverBusy, RoomLeft,
         DrqIsBacked, Transferring
    <3> QED BY <2>1, <2>8, <3>1 DEF WriteDevCtl, Task
  <2>9. CASE WriteDeviceHead(p)
    <3>1. ASSUME NEW l, NEW h \in Nat
          PROVE  Good(WriteDevHead(drive, l, h))
      BY <3>1 DEF DriveGood, WriteDevHead, Good, Sound, Shaped, Fields, Regs, NeverBusy,
         RoomLeft, DrqIsBacked, Transferring
    <3>2. Values["head"] \subseteq Nat
      BY EidePathAssumption DEF Regs
    <3> QED BY <2>9, <3>1, <3>2 DEF WriteDeviceHead, Drives, DriveGood
  <2>10. CASE WriteCommand(p)
    <3>1. PICK cmd \in Commands : Drives(OnDrive(ExecCmd(drive, cmd)))
      BY <2>10, EidePathAssumption DEF WriteCommand
    <3> QED BY <2>1, <2>2, <3>1, ExecCmdGood DEF DriveGood, Running
  <2>11. CASE WriteDmaLength(p)
    BY <2>11, FailGood DEF WriteDmaLength, DriveGood, Good
  <2>12. CASE Unimplemented(p)
    BY <2>12, FailGood DEF Unimplemented, DriveGood, Good
  <2>13. CASE NoAccess(p) \/ AckLatch(p) \/ WriteDmaControl(p)
    BY <2>3, <2>13 DEF NoAccess, AckLatch, WriteDmaControl, driveVars
  <2> QED BY <1>1, <2>4, <2>5, <2>6, <2>7, <2>8, <2>9, <2>10, <2>11, <2>12, <2>13 DEF Access
<1>2. CASE DmaBlock
  <2>1. ASSUME NEW e, Good(e)
        PROVE  Good(ClearDmaPending(e))
    BY <2>1 DEF ClearDmaPending, Good, Sound, Shaped, Fields, NeverBusy, RoomLeft,
       DrqIsBacked, Transferring
  <2>2. ASSUME NEW wide \in BOOLEAN
        PROVE  Good(Moved(wide))
    <3> DEFINE e == IF dma.read THEN DataRead16(drive) ELSE DataWrite16(drive, wide)
    <3>1. Good(e)
      BY DataWordGood DEF DriveGood
    <3>2. Good(Fail(e, "panic"))
      BY <3>1, FailGood DEF Good
    <3> QED BY <3>1, <3>2 DEF Moved
  <2>3. Good(Fail(drive, "panic"))
    BY FailGood DEF DriveGood, Good
  <2>4. CASE ~MovesWord
    BY <1>2, <2>1, <2>4 DEF DmaBlock, DriveGood
  <2>5. CASE MovesWord
    <3>1. PICK wide, faults \in BOOLEAN :
            Drives(ClearDmaPending(IF DmaPanics(faults) THEN Fail(drive, "panic")
                                                        ELSE Moved(wide)))
      BY <1>2, <2>5 DEF DmaBlock
    <3> QED BY <2>1, <2>2, <2>3, <3>1 DEF Drives, DriveGood
  <2> QED BY <2>4, <2>5
<1>3. CASE SampleLatch
  BY <1>3 DEF SampleLatch, DriveGood
<1>4. ASSUME NEW p, Parked(p)
      PROVE  DriveGood'
  BY <1>4 DEF Parked, driveVars, DriveGood
<1>5. CASE UNCHANGED vars
  BY <1>5 DEF vars, DriveGood
<1> QED BY <1>1, <1>2, <1>3, <1>4, <1>5 DEF Next, StepLoop

(* Whatever the guest programs, a running drive is never left busy, asks   *)
(* for data only inside a transfer, and never over- or underruns its       *)
(* sector buffer or its sector count.                                      *)
THEOREM DriveStaysSound == Spec => []DriveSound
<1>1. DriveGood => DriveSound
  BY DEF DriveGood, Good, DriveSound
<1> QED BY InitGood, StepGood, <1>1, PTL DEF Spec
-------------------------------------------------------------------------------
SingleCore == \A p, q \in ActiveCores : p = q

(* A request for a DMA word comes with an interrupt: if an access raised   *)
(* DMARQ, INTRQ is up as well.                                             *)
Backed(d) == d.fault = "none" /\ d.dmaPending => d.irq

(* The active core has not executed its instruction of this step yet.      *)
Before == phase = "cpu" \/ phase \in ActiveCores

(* NoLostEdge alone is not inductive.  An edge that the next sample will   *)
(* see began after the last one, when INTRQ was low; so the last sample and*)
(* INTRQ agree until the core's instruction, and only one thing can raise  *)
(* INTRQ after it in the same step: the DMA block, for a request of that   *)
(* instruction, which itself left INTRQ up if it did not find it down.     *)
EdgeInv ==
  /\ DriveGood
  /\ edge # "none" => drive.irq
  /\ edge = "fresh" => ~wasAsserted
  /\ NoLostEdge
  /\ Running /\ Before => edge # "fresh" /\ (wasAsserted <=> drive.irq) /\ ~drive.dmaPending
  /\ phase = "latch" => ~drive.dmaPending
  /\ Backed(drive) \/ ~wasAsserted

(* What a part of an access leaves of a drive: its fields, and the request *)
(* for a DMA word.                                                         *)
Keeps(d, e) == DOMAIN e = Fields /\ e.dmaPending = d.dmaPending

LEMMA PartsKeep ==
  ASSUME NEW d, DOMAIN d = Fields
  PROVE  /\ \A why : Keeps(d, Fail(d, why))
         /\ \A on, off : Keeps(d, SetStatus(d, on, off))
         /\ Keeps(d, PulseIrq(d)) /\ Keeps(d, PulseUnlessDma(d)) /\ Keeps(d, Finish(d))
         /\ Keeps(d, ReadBlock(d)) /\ Keeps(d, WriteBlock(d))
<1>1. \A why : Keeps(d, Fail(d, why))
  BY DEF Keeps, Fail, Fields
<1>2. \A on, off : Keeps(d, SetStatus(d, on, off))
  BY DEF Keeps, SetStatus, Fields
<1>3. Keeps(d, PulseIrq(d)) /\ Keeps(d, PulseUnlessDma(d))
  BY DEF Keeps, PulseIrq, PulseUnlessDma, Fields
<1>4. Keeps(d, Finish(d))
  BY DEF Keeps, Finish, PulseIrq, SetStatus, Fields
<1>5. Keeps(d, ReadBlock(d)) /\ Keeps(d, WriteBlock(d))
  BY <1>1 DEF Keeps, ReadBlock, WriteBlock, Fields
<1> QED BY <1>1, <1>2, <1>3, <1>4, <1>5

(* A byte of the data register requests no further word.                   *)
LEMMA ByteKeeps ==
  ASSUME NEW d, DOMAIN d = Fields
  PROVE  Keeps(d, DataRead8(d)) /\ Keeps(d, DataWrite8(d))
<1>1. ASSUME NEW e, DOMAIN e = Fields
      PROVE  Keeps(e, EndReadSector(e))
  <2> DEFINE left   == [e EXCEPT !.remaining = @ - 1]
             busy   == [SetStatus(left, {"BSY"}, {"DRQ"}) EXCEPT !.state = "ReadAsyncLoad"]
             loaded == ReadBlock(busy)
             idle   == SetStatus(left, {}, {"BSY"})
  <2>1. Keeps(e, left) /\ Keeps(e, busy) /\ Keeps(e, idle)
    BY <1>1 DEF Keeps, SetStatus, Fields
  <2>2. \/ EndReadSector(e) = Fail(e, "panic")
        \/ EndReadSector(e) = Finish(idle)
        \/ EndReadSector(e) = Try(loaded, PulseUnlessDma(SetStatus(loaded, {"DRQ"}, {"BSY"})))
    BY DEF EndReadSector
  <2> HIDE DEF left, busy, idle
  <2>3. Keeps(e, loaded) /\ Keeps(e, Finish(idle)) /\ Keeps(e, Fail(e, "panic"))
    BY <1>1, <2>1, PartsKeep DEF Keeps
  <2> HIDE DEF loaded
  <2>4. Keeps(e, PulseUnlessDma(SetStatus(loaded, {"DRQ"}, {"BSY"})))
    <3>1. Keeps(e, SetStatus(loaded, {"DRQ"}, {"BSY"}))
      BY <2>3, PartsKeep DEF Keeps
    <3> QED BY <3>1, PartsKeep DEF Keeps
  <2> QED BY <2>2, <2>3, <2>4 DEF Try
<1>2. ASSUME NEW e, DOMAIN e = Fields
      PROVE  Keeps(e, EndWriteSector(e))
  <2> DEFINE busy    == [SetStatus(e, {"BSY"}, {"DRQ"}) EXCEPT !.state = "WriteAsyncFlush"]
             flushed == WriteBlock(busy)
             pulsed  == PulseUnlessDma(SetStatus(flushed, {"DRQ"}, {"BSY"}))
             left    == [pulsed EXCEPT !.remaining = @ - 1]
  <2>1. Keeps(e, busy)
    BY <1>2 DEF Keeps, SetStatus, Fields
  <2>2. \/ EndWriteSector(e) = Fail(e, "panic")
        \/ EndWriteSector(e) = flushed
        \/ EndWriteSector(e) = Finish(left)
        \/ EndWriteSector(e) = left
    BY DEF EndWriteSector, Try
  <2> HIDE DEF busy
  <2>3. Keeps(e, flushed) /\ Keeps(e, Fail(e, "panic"))
    BY <1>2, <2>1, PartsKeep DEF Keeps
  <2> HIDE DEF flushed
  <2>4. Keeps(e, pulsed)
    BY <2>3, PartsKeep DEF Keeps
  <2> HIDE DEF pulsed
  <2>5. Keeps(e, left)
    BY <2>4 DEF Keeps, Fields
  <2> HIDE DEF left
  <2>6. Keeps(e, Finish(left))
    BY <2>5, PartsKeep DEF Keeps
  <2> QED BY <2>2, <2>3, <2>5, <2>6
<1> DEFINE read    == [d EXCEPT !.pos = @ + 1]
           written == [d EXCEPT !.pos = @ + 1, !.buf = GuestData]
<1>3. Keeps(d, d) /\ Keeps(d, Fail(d, "fatal")) /\ Keeps(d, read) /\ Keeps(d, written)
  BY PartsKeep DEF Keeps, Fields
<1>4. /\ DataRead8(d) \in {d, Fail(d, "fatal"), read, EndReadSector(read)}
      /\ DataWrite8(d) \in {d, Fail(d, "fatal"), written, EndWriteSector(written)}
  BY DEF DataRead8, DataWrite8, Try
<1> HIDE DEF read, written
<1>5. Keeps(d, EndReadSector(read)) /\ Keeps(d, EndWriteSector(written))
  BY <1>1, <1>2, <1>3 DEF Keeps
<1> QED BY <1>3, <1>4, <1>5

LEMMA WordKeeps ==
  ASSUME NEW d, DOMAIN d = Fields, NEW wide \in BOOLEAN
  PROVE  Keeps(d, DataRead16(d)) /\ Keeps(d, DataWrite16(d, wide))
<1>1. Keeps(d, DataRead8(d)) /\ Keeps(d, DataRead8(DataRead8(d)))
  BY ByteKeeps DEF Keeps
<1>2. Keeps(d, DataWrite8(d)) /\ Keeps(d, DataWrite8(DataWrite8(d))) /\ Keeps(d, Fail(d, "fatal"))
  BY ByteKeeps, PartsKeep DEF Keeps
<1> QED BY <1>1, <1>2 DEF DataRead16, DataWrite16
(* A command that opens a transfer, or that reports its end, raises INTRQ; *)
(* the others request no word.                                             *)
Quiet(d, e) == DOMAIN e = Fields /\ (e.fault = "none" => e.irq \/ e.dmaPending = d.dmaPending)

LEMMA TransfersPulse ==
  ASSUME NEW d, DOMAIN d = Fields
  PROVE  /\ ReadSectors(d).fault = "none" => ReadSectors(d).irq
         /\ WriteSectors(d).fault = "none" => WriteSectors(d).irq
         /\ DOMAIN ReadSectors(d) = Fields /\ DOMAIN WriteSectors(d) = Fields
<1> DEFINE sought == [d EXCEPT !.cursor = SectorOffset(d), !.state = "ReadAsyncLoad"]
           loaded == ReadBlock(sought)
           ready  == [loaded EXCEPT !.remaining = SectorCount(d)]
           status == SetStatus(ready, {"DSC", "DRDY", "DRQ"}, {"BSY"})
           writes == [d EXCEPT !.cursor = SectorOffset(d), !.state = "WriteReady",
                               !.remaining = SectorCount(d), !.pos = 0]
           open   == SetStatus(writes, {"DSC", "DRQ"}, {"BSY", "DRDY"})
<1>1. \/ ReadSectors(d) = Fail(d, "fatal")
      \/ ReadSectors(d) = loaded /\ loaded.fault # "none"
      \/ ReadSectors(d) = PulseIrq(status)
  BY DEF ReadSectors, Try
<1>2. WriteSectors(d) = Fail(d, "fatal") \/ WriteSectors(d) = PulseIrq(open)
  BY DEF WriteSectors
<1>3. DOMAIN sought = Fields /\ DOMAIN writes = Fields
  BY DEF Fields
<1> HIDE DEF sought, writes
<1>4. DOMAIN loaded = Fields /\ DOMAIN open = Fields
  BY <1>3, PartsKeep DEF Keeps
<1> HIDE DEF loaded
<1>5. DOMAIN status = Fields
  BY <1>4 DEF SetStatus
<1> HIDE DEF status, open
<1>6. /\ DOMAIN PulseIrq(status) = Fields /\ PulseIrq(status).irq
      /\ DOMAIN PulseIrq(open) = Fields /\ PulseIrq(open).irq
  BY <1>4, <1>5 DEF PulseIrq, Fields
<1>7. DOMAIN Fail(d, "fatal") = Fields /\ Fail(d, "fatal").fault # "none"
  BY DEF Fail, Fields
<1> QED BY <1>1, <1>2, <1>4, <1>6, <1>7

LEMMA RunQuiet ==
  ASSUME NEW d, DOMAIN d = Fields, NEW cmd \in Commands
  PROVE  Quiet(d, Run(d, cmd))
<1>1. Quiet(d, Fail(d, "fatal"))
  BY PartsKeep DEF Keeps, Quiet
<1>2. \A on, off : Quiet(d, SetStatus(d, on, off))
  BY PartsKeep DEF Keeps, Quiet
<1>3. ASSUME NEW e, DOMAIN e = Fields
      PROVE  Quiet(d, PulseIrq(e))
  BY <1>3 DEF Quiet, PulseIrq, Fields
<1>4. ASSUME NEW e, DOMAIN e = Fields
      PROVE  Quiet(d, Settle(e)) /\ Quiet(d, ReadSectors(e)) /\ Quiet(d, WriteSectors(e))
  <2>1. DOMAIN SetStatus(e, {"DRDY", "DSC"}, {"BSY", "DRQ"}) = Fields
    BY <1>4, PartsKeep DEF Keeps
  <2> QED BY <1>3, <1>4, <2>1, TransfersPulse DEF Settle, Quiet
<1>5. DOMAIN AssertDmarq(d) = Fields
  BY DEF AssertDmarq
<1>6. Quiet(d, IdentifyDevice(d))
  <2> DEFINE e == [SetStatus(d, {"DRQ"}, {"BSY"})
                   EXCEPT !.buf = Identity, !.pos = 0, !.state = "ReadReady", !.remaining = 1]
  <2>1. DOMAIN e = Fields
    BY DEF SetStatus
  <2> HIDE DEF e
  <2>2. IdentifyDevice(d) = PulseIrq(e)
    BY DEF IdentifyDevice, e
  <2> QED BY <1>3, <2>1, <2>2
<1>7. Quiet(d, SetMultipleMode(d))
  <2> DEFINE set == [d EXCEPT !.multi = d.reg["sector_count"]]
  <2>1. Keeps(d, set)
    BY DEF Keeps, Fields
  <2>2. SetMultipleMode(d) = Fail(set, "fatal") \/ SetMultipleMode(d) = SetStatus(set, {}, {"BSY"})
    BY DEF SetMultipleMode
  <2> HIDE DEF set
  <2> QED BY <2>1, <2>2, PartsKeep DEF Keeps, Quiet
<1>8. Quiet(d, SetFeatures(d))
  <2> DEFINE done == SetStatus(d, {}, {"BSY"})
  <2>1. Keeps(d, done)
    BY PartsKeep
  <2> HIDE DEF done
  <2>2. /\ Keeps(d, [done EXCEPT !.dma = d.reg["sector_count"] \in DmaModes])
        /\ Keeps(d, [done EXCEPT !.eightbit = TRUE])
        /\ Keeps(d, [done EXCEPT !.eightbit = FALSE])
    BY <2>1 DEF Keeps, Fields
  <2>3. \/ SetFeatures(d) = Fail(d, "fatal")
        \/ SetFeatures(d) = [done EXCEPT !.dma = d.reg["sector_count"] \in DmaModes]
        \/ SetFeatures(d) = [done EXCEPT !.eightbit = TRUE]
        \/ SetFeatures(d) = [done EXCEPT !.eightbit = FALSE]
    BY DEF SetFeatures, done
  <2> QED BY <1>1, <2>2, <2>3 DEF Keeps, Quiet
<1>9. Quiet(d, ReadNativeMaxAddress(d))
  <2> DEFINE last   == IF NumBlocks = 0 THEN 0 ELSE NumBlocks - 1
             maxLba == IF last > 268435455 THEN 268435455 ELSE last
             n == maxLba % 256
             lo == (maxLba \div 256) % 256
             hi == (maxLba \div 65536) % 256
             h == maxLba \div 16777216
             e == [d EXCEPT !.reg["sector_no"] = n, !.reg["cyl_lo"] = lo,
                            !.reg["cyl_hi"] = hi, !.reg["head"] = h]
  <2>1. ReadNativeMaxAddress(d) = Settle(e)
    BY DEF ReadNativeMaxAddress
  <2> HIDE DEF n, lo, hi, h
  <2>2. DOMAIN e = Fields
    BY SMT
  <2> HIDE DEF e
  <2> QED BY <1>4, <2>1, <2>2
<1>10. Quiet(d, PulseIrq(SetStatus(d, {}, {"BSY"})))
  BY <1>3, PartsKeep DEF Keeps
<1> QED BY <1>1, <1>2, <1>4, <1>5, <1>6, <1>7, <1>8, <1>9, <1>10
        DEF Run, Commands, Multiple, WithDma

LEMMA ExecCmdQuiet ==
  ASSUME NEW d, DOMAIN d = Fields, NEW cmd \in Commands
  PROVE  Quiet(d, ExecCmd(d, cmd))
<1>1. Keeps(d, SetStatus(d, {"BSY"}, {"ERR"}))
  BY PartsKeep
<1>2. Quiet(SetStatus(d, {"BSY"}, {"ERR"}), Run(SetStatus(d, {"BSY"}, {"ERR"}), cmd))
  BY <1>1, RunQuiet DEF Keeps
<1> QED BY <1>1, <1>2 DEF ExecCmd, Quiet, Keeps
(* An instruction of the only core that runs is the only one of the step.  *)
LEMMA TurnEnds ==
  ASSUME SingleCore, NEW p \in {"cpu", "cop"}, Turn(p)
  PROVE  Running /\ Before /\ ~Before' /\ phase' # "latch"
<1>1. phase = p /\ p \in ActiveCores /\ phase' = After[p] /\ Running
  BY DEF Turn
<1>2. After["cpu"] = "cop" /\ After["cop"] = "dma"
  BY DEF After
<1>3. "dma" \notin ActiveCores /\ ~("cpu" \in ActiveCores /\ "cop" \in ActiveCores)
  BY EidePathAssumption DEF SingleCore
<1> QED BY <1>1, <1>2, <1>3 DEF Before

(* Any access after which a new request for a DMA word comes with INTRQ.   *)
LEMMA AccessKeepsEdge ==
  ASSUME SingleCore, EdgeInv, NEW p \in {"cpu", "cop"}, Turn(p), NEW e,
         Quiet(drive, e), Drives(e), UNCHANGED latchVars, DriveGood'
  PROVE  EdgeInv'
<1>1. /\ edge # "fresh" /\ (wasAsserted <=> drive.irq) /\ ~drive.dmaPending
      /\ ~Before' /\ phase' # "latch"
  BY TurnEnds DEF EdgeInv
<1>2. drive' = e /\ wasAsserted' = wasAsserted /\ latched' = latched
  BY DEF Drives, latchVars
<1>3. \/ ~e.irq /\ edge' = "none"
      \/ e.irq /\ ~drive.irq /\ edge' = "fresh"
      \/ e.irq /\ drive.irq /\ edge' = edge
  BY DEF Drives
<1>4. Backed(e)
  BY <1>1 DEF Backed, Quiet
<1>5. Backed(drive)'
  BY <1>2, <1>4 DEF Backed
<1>6. edge' # "none" => drive'.irq
  BY <1>2, <1>3
<1>7. edge' = "fresh" => ~wasAsserted'
  BY <1>1, <1>2, <1>3
<1>8. NoLostEdge'
  BY <1>2, <1>3 DEF EdgeInv, NoLostEdge
<1> QED BY <1>1, <1>5, <1>6, <1>7, <1>8 DEF EdgeInv

(* An instruction that leaves INTRQ, its edge and the request alone.       *)
LEMMA OtherKeepsEdge ==
  ASSUME SingleCore, EdgeInv, NEW p \in {"cpu", "cop"}, Turn(p), DriveGood',
         Keeps(drive, drive'), drive'.irq = drive.irq, UNCHANGED wasAsserted,
         edge' \in {edge, "none"}, NoLostEdge'
  PROVE  EdgeInv'
<1>1. /\ edge # "fresh" /\ ~drive.dmaPending
      /\ ~Before' /\ phase' # "latch"
  BY TurnEnds DEF EdgeInv
<1>2. Backed(drive)'
  BY <1>1 DEF Backed, Keeps
<1>3. edge' # "none" => drive'.irq
  BY DEF EdgeInv
<1> QED BY <1>1, <1>2, <1>3 DEF EdgeInv

LEMMA AccessEdge ==
  ASSUME SingleCore, EdgeInv, NEW p \in {"cpu", "cop"}, Access(p), DriveGood'
  PROVE  EdgeInv'
<1>1. DOMAIN drive = Fields
  BY DEF EdgeInv, DriveGood, Good, Shaped
<1>2. ASSUME NEW e, Quiet(drive, e), Turn(p), Task(e)
      PROVE  EdgeInv'
  <2>1. Quiet(drive, OnDrive(e))
    BY <1>1, <1>2 DEF OnDrive, Quiet
  <2> QED BY <1>2, <2>1, AccessKeepsEdge DEF Task
<1>3. \A e : Keeps(drive, e) => Quiet(drive, e)
  BY DEF Keeps, Quiet
<1>4. CASE ReadData(p)
  <2>1. Keeps(drive, DataRead16(drive))
    BY <1>1, WordKeeps
  <2> QED BY <1>2, <1>3, <1>4, <2>1 DEF ReadData
<1>5. CASE WriteData(p)
  <2>1. PICK wide \in BOOLEAN : Turn(p) /\ Task(DataWrite16(drive, wide))
    BY <1>5 DEF WriteData
  <2>2. Keeps(drive, DataWrite16(drive, wide))
    BY <1>1, WordKeeps
  <2> QED BY <1>2, <1>3, <2>1, <2>2
<1>6. CASE ReadStatusReg(p)
  <2>1. Keeps(drive, ReadStatus(drive))
    BY <1>1 DEF Keeps, ReadStatus, Fields
  <2> QED BY <1>2, <1>3, <1>6, <2>1 DEF ReadStatusReg
<1>7. CASE WriteTaskReg(p)
  <2>1. \A r, v : Keeps(drive, WriteReg(drive, r, v))
    BY <1>1 DEF Keeps, WriteReg, Fields
  <2> QED BY <1>2, <1>3, <1>7, <2>1 DEF WriteTaskReg
<1>8. CASE WriteDevCtl(p)
  <2>1. \A srst, nien : Keeps(drive, WriteDevControl(drive, srst, nien))
    BY <1>1 DEF Keeps, WriteDevControl, Fields
  <2>2. PICK c \in ControlBytes : Turn(p) /\ Task(WriteDevControl(drive, "SRST" \in c, "nIEN" \in c))
    BY <1>8 DEF WriteDevCtl
  <2>3. Keeps(drive, WriteDevControl(drive, "SRST" \in c, "nIEN" \in c))
    BY <2>1
  <2> QED BY <1>2, <1>3, <2>2, <2>3
<1>9. CASE WriteDeviceHead(p)
  <2>1. PICK e : Drives(e) /\ (e = drive \/ \E l, h : e = WriteDevHead(drive, l, h))
    BY <1>9 DEF WriteDeviceHead
  <2>2. \A l, h : Keeps(drive, WriteDevHead(drive, l, h))
    BY <1>1 DEF Keeps, WriteDevHead, Fields
  <2>3. Keeps(drive, e)
    BY <1>1, <2>1, <2>2 DEF Keeps
  <2> QED BY <1>3, <1>9, <2>1, <2>3, AccessKeepsEdge DEF WriteDeviceHead
<1>10. CASE WriteCommand(p)
  <2>1. PICK cmd \in Commands : Drives(OnDrive(ExecCmd(drive, cmd)))
    BY <1>10, EidePathAssumption DEF WriteCommand
  <2>2. Quiet(drive, OnDrive(ExecCmd(drive, cmd)))
    BY <1>1, ExecCmdQuiet DEF OnDrive, Quiet
  <2> QED BY <1>10, <2>1, <2>2, AccessKeepsEdge DEF WriteCommand
<1>11. CASE NoAccess(p) \/ WriteDmaControl(p)
  BY <1>1, <1>11, OtherKeepsEdge
     DEF NoAccess, WriteDmaControl, driveVars, latchVars, EdgeInv, NoLostEdge, Keeps
<1>12. CASE AckLatch(p)
  <2>1. /\ Turn(p) /\ UNCHANGED <<drive, wasAsserted>>
        /\ edge' = IF edge = "sampled" THEN "none" ELSE edge
    BY <1>12 DEF AckLatch
  <2>2. edge' \in {edge, "none"} /\ edge' # "sampled" /\ NoLostEdge'
    BY <2>1 DEF NoLostEdge
  <2> QED BY <1>1, <2>1, <2>2, OtherKeepsEdge DEF Keeps
<1>13. CASE WriteDmaLength(p) \/ Unimplemented(p)
  <2>1. /\ Turn(p) /\ UNCHANGED <<edge, wasAsserted, latched>>
        /\ drive' = drive \/ \E why : drive' = Fail(drive, why)
    BY <1>13 DEF WriteDmaLength, Unimplemented, latchVars
  <2>2. Keeps(drive, drive') /\ drive'.irq = drive.irq
    <3>1. \A why : Keeps(drive, Fail(drive, why)) /\ Fail(drive, why).irq = drive.irq
      BY <1>1 DEF Keeps, Fail, Fields
    <3> QED BY <1>1, <2>1, <3>1 DEF Keeps
  <2> QED BY <2>1, <2>2, OtherKeepsEdge DEF EdgeInv, NoLostEdge
<1> QED BY <1>4, <1>5, <1>6, <1>7, <1>8, <1>9, <1>10, <1>11, <1>12, <1>13 DEF Access
(* The DMA block can raise INTRQ only for a request of this step.          *)
LEMMA DmaEdge ==
  ASSUME SingleCore, EdgeInv, DmaBlock, DriveGood'
  PROVE  EdgeInv'
<1>1. /\ phase = "dma" /\ phase' = "latch" /\ Running
      /\ wasAsserted' = wasAsserted /\ latched' = latched
  BY DEF DmaBlock, latchVars, After
<1>2. ~Before'
  BY <1>1, EidePathAssumption DEF Before
<1>3. ASSUME NEW e, DOMAIN e = Fields
      PROVE  /\ DOMAIN ClearDmaPending(e) = Fields /\ ~ClearDmaPending(e).dmaPending
             /\ ClearDmaPending(e).irq = e.irq
  BY <1>3 DEF ClearDmaPending, Fields
<1>4. DOMAIN drive = Fields
  BY DEF EdgeInv, DriveGood, Good, Shaped
<1>5. CASE ~MovesWord
  <2>1. drive' = ClearDmaPending(drive) /\ edge' = edge
    BY <1>5 DEF DmaBlock
  <2>2. ~drive'.dmaPending /\ drive'.irq = drive.irq
    BY <1>3, <1>4, <2>1
  <2>3. Backed(drive)'
    BY <2>2 DEF Backed
  <2> QED BY <1>1, <1>2, <2>1, <2>2, <2>3 DEF EdgeInv, NoLostEdge
<1>6. CASE MovesWord
  <2>1. PICK wide, faults \in BOOLEAN :
          Drives(ClearDmaPending(IF DmaPanics(faults) THEN Fail(drive, "panic") ELSE Moved(wide)))
    BY <1>6 DEF DmaBlock
  <2> DEFINE e == IF DmaPanics(faults) THEN Fail(drive, "panic") ELSE Moved(wide)
             f == ClearDmaPending(e)
  <2>2. DOMAIN Moved(wide) = Fields
    <3> DEFINE d == IF dma.read THEN DataRead16(drive) ELSE DataWrite16(drive, wide)
    <3>1. DOMAIN d = Fields
      BY <1>4, WordKeeps DEF Keeps
    <3>2. Moved(wide) = d \/ Moved(wide) = Fail(d, "panic")
      BY DEF Moved
    <3> HIDE DEF d
    <3> QED BY <3>1, <3>2, PartsKeep DEF Keeps
  <2>3. DOMAIN e = Fields
    BY <1>4, <2>2, PartsKeep DEF Keeps
  <2> HIDE DEF e
  <2>4. ~f.dmaPending
    BY <1>3, <2>3
  <2>5. drive' = f /\ (\/ ~f.irq /\ edge' = "none"
                       \/ f.irq /\ ~drive.irq /\ edge' = "fresh"
                       \/ f.irq /\ drive.irq /\ edge' = edge)
    BY <2>1 DEF Drives, e
  <2> HIDE DEF f
  <2>6. drive.irq \/ ~wasAsserted
    BY <1>1, <1>6 DEF EdgeInv, Backed, MovesWord, Running
  <2>7. Backed(drive)' /\ ~drive'.dmaPending
    BY <2>4, <2>5 DEF Backed
  <2>8. edge' # "none" => drive'.irq
    BY <2>5
  <2>9. edge' = "fresh" => ~wasAsserted'
    BY <1>1, <2>5, <2>6 DEF EdgeInv
  <2>10. NoLostEdge'
    BY <1>1, <2>5 DEF EdgeInv, NoLostEdge
  <2> QED BY <1>2, <2>7, <2>8, <2>9, <2>10 DEF EdgeInv
<1> QED BY <1>5, <1>6

(* A sample puts a fresh edge into the latch.                              *)
LEMMA SampleEdge ==
  ASSUME EdgeInv, SampleLatch, DriveGood'
  PROVE  EdgeInv'
<1>1. /\ phase = "latch" /\ phase' = "cpu" /\ drive' = drive
      /\ (latched' <=> latched \/ (drive.irq /\ ~wasAsserted))
      /\ (wasAsserted' <=> drive.irq)
      /\ edge' = IF edge = "fresh" THEN "sampled" ELSE edge
  BY DEF SampleLatch, After
<1>2. ~drive'.dmaPending /\ Backed(drive)'
  BY <1>1 DEF EdgeInv, Backed
<1>3. edge' # "fresh" /\ (edge' # "none" => drive'.irq)
  BY <1>1 DEF EdgeInv
<1>4. NoLostEdge'
  BY <1>1 DEF EdgeInv, NoLostEdge
<1> QED BY <1>1, <1>2, <1>3, <1>4 DEF EdgeInv

LEMMA ParkedEdge ==
  ASSUME EdgeInv, NEW p \in {"cpu", "cop"}, Parked(p), DriveGood'
  PROVE  EdgeInv'
<1>1. /\ phase = p /\ p \notin ActiveCores /\ phase' = After[p]
      /\ UNCHANGED <<drive, edge, latched, wasAsserted>>
  BY DEF Parked, driveVars, latchVars
<1>2. After["cpu"] = "cop" /\ After["cop"] = "dma" /\ "dma" \notin ActiveCores
  BY EidePathAssumption DEF After
<1>3. phase' # "latch" /\ (Before' => Before)
  BY <1>1, <1>2 DEF Before
<1> QED BY <1>1, <1>3 DEF EdgeInv, NoLostEdge, Backed, Running

LEMMA EdgeStep ==
  ASSUME SingleCore, EdgeInv, [Next]_vars
  PROVE  EdgeInv'
<1>1. DriveGood'
  BY StepGood DEF EdgeInv
<1>2. CASE UNCHANGED vars
  BY <1>2 DEF vars, EdgeInv, NoLostEdge, Backed, Running, Before, DriveGood
<1> QED BY <1>1, <1>2, AccessEdge, DmaEdge, SampleEdge, ParkedEdge DEF Next, StepLoop

(* While one core runs, update_irq_latch (eide.rs), which looks at INTRQ   *)
(* once per step, misses no edge of it, whatever the program of that core. *)
(* With both cores running it can: one reads Status, the other ends a      *)
(* sector, within one step.                                                *)
THEOREM OneCoreLosesNoEdge ==
  ASSUME SingleCore
  PROVE  Spec => []NoLostEdge
<1>1. Init => EdgeInv
  <2> SUFFICES ASSUME Init PROVE EdgeInv
    OBVIOUS
  <2>1. /\ drive = NewDrive /\ edge = "none" /\ ~wasAsserted /\ phase = "cpu"
        /\ ~NewDrive.irq /\ ~NewDrive.dmaPending
    BY DEF Init, NewDrive
  <2> QED BY <2>1, InitGood DEF EdgeInv, NoLostEdge, Backed
<1>2. EdgeInv /\ [Next]_vars => EdgeInv'
  BY EdgeStep
<1>3. EdgeInv => NoLostEdge
  BY DEF EdgeInv
<1> QED BY <1>1, <1>2, <1>3, PTL DEF Spec
-------------------------------------------------------------------------------
(* The sectors of transfer j are in order on drive d.  SectorsInOrder does  *)
(* not say why the sector in the buffer of an Identify, which belongs to no*)
(* transfer, is the last one: the drive has exactly one such sector to go. *)
InOrder(d, j) == d.fault = "none" =>
  LET done == j.count - d.remaining
  IN  /\ d.state = "ReadReady" /\ j.kind = "read" =>
           d.buf = j.first + done /\ d.cursor = d.buf + 1
      /\ d.state = "ReadReady" /\ j.kind # "read" =>
           j.kind = "none" /\ d.buf = Identity /\ d.remaining = 1
      /\ d.state = "WriteReady" => j.kind = "write" /\ d.cursor = j.first + done
      /\ d.state = "Idle" /\ j.kind # "none" => d.cursor = j.first + j.count

(* What every step has to keep: the order, over numbers.                   *)
Placed(d, j) == /\ d.cursor \in Int /\ d.buf \in Int
                /\ j.first \in Int /\ j.count \in Int
                /\ InOrder(d, j)

(* An access that leaves the position alone leaves the order alone.        *)
LEMMA SameOrder ==
  ASSUME NEW d, NEW j, NEW e, Shaped(d), Placed(d, j),
         e.state = d.state, e.remaining = d.remaining,
         e.cursor = d.cursor, e.buf = d.buf, e.fault = d.fault
  PROVE  Placed(e, j)
BY DEF Placed, InOrder

(* A drive that stopped the emulator moves nothing any more.               *)
LEMMA FailOrder ==
  ASSUME NEW d, NEW j, NEW e, Shaped(d), Placed(d, j), NEW why \in {"fatal", "panic"}
  PROVE  Placed(Fail(d, why), j)
BY DEF Placed, InOrder, Fail, Shaped, Fields

(* The block device hands out the block at its cursor and moves on by one. *)
LEMMA ReadBlockOrder ==
  ASSUME NEW d, Shaped(d), d.fault = "none"
  PROVE  LET e == ReadBlock(d)
         IN  /\ DOMAIN e = Fields
             /\ e.fault = "none" => /\ e.state = "ReadReady" /\ e.remaining = d.remaining
                                    /\ e.buf = d.cursor /\ e.cursor = d.cursor + 1
             /\ e.fault # "none" => e.cursor = d.cursor /\ e.buf = d.buf
BY DEF ReadBlock, Fail, Shaped, Fields

(* It takes a block at its cursor and moves on by one.                     *)
LEMMA WriteBlockOrder ==
  ASSUME NEW d, Shaped(d), d.fault = "none"
  PROVE  LET e == WriteBlock(d)
         IN  /\ DOMAIN e = Fields /\ e.buf = d.buf /\ e.remaining = d.remaining
             /\ e.fault = "none" => e.state = "WriteReady" /\ e.cursor = d.cursor + 1
             /\ e.fault # "none" => e.cursor = d.cursor
BY DEF WriteBlock, Fail, Shaped, Fields

(* Interrupts and status bits do not touch the position.                   *)
LEMMA PulseOrder ==
  ASSUME NEW d, NEW on, NEW off, DOMAIN d = Fields
  PROVE  LET e == PulseUnlessDma(SetStatus(d, on, off))
             f == Finish(SetStatus(d, on, off))
         IN  /\ DOMAIN e = Fields /\ DOMAIN f = Fields
             /\ e.cursor = d.cursor /\ e.buf = d.buf /\ e.fault = d.fault
             /\ e.state = d.state /\ e.remaining = d.remaining
             /\ f.cursor = d.cursor /\ f.buf = d.buf /\ f.fault = d.fault
             /\ f.state = "Idle" /\ f.remaining = d.remaining
BY DEF PulseUnlessDma, PulseIrq, SetStatus, Finish, Fields

(* A byte read: at the end of a sector the next one is the one after it.   *)
LEMMA DataRead8Order ==
  ASSUME NEW d, NEW j, Good(d), Placed(d, j)
  PROVE  Placed(DataRead8(d), j)
<1> DEFINE read == [d EXCEPT !.pos = @ + 1]
<1>0. Shaped(d)
  BY DEF Good
<1>1. CASE d.fault # "none"
  BY <1>1 DEF DataRead8, Try
<1>2. CASE d.fault = "none" /\ ~(d.state = "ReadReady" /\ d.pos < SectorBytes)
  BY <1>0, <1>2, FailOrder DEF DataRead8, Try
<1>3. CASE d.fault = "none" /\ d.state = "ReadReady" /\ d.pos < SectorBytes
  <2>1. /\ Shaped(read) /\ read.fault = "none" /\ read.state = "ReadReady"
        /\ read.remaining >= 1 /\ read.remaining = d.remaining /\ read.remaining \in Nat
        /\ read.cursor = d.cursor /\ read.buf = d.buf
    BY <1>3 DEF Good, Sound, Shaped, Fields, RoomLeft, Transferring
  <2>2. DataRead8(d) = IF read.pos < SectorBytes THEN read ELSE EndReadSector(read)
    BY <1>3 DEF DataRead8, Try
  <2> HIDE DEF read
  <2>3. Placed(read, j)
    BY <1>0, <1>3, <2>1, SameOrder
  <2> DEFINE left == [read EXCEPT !.remaining = @ - 1]
             busy == [SetStatus(left, {"BSY"}, {"DRQ"}) EXCEPT !.state = "ReadAsyncLoad"]
             loaded == ReadBlock(busy)
  <2>4. /\ Shaped(left) /\ left.remaining = read.remaining - 1
        /\ left.cursor = read.cursor /\ left.buf = read.buf /\ left.fault = "none"
    BY <2>1 DEF Shaped, Fields
  <2>5. /\ Shaped(busy) /\ busy.remaining = left.remaining
        /\ busy.cursor = left.cursor /\ busy.buf = left.buf /\ busy.fault = "none"
    BY <2>4 DEF SetStatus, Shaped, Fields
  <2>6. EndReadSector(read) =
          IF read.remaining = 1 THEN Finish(SetStatus(left, {}, {"BSY"}))
          ELSE Try(loaded, PulseUnlessDma(SetStatus(loaded, {"DRQ"}, {"BSY"})))
    BY <2>1 DEF EndReadSector, Shaped
  <2> HIDE DEF left, busy
  <2>7. CASE read.remaining = 1
    <3> DEFINE e == Finish(SetStatus(left, {}, {"BSY"}))
    <3>1. e.state = "Idle" /\ e.cursor = read.cursor /\ e.buf = read.buf
      BY <2>4, PulseOrder DEF Shaped
    <3>2. EndReadSector(read) = e
      BY <2>6, <2>7
    <3> HIDE DEF e
    <3>3. Placed(e, j)
      BY <2>1, <2>3, <2>7, <3>1 DEF Placed, InOrder
    <3> QED BY <2>2, <2>3, <3>2, <3>3
  <2>8. CASE read.remaining # 1
    <3>1. /\ DOMAIN loaded = Fields
          /\ loaded.fault = "none" =>
               /\ loaded.state = "ReadReady" /\ loaded.remaining = read.remaining - 1
               /\ loaded.buf = read.cursor /\ loaded.cursor = read.cursor + 1
          /\ loaded.fault # "none" => loaded.cursor = read.cursor /\ loaded.buf = read.buf
      BY <2>4, <2>5, ReadBlockOrder
    <3> HIDE DEF loaded
    <3> DEFINE e == PulseUnlessDma(SetStatus(loaded, {"DRQ"}, {"BSY"}))
    <3>2. /\ e.state = loaded.state /\ e.remaining = loaded.remaining
          /\ e.buf = loaded.buf /\ e.cursor = loaded.cursor /\ e.fault = loaded.fault
      BY <3>1, PulseOrder
    <3> HIDE DEF e
    <3>3. CASE loaded.fault = "none"
      <4>1. /\ j.kind = "read" /\ read.cursor = j.first + (j.count - read.remaining) + 1
            /\ read.cursor \in Int /\ j.first \in Int /\ j.count \in Int
        BY <2>1, <2>3, <2>8 DEF Placed, InOrder
      <4>2. /\ e.state = "ReadReady" /\ e.remaining = read.remaining - 1
            /\ e.buf = read.cursor /\ e.cursor = read.cursor + 1
        BY <3>1, <3>2, <3>3
      <4>3. Placed(e, j)
        BY <2>1, <4>1, <4>2 DEF Placed, InOrder
      <4>4. EndReadSector(read) = e
        BY <2>6, <2>8, <3>3 DEF Try, e
      <4> QED BY <2>2, <2>3, <4>3, <4>4
    <3>4. CASE loaded.fault # "none"
      <4>1. Placed(loaded, j)
        BY <2>3, <3>1, <3>4 DEF Placed, InOrder
      <4>2. EndReadSector(read) = loaded
        BY <2>6, <2>8, <3>4 DEF Try
      <4> QED BY <2>2, <2>3, <4>1, <4>2
    <3> QED BY <3>3, <3>4
  <2> QED BY <2>7, <2>8
<1> QED BY <1>1, <1>2, <1>3

(* A byte written: at the end of a sector its block has been flushed.      *)
LEMMA DataWrite8Order ==
  ASSUME NEW d, NEW j, Good(d), Placed(d, j)
  PROVE  Placed(DataWrite8(d), j)
<1> DEFINE written == [d EXCEPT !.pos = @ + 1, !.buf = GuestData]
<1>0. Shaped(d)
  BY DEF Good
<1>1. CASE d.fault # "none"
  BY <1>1 DEF DataWrite8, Try
<1>2. CASE d.fault = "none" /\ ~(d.state = "WriteReady" /\ d.pos < SectorBytes)
  BY <1>0, <1>2, FailOrder DEF DataWrite8, Try
<1>3. CASE d.fault = "none" /\ d.state = "WriteReady" /\ d.pos < SectorBytes
  <2>1. /\ Shaped(written) /\ written.fault = "none" /\ written.state = "WriteReady"
        /\ written.remaining >= 1 /\ written.remaining = d.remaining
        /\ written.remaining \in Nat
        /\ written.cursor = d.cursor /\ written.buf \in Int
    BY <1>3 DEF Good, Sound, Shaped, Fields, RoomLeft, Transferring, GuestData
  <2>2. DataWrite8(d) = IF written.pos < SectorBytes THEN written ELSE EndWriteSector(written)
    BY <1>3 DEF DataWrite8, Try
  <2> HIDE DEF written
  <2>3. Placed(written, j)
    BY <1>3, <2>1 DEF Placed, InOrder
  <2> DEFINE busy    == [SetStatus(written, {"BSY"}, {"DRQ"}) EXCEPT !.state = "WriteAsyncFlush"]
             flushed == WriteBlock(busy)
             pulsed  == PulseUnlessDma(SetStatus(flushed, {"DRQ"}, {"BSY"}))
             left    == [pulsed EXCEPT !.remaining = @ - 1]
  <2>4. /\ Shaped(busy) /\ busy.remaining = written.remaining
        /\ busy.cursor = written.cursor /\ busy.buf = written.buf /\ busy.fault = "none"
    BY <2>1 DEF SetStatus, Shaped, Fields
  <2>5. EndWriteSector(written) = IF flushed.fault # "none" THEN flushed
                                  ELSE IF left.remaining = 0 THEN Finish(left) ELSE left
    BY <2>1 DEF EndWriteSector, Try
  <2> HIDE DEF busy
  <2>6. /\ DOMAIN flushed = Fields
        /\ flushed.buf = written.buf /\ flushed.remaining = written.remaining
        /\ flushed.fault = "none" => /\ flushed.state = "WriteReady"
                                     /\ flushed.cursor = written.cursor + 1
        /\ flushed.fault # "none" => flushed.cursor = written.cursor
    BY <2>4, WriteBlockOrder
  <2> HIDE DEF flushed
  <2>7. CASE flushed.fault # "none"
    <3>1. Placed(flushed, j)
      BY <2>3, <2>6, <2>7 DEF Placed, InOrder
    <3> QED BY <2>2, <2>3, <2>5, <2>7, <3>1
  <2>8. CASE flushed.fault = "none"
    <3>1. /\ DOMAIN pulsed = Fields /\ pulsed.cursor = flushed.cursor /\ pulsed.buf = flushed.buf
          /\ pulsed.fault = "none" /\ pulsed.state = "WriteReady"
          /\ pulsed.remaining = flushed.remaining
      BY <2>6, <2>8, PulseOrder
    <3> HIDE DEF pulsed
    <3>2. /\ DOMAIN left = Fields /\ left.cursor = written.cursor + 1 /\ left.buf = written.buf
          /\ left.fault = "none" /\ left.state = "WriteReady"
          /\ left.remaining = written.remaining - 1
      BY <2>6, <2>8, <3>1 DEF Fields
    <3> HIDE DEF left
    <3>3. /\ j.kind = "write" /\ written.cursor = j.first + (j.count - written.remaining)
          /\ written.cursor \in Int /\ j.first \in Int /\ j.count \in Int
      BY <2>1, <2>3 DEF Placed, InOrder
    <3>4. CASE left.remaining = 0
      <4> DEFINE e == Finish(left)
      <4>1. e.cursor = left.cursor /\ e.buf = left.buf /\ e.state = "Idle"
        BY <3>2 DEF PulseIrq, SetStatus, Finish, Fields
      <4> HIDE DEF e
      <4>2. written.remaining = 1
        BY <2>1, <3>2, <3>4
      <4>3. e.cursor = j.first + j.count
        BY <3>2, <3>3, <4>1, <4>2
      <4>4. InOrder(e, j)
        BY <4>1, <4>3 DEF InOrder
      <4>5. e.cursor \in Int
        BY <3>3, <4>3
      <4>7. e.buf \in Int
        BY <2>1, <3>2, <4>1, Zenon
      <4>6. Placed(e, j)
        BY <3>3, <4>4, <4>5, <4>7 DEF Placed
      <4> QED BY <2>2, <2>3, <2>5, <2>8, <3>4, <4>6 DEF e
    <3>5. CASE left.remaining # 0
      <4>1. Placed(left, j)
        BY <2>1, <3>2, <3>3 DEF Placed, InOrder
      <4> QED BY <2>2, <2>3, <2>5, <2>8, <3>5, <4>1
    <3> QED BY <3>4, <3>5
  <2> QED BY <2>7, <2>8
<1> QED BY <1>1, <1>2, <1>3

(* A word of the data register is one or two bytes.                        *)
LEMMA DataWordOrder ==
  ASSUME NEW d, NEW j, Good(d), Placed(d, j), NEW wide \in BOOLEAN
  PROVE  Placed(DataRead16(d), j) /\ Placed(DataWrite16(d, wide), j)
<1>1. Placed(Fail(d, "fatal"), j)
  BY FailOrder DEF Good
<1>2. Good(DataRead8(d)) /\ Good(DataWrite8(d))
  BY DataRead8Good, DataWrite8Good
<1>3. /\ Placed(DataRead8(d), j) /\ Placed(DataRead8(DataRead8(d)), j)
      /\ Placed(DataWrite8(d), j) /\ Placed(DataWrite8(DataWrite8(d)), j)
  BY <1>2, DataRead8Order, DataWrite8Order
<1> QED BY <1>1, <1>3 DEF DataRead16, DataWrite16

(* An address of a sector is a number.                                     *)
LEMMA OffsetInt ==
  ASSUME NEW d, d.reg \in [Regs -> Nat]
  PROVE  SectorOffset(d) \in Int
<1>1. /\ d.reg["head"] \in Nat /\ d.reg["sector_no"] \in Nat
      /\ d.reg["cyl_hi"] \in Nat /\ d.reg["cyl_lo"] \in Nat
  BY DEF Regs
<1>2. CylOf(d) \in Nat
  BY <1>1 DEF CylOf
<1> QED BY <1>1, <1>2 DEF SectorOffset, NoOffset, NumHeads, NumSectors

(* Opening a read fetches its first sector.                                *)
LEMMA ReadSectorsOrder ==
  ASSUME NEW d, Shaped(d), d.fault = "none", d.cursor \in Int, d.buf \in Int
  PROVE  Placed(ReadSectors(d), [kind |-> "read", first |-> SectorOffset(d),
                                 count |-> SectorCount(d)])
<1> DEFINE j      == [kind |-> "read", first |-> SectorOffset(d), count |-> SectorCount(d)]
           sought == [d EXCEPT !.cursor = SectorOffset(d), !.state = "ReadAsyncLoad"]
           loaded == ReadBlock(sought)
           ready  == [loaded EXCEPT !.remaining = SectorCount(d)]
           open   == PulseIrq(SetStatus(ready, {"DSC", "DRDY", "DRQ"}, {"BSY"}))
<1>1. SectorOffset(d) \in Int /\ SectorCount(d) \in Int
  BY OffsetInt, CountPositive DEF Shaped
<1>2. CASE SectorOffset(d) = NoOffset
  <2>1. /\ Fail(d, "fatal").fault # "none" /\ Fail(d, "fatal").cursor = d.cursor
        /\ Fail(d, "fatal").buf = d.buf
    BY DEF Fail, Shaped, Fields
  <2>2. ReadSectors(d) = Fail(d, "fatal")
    BY <1>2 DEF ReadSectors
  <2> QED BY <1>1, <2>1, <2>2 DEF Placed, InOrder
<1>3. CASE SectorOffset(d) # NoOffset
  <2>1. Shaped(sought) /\ sought.fault = "none" /\ sought.cursor = SectorOffset(d)
        /\ sought.buf = d.buf
    BY DEF Shaped, Fields
  <2>2. ReadSectors(d) = Try(loaded, open)
    BY <1>3 DEF ReadSectors
  <2> HIDE DEF sought
  <2>3. /\ DOMAIN loaded = Fields
        /\ loaded.fault = "none" => /\ loaded.state = "ReadReady"
                                    /\ loaded.buf = SectorOffset(d)
                                    /\ loaded.cursor = SectorOffset(d) + 1
        /\ loaded.fault # "none" => loaded.cursor = SectorOffset(d) /\ loaded.buf = d.buf
    BY <2>1, ReadBlockOrder
  <2> HIDE DEF loaded
  <2>4. CASE loaded.fault # "none"
    BY <1>1, <2>2, <2>3, <2>4 DEF Placed, InOrder, Try
  <2>5. CASE loaded.fault = "none"
    <3>1. /\ open.state = "ReadReady" /\ open.buf = SectorOffset(d)
          /\ open.cursor = SectorOffset(d) + 1 /\ open.remaining = SectorCount(d)
      BY <2>3, <2>5 DEF PulseIrq, SetStatus, Fields
    <3> HIDE DEF open
    <3>2. Placed(open, j)
      BY <1>1, <3>1 DEF Placed, InOrder
    <3> QED BY <2>2, <2>5, <3>2 DEF Try
  <2> QED BY <2>4, <2>5
<1> QED BY <1>2, <1>3

(* Opening a write seeks to its first sector.                              *)
LEMMA WriteSectorsOrder ==
  ASSUME NEW d, Shaped(d), d.fault = "none", d.cursor \in Int, d.buf \in Int
  PROVE  Placed(WriteSectors(d), [kind |-> "write", first |-> SectorOffset(d),
                                  count |-> SectorCount(d)])
<1> DEFINE j      == [kind |-> "write", first |-> SectorOffset(d), count |-> SectorCount(d)]
           sought == [d EXCEPT !.cursor = SectorOffset(d), !.state = "WriteReady",
                               !.remaining = SectorCount(d), !.pos = 0]
           open   == PulseIrq(SetStatus(sought, {"DSC", "DRQ"}, {"BSY", "DRDY"}))
<1>1. SectorOffset(d) \in Int /\ SectorCount(d) \in Int
  BY OffsetInt, CountPositive DEF Shaped
<1>2. /\ Fail(d, "fatal").fault # "none" /\ Fail(d, "fatal").cursor = d.cursor
      /\ Fail(d, "fatal").buf = d.buf
  BY DEF Fail, Shaped, Fields
<1>3. /\ open.state = "WriteReady" /\ open.buf = d.buf
      /\ open.cursor = SectorOffset(d) /\ open.remaining = SectorCount(d)
  BY DEF PulseIrq, SetStatus, Shaped, Fields
<1>4. WriteSectors(d) \in {Fail(d, "fatal"), open}
  BY DEF WriteSectors
<1> HIDE DEF open
<1>5. Placed(Fail(d, "fatal"), j) /\ Placed(open, j)
  BY <1>1, <1>2, <1>3 DEF Placed, InOrder
<1> QED BY <1>4, <1>5

(* A command without a data phase leaves the transfer where it is.         *)
Stays(d, e) == /\ e.cursor = d.cursor /\ e.buf = d.buf
               /\ e.fault = "none" => e.state = d.state /\ e.remaining = d.remaining

(* ... and with it the order.                                              *)
LEMMA StaysOrder ==
  ASSUME NEW d, NEW e, NEW j, Placed(d, j), d.fault = "none", Stays(d, e)
  PROVE  Placed(e, j)
BY DEF Placed, InOrder, Stays

(* The parts such a command is made of.                                    *)
LEMMA PartsStay ==
  ASSUME NEW d, DOMAIN d = Fields
  PROVE  /\ \A why \in {"fatal", "panic"} : Stays(d, Fail(d, why))
         /\ \A on, off : DOMAIN SetStatus(d, on, off) = Fields /\ Stays(d, SetStatus(d, on, off))
         /\ Stays(d, PulseIrq(d)) /\ Stays(d, Settle(d))
<1>1. \A why \in {"fatal", "panic"} : Stays(d, Fail(d, why))
  BY DEF Stays, Fail, Fields
<1>2. \A on, off : DOMAIN SetStatus(d, on, off) = Fields /\ Stays(d, SetStatus(d, on, off))
  BY DEF Stays, SetStatus, Fields
<1>3. Stays(d, PulseIrq(d)) /\ Stays(d, Settle(d))
  BY DEF Stays, PulseIrq, Settle, SetStatus, Fields
<1> QED BY <1>1, <1>2, <1>3

(* The commands with a data phase.                                         *)
Transfers == {"ReadSectors", "ReadMultiple", "ReadDMA",
              "WriteSectors", "WriteMultiple", "WriteDMA", "IdentifyDevice"}

(* Every command but those that open a transfer is one.                    *)
LEMMA RunStays ==
  ASSUME NEW d, DOMAIN d = Fields, NEW cmd \in Commands \ Transfers
  PROVE  Stays(d, Run(d, cmd))
<1>1. ASSUME NEW e, DOMAIN e = Fields
      PROVE  Stays(e, PulseIrq(SetStatus(e, {}, {"BSY"})))
  <2>1. DOMAIN SetStatus(e, {}, {"BSY"}) = Fields /\ Stays(e, SetStatus(e, {}, {"BSY"}))
    BY <1>1, PartsStay
  <2>2. Stays(SetStatus(e, {}, {"BSY"}), PulseIrq(SetStatus(e, {}, {"BSY"})))
    BY <2>1, PartsStay
  <2> HIDE DEF SetStatus
  <2>3. PulseIrq(SetStatus(e, {}, {"BSY"})).fault = SetStatus(e, {}, {"BSY"}).fault
    BY <2>1 DEF PulseIrq, Fields
  <2> QED BY <2>1, <2>2, <2>3 DEF Stays
<1>2. Stays(d, SetMultipleMode(d))
  <2> DEFINE set == [d EXCEPT !.multi = d.reg["sector_count"]]
  <2>1. /\ DOMAIN set = Fields /\ set.cursor = d.cursor /\ set.buf = d.buf
        /\ set.state = d.state /\ set.remaining = d.remaining /\ set.fault = d.fault
    BY DEF Fields
  <2>2. SetMultipleMode(d) = Fail(set, "fatal") \/ SetMultipleMode(d) = SetStatus(set, {}, {"BSY"})
    BY DEF SetMultipleMode
  <2> HIDE DEF set
  <2>3. Stays(set, Fail(set, "fatal")) /\ Stays(set, SetStatus(set, {}, {"BSY"}))
    BY <2>1, PartsStay
  <2> QED BY <2>1, <2>2, <2>3 DEF Stays
<1>3. Stays(d, SetFeatures(d))
  <2> DEFINE done == SetStatus(d, {}, {"BSY"})
  <2>1. DOMAIN done = Fields /\ Stays(d, done) /\ Stays(d, Fail(d, "fatal"))
    BY PartsStay
  <2> HIDE DEF done
  <2>2. /\ Stays(d, [done EXCEPT !.dma = d.reg["sector_count"] \in DmaModes])
        /\ Stays(d, [done EXCEPT !.eightbit = TRUE])
        /\ Stays(d, [done EXCEPT !.eightbit = FALSE])
    BY <2>1 DEF Stays, Fields
  <2>3. \/ SetFeatures(d) = Fail(d, "fatal")
        \/ SetFeatures(d) = [done EXCEPT !.dma = d.reg["sector_count"] \in DmaModes]
        \/ SetFeatures(d) = [done EXCEPT !.eightbit = TRUE]
        \/ SetFeatures(d) = [done EXCEPT !.eightbit = FALSE]
    BY DEF SetFeatures, done
  <2> QED BY <2>1, <2>2, <2>3
<1>4. Stays(d, ReadNativeMaxAddress(d))
  <2> DEFINE last   == IF NumBlocks = 0 THEN 0 ELSE NumBlocks - 1
             maxLba == IF last > 268435455 THEN 268435455 ELSE last
             n == maxLba % 256
             lo == (maxLba \div 256) % 256
             hi == (maxLba \div 65536) % 256
             h == maxLba \div 16777216
             e == [d EXCEPT !.reg["sector_no"] = n, !.reg["cyl_lo"] = lo,
                            !.reg["cyl_hi"] = hi, !.reg["head"] = h]
  <2>1. ReadNativeMaxAddress(d) = Settle(e)
    BY DEF ReadNativeMaxAddress
  <2> HIDE DEF n, lo, hi, h
  <2>2. /\ DOMAIN e = Fields /\ e.cursor = d.cursor /\ e.buf = d.buf
        /\ e.state = d.state /\ e.remaining = d.remaining /\ e.fault = d.fault
    BY SMT DEF Fields
  <2> HIDE DEF e
  <2>3. Stays(e, Settle(e))
    BY <2>2, PartsStay
  <2> QED BY <2>1, <2>2, <2>3 DEF Stays
<1>5. Stays(d, PulseIrq(SetStatus(d, {}, {"BSY"})))
  BY <1>1
<1> QED BY <1>2, <1>3, <1>4, <1>5, PartsStay DEF Run, Commands, Transfers

(* Every command starts the transfer it names, or leaves the old one.      *)
LEMMA ExecCmdOrder ==
  ASSUME DriveGood, Running, Placed(drive, job), NEW cmd \in Commands
  PROVE  Placed(ExecCmd(drive, cmd), JobOf(cmd))
<1> DEFINE d == SetStatus(drive, {"BSY"}, {"ERR"})
<1>1. /\ Shaped(drive) /\ drive.fault = "none" /\ "BSY" \notin drive.status
  BY DEF DriveGood, Good, Sound, Running, NeverBusy
<1>2. ExecCmd(drive, cmd) = Run(d, cmd)
  BY <1>1 DEF ExecCmd
<1>3. /\ Shaped(d) /\ d.fault = "none" /\ d.reg = drive.reg /\ d.lba = drive.lba
      /\ d.cursor = drive.cursor /\ d.buf = drive.buf
      /\ d.state = drive.state /\ d.remaining = drive.remaining
  BY <1>1 DEF SetStatus, Shaped, Fields
<1> HIDE DEF d
<1>4. d.cursor \in Int /\ d.buf \in Int
  BY <1>3 DEF Placed
<1>5. ASSUME NEW e, e.reg = drive.reg, e.lba = drive.lba
      PROVE  SectorOffset(e) = SectorOffset(drive) /\ SectorCount(e) = SectorCount(drive)
  BY <1>5 DEF SectorOffset, SectorCount, CylOf
<1> DEFINE a == AssertDmarq(d)
<1>6. /\ Shaped(a) /\ a.fault = "none" /\ a.reg = drive.reg /\ a.lba = drive.lba
      /\ a.cursor = d.cursor /\ a.buf = d.buf
  BY <1>3 DEF AssertDmarq, Shaped, Fields
<1> HIDE DEF a
<1> DEFINE read == [kind |-> "read", first |-> SectorOffset(drive), count |-> SectorCount(drive)]
           write == [kind |-> "write", first |-> SectorOffset(drive), count |-> SectorCount(drive)]
<1>7. Placed(ReadSectors(d), read) /\ Placed(WriteSectors(d), write)
  BY <1>3, <1>4, <1>5, ReadSectorsOrder, WriteSectorsOrder
<1>8. Placed(ReadSectors(a), read) /\ Placed(WriteSectors(a), write)
  BY <1>4, <1>5, <1>6, ReadSectorsOrder, WriteSectorsOrder
<1>9. Placed(Fail(d, "fatal"), read) /\ Placed(Fail(d, "fatal"), write)
  <2>1. /\ Fail(d, "fatal").fault # "none" /\ Fail(d, "fatal").cursor = d.cursor
        /\ Fail(d, "fatal").buf = d.buf
    BY <1>3 DEF Fail, Shaped, Fields
  <2>2. SectorOffset(drive) \in Int /\ SectorCount(drive) \in Int
    BY <1>1, OffsetInt, CountPositive DEF Shaped
  <2> QED BY <1>4, <2>1, <2>2 DEF Placed, InOrder
<1>10. CASE cmd \in {"ReadSectors", "ReadMultiple", "ReadDMA"}
  <2>1. JobOf(cmd) = read
    BY <1>10 DEF JobOf
  <2>2. Run(d, cmd) \in {ReadSectors(d), ReadSectors(a), Fail(d, "fatal")}
    BY <1>10 DEF Run, Multiple, WithDma, a
  <2> HIDE DEF read, write
  <2> QED BY <1>2, <1>7, <1>8, <1>9, <2>1, <2>2
<1>11. CASE cmd \in {"WriteSectors", "WriteMultiple", "WriteDMA"}
  <2>1. JobOf(cmd) = write
    BY <1>11 DEF JobOf
  <2>2. Run(d, cmd) \in {WriteSectors(d), WriteSectors(a), Fail(d, "fatal")}
    BY <1>11 DEF Run, Multiple, WithDma, a
  <2> HIDE DEF read, write
  <2> QED BY <1>2, <1>7, <1>8, <1>9, <2>1, <2>2
<1>12. CASE cmd = "IdentifyDevice"
  <2> DEFINE e == IdentifyDevice(d)
  <2>1. e.state = "ReadReady" /\ e.remaining = 1 /\ e.buf = Identity /\ e.cursor = d.cursor
    BY <1>3 DEF IdentifyDevice, PulseIrq, SetStatus, Shaped, Fields
  <2>2. Run(d, cmd) = e /\ JobOf(cmd) = NoJob
    BY <1>12 DEF Run, JobOf
  <2> HIDE DEF e
  <2>3. Placed(e, NoJob)
    BY <1>4, <2>1 DEF Placed, InOrder, NoJob, Identity
  <2> QED BY <1>2, <2>2, <2>3
<1>13. CASE cmd \notin Transfers
  <2>1. Placed(d, job)
    BY <1>1, <1>3, SameOrder
  <2>2. Stays(d, Run(d, cmd))
    BY <1>3, <1>13, RunStays DEF Shaped
  <2>3. JobOf(cmd) = job
    BY <1>13 DEF JobOf, Transfers
  <2> QED BY <1>2, <1>3, <2>1, <2>2, <2>3, StaysOrder
<1> QED BY <1>10, <1>11, <1>12, <1>13 DEF Transfers

(* SectorsInOrder with the soundness it needs: a sector to go, room in the *)
(* buffer, and no transfer that is half way through its block device.      *)
OrderInv == DriveGood /\ Placed(drive, job)

(* A new drive has moved nothing and owes nothing.                         *)
LEMMA InitOrder == Init => OrderInv
<1> SUFFICES ASSUME Init PROVE Placed(drive, job)
  BY InitGood DEF OrderInv
<1>1. drive = NewDrive /\ job = NoJob
  BY DEF Init
<1>2. /\ NewDrive.cursor = 0 /\ NewDrive.buf = -2 /\ NewDrive.state = "Idle"
      /\ NoJob.kind = "none" /\ NoJob.first = 0 /\ NoJob.count = 0
  BY DEF NewDrive, NoJob, GuestData
<1> QED BY <1>1, <1>2 DEF Placed, InOrder

(* A register access other than Command and Data.                          *)
LEMMA RegisterOrder ==
  ASSUME NEW d, NEW j, Good(d), Placed(d, j)
  PROVE  /\ Placed(ReadStatus(d), j) /\ Placed(ClearDmaPending(d), j)
         /\ \A r, v : Placed(WriteReg(d, r, v), j)
         /\ \A srst, nien : Placed(WriteDevControl(d, srst, nien), j)
         /\ \A l, h : Placed(WriteDevHead(d, l, h), j)
<1>1. Shaped(d)
  BY DEF Good
<1>2. ASSUME NEW e, e.state = d.state, e.remaining = d.remaining,
             e.cursor = d.cursor, e.buf = d.buf, e.fault = d.fault
      PROVE  Placed(e, j)
  BY <1>1, <1>2, SameOrder
<1>3. Placed(ReadStatus(d), j) /\ Placed(ClearDmaPending(d), j)
  BY <1>1, <1>2 DEF ReadStatus, ClearDmaPending, Shaped, Fields
<1>4. \A r, v : Placed(WriteReg(d, r, v), j)
  BY <1>1, <1>2 DEF WriteReg, Shaped, Fields
<1>5. \A srst, nien : Placed(WriteDevControl(d, srst, nien), j)
  BY <1>1, <1>2 DEF WriteDevControl, Shaped, Fields
<1>6. \A l, h : Placed(WriteDevHead(d, l, h), j)
  BY <1>1, <1>2 DEF WriteDevHead, Shaped, Fields
<1> QED BY <1>3, <1>4, <1>5, <1>6

(* Every register access and every DMA word keeps the order.               *)
LEMMA OrderStep ==
  ASSUME OrderInv, [Next]_vars
  PROVE  OrderInv'
<1>1. Good(drive) /\ Placed(drive, job)
  BY DEF OrderInv, DriveGood
<1> SUFFICES Placed(drive, job)'
  BY StepGood DEF OrderInv
<1>2. ASSUME drive' = drive, job' = job
      PROVE  Placed(drive, job)'
  BY <1>1, <1>2 DEF Placed, InOrder
<1>3. ASSUME NEW e, Placed(e, job), drive' = e, job' = job
      PROVE  Placed(drive, job)'
  BY <1>3 DEF Placed, InOrder
<1>4. Placed(Fail(drive, "fatal"), job) /\ Placed(Fail(drive, "panic"), job)
  BY <1>1, FailOrder DEF Good
<1>5. ASSUME NEW p, Access(p)
      PROVE  Placed(drive, job)'
  <2>1. ASSUME NEW e, Placed(e, job), Task(e)
        PROVE  Placed(drive, job)'
    BY <1>1, <1>3, <2>1 DEF Task, Drives, OnDrive
  <2>2. CASE ReadData(p) \/ WriteData(p)
    BY <1>1, <2>1, <2>2, DataWordOrder DEF ReadData, WriteData
  <2>3. CASE ReadStatusReg(p) \/ WriteTaskReg(p) \/ WriteDevCtl(p)
    BY <1>1, <2>1, <2>3, RegisterOrder DEF ReadStatusReg, WriteTaskReg, WriteDevCtl
  <2>4. CASE WriteDeviceHead(p)
    <3>1. job' = job /\ (drive' = drive \/ \E l, h : drive' = WriteDevHead(drive, l, h))
      BY <2>4 DEF WriteDeviceHead, Drives
    <3> QED BY <1>1, <1>2, <1>3, <3>1, RegisterOrder
  <2>5. CASE WriteCommand(p)
    <3>1. PICK cmd \in Commands : /\ drive' = OnDrive(ExecCmd(drive, cmd))
                                  /\ job' = IF selected = 0 THEN JobOf(cmd) ELSE job
      BY <2>5, EidePathAssumption DEF WriteCommand, Drives
    <3>2. Running
      BY <2>5 DEF WriteCommand, Turn
    <3>3. Placed(ExecCmd(drive, cmd), JobOf(cmd))
      BY <3>2, ExecCmdOrder DEF OrderInv
    <3>4. CASE selected = 0
      BY <3>1, <3>3, <3>4 DEF OnDrive, Placed, InOrder
    <3>5. CASE selected # 0
      BY <1>2, <3>1, <3>5 DEF OnDrive
    <3> QED BY <3>4, <3>5
  <2>6. CASE WriteDmaLength(p) \/ Unimplemented(p)
    <3>1. job' = job /\ drive' \in {drive, Fail(drive, "fatal"), Fail(drive, "panic")}
      BY <2>6 DEF WriteDmaLength, Unimplemented
    <3> QED BY <1>2, <1>3, <1>4, <3>1
  <2>7. CASE NoAccess(p) \/ AckLatch(p) \/ WriteDmaControl(p)
    BY <1>2, <2>7 DEF NoAccess, AckLatch, WriteDmaControl, driveVars
  <2> QED BY <1>5, <2>2, <2>3, <2>4, <2>5, <2>6, <2>7 DEF Access
<1>6. CASE DmaBlock
  <2>1. ASSUME NEW e, Good(e), Placed(e, job), drive' = ClearDmaPending(e), job' = job
        PROVE  Placed(drive, job)'
    BY <1>3, <2>1, RegisterOrder
  <2>2. job' = job
    BY <1>6 DEF DmaBlock
  <2>3. Good(Fail(drive, "panic"))
    BY <1>1, FailGood DEF Good
  <2>4. CASE ~MovesWord
    BY <1>1, <1>6, <2>1, <2>4 DEF DmaBlock
  <2>5. CASE MovesWord
    <3>1. PICK wide, faults \in BOOLEAN :
            drive' = ClearDmaPending(IF DmaPanics(faults) THEN Fail(drive, "panic")
                                                          ELSE Moved(wide))
      BY <1>6, <2>5 DEF DmaBlock, Drives
    <3> DEFINE e == IF dma.read THEN DataRead16(drive) ELSE DataWrite16(drive, wide)
    <3>2. Good(e) /\ Placed(e, job)
      BY <1>1, DataWordGood, DataWordOrder
    <3>3. Good(Fail(e, "panic")) /\ Placed(Fail(e, "panic"), job)
      BY <3>2, FailGood, FailOrder DEF Good
    <3>4. Moved(wide) \in {e, Fail(e, "panic")}
      BY DEF Moved
    <3> HIDE DEF e
    <3> QED BY <1>4, <2>1, <2>2, <2>3, <3>1, <3>2, <3>3, <3>4
  <2> QED BY <2>4, <2>5
<1>7. CASE SampleLatch \/ \E p \in {"cpu", "cop"} : Parked(p)
  BY <1>2, <1>7 DEF SampleLatch, Parked, driveVars
<1>8. CASE UNCHANGED vars
  BY <1>2, <1>8 DEF vars
<1> QED BY <1>5, <1>6, <1>7, <1>8 DEF Next, StepLoop

(* Whatever the guest programs, data_read8 and data_write8 (ide/mod.rs)    *)
(* hand over the sectors of a transfer each once and in order, from the    *)
(* block the address registers named to the last one asked for.            *)
THEOREM SectorsKeepOrder == Spec => []SectorsInOrder
<1>1. OrderInv => SectorsInOrder
  BY DEF OrderInv, Placed, InOrder, SectorsInOrder, Running
<1> QED BY InitOrder, OrderStep, <1>1, PTL DEF Spec
-------------------------------------------------------------------------------
(* What one access of the data register does to the sectors that have to   *)
(* pass: nothing, or it moves the last byte of one of them, and then the   *)
(* buffer is empty and the interrupt has been raised where one is due.     *)
Moves(d, e) == e.fault = "none" =>
  /\ e.dma = d.dma
  /\ \/ /\ LeftOf(e) = LeftOf(d)
        /\ d.irq => e.irq
     \/ /\ LeftOf(d) > 0
        /\ LeftOf(e) = LeftOf(d) - 1
        /\ LeftOf(e) = 0 \/ ~d.dma => e.irq
        /\ d.pos + 1 >= SectorBytes
        /\ Transferring(e) => e.pos = 0

(* Filling or flushing the buffer leaves an empty one for the next sector. *)
LEMMA BlockMoves ==
  ASSUME NEW d, Shaped(d), d.fault = "none"
  PROVE  /\ DOMAIN ReadBlock(d) = Fields
         /\ ReadBlock(d).fault = "none" =>
              /\ ReadBlock(d).state = "ReadReady" /\ ReadBlock(d).pos = 0
              /\ ReadBlock(d).remaining = d.remaining /\ ReadBlock(d).dma = d.dma
         /\ DOMAIN WriteBlock(d) = Fields
         /\ WriteBlock(d).fault = "none" =>
              /\ WriteBlock(d).state = "WriteReady" /\ WriteBlock(d).pos = 0
              /\ WriteBlock(d).remaining = d.remaining /\ WriteBlock(d).dma = d.dma
<1>1. /\ DOMAIN ReadBlock(d) = Fields
      /\ ReadBlock(d).fault = "none" =>
           /\ ReadBlock(d).state = "ReadReady" /\ ReadBlock(d).pos = 0
           /\ ReadBlock(d).remaining = d.remaining /\ ReadBlock(d).dma = d.dma
  BY DEF ReadBlock, Fail, Shaped, Fields
<1>2. /\ DOMAIN WriteBlock(d) = Fields
      /\ WriteBlock(d).fault = "none" =>
           /\ WriteBlock(d).state = "WriteReady" /\ WriteBlock(d).pos = 0
           /\ WriteBlock(d).remaining = d.remaining /\ WriteBlock(d).dma = d.dma
  BY DEF WriteBlock, Fail, Shaped, Fields
<1> QED BY <1>1, <1>2

(* The end of a sector is told unless the DMA block is served, the end of a*)
(* transfer always.                                                        *)
LEMMA EndsAreTold ==
  ASSUME NEW d, NEW on, NEW off, DOMAIN d = Fields
  PROVE  LET e == PulseUnlessDma(SetStatus(d, on, off))
             f == Finish(SetStatus(d, on, off))
         IN  /\ DOMAIN e = Fields
             /\ e.state = d.state /\ e.remaining = d.remaining /\ e.pos = d.pos
             /\ e.fault = d.fault /\ e.dma = d.dma /\ (~d.dma => e.irq)
             /\ f.state = "Idle" /\ f.dma = d.dma /\ f.irq
BY DEF PulseUnlessDma, PulseIrq, SetStatus, Finish, Fields

(* A byte read of the data register.                                       *)
LEMMA ReadByteMoves ==
  ASSUME NEW d, Good(d)
  PROVE  Moves(d, DataRead8(d))
<1> DEFINE read == [d EXCEPT !.pos = @ + 1]
<1>0. Shaped(d)
  BY DEF Good
<1>1. CASE ~(d.fault = "none" /\ d.state = "ReadReady" /\ d.pos < SectorBytes)
  <2>1. DataRead8(d).fault # "none"
    BY <1>0, <1>1 DEF DataRead8, Try, Fail, Shaped, Fields
  <2> QED BY <2>1 DEF Moves
<1>2. CASE d.fault = "none" /\ d.state = "ReadReady" /\ d.pos < SectorBytes
  <2>1. /\ Shaped(read) /\ read.fault = "none" /\ read.state = "ReadReady"
        /\ read.pos = d.pos + 1 /\ read.dma = d.dma /\ read.irq = d.irq
        /\ read.remaining = d.remaining /\ d.remaining \in Nat /\ d.remaining >= 1
    BY <1>2 DEF Good, Sound, Shaped, Fields, RoomLeft, Transferring
  <2>2. DataRead8(d) = IF read.pos < SectorBytes THEN read ELSE EndReadSector(read)
    BY <1>2 DEF DataRead8, Try
  <2> HIDE DEF read
  <2>3. LeftOf(d) = d.remaining
    BY <1>2 DEF LeftOf, Transferring
  <2>4. CASE read.pos < SectorBytes
    BY <2>1, <2>2, <2>3, <2>4 DEF Moves, LeftOf, Transferring
  <2>5. CASE ~(read.pos < SectorBytes)
    <3> DEFINE left == [read EXCEPT !.remaining = @ - 1]
               busy == [SetStatus(left, {"BSY"}, {"DRQ"}) EXCEPT !.state = "ReadAsyncLoad"]
               loaded == ReadBlock(busy)
    <3>1. /\ Shaped(left) /\ left.remaining = d.remaining - 1 /\ left.dma = d.dma
          /\ left.fault = "none"
      BY <2>1 DEF Shaped, Fields
    <3>2. /\ Shaped(busy) /\ busy.remaining = left.remaining /\ busy.dma = left.dma
          /\ busy.fault = "none"
      BY <3>1 DEF SetStatus, Shaped, Fields
    <3>3. EndReadSector(read) =
            IF d.remaining = 1 THEN Finish(SetStatus(left, {}, {"BSY"}))
            ELSE Try(loaded, PulseUnlessDma(SetStatus(loaded, {"DRQ"}, {"BSY"})))
      BY <2>1 DEF EndReadSector, Shaped
    <3> HIDE DEF left, busy
    <3>4. d.pos + 1 >= SectorBytes /\ DataRead8(d) = EndReadSector(read)
      BY <1>0, <2>1, <2>2, <2>5, IdeDriveAssumption DEF Shaped
    <3>5. CASE d.remaining = 1
      <4> DEFINE e == Finish(SetStatus(left, {}, {"BSY"}))
      <4>1. e.state = "Idle" /\ e.dma = d.dma /\ e.irq
        BY <3>1, EndsAreTold DEF Shaped
      <4>2. DataRead8(d) = e
        BY <3>3, <3>4, <3>5
      <4> HIDE DEF e
      <4>3. LeftOf(e) = 0 /\ ~Transferring(e)
        BY <4>1 DEF LeftOf, Transferring
      <4> QED BY <2>1, <2>3, <3>4, <3>5, <4>1, <4>2, <4>3 DEF Moves
    <3>6. CASE d.remaining # 1
      <4>1. /\ DOMAIN loaded = Fields
            /\ loaded.fault = "none" =>
                 /\ loaded.state = "ReadReady" /\ loaded.pos = 0
                 /\ loaded.remaining = d.remaining - 1 /\ loaded.dma = d.dma
        BY <3>1, <3>2, BlockMoves
      <4> HIDE DEF loaded
      <4> DEFINE e == PulseUnlessDma(SetStatus(loaded, {"DRQ"}, {"BSY"}))
      <4>2. /\ e.state = loaded.state /\ e.remaining = loaded.remaining /\ e.pos = loaded.pos
            /\ e.fault = loaded.fault /\ e.dma = loaded.dma /\ (~loaded.dma => e.irq)
        BY <4>1, EndsAreTold
      <4>3. DataRead8(d) = IF loaded.fault = "none" THEN e ELSE loaded
        BY <3>3, <3>4, <3>6 DEF Try
      <4> HIDE DEF e
      <4>4. CASE loaded.fault # "none"
        BY <4>3, <4>4 DEF Moves
      <4>5. CASE loaded.fault = "none"
        <5>1. LeftOf(e) = d.remaining - 1
          BY <4>1, <4>2, <4>5 DEF LeftOf, Transferring
        <5>2. e.pos = 0 /\ e.dma = d.dma /\ (~d.dma => e.irq)
          BY <4>1, <4>2, <4>5
        <5>3. d.remaining - 1 # 0 /\ d.remaining > 0
          BY <2>1, <3>6
        <5> QED BY <2>3, <3>4, <4>3, <4>5, <5>1, <5>2, <5>3 DEF Moves
      <4> QED BY <4>4, <4>5
    <3> QED BY <3>5, <3>6
  <2> QED BY <2>4, <2>5
<1> QED BY <1>1, <1>2

(* A byte written to the data register.                                    *)
LEMMA WriteByteMoves ==
  ASSUME NEW d, Good(d)
  PROVE  Moves(d, DataWrite8(d))
<1> DEFINE written == [d EXCEPT !.pos = @ + 1, !.buf = GuestData]
<1>0. Shaped(d)
  BY DEF Good
<1>1. CASE ~(d.fault = "none" /\ d.state = "WriteReady" /\ d.pos < SectorBytes)
  <2>1. DataWrite8(d).fault # "none"
    BY <1>0, <1>1 DEF DataWrite8, Try, Fail, Shaped, Fields
  <2> QED BY <2>1 DEF Moves
<1>2. CASE d.fault = "none" /\ d.state = "WriteReady" /\ d.pos < SectorBytes
  <2>1. /\ Shaped(written) /\ written.fault = "none" /\ written.state = "WriteReady"
        /\ written.pos = d.pos + 1 /\ written.dma = d.dma /\ written.irq = d.irq
        /\ written.remaining = d.remaining /\ d.remaining \in Nat /\ d.remaining >= 1
    BY <1>2 DEF Good, Sound, Shaped, Fields, RoomLeft, Transferring, GuestData
  <2>2. DataWrite8(d) = IF written.pos < SectorBytes THEN written ELSE EndWriteSector(written)
    BY <1>2 DEF DataWrite8, Try
  <2> HIDE DEF written
  <2>3. LeftOf(d) = d.remaining
    BY <1>2 DEF LeftOf, Transferring
  <2>4. CASE written.pos < SectorBytes
    BY <2>1, <2>2, <2>3, <2>4 DEF Moves, LeftOf, Transferring
  <2>5. CASE ~(written.pos < SectorBytes)
    <3> DEFINE busy    == [SetStatus(written, {"BSY"}, {"DRQ"}) EXCEPT !.state = "WriteAsyncFlush"]
               flushed == WriteBlock(busy)
               pulsed  == PulseUnlessDma(SetStatus(flushed, {"DRQ"}, {"BSY"}))
               left    == [pulsed EXCEPT !.remaining = @ - 1]
    <3>1. /\ Shaped(busy) /\ busy.remaining = d.remaining /\ busy.dma = d.dma
          /\ busy.fault = "none"
      BY <2>1 DEF SetStatus, Shaped, Fields
    <3>2. EndWriteSector(written) = IF flushed.fault # "none" THEN flushed
                                    ELSE IF left.remaining = 0 THEN Finish(left) ELSE left
      BY <2>1 DEF EndWriteSector, Try
    <3> HIDE DEF busy
    <3>3. d.pos + 1 >= SectorBytes /\ DataWrite8(d) = EndWriteSector(written)
      BY <1>0, <2>1, <2>2, <2>5, IdeDriveAssumption DEF Shaped
    <3>4. /\ DOMAIN flushed = Fields
          /\ flushed.fault = "none" =>
               /\ flushed.state = "WriteReady" /\ flushed.pos = 0
               /\ flushed.remaining = d.remaining /\ flushed.dma = d.dma
      BY <3>1, BlockMoves
    <3> HIDE DEF flushed
    <3>5. CASE flushed.fault # "none"
      BY <3>2, <3>3, <3>5 DEF Moves
    <3>6. CASE flushed.fault = "none"
      <4>1. /\ DOMAIN pulsed = Fields /\ pulsed.state = "WriteReady" /\ pulsed.pos = 0
            /\ pulsed.remaining = d.remaining /\ pulsed.dma = d.dma /\ (~d.dma => pulsed.irq)
        BY <3>4, <3>6, EndsAreTold
      <4> HIDE DEF pulsed
      <4>2. /\ DOMAIN left = Fields /\ left.state = "WriteReady" /\ left.pos = 0
            /\ left.remaining = d.remaining - 1 /\ left.dma = d.dma /\ left.irq = pulsed.irq
        BY <4>1 DEF Fields
      <4> HIDE DEF left
      <4>3. CASE left.remaining = 0
        <5> DEFINE e == Finish(left)
        <5>1. e.state = "Idle" /\ e.dma = d.dma /\ e.irq
          BY <4>2 DEF Finish, PulseIrq, SetStatus, Fields
        <5>2. DataWrite8(d) = e
          BY <3>2, <3>3, <3>6, <4>3
        <5> HIDE DEF e
        <5>3. LeftOf(e) = 0 /\ ~Transferring(e)
          BY <5>1 DEF LeftOf, Transferring
        <5> QED BY <2>1, <2>3, <3>3, <4>2, <4>3, <5>1, <5>2, <5>3 DEF Moves
      <4>4. CASE left.remaining # 0
        <5>1. DataWrite8(d) = left
          BY <3>2, <3>3, <3>6, <4>4
        <5>2. LeftOf(left) = d.remaining - 1
          BY <4>2 DEF LeftOf, Transferring
        <5>3. ~d.dma => left.irq
          BY <4>1, <4>2
        <5>4. d.remaining - 1 # 0 /\ d.remaining > 0
          BY <2>1, <4>2, <4>4
        <5> QED BY <2>3, <3>3, <4>2, <5>1, <5>2, <5>3, <5>4 DEF Moves
      <4> QED BY <4>3, <4>4
    <3> QED BY <3>5, <3>6
  <2> QED BY <2>4, <2>5
<1> QED BY <1>1, <1>2

(* The same of a whole access, of a byte or of a word.                     *)
Flows(d, e) == e.fault = "none" =>
  /\ e.dma = d.dma
  /\ \/ /\ LeftOf(e) = LeftOf(d)
        /\ d.irq => e.irq
     \/ /\ LeftOf(d) > 0
        /\ LeftOf(e) = LeftOf(d) - 1
        /\ LeftOf(e) = 0 \/ ~d.dma => e.irq

(* Two bytes in a row never move two sectors: a sector holds a word.       *)
LEMMA TwoBytesFlow ==
  ASSUME NEW d, NEW m, NEW e, Moves(d, m), Moves(m, e), LeftOf(m) \in Nat,
         LeftOf(m) > 0 => Transferring(m),
         m.fault # "none" => e.fault # "none"
  PROVE  Flows(d, e)
<1> SUFFICES ASSUME e.fault = "none" PROVE Flows(d, e)
  BY DEF Flows
<1>1. m.fault = "none" /\ m.dma = d.dma /\ e.dma = m.dma
  BY DEF Moves
<1>2. CASE LeftOf(m) = LeftOf(d) /\ (d.irq => m.irq)
  BY <1>1, <1>2 DEF Moves, Flows
<1>3. CASE /\ LeftOf(d) > 0
           /\ LeftOf(m) = LeftOf(d) - 1
           /\ LeftOf(m) = 0 \/ ~d.dma => m.irq
           /\ Transferring(m) => m.pos = 0
  <2>1. ~(LeftOf(m) > 0 /\ m.pos + 1 >= SectorBytes)
    BY <1>3, IdeDriveAssumption
  <2>2. LeftOf(e) = LeftOf(m) /\ (m.irq => e.irq)
    BY <1>1, <2>1 DEF Moves
  <2> QED BY <1>1, <1>3, <2>2 DEF Flows
<1> QED BY <1>1, <1>2, <1>3 DEF Moves

(* A good drive's sectors are a number, and some are left only in transfer.*)
LEMMA LeftIsNat ==
  ASSUME NEW d, Good(d)
  PROVE  LeftOf(d) \in Nat /\ (LeftOf(d) > 0 => Transferring(d))
BY DEF Good, Shaped, LeftOf

(* A word of the data register.                                            *)
LEMMA WordFlows ==
  ASSUME NEW d, Good(d), NEW wide \in BOOLEAN
  PROVE  Flows(d, DataRead16(d)) /\ Flows(d, DataWrite16(d, wide))
<1>1. ASSUME NEW e, Moves(d, e) PROVE Flows(d, e)
  BY <1>1 DEF Moves, Flows
<1>2. Flows(d, Fail(d, "fatal"))
  BY DEF Flows, Fail, Good, Shaped, Fields
<1>3. Flows(d, DataRead8(d)) /\ Flows(d, DataWrite8(d))
  BY <1>1, ReadByteMoves, WriteByteMoves
<1>4. Flows(d, DataRead8(DataRead8(d)))
  <2> DEFINE m == DataRead8(d)
  <2>1. Good(m) /\ Moves(d, m)
    BY DataRead8Good, ReadByteMoves
  <2>2. m.fault # "none" => DataRead8(m) = m
    BY DEF DataRead8, Try
  <2> HIDE DEF m
  <2>3. Moves(m, DataRead8(m))
    BY <2>1, ReadByteMoves
  <2>4. Flows(d, DataRead8(m))
    BY <2>1, <2>2, <2>3, LeftIsNat, TwoBytesFlow
  <2> QED BY <2>4 DEF m
<1>5. Flows(d, DataWrite8(DataWrite8(d)))
  <2> DEFINE m == DataWrite8(d)
  <2>1. Good(m) /\ Moves(d, m)
    BY DataWrite8Good, WriteByteMoves
  <2>2. m.fault # "none" => DataWrite8(m) = m
    BY DEF DataWrite8, Try
  <2> HIDE DEF m
  <2>3. Moves(m, DataWrite8(m))
    BY <2>1, WriteByteMoves
  <2>4. Flows(d, DataWrite8(m))
    BY <2>1, <2>2, <2>3, LeftIsNat, TwoBytesFlow
  <2> QED BY <2>4 DEF m
<1> QED BY <1>2, <1>3, <1>4, <1>5 DEF DataRead16, DataWrite16

(* A transfer that a command opens has all its sectors to go, and the guest*)
(* is told.                                                                *)
Opens(d, e) == e.fault = "none" => /\ LeftOf(e) = SectorCount(d)
                                   /\ e.irq
                                   /\ e.dma = d.dma

LEMMA TransfersOpen ==
  ASSUME NEW d, Shaped(d), d.fault = "none"
  PROVE  Opens(d, ReadSectors(d)) /\ Opens(d, WriteSectors(d))
<1>1. Opens(d, ReadSectors(d))
  <2> DEFINE sought == [d EXCEPT !.cursor = SectorOffset(d), !.state = "ReadAsyncLoad"]
             loaded == ReadBlock(sought)
             ready  == [loaded EXCEPT !.remaining = SectorCount(d)]
             open   == PulseIrq(SetStatus(ready, {"DSC", "DRDY", "DRQ"}, {"BSY"}))
  <2>1. Shaped(sought) /\ sought.fault = "none" /\ sought.dma = d.dma
    BY DEF Shaped, Fields
  <2>2. ReadSectors(d) \in {Fail(d, "fatal"), Try(loaded, open)}
    BY DEF ReadSectors
  <2> HIDE DEF sought
  <2>3. /\ DOMAIN loaded = Fields
        /\ loaded.fault = "none" => loaded.state = "ReadReady" /\ loaded.dma = d.dma
    BY <2>1, BlockMoves
  <2> HIDE DEF loaded
  <2>4. loaded.fault = "none" => /\ open.state = "ReadReady" /\ open.remaining = SectorCount(d)
                                 /\ open.irq /\ open.dma = d.dma
    BY <2>3 DEF PulseIrq, SetStatus, Fields
  <2> HIDE DEF open
  <2>5. Opens(d, Try(loaded, open))
    BY <2>4 DEF Try, Opens, LeftOf, Transferring
  <2>6. Opens(d, Fail(d, "fatal"))
    BY DEF Opens, Fail, Shaped, Fields
  <2> QED BY <2>2, <2>5, <2>6
<1>2. Opens(d, WriteSectors(d))
  <2> DEFINE sought == [d EXCEPT !.cursor = SectorOffset(d), !.state = "WriteReady",
                                 !.remaining = SectorCount(d), !.pos = 0]
             open   == PulseIrq(SetStatus(sought, {"DSC", "DRQ"}, {"BSY", "DRDY"}))
  <2>1. WriteSectors(d) \in {Fail(d, "fatal"), open}
    BY DEF WriteSectors
  <2>2. /\ open.state = "WriteReady" /\ open.remaining = SectorCount(d)
        /\ open.irq /\ open.dma = d.dma
    BY DEF PulseIrq, SetStatus, Shaped, Fields
  <2> HIDE DEF open
  <2>3. Opens(d, open)
    BY <2>2 DEF Opens, LeftOf, Transferring
  <2>4. Opens(d, Fail(d, "fatal"))
    BY DEF Opens, Fail, Shaped, Fields
  <2> QED BY <2>1, <2>3, <2>4
<1> QED BY <1>1, <1>2

(* Where the next sector passes follows from the order: the stream of a    *)
(* running drive is determined by what is left of its job.                 *)
LEMMA AtFollows ==
  ASSUME NEW d, NEW j, Good(d), Placed(d, j), d.fault = "none"
  PROVE  /\ j.kind = "none" => AtOf(d, j) = 0
         /\ j.kind # "none" => AtOf(d, j) = j.first + (j.count - LeftOf(d))
<1>1. /\ d.state \in {"Idle", "ReadReady", "WriteReady"} /\ d.remaining \in Nat
      /\ j.first \in Int /\ j.count \in Int /\ InOrder(d, j)
  BY DEF Good, Sound, Shaped, Placed
<1>2. j.kind = "none" => AtOf(d, j) = 0
  BY DEF AtOf
<1>3. ASSUME j.kind # "none", d.state = "Idle"
      PROVE  AtOf(d, j) = j.first + (j.count - LeftOf(d))
  BY <1>1, <1>3 DEF AtOf, LeftOf, Transferring, InOrder
<1>4. ASSUME j.kind # "none", d.state = "ReadReady"
      PROVE  AtOf(d, j) = j.first + (j.count - LeftOf(d))
  BY <1>1, <1>4 DEF AtOf, LeftOf, Transferring, InOrder
<1>5. ASSUME j.kind # "none", d.state = "WriteReady"
      PROVE  AtOf(d, j) = j.first + (j.count - LeftOf(d))
  BY <1>1, <1>5 DEF AtOf, LeftOf, Transferring, InOrder
<1> QED BY <1>1, <1>2, <1>3, <1>4, <1>5

(* A command opens a transfer, with all its sectors to go and the guest    *)
(* told; or asks for the drive's identity; or leaves the sectors be.       *)
LEMMA CommandStreams ==
  ASSUME DriveGood, Running, NEW cmd \in Commands, ExecCmd(drive, cmd).fault = "none"
  PROVE  LET e == ExecCmd(drive, cmd)
         IN  \/ /\ cmd \in Transfers \ {"IdentifyDevice"}
                /\ LeftOf(e) = SectorCount(drive) /\ e.irq /\ e.dma = drive.dma
             \/ /\ cmd = "IdentifyDevice"
                /\ LeftOf(e) = 1 /\ e.irq /\ e.dma = drive.dma
             \/ /\ cmd \notin Transfers
                /\ LeftOf(e) = LeftOf(drive)
<1> DEFINE d == SetStatus(drive, {"BSY"}, {"ERR"})
           a == AssertDmarq(d)
           e == ExecCmd(drive, cmd)
<1>1. /\ Shaped(drive) /\ drive.fault = "none" /\ "BSY" \notin drive.status
  BY DEF DriveGood, Good, Sound, Running, NeverBusy
<1>2. e = Run(d, cmd)
  BY <1>1 DEF ExecCmd
<1>3. /\ Shaped(d) /\ d.fault = "none" /\ d.reg = drive.reg /\ d.dma = drive.dma
      /\ d.state = drive.state /\ d.remaining = drive.remaining
  BY <1>1 DEF SetStatus, Shaped, Fields
<1> HIDE DEF d
<1>4. Shaped(a) /\ a.fault = "none" /\ a.reg = drive.reg /\ a.dma = drive.dma
  BY <1>3 DEF AssertDmarq, Shaped, Fields
<1> HIDE DEF a
<1>5. e.fault = "none"
  OBVIOUS
<1> HIDE DEF e
<1>6. CASE cmd \in Transfers \ {"IdentifyDevice"}
  <2>1. Run(d, cmd) \in {ReadSectors(d), WriteSectors(d), ReadSectors(a), WriteSectors(a),
                         Fail(d, "fatal")}
    BY <1>6 DEF Run, Transfers, Multiple, WithDma, a
  <2>2. Fail(d, "fatal").fault # "none"
    BY <1>3 DEF Fail, Shaped, Fields
  <2>3. /\ Opens(d, ReadSectors(d)) /\ Opens(d, WriteSectors(d))
        /\ Opens(a, ReadSectors(a)) /\ Opens(a, WriteSectors(a))
    BY <1>3, <1>4, TransfersOpen
  <2>4. Opens(d, e) \/ Opens(a, e)
    BY <1>2, <1>5, <2>1, <2>2, <2>3
  <2>5. SectorCount(d) = SectorCount(drive) /\ SectorCount(a) = SectorCount(drive)
    BY <1>3, <1>4 DEF SectorCount
  <2>6. LeftOf(e) = SectorCount(drive) /\ e.irq /\ e.dma = drive.dma
    BY <1>3, <1>4, <1>5, <2>4, <2>5 DEF Opens
  <2> QED BY <1>6, <2>6 DEF e
<1>7. CASE cmd = "IdentifyDevice"
  <2>1. Run(d, cmd) = IdentifyDevice(d)
    BY <1>7 DEF Run
  <2>2. LET i == IdentifyDevice(d)
        IN  i.state = "ReadReady" /\ i.remaining = 1 /\ i.irq /\ i.dma = d.dma
    BY <1>3 DEF IdentifyDevice, PulseIrq, SetStatus, Shaped, Fields
  <2>3. LeftOf(e) = 1 /\ e.irq /\ e.dma = drive.dma
    BY <1>2, <1>3, <2>1, <2>2 DEF LeftOf, Transferring
  <2> QED BY <1>7, <2>3 DEF e
<1>8. CASE cmd \notin Transfers
  <2>1. Stays(d, e)
    BY <1>2, <1>3, <1>8, RunStays DEF Shaped
  <2>2. LeftOf(e) = LeftOf(drive)
    BY <1>3, <1>5, <2>1 DEF Stays, LeftOf, Transferring
  <2> QED BY <1>8, <2>2 DEF e
<1> QED BY <1>6, <1>7, <1>8

(* Accesses of the other registers and a failing access.                   *)
LEMMA OthersRest ==
  ASSUME NEW d, Good(d)
  PROVE  /\ LeftOf(ReadStatus(d)) = LeftOf(d)
         /\ \A r, v : LeftOf(WriteReg(d, r, v)) = LeftOf(d)
         /\ \A srst, nien : LeftOf(WriteDevControl(d, srst, nien)) = LeftOf(d)
         /\ \A l, h : LeftOf(WriteDevHead(d, l, h)) = LeftOf(d)
         /\ \A why \in {"fatal", "panic"} : LeftOf(Fail(d, why)) = LeftOf(d)
<1>1. ASSUME NEW e, e.state = d.state, e.remaining = d.remaining
      PROVE  LeftOf(e) = LeftOf(d)
  BY <1>1 DEF LeftOf, Transferring
<1>2. LeftOf(ReadStatus(d)) = LeftOf(d)
  BY <1>1 DEF ReadStatus, Good, Shaped, Fields
<1>3. \A r, v : LeftOf(WriteReg(d, r, v)) = LeftOf(d)
  BY <1>1 DEF WriteReg, Good, Shaped, Fields
<1>4. \A srst, nien : LeftOf(WriteDevControl(d, srst, nien)) = LeftOf(d)
  BY <1>1 DEF WriteDevControl, Good, Shaped, Fields
<1>5. \A l, h : LeftOf(WriteDevHead(d, l, h)) = LeftOf(d)
  BY <1>1 DEF WriteDevHead, Good, Shaped, Fields
<1>6. \A why \in {"fatal", "panic"} : LeftOf(Fail(d, why)) = LeftOf(d)
  BY <1>1 DEF Fail, Good, Shaped, Fields
<1> QED BY <1>2, <1>3, <1>4, <1>5, <1>6

(* The end of the DMA block changes nothing the stream looks at.           *)
LEMMA ClearFlows ==
  ASSUME NEW d, NEW e, DOMAIN e = Fields, Flows(d, e)
  PROVE  Flows(d, ClearDmaPending(e))
<1> DEFINE f == ClearDmaPending(e)
<1>1. /\ f.state = e.state /\ f.remaining = e.remaining /\ f.irq = e.irq
      /\ f.dma = e.dma /\ f.fault = e.fault
  BY DEF ClearDmaPending, Fields
<1> HIDE DEF f
<1>2. LeftOf(f) = LeftOf(e)
  BY <1>1 DEF LeftOf, Transferring
<1>3. Flows(d, f)
  BY <1>1, <1>2 DEF Flows
<1> QED BY <1>3 DEF f

(* Every step of the path is a step of SectorStream, or leaves what the    *)
(* mapping shows unchanged.                                                *)
LEMMA StreamStep ==
  ASSUME OrderInv, [Next]_vars
  PROVE  [Stream!SNext]_(Stream!svars)
<1>1. Good(drive) /\ Placed(drive, job)
  BY DEF OrderInv, DriveGood
<1>2. Good(drive)' /\ Placed(drive, job)'
  BY OrderStep DEF OrderInv, DriveGood
<1>3. CASE UNCHANGED vars
  <2>1. drive' = drive /\ job' = job
    BY <1>3 DEF vars
  <2> QED BY <2>1 DEF Stream!svars, Running, LeftOf, AtOf, Transferring
<1>4. CASE Next
  <2>0. Running
    BY <1>4 DEF Next, StepLoop, DmaBlock, SampleLatch, Parked, Access, Turn, NoAccess, ReadData,
       WriteData, ReadStatusReg, WriteTaskReg, WriteDevCtl, WriteDeviceHead, WriteCommand,
       AckLatch, WriteDmaControl, WriteDmaLength, Unimplemented
  <2>1. CASE ~Running'
    BY <2>0, <2>1 DEF Stream!SNext
  <2>2. CASE Running'
    <3>1. /\ job.kind = "none" => AtOf(drive, job) = 0
          /\ job.kind # "none" => AtOf(drive, job) = job.first + (job.count - LeftOf(drive))
      BY <1>1, <2>0, AtFollows DEF Running
    <3>2. /\ job'.kind = "none" => AtOf(drive, job)' = 0
          /\ job'.kind # "none" =>
               AtOf(drive, job)' = job'.first + (job'.count - LeftOf(drive)')
      <4>1. drive'.fault = "none"
        BY <2>2 DEF Running
      <4>2. Good(drive') /\ Placed(drive', job')
        BY <1>2 DEF Good, Shaped, Sound, NeverBusy, RoomLeft, DrqIsBacked, Transferring,
           Placed, InOrder
      <4>3. AtOf(drive, job)' = AtOf(drive', job') /\ LeftOf(drive)' = LeftOf(drive')
        BY DEF AtOf, LeftOf, Transferring
      <4> QED BY <4>1, <4>2, <4>3, AtFollows
    <3>3. /\ LeftOf(drive) \in Nat /\ job.first \in Int /\ job.count \in Int
          /\ job'.first \in Int /\ job'.count \in Int
      BY <1>1, <1>2, LeftIsNat DEF Placed
    <3>4. LeftOf(drive)' = LeftOf(drive')
      BY DEF LeftOf, Transferring
    <3>5. ASSUME job' = job, LeftOf(drive') = LeftOf(drive)
          PROVE  Stream!SNext
      BY <2>0, <3>1, <3>2, <3>4, <3>5 DEF Stream!SNext, Stream!Elsewhere
    <3>6. ASSUME job' = job, Flows(drive, drive')
          PROVE  Stream!SNext
      <4>1. CASE LeftOf(drive') = LeftOf(drive)
        BY <3>5, <3>6, <4>1
      <4>2. CASE LeftOf(drive') # LeftOf(drive)
        <5>1. /\ LeftOf(drive) > 0
              /\ LeftOf(drive') = LeftOf(drive) - 1
              /\ LeftOf(drive') = 0 \/ ~drive.dma => drive'.irq
              /\ drive'.dma = drive.dma
          BY <2>2, <3>6, <4>2 DEF Flows, Running
        <5>2. AtOf(drive, job)' = IF job.kind = "none" THEN AtOf(drive, job)
                                                       ELSE AtOf(drive, job) + 1
          BY <3>1, <3>2, <3>3, <3>4, <3>6, <5>1
        <5>3. Stream!Pass
          BY <3>4, <3>6, <5>1, <5>2 DEF Stream!Pass
        <5> QED BY <2>0, <5>3 DEF Stream!SNext
      <4> QED BY <4>1, <4>2
    <3>7. ASSUME NEW p, Access(p)
          PROVE  Stream!SNext
      <4>1. ASSUME NEW e, Task(e), LeftOf(e) = LeftOf(drive) \/ Flows(drive, e)
            PROVE  Stream!SNext
        BY <3>5, <3>6, <4>1 DEF Task, Drives, OnDrive
      <4>2. CASE ReadData(p) \/ WriteData(p)
        BY <1>1, <4>1, <4>2, WordFlows DEF ReadData, WriteData
      <4>3. CASE ReadStatusReg(p) \/ WriteTaskReg(p) \/ WriteDevCtl(p)
        BY <1>1, <4>1, <4>3, OthersRest DEF ReadStatusReg, WriteTaskReg, WriteDevCtl
      <4>4. CASE WriteDeviceHead(p)
        <5>1. job' = job /\ (drive' = drive \/ \E l, h : drive' = WriteDevHead(drive, l, h))
          BY <4>4 DEF WriteDeviceHead, Drives
        <5> QED BY <1>1, <3>5, <5>1, OthersRest
      <4>5. CASE WriteCommand(p)
        <5>1. PICK cmd \in Commands : /\ drive' = OnDrive(ExecCmd(drive, cmd))
                                      /\ job' = IF selected = 0 THEN JobOf(cmd) ELSE job
          BY <4>5, EidePathAssumption DEF WriteCommand, Drives
        <5>2. CASE selected # 0
          BY <3>5, <5>1, <5>2 DEF OnDrive
        <5>3. CASE selected = 0
          <6>1. drive' = ExecCmd(drive, cmd) /\ job' = JobOf(cmd)
            BY <5>1, <5>3 DEF OnDrive
          <6>2. ExecCmd(drive, cmd).fault = "none"
            BY <2>2, <6>1 DEF Running
          <6>3. CASE /\ cmd \in Transfers \ {"IdentifyDevice"}
                     /\ LeftOf(drive') = SectorCount(drive) /\ drive'.irq
                     /\ drive'.dma = drive.dma
            <7>1. job'.kind \in {"read", "write"} /\ job'.count = SectorCount(drive)
              BY <6>1, <6>3 DEF JobOf, Transfers
            <7>2. SectorCount(drive) >= 1 /\ SectorCount(drive) \in Nat
              BY <1>1, CountPositive DEF Good, Shaped
            <7>3. AtOf(drive, job)' = job'.first
              BY <3>2, <3>3, <3>4, <6>3, <7>1, <7>2
            <7>4. Stream!Begin
              BY <3>4, <6>3, <7>1, <7>2, <7>3 DEF Stream!Begin
            <7> QED BY <2>0, <7>4 DEF Stream!SNext
          <6>4. CASE /\ cmd = "IdentifyDevice"
                     /\ LeftOf(drive') = 1 /\ drive'.irq /\ drive'.dma = drive.dma
            <7>1. job'.kind = "none"
              BY <6>1, <6>4 DEF JobOf, NoJob
            <7>2. Stream!Identify
              BY <3>2, <3>4, <6>4, <7>1 DEF Stream!Identify
            <7> QED BY <2>0, <7>2 DEF Stream!SNext
          <6>5. CASE cmd \notin Transfers /\ LeftOf(drive') = LeftOf(drive)
            BY <3>5, <6>1, <6>5 DEF JobOf, Transfers
          <6> QED BY <2>0, <6>1, <6>2, <6>3, <6>4, <6>5, CommandStreams DEF OrderInv
        <5> QED BY <5>2, <5>3
      <4>6. CASE WriteDmaLength(p) \/ Unimplemented(p)
        <5>1. job' = job /\ drive' \in {drive, Fail(drive, "fatal"), Fail(drive, "panic")}
          BY <4>6 DEF WriteDmaLength, Unimplemented
        <5> QED BY <1>1, <3>5, <5>1, OthersRest
      <4>7. CASE NoAccess(p) \/ AckLatch(p) \/ WriteDmaControl(p)
        BY <3>5, <4>7 DEF NoAccess, AckLatch, WriteDmaControl, driveVars
      <4> QED BY <3>7, <4>2, <4>3, <4>4, <4>5, <4>6, <4>7 DEF Access
    <3>8. CASE DmaBlock
      <4>1. job' = job
        BY <3>8 DEF DmaBlock
      <4>2. Flows(drive, drive) /\ Flows(drive, Fail(drive, "panic"))
        BY <1>1 DEF Flows, Fail, Good, Shaped, Fields
      <4>3. ASSUME NEW e, Good(e), Flows(drive, e), drive' = ClearDmaPending(e)
            PROVE  Stream!SNext
        BY <3>6, <4>1, <4>3, ClearFlows DEF Good, Shaped
      <4>4. Good(Fail(drive, "panic"))
        BY <1>1, FailGood DEF Good
      <4>5. CASE ~MovesWord
        BY <1>1, <3>8, <4>2, <4>3, <4>5 DEF DmaBlock
      <4>6. CASE MovesWord
        <5>1. PICK wide, faults \in BOOLEAN :
                drive' = ClearDmaPending(IF DmaPanics(faults) THEN Fail(drive, "panic")
                                                              ELSE Moved(wide))
          BY <3>8, <4>6 DEF DmaBlock, Drives
        <5> DEFINE e == IF dma.read THEN DataRead16(drive) ELSE DataWrite16(drive, wide)
        <5>2. Good(e) /\ Flows(drive, e)
          BY <1>1, DataWordGood, WordFlows
        <5>3. Good(Fail(e, "panic")) /\ Flows(drive, Fail(e, "panic"))
          BY <5>2, FailGood DEF Good, Flows
        <5>4. Moved(wide) \in {e, Fail(e, "panic")}
          BY DEF Moved
        <5> HIDE DEF e
        <5> QED BY <4>2, <4>3, <4>4, <5>1, <5>2, <5>3, <5>4
      <4> QED BY <4>5, <4>6
    <3>9. CASE SampleLatch \/ \E p \in {"cpu", "cop"} : Parked(p)
      BY <3>5, <3>9 DEF SampleLatch, Parked, driveVars
    <3> QED BY <1>4, <3>7, <3>8, <3>9 DEF Next, StepLoop
  <2> QED BY <2>1, <2>2
<1> QED BY <1>3, <1>4

(* A new drive is a stream with nothing to pass.                           *)
LEMMA StreamInit == Init => Stream!SInit
<1> SUFFICES ASSUME Init PROVE Stream!SInit
  OBVIOUS
<1>1. drive = NewDrive /\ job = NoJob
  BY DEF Init
<1>2. /\ NewDrive.state = "Idle" /\ NewDrive.irq = FALSE /\ NewDrive.dma = FALSE
      /\ NewDrive.fault = "none" /\ NoJob.kind = "none"
  BY DEF NewDrive, NoJob
<1> QED BY <1>1, <1>2 DEF Stream!SInit, LeftOf, AtOf, Transferring, Running

(* The task-file registers, data_read8 and data_write8, the sector buffer, *)
(* the block device and the DMA block (ide/mod.rs, eide.rs and step())     *)
(* together implement SectorStream: whatever a guest does, the sectors of  *)
(* the job it asked for last pass one by one from its first block on, and  *)
(* INTRQ tells of each of them in PIO and of the end in DMA.               *)
THEOREM PathImplementsStream == Spec => ImplementsStream
<1>1. Init => Stream!SInit
  BY StreamInit
<1>2. OrderInv /\ [Next]_vars => [Stream!SNext]_(Stream!svars)
  BY StreamStep
<1>3. Init => OrderInv
  BY InitOrder
<1>4. OrderInv /\ [Next]_vars => OrderInv'
  BY OrderStep
<1> QED BY <1>1, <1>2, <1>3, <1>4, PTL DEF Spec, ImplementsStream, Stream!SSpec
-------------------------------------------------------------------------------
(* The bits of the Status register a drive record may have.                *)
StatusBits == {"BSY", "DRDY", "DSC", "DRQ", "ERR"}

(* The parts every register access and command is made of.                 *)
LEMMA PartsTyped ==
  ASSUME NEW d \in Drive
  PROVE  /\ \A why \in {"fatal", "panic"} : Fail(d, why) \in Drive
         /\ \A on \in SUBSET StatusBits : \A off : SetStatus(d, on, off) \in Drive
         /\ PulseIrq(d) \in Drive /\ PulseUnlessDma(d) \in Drive
         /\ AssertDmarq(d) \in Drive /\ ReadStatus(d) \in Drive /\ ClearDmaPending(d) \in Drive
<1>1. \A why \in {"fatal", "panic"} : Fail(d, why) \in Drive
  BY DEF Fail, Drive
<1>2. \A on \in SUBSET StatusBits : \A off : SetStatus(d, on, off) \in Drive
  BY DEF SetStatus, Drive, StatusBits
<1>3. PulseIrq(d) \in Drive /\ PulseUnlessDma(d) \in Drive
  BY DEF PulseIrq, PulseUnlessDma, Drive
<1>4. AssertDmarq(d) \in Drive
  BY DEF AssertDmarq, Drive
<1>5. ReadStatus(d) \in Drive /\ ClearDmaPending(d) \in Drive
  BY DEF ReadStatus, ClearDmaPending, Drive
<1> QED BY <1>1, <1>2, <1>3, <1>4, <1>5

(* A field takes any value of its type.                                    *)
LEMMA FieldsTyped ==
  ASSUME NEW d \in Drive
  PROVE  /\ \A s \in States : [d EXCEPT !.state = s] \in Drive
         /\ \A n \in Nat : /\ [d EXCEPT !.remaining = n] \in Drive
                           /\ [d EXCEPT !.pos = n] \in Drive
                           /\ [d EXCEPT !.cursor = n] \in Drive
                           /\ [d EXCEPT !.size = n] \in Drive
                           /\ [d EXCEPT !.multi = n] \in Drive
         /\ \A n \in Int : [d EXCEPT !.buf = n] \in Drive
         /\ \A b \in BOOLEAN : /\ [d EXCEPT !.dma = b] \in Drive
                               /\ [d EXCEPT !.dmarq = b] \in Drive
                               /\ [d EXCEPT !.eightbit = b] \in Drive
BY DEF Drive

(* Moving a block keeps a drive record one.                                *)
LEMMA BlockTyped ==
  ASSUME NEW d \in Drive
  PROVE  ReadBlock(d) \in Drive /\ WriteBlock(d) \in Drive
<1>1. d.cursor \in Nat /\ d.cursor \in Int /\ d.cursor + 1 \in Nat /\ d.size \in Nat /\ 0 \in Nat
  BY DEF Drive
<1> DEFINE next == d.cursor + 1
           size == IF Backend = "raw" /\ d.cursor >= d.size THEN next ELSE d.size
<1>2. next \in Nat /\ size \in Nat
  BY <1>1
<1>3. Fail(d, "fatal") \in Drive
  BY PartsTyped
<1>4. ReadBlock(d) \in
        {Fail(d, "fatal"),
         [d EXCEPT !.buf = d.cursor, !.cursor = next, !.pos = 0, !.state = "ReadReady"]}
  BY DEF ReadBlock, Drive
<1>5. WriteBlock(d) \in
        {Fail(d, "fatal"),
         [d EXCEPT !.size = size, !.cursor = next, !.pos = 0, !.state = "WriteReady"]}
  BY DEF WriteBlock, Drive
<1> HIDE DEF next, size
<1>6. [d EXCEPT !.buf = d.cursor, !.cursor = next, !.pos = 0, !.state = "ReadReady"] \in Drive
  BY <1>1, <1>2 DEF Drive, States
<1>7. [d EXCEPT !.size = size, !.cursor = next, !.pos = 0, !.state = "WriteReady"] \in Drive
  BY <1>1, <1>2 DEF Drive, States
<1> QED BY <1>3, <1>4, <1>5, <1>6, <1>7

(* So does the end of a transfer.                                          *)
LEMMA FinishTyped ==
  ASSUME NEW d \in Drive
  PROVE  Finish(d) \in Drive
<1>1. [SetStatus(d, {"DRDY"}, {"DRQ"}) EXCEPT !.state = "Idle", !.dmarq = FALSE] \in Drive
  <2> DEFINE e == SetStatus(d, {"DRDY"}, {"DRQ"})
  <2>1. e \in Drive
    BY PartsTyped DEF StatusBits
  <2> HIDE DEF e
  <2>2. [e EXCEPT !.state = "Idle", !.dmarq = FALSE] \in Drive
    BY <2>1 DEF Drive, States
  <2> QED BY <2>2 DEF e
<1> QED BY <1>1, PartsTyped DEF Finish

(* A byte of the data register, on a drive that is sound: the sector count *)
(* is then at least 1 where it is decremented.                             *)
LEMMA ByteTyped ==
  ASSUME NEW d \in Drive, Good(d)
  PROVE  DataRead8(d) \in Drive /\ DataWrite8(d) \in Drive
<1>0. Fail(d, "fatal") \in Drive /\ d.pos \in Nat /\ d.remaining \in Nat
  BY PartsTyped DEF Drive
<1>1. DataRead8(d) \in Drive
  <2> DEFINE read == [d EXCEPT !.pos = @ + 1]
             left == [read EXCEPT !.remaining = @ - 1]
             busy == [SetStatus(left, {"BSY"}, {"DRQ"}) EXCEPT !.state = "ReadAsyncLoad"]
             loaded == ReadBlock(busy)
  <2> DEFINE n == d.pos + 1
  <2>0. n \in Nat
    BY <1>0
  <2> HIDE DEF n
  <2>1. read \in Drive
    BY <2>0, FieldsTyped DEF n
  <2> HIDE DEF read
  <2>2. CASE read.remaining = 0
    <3>1. EndReadSector(read) = Fail(read, "panic")
      BY <2>2 DEF EndReadSector
    <3> QED BY <1>0, <2>1, <3>1, PartsTyped DEF DataRead8, Try, read
  <2>3. CASE read.remaining # 0
    <3>0. read.remaining - 1 \in Nat
      BY <2>1, <2>3 DEF Drive
    <3>1. left \in Drive
      BY <2>1, <3>0, FieldsTyped
    <3> HIDE DEF left
    <3>2. busy \in Drive
      BY <3>1, PartsTyped, FieldsTyped DEF StatusBits, States
    <3> HIDE DEF busy
    <3>3. loaded \in Drive
      BY <3>2, BlockTyped
    <3>4. EndReadSector(read) \in {Finish(SetStatus(left, {}, {"BSY"})), loaded,
                                   PulseUnlessDma(SetStatus(loaded, {"DRQ"}, {"BSY"}))}
      BY <2>3 DEF EndReadSector, Try, left, busy
    <3> HIDE DEF loaded
    <3>5. Finish(SetStatus(left, {}, {"BSY"})) \in Drive
      BY <3>1, PartsTyped, FinishTyped DEF StatusBits
    <3>6. PulseUnlessDma(SetStatus(loaded, {"DRQ"}, {"BSY"})) \in Drive
      BY <3>3, PartsTyped DEF StatusBits
    <3>7. EndReadSector(read) \in Drive
      BY <3>3, <3>4, <3>5, <3>6
    <3> QED BY <1>0, <2>1, <3>7 DEF DataRead8, Try, read
  <2> QED BY <2>2, <2>3
<1>2. DataWrite8(d) \in Drive
  <2> DEFINE written == [d EXCEPT !.pos = @ + 1, !.buf = GuestData]
             busy    == [SetStatus(written, {"BSY"}, {"DRQ"}) EXCEPT !.state = "WriteAsyncFlush"]
             flushed == WriteBlock(busy)
             pulsed  == PulseUnlessDma(SetStatus(flushed, {"DRQ"}, {"BSY"}))
             left    == [pulsed EXCEPT !.remaining = @ - 1]
  <2> DEFINE n == d.pos + 1
  <2>0. n \in Nat /\ GuestData \in Int
    BY <1>0 DEF GuestData
  <2> HIDE DEF n
  <2>1. written \in Drive
    <3>1. [[d EXCEPT !.pos = n] EXCEPT !.buf = GuestData] \in Drive
      BY <2>0, FieldsTyped
    <3> QED BY <3>1 DEF n
  <2> HIDE DEF written
  <2>2. CASE written.remaining = 0
    <3>1. EndWriteSector(written) = Fail(written, "panic")
      BY <2>2 DEF EndWriteSector
    <3> QED BY <1>0, <2>1, <3>1, PartsTyped DEF DataWrite8, Try, written
  <2>3. CASE written.remaining # 0
    <3>1. busy \in Drive /\ busy.remaining = written.remaining /\ busy.fault = written.fault
      <4> DEFINE s == SetStatus(written, {"BSY"}, {"DRQ"})
      <4>1. s \in Drive /\ s.remaining = written.remaining /\ s.fault = written.fault
        BY <2>1, PartsTyped DEF StatusBits, SetStatus, Drive
      <4> HIDE DEF s
      <4>2. /\ [s EXCEPT !.state = "WriteAsyncFlush"] \in Drive
            /\ [s EXCEPT !.state = "WriteAsyncFlush"].remaining = s.remaining
            /\ [s EXCEPT !.state = "WriteAsyncFlush"].fault = s.fault
        BY <4>1 DEF Drive, States
      <4> QED BY <4>1, <4>2 DEF s
    <3>2. flushed \in Drive /\ flushed.remaining = written.remaining
      <4> HIDE DEF busy
      <4>1. WriteBlock(busy).remaining = busy.remaining
        BY <3>1 DEF WriteBlock, Fail, Drive
      <4> QED BY <3>1, <4>1, BlockTyped
    <3>3. EndWriteSector(written) \in {flushed, Finish(left), left}
      BY <2>3 DEF EndWriteSector, Try
    <3> HIDE DEF flushed
    <3>4. pulsed \in Drive /\ pulsed.remaining = written.remaining
      <4>1. pulsed \in Drive
        BY <3>2, PartsTyped DEF StatusBits
      <4>2. pulsed.remaining = flushed.remaining
        BY <3>2 DEF PulseUnlessDma, PulseIrq, SetStatus, Drive
      <4> QED BY <3>2, <4>1, <4>2
    <3> HIDE DEF pulsed
    <3>5. left \in Drive
      <4>1. pulsed.remaining - 1 \in Nat
        BY <2>1, <2>3, <3>4 DEF Drive
      <4> QED BY <3>4, <4>1, FieldsTyped
    <3>6. EndWriteSector(written) \in Drive
      BY <3>2, <3>3, <3>5, FinishTyped
    <3> QED BY <1>0, <2>1, <3>6 DEF DataWrite8, Try, written
  <2> QED BY <2>2, <2>3
<1> QED BY <1>1, <1>2

(* A word of it is one or two bytes.                                       *)
LEMMA WordTyped ==
  ASSUME NEW d \in Drive, Good(d), NEW wide \in BOOLEAN
  PROVE  DataRead16(d) \in Drive /\ DataWrite16(d, wide) \in Drive
<1>1. DataRead8(d) \in Drive /\ DataRead8(DataRead8(d)) \in Drive
  BY ByteTyped, DataRead8Good
<1>2. DataWrite8(d) \in Drive /\ DataWrite8(DataWrite8(d)) \in Drive
  BY ByteTyped, DataWrite8Good
<1>3. Fail(d, "fatal") \in Drive
  BY PartsTyped
<1> QED BY <1>1, <1>2, <1>3 DEF DataRead16, DataWrite16

(* The address registers name a block number or none.                      *)
LEMMA OffsetTyped ==
  ASSUME NEW d \in Drive, SectorOffset(d) # NoOffset
  PROVE  SectorOffset(d) \in Nat
<1>1. /\ d.reg["head"] \in Nat /\ d.reg["sector_no"] \in Nat
      /\ d.reg["cyl_hi"] \in Nat /\ d.reg["cyl_lo"] \in Nat
  BY DEF Drive, Regs
<1>2. CylOf(d) \in Nat
  BY <1>1 DEF CylOf
<1> QED BY <1>1, <1>2 DEF SectorOffset, NumHeads, NumSectors

(* Opening a transfer.                                                     *)
LEMMA TransfersTyped ==
  ASSUME NEW d \in Drive
  PROVE  ReadSectors(d) \in Drive /\ WriteSectors(d) \in Drive
<1> DEFINE to     == SectorOffset(d)
           count  == SectorCount(d)
           sought == [d EXCEPT !.cursor = to, !.state = "ReadAsyncLoad"]
           loaded == ReadBlock(sought)
           ready  == [loaded EXCEPT !.remaining = count]
           opened == [d EXCEPT !.cursor = to, !.state = "WriteReady",
                               !.remaining = count, !.pos = 0]
<1>0. Fail(d, "fatal") \in Drive /\ count \in Nat /\ 0 \in Nat
  BY PartsTyped, CountPositive DEF Drive
<1>1. CASE to = NoOffset
  BY <1>0, <1>1 DEF ReadSectors, WriteSectors
<1>2. CASE to # NoOffset
  <2>1. to \in Nat
    BY <1>2, OffsetTyped
  <2>2. ReadSectors(d) \in {loaded, PulseIrq(SetStatus(ready, {"DSC", "DRDY", "DRQ"}, {"BSY"}))}
    BY <1>2 DEF ReadSectors, Try
  <2>3. WriteSectors(d) = PulseIrq(SetStatus(opened, {"DSC", "DRQ"}, {"BSY", "DRDY"}))
    BY <1>2 DEF WriteSectors
  <2> HIDE DEF to, count
  <2>4. sought \in Drive
    BY <2>1 DEF Drive, States
  <2>5. opened \in Drive
    BY <1>0, <2>1 DEF Drive, States
  <2> HIDE DEF sought, opened
  <2>6. loaded \in Drive
    BY <2>4, BlockTyped
  <2> HIDE DEF loaded
  <2>7. ready \in Drive
    BY <1>0, <2>6, FieldsTyped
  <2> HIDE DEF ready
  <2>8. /\ SetStatus(ready, {"DSC", "DRDY", "DRQ"}, {"BSY"}) \in Drive
        /\ SetStatus(opened, {"DSC", "DRQ"}, {"BSY", "DRDY"}) \in Drive
    BY <2>5, <2>7, PartsTyped DEF StatusBits
  <2> QED BY <2>2, <2>3, <2>6, <2>8, PartsTyped
<1> QED BY <1>1, <1>2

(* Every command.                                                          *)
LEMMA RunTyped ==
  ASSUME NEW d \in Drive, NEW cmd \in Commands
  PROVE  Run(d, cmd) \in Drive
<1>1. Fail(d, "fatal") \in Drive
  BY PartsTyped
<1>2. /\ SetStatus(d, {}, {"BSY"}) \in Drive
      /\ SetStatus(d, {"ERR"}, {"BSY"}) \in Drive
      /\ SetStatus(d, {"DRQ"}, {"BSY"}) \in Drive
      /\ SetStatus(d, {"DRDY"}, {"BSY", "DRQ"}) \in Drive
  BY PartsTyped DEF StatusBits
<1>3. PulseIrq(SetStatus(d, {}, {"BSY"})) \in Drive
  BY <1>2, PartsTyped
<1>4. ASSUME NEW e \in Drive
      PROVE  Settle(e) \in Drive
  <2>1. SetStatus(e, {"DRDY", "DSC"}, {"BSY", "DRQ"}) \in Drive
    BY PartsTyped DEF StatusBits
  <2> QED BY <2>1, PartsTyped DEF Settle
<1>5. AssertDmarq(d) \in Drive
  BY PartsTyped
<1>6. /\ ReadSectors(d) \in Drive /\ WriteSectors(d) \in Drive
      /\ ReadSectors(AssertDmarq(d)) \in Drive /\ WriteSectors(AssertDmarq(d)) \in Drive
  BY <1>5, TransfersTyped
<1>7. IdentifyDevice(d) \in Drive
  <2> DEFINE e == SetStatus(d, {"DRQ"}, {"BSY"})
             f == [e EXCEPT !.buf = Identity, !.pos = 0, !.state = "ReadReady", !.remaining = 1]
  <2>1. IdentifyDevice(d) = PulseIrq(f)
    BY DEF IdentifyDevice
  <2>2. e \in Drive /\ Identity \in Int
    BY <1>2 DEF Identity
  <2> HIDE DEF e
  <2>3. f \in Drive
    BY <2>2 DEF Drive, States
  <2> HIDE DEF f
  <2> QED BY <2>1, <2>3, PartsTyped
<1>8. SetMultipleMode(d) \in Drive
  <2> DEFINE set == [d EXCEPT !.multi = d.reg["sector_count"]]
  <2>1. d.reg["sector_count"] \in Nat
    BY DEF Drive, Regs
  <2>2. set \in Drive
    BY <2>1, FieldsTyped
  <2>3. SetMultipleMode(d) \in {Fail(set, "fatal"), SetStatus(set, {}, {"BSY"})}
    BY DEF SetMultipleMode
  <2> HIDE DEF set
  <2>4. Fail(set, "fatal") \in Drive /\ SetStatus(set, {}, {"BSY"}) \in Drive
    BY <2>2, PartsTyped DEF StatusBits
  <2> QED BY <2>3, <2>4
<1>9. SetFeatures(d) \in Drive
  <2> DEFINE done == SetStatus(d, {}, {"BSY"})
             mode == d.reg["sector_count"] \in DmaModes
  <2>1. mode \in BOOLEAN
    OBVIOUS
  <2>2. SetFeatures(d) \in {Fail(d, "fatal"), [done EXCEPT !.eightbit = TRUE],
                           [done EXCEPT !.dma = mode], [done EXCEPT !.eightbit = FALSE]}
    BY DEF SetFeatures
  <2>3. done \in Drive
    BY <1>2
  <2> HIDE DEF done, mode
  <2> QED BY <1>1, <2>1, <2>2, <2>3, FieldsTyped
<1>10. ReadNativeMaxAddress(d) \in Drive
  <2> DEFINE last   == IF NumBlocks = 0 THEN 0 ELSE NumBlocks - 1
             maxLba == IF last > 268435455 THEN 268435455 ELSE last
             a == maxLba % 256
             b == (maxLba \div 256) % 256
             c == (maxLba \div 65536) % 256
             h == maxLba \div 16777216
             e == [d EXCEPT !.reg["sector_no"] = a, !.reg["cyl_lo"] = b,
                            !.reg["cyl_hi"] = c, !.reg["head"] = h]
  <2>1. maxLba \in Nat
    BY IdeDriveAssumption
  <2>2. ReadNativeMaxAddress(d) = Settle(e)
    BY DEF ReadNativeMaxAddress
  <2> HIDE DEF maxLba
  <2>3. a \in Nat /\ b \in Nat /\ c \in Nat /\ h \in Nat
    BY <2>1, NativeMaxBytes
  <2> HIDE DEF a, b, c, h
  <2>4. e \in Drive
    <3> DEFINE g == [d.reg EXCEPT !["sector_no"] = a, !["cyl_lo"] = b,
                                  !["cyl_hi"] = c, !["head"] = h]
    <3>1. g \in [Regs -> Nat]
      BY <2>3 DEF Drive, Regs
    <3>2. e = [d EXCEPT !.reg = g]
      BY DEF Drive
    <3> HIDE DEF g
    <3>3. [d EXCEPT !.reg = g] \in Drive
      BY <3>1 DEF Drive
    <3> QED BY <3>2, <3>3
  <2> HIDE DEF e
  <2> QED BY <1>4, <2>2, <2>4
<1>11. Multiple(d, ReadSectors(d)) \in Drive /\ Multiple(d, WriteSectors(d)) \in Drive
  BY <1>1, <1>6 DEF Multiple
<1>12. /\ WithDma(d, ReadSectors(AssertDmarq(d))) \in Drive
       /\ WithDma(d, WriteSectors(AssertDmarq(d))) \in Drive
  BY <1>1, <1>6 DEF WithDma
<1>13. Settle(d) \in Drive
  BY <1>4
<1> QED
  BY <1>2, <1>3, <1>6, <1>7, <1>8, <1>9, <1>10, <1>11, <1>12, <1>13 DEF Run, Commands

(* exec_cmd.                                                               *)
LEMMA ExecCmdTyped ==
  ASSUME NEW d \in Drive, NEW cmd \in Commands
  PROVE  ExecCmd(d, cmd) \in Drive
<1>1. SetStatus(d, {"BSY"}, {"ERR"}) \in Drive
  BY PartsTyped DEF StatusBits
<1> QED BY <1>1, RunTyped DEF ExecCmd

(* The other registers.                                                    *)
LEMMA RegistersTyped ==
  ASSUME NEW d \in Drive
  PROVE  /\ \A r \in Regs, v \in Nat : WriteReg(d, r, v) \in Drive
         /\ \A l \in BOOLEAN, h \in Nat : WriteDevHead(d, l, h) \in Drive
         /\ \A s, n \in BOOLEAN : WriteDevControl(d, s, n) \in Drive
<1>1. \A r \in Regs, v \in Nat : WriteReg(d, r, v) \in Drive
  BY DEF WriteReg, Drive
<1>2. \A l \in BOOLEAN, h \in Nat : WriteDevHead(d, l, h) \in Drive
  BY DEF WriteDevHead, Drive, Regs
<1>3. \A s, n \in BOOLEAN : WriteDevControl(d, s, n) \in Drive
  BY DEF WriteDevControl, Drive
<1> QED BY <1>1, <1>2, <1>3

(* What an access to the drive leaves there is a drive record.            *)
LEMMA DrivesTyped ==
  ASSUME TypeOK, NEW e \in Drive, Drives(OnDrive(e))
  PROVE  drive' \in Drive /\ edge' \in {"none", "fresh", "sampled"}
BY DEF TypeOK, Drives, OnDrive

(* An access that only changes the drive.                                  *)
LEMMA TaskTyped ==
  ASSUME TypeOK, NEW p \in {"cpu", "cop"}, Turn(p), NEW e \in Drive, Task(e)
  PROVE  TypeOK'
<1>1. drive' \in Drive /\ edge' \in {"none", "fresh", "sampled"}
  BY DrivesTyped DEF Task
<1>2. phase' \in DOMAIN After
  BY DEF Turn, After
<1> QED BY <1>1, <1>2 DEF Task, TypeOK, latchVars

(* An instruction of a core.                                               *)
LEMMA AccessTyped ==
  ASSUME TypeOK, DriveGood, NEW p \in {"cpu", "cop"}, Access(p)
  PROVE  TypeOK'
<1>0. drive \in Drive /\ Good(drive)
  BY DEF TypeOK, DriveGood
<1>1. Turn(p)
  BY DEF Access, NoAccess, ReadData, WriteData, ReadStatusReg, WriteTaskReg,
     WriteDevCtl, WriteDeviceHead, WriteCommand, AckLatch, WriteDmaControl, WriteDmaLength,
     Unimplemented
<1>2. phase' \in DOMAIN After
  BY <1>1 DEF Turn, After
<1>3. CASE ReadData(p)
  BY <1>0, <1>1, <1>3, WordTyped, TaskTyped DEF ReadData
<1>4. CASE WriteData(p)
  BY <1>0, <1>1, <1>4, WordTyped, TaskTyped DEF WriteData
<1>5. CASE ReadStatusReg(p)
  BY <1>0, <1>1, <1>5, PartsTyped, TaskTyped DEF ReadStatusReg
<1>6. CASE WriteTaskReg(p)
  <2>1. PICK r \in Regs, v \in Nat : Task(WriteReg(drive, r, v))
    BY <1>6, EidePathAssumption DEF WriteTaskReg
  <2>2. WriteReg(drive, r, v) \in Drive
    BY <1>0, RegistersTyped
  <2> QED BY <1>1, <2>1, <2>2, TaskTyped
<1>7. CASE WriteDevCtl(p)
  <2>1. PICK c \in ControlBytes : Task(WriteDevControl(drive, "SRST" \in c, "nIEN" \in c))
    BY <1>7 DEF WriteDevCtl
  <2> DEFINE srst == "SRST" \in c
             nien == "nIEN" \in c
  <2>0. srst \in BOOLEAN /\ nien \in BOOLEAN
    OBVIOUS
  <2> HIDE DEF srst, nien
  <2>2. WriteDevControl(drive, srst, nien) \in Drive
    BY <1>0, <2>0, RegistersTyped
  <2> QED BY <1>1, <2>1, <2>2, TaskTyped DEF srst, nien
<1>8. CASE WriteDeviceHead(p)
  <2>1. PICK dev \in {0, 1}, l \in BOOLEAN, h \in Values["head"] :
          selected' = dev /\ Drives(IF dev = 0 THEN WriteDevHead(drive, l, h) ELSE drive)
    BY <1>8 DEF WriteDeviceHead
  <2>2. WriteDevHead(drive, l, h) \in Drive
    BY <1>0, EidePathAssumption, RegistersTyped DEF Regs
  <2>3. drive' \in Drive /\ edge' \in {"none", "fresh", "sampled"} /\ selected' \in {0, 1}
    BY <1>0, <2>1, <2>2 DEF Drives, TypeOK
  <2> QED BY <1>2, <1>8, <2>3 DEF WriteDeviceHead, TypeOK, latchVars
<1>9. CASE WriteCommand(p)
  <2>1. PICK cmd \in Commands : /\ Drives(OnDrive(ExecCmd(drive, cmd)))
                               /\ job' = IF selected = 0 THEN JobOf(cmd) ELSE job
    BY <1>9, EidePathAssumption DEF WriteCommand
  <2>2. drive' \in Drive /\ edge' \in {"none", "fresh", "sampled"}
    BY <1>0, <2>1, ExecCmdTyped, DrivesTyped
  <2>3. job' \in Jobs
    <3>1. SectorOffset(drive) \in Int /\ SectorCount(drive) \in Nat
      BY <1>0, OffsetInt, CountPositive DEF Drive
    <3>2. job \in Jobs /\ NoJob \in Jobs
      BY DEF TypeOK, NoJob, Jobs
    <3>3. JobOf(cmd) \in Jobs
      BY <3>1, <3>2 DEF JobOf, Jobs
    <3> QED BY <2>1, <3>2, <3>3
  <2> QED BY <1>2, <1>9, <2>2, <2>3 DEF WriteCommand, TypeOK, latchVars
<1>10. CASE WriteDmaLength(p)
  <2>1. PICK v \in DmaLengths : dma' = [dma EXCEPT !.length = (v + 4) % LengthBound]
    BY <1>10 DEF WriteDmaLength
  <2>2. (v + 4) % LengthBound \in 0 .. LengthBound - 1
    BY EidePathAssumption
  <2>3. dma' \in [read : BOOLEAN, length : 0 .. LengthBound - 1]
    BY <2>1, <2>2 DEF TypeOK
  <2>4. drive' \in Drive
    BY <1>0, <1>10, PartsTyped DEF WriteDmaLength
  <2> QED BY <1>2, <1>10, <2>3, <2>4 DEF WriteDmaLength, TypeOK, latchVars
<1>11. CASE Unimplemented(p)
  <2>1. drive' \in Drive
    BY <1>0, <1>11, PartsTyped DEF Unimplemented
  <2> QED BY <1>2, <1>11, <2>1 DEF Unimplemented, TypeOK, latchVars
<1>12. CASE AckLatch(p)
  BY <1>2, <1>12 DEF AckLatch, TypeOK
<1>13. CASE WriteDmaControl(p)
  <2>1. dma' \in [read : BOOLEAN, length : 0 .. LengthBound - 1]
    BY <1>13, EidePathAssumption DEF WriteDmaControl, TypeOK
  <2> QED BY <1>2, <1>13, <2>1 DEF WriteDmaControl, TypeOK, driveVars, latchVars
<1>14. CASE NoAccess(p)
  BY <1>2, <1>14 DEF NoAccess, TypeOK, driveVars, latchVars
<1> QED BY <1>3, <1>4, <1>5, <1>6, <1>7, <1>8, <1>9, <1>10, <1>11, <1>12, <1>13, <1>14 DEF Access

(* The DMA block.                                                          *)
LEMMA DmaTyped ==
  ASSUME TypeOK, DriveGood, DmaBlock
  PROVE  TypeOK'
<1>0. drive \in Drive /\ Good(drive)
  BY DEF TypeOK, DriveGood
<1>1. ASSUME NEW wide \in BOOLEAN
      PROVE  Moved(wide) \in Drive
  <2>1. DataRead16(drive) \in Drive /\ DataWrite16(drive, wide) \in Drive
    BY <1>0, WordTyped
  <2> QED BY <2>1, PartsTyped DEF Moved
<1>2. phase' \in DOMAIN After
  BY DEF DmaBlock, After
<1>3. CASE ~MovesWord
  <2>1. drive' \in Drive
    BY <1>0, <1>3, PartsTyped DEF DmaBlock
  <2> QED BY <1>2, <1>3, <2>1 DEF DmaBlock, TypeOK, latchVars
<1>4. CASE MovesWord
  <2>1. PICK wide \in BOOLEAN, faults \in BOOLEAN :
          Drives(ClearDmaPending(IF DmaPanics(faults) THEN Fail(drive, "panic")
                                                      ELSE Moved(wide)))
    BY <1>4 DEF DmaBlock
  <2>2. (IF DmaPanics(faults) THEN Fail(drive, "panic") ELSE Moved(wide)) \in Drive
    BY <1>0, <1>1, PartsTyped
  <2>3. drive' \in Drive /\ edge' \in {"none", "fresh", "sampled"}
    BY <2>1, <2>2, PartsTyped DEF Drives, TypeOK
  <2>4. dma' \in [read : BOOLEAN, length : 0 .. LengthBound - 1]
    <3> DEFINE n == IF dma.length = 0 THEN 0 ELSE (dma.length - 2) % LengthBound
    <3>1. n \in 0 .. LengthBound - 1
      BY EidePathAssumption DEF TypeOK
    <3>2. dma' = [dma EXCEPT !.length = n]
      BY <1>4 DEF DmaBlock, TypeOK
    <3> HIDE DEF n
    <3> QED BY <3>1, <3>2 DEF TypeOK
  <2> QED BY <1>2, <2>3, <2>4 DEF DmaBlock, TypeOK, latchVars
<1> QED BY <1>3, <1>4

(* One phase of a step.                                                    *)
LEMMA StepTyped ==
  ASSUME TypeOK, DriveGood, [Next]_vars
  PROVE  TypeOK'
<1>1. CASE SampleLatch
  <2>1. drive.irq \in BOOLEAN
    BY DEF TypeOK, Drive
  <2> QED BY <1>1, <2>1 DEF SampleLatch, TypeOK, After
<1>2. ASSUME NEW p \in {"cpu", "cop"}, Parked(p)
      PROVE  TypeOK'
  BY <1>2 DEF Parked, TypeOK, After, driveVars, latchVars
<1>3. CASE UNCHANGED vars
  BY <1>3 DEF vars, TypeOK
<1> QED BY <1>1, <1>2, <1>3, DmaTyped, AccessTyped DEF Next, StepLoop

(* Registers, sector buffer, DMA length and histories keep their types     *)
(* whatever the guest does: no count goes below zero, no block number      *)
(* either, and DMA Length keeps its width.                                 *)
THEOREM TypeCorrect == Spec => []TypeOK
<1>1. Init => TypeOK
  <2>1. NewDrive \in Drive
    BY IdeDriveAssumption DEF NewDrive, Drive, States, Regs, GuestData
  <2>2. [read |-> FALSE, length |-> 0] \in [read : BOOLEAN, length : 0 .. LengthBound - 1]
    BY EidePathAssumption
  <2>3. NoJob \in Jobs /\ "cpu" \in DOMAIN After
    BY DEF NoJob, Jobs, After
  <2> QED BY <2>1, <2>2, <2>3 DEF Init, TypeOK
<1> QED BY <1>1, InitGood, StepGood, StepTyped, PTL DEF Spec
===============================================================================
