--------------------------------- MODULE Pmu ----------------------------------
(***************************************************************************)
(* The I2C controller (devices/platform/pp/i2c.rs) and the PCF5060x power  *)
(* manager behind it (devices/i2c/devices/pcf5060x.rs), as an instruction  *)
(* of the guest reaches them: through the MemoryAdapter, which lets every  *)
(* access succeed and keeps the last exception until the instruction ends  *)
(* (memory/armv4t_adaptor.rs), and MemException::resolve (error.rs).       *)
(*                                                                         *)
(* A transaction moves one to four bytes between the data registers and    *)
(* the chip.  The chip sees bytes, one call each, and keeps a pointer to   *)
(* its next register; the guest thinks in transactions.                    *)
(***************************************************************************)
EXTENDS Integers

CONSTANTS
  Bytes,      \* what the guest writes to a data register
  Lens,       \* the lengths it asks for, a subset of 0..3 (bytes less one)
  Addrs,      \* the bus addresses it uses
  MaxAccesses,   \* bound: accesses of one instruction (LDM and STM make 16)
  Window,     \* bound: the registers the pointer may reach
  None        \* Option::None

PmuAddr == 8      \* where Ipod4g::new registers the chip

VARIABLES
  cfg,        \* I2CTransactionCfg: what the guest set since the last SEND
  busy,       \* the bit a read of Status toggles
  data,       \* the data registers
  chip,       \* the chip: its pointer, whether it was last written, its registers
  accesses,   \* accesses the current instruction has made
  exception,  \* what the adapter has stashed of them
  stopped,    \* the exception was fatal: run() returns it
  meant,      \* the registers as the guest's transactions left them
  cursor      \* the register its next read should start at

pmuVars == <<cfg, busy, data, chip, accesses, exception, stopped, meant, cursor>>

Cells == UNION {0..l : l \in Lens}
EmptyCfg == [addrOp |-> None, addr |-> None, op |-> None, len |-> None]

-------------------------------------------------------------------------------
(* The chip's registers                                                    *)

Regs     == 0..60
Kept     == {8, 9}               \* OOCC1, OOCC2: kept, and the access logged
            \cup {42}            \* MBCC2, likewise
Silent   == 5..7                 \* INT1M..INT3M
            \cup 17..23          \* RTC alarm
            \cup 27..30          \* DCDC1..DCDC4
            \cup 36..39          \* D1REGC1..D3REGC1, LPREGC1
            \cup {47, 52, 56}    \* ADCC2, BVMC, GPOC1
Stored   == Kept \cup Silent
Fixed    == {0} \cup 2..4        \* ID, INT1..INT3: read as zero, not writable
Readouts == 48..50               \* ADCS1..ADCS3
Clock    == 10..16               \* the RTC: reads the host's time, ignores writes

NewRegs == [r \in Stored |-> IF r = 56 THEN 4 ELSE 0]

(* get_adc_readout: about 4.0 V on the battery paths, nothing elsewhere.   *)
Adc(r, regs) == LET battery == (regs[47] \div 2) % 16 \in 0..3
                IN CASE r = 48 -> IF battery THEN 170 ELSE 0
                     [] r = 49 -> IF battery THEN 130 ELSE 128
                     [] r = 50 -> 0

(* Pcf5060xImpl::read: the byte and the outcome.  The time is left out: a  *)
(* register of the clock reads as some fixed BCD byte.                     *)
RegRead(r, regs) ==
  CASE r \in Silent   -> [val |-> regs[r], outcome |-> "ok"]
    [] r \in Kept     -> [val |-> regs[r], outcome |-> "stub"]
    [] r \in Clock    -> [val |-> 18, outcome |-> "ok"]
    [] r \in Fixed    -> [val |-> 0, outcome |-> "stub"]
    [] r \in Readouts -> [val |-> Adc(r, regs), outcome |-> "stub"]
    [] OTHER          -> [val |-> 0, outcome |-> "fatal"]

(* Pcf5060xImpl::write.                                                    *)
RegWriteOutcome(r) == CASE r \in Silent       -> "ok"
                        [] r \in Kept \cup Clock -> "stub"
                        [] OTHER              -> "fatal"

Later(old, new) == IF new = "ok" THEN old ELSE new

(* A call of the chip inside a transaction: c is the chip, err the last    *)
(* error so far, cells the data registers.  The pointer is a u8, which a   *)
(* release build wraps.                                                    *)
ReadByte(s, i) ==
  LET c == s.chip
      r == RegRead(c.reg, c.regs)
  IN  IF c.reg = None
      THEN [chip  |-> [c EXCEPT !.written = FALSE],
            cells |-> [s.cells EXCEPT ![i] = 0],
            err   |-> "fatal"]
      ELSE [chip  |-> [c EXCEPT !.written = FALSE, !.reg = (c.reg + 1) % 256],
            cells |-> [s.cells EXCEPT ![i] = r.val],
            err   |-> Later(s.err, r.outcome)]

(* The first byte written names a register, the others are for it and the  *)
(* ones above it.                                                          *)
WriteByte(s, i) ==
  LET c == s.chip
      b == s.cells[i]
  IN  IF ~c.written \/ c.reg = None
      THEN [s EXCEPT !.chip = [c EXCEPT !.written = TRUE, !.reg = b]]
      ELSE [s EXCEPT !.chip = [c EXCEPT !.reg  = (c.reg + 1) % 256,
                                        !.regs = [r \in Stored |-> IF r = c.reg THEN b
                                                                   ELSE c.regs[r]]],
                     !.err  = Later(s.err, RegWriteOutcome(c.reg))]

(* Mutant: write_done forgets to say that the write is over.             *)
WriteDoneNever(c) == c

WriteDone(c) == [c EXCEPT !.written = FALSE]

(* I2CCon::do_txn: a call per byte, one to four of them, whatever the calls *)
(* before it returned; of their errors the last is kept.                   *)
ReadAll(s, len) ==
  LET one   == ReadByte(s, 0)
      two   == ReadByte(one, 1)
      three == ReadByte(two, 2)
  IN  CASE len = 0 -> one
        [] len = 1 -> two
        [] len = 2 -> three
        [] len = 3 -> ReadByte(three, 3)

WriteAll(s, len) ==
  LET one   == WriteByte(s, 0)
      two   == WriteByte(one, 1)
      three == WriteByte(two, 2)
  IN  CASE len = 0 -> one
        [] len = 1 -> two
        [] len = 2 -> three
        [] len = 3 -> WriteByte(three, 3)

DoTxn(op, addr, len) ==
  LET start == [chip |-> chip, cells |-> data, err |-> "ok"]
  IN  CASE addr # PmuAddr -> [start EXCEPT !.err = "stub"]
        [] addr = PmuAddr /\ op = "read"  -> ReadAll(start, len)
        [] addr = PmuAddr /\ op = "write" ->
             LET end == WriteAll(start, len)
             IN  [end EXCEPT !.chip = WriteDone(@)]

-------------------------------------------------------------------------------
(* I2CCon::new and Pcf5060x::new.                                          *)
Init == /\ cfg = EmptyCfg /\ busy = FALSE /\ data = [i \in Cells |-> 0]
        /\ chip = [reg |-> None, written |-> FALSE, regs |-> NewRegs]
        /\ accesses = 0 /\ exception = "ok" /\ stopped = FALSE
        /\ meant = NewRegs /\ cursor = None

(* MemoryAdapter: an access that fails replaces the stashed exception.     *)
Access(outcome) == /\ ~stopped
                   /\ accesses < MaxAccesses
                   /\ accesses' = accesses + 1
                   /\ exception' = Later(exception, outcome)
                   /\ UNCHANGED stopped
chipVars == <<data, chip, meant, cursor>>

(* w32(0x04).                                                              *)
WriteAddr(op, addr) == /\ Access("ok")
                       /\ cfg' = [cfg EXCEPT !.addrOp = op, !.addr = addr]
                       /\ UNCHANGED <<busy, chipVars>>

(* w32(0x00) without SEND; the write itself is a stub.                     *)
WriteControl(op, len) == /\ Access("stub")
                         /\ cfg' = [cfg EXCEPT !.op = op, !.len = len]
                         /\ UNCHANGED <<busy, chipVars>>

(* take_txn refuses a transaction that was not fully set up since the last *)
(* one, or whose two halves disagree on the direction.                     *)
Complete(c) == c.addrOp = c.op /\ None \notin {c.op, c.addr, c.len}

SendRefused(op, len) ==
  /\ Access("fatal")
  /\ cfg' = [cfg EXCEPT !.op = op, !.len = len]
  /\ ~Complete(cfg')
  /\ UNCHANGED <<busy, chipVars>>

(* What the transaction means to the guest: byte k of a write is for the   *)
(* register k - 1 above the one its first byte names.                      *)
Target(k)  == (data[0] + k - 1) % 256
Writes(len, r) == {k \in 1..len : Target(k) = r}

Send(op, len) ==
  LET txn == [cfg EXCEPT !.op = op, !.len = len]
      res == DoTxn(op, txn.addr, len)
  IN  /\ Complete(txn)
      /\ Access(Later("stub", res.err))
      /\ cfg' = EmptyCfg
      /\ res.chip.reg \in {None} \cup Window
      /\ chip' = res.chip /\ data' = res.cells
      /\ IF txn.addr = PmuAddr /\ op = "write"
         THEN /\ meant' = [r \in Stored |-> IF Writes(len, r) = {} THEN meant[r]
                                            ELSE data[CHOOSE k \in Writes(len, r) : TRUE]]
              /\ cursor' = (data[0] + len) % 256
         ELSE /\ meant' = meant
              /\ cursor' = IF txn.addr # PmuAddr \/ cursor = None THEN cursor
                           ELSE (cursor + len + 1) % 256
      /\ UNCHANGED busy

(* w32 of Data0 to Data3.                                                  *)
WriteData(i, b) == /\ Access("ok")
                   /\ data' = [data EXCEPT ![i] = b]
                   /\ UNCHANGED <<cfg, busy, chip, meant, cursor>>

(* r32(0x1c).                                                              *)
ReadStatus == /\ Access("ok")
              /\ busy' = ~busy
              /\ UNCHANGED <<cfg, chipVars>>

(* A write to Status, an unmapped offset, or a value wider than a byte.    *)
BadAccess == /\ Access("fatal")
             /\ UNCHANGED <<cfg, busy, chipVars>>

(* After cpu.step: the stashed exception is taken and resolved.            *)
EndInstruction == /\ accesses > 0
                  /\ accesses' = 0 /\ exception' = "ok"
                  /\ stopped' = (exception = "fatal")
                  /\ UNCHANGED <<cfg, busy, chipVars>>

Next == \/ \E op \in {"read", "write"}, addr \in Addrs : WriteAddr(op, addr)
        \/ \E op \in {"read", "write"}, len \in Lens :
              WriteControl(op, len) \/ SendRefused(op, len) \/ Send(op, len)
        \/ \E i \in Cells, b \in Bytes : WriteData(i, b)
        \/ ReadStatus \/ BadAccess \/ EndInstruction

Spec == Init /\ [][Next]_pmuVars

-------------------------------------------------------------------------------
(* The chip, which is told of single bytes, does what the guest's          *)
(* transactions mean: its registers hold what was written to them, and its *)
(* pointer is where the next read of the guest should start.               *)
PmuFollowsTransactions == chip.regs = meant /\ chip.reg = cursor
===============================================================================
