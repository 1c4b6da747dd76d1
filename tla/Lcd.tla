---------------------------------- MODULE Lcd ----------------------------------
(***************************************************************************)
(* The HD66753 display controller (devices/display/hd66753.rs), as the     *)
(* guest works on it: the byte latches, the index register, the entry mode *)
(* and the address counter of the graphics RAM.                            *)
(*                                                                         *)
(* A row of the RAM takes 32 addresses, of which the first 21 are cells of *)
(* 8 pixels and the others invalid.  What is in a cell is left out, and    *)
(* with it rotation, combination, mask and the registers that change only  *)
(* the look of a frame; so is the render callback, which only reads.       *)
(***************************************************************************)
EXTENDS Integers

CONSTANTS
  HighBytes,     \* what the guest writes first, to either port,
  CommandBytes,  \* then to the command port
  DataBytes,     \* or to the data port
  CgramHeight,   \* 132: the rows of the graphics RAM
  BelowZero,     \* what remains of 0 - 1, in a usize, modulo the RAM's size
  None           \* Option::None

Stride == 32
LastColumn == 20   \* 0x14
Size == Stride * CgramHeight

VARIABLES
  writeLatch,   \* the byte the 8-bit interface waits with, or None
  readLatched,  \* read_byte_latch holds the second byte of a read
  ir,           \* the index register
  up, am,       \* i_d and am of the entry mode
  ac,           \* the address counter
  place,        \* history: the cell after those written, or None
  lcdStopped    \* an access ended run()

lcdVars == <<writeLatch, readLatched, ir, up, am, ac, place, lcdStopped>>

Cells == [row : 0 .. CgramHeight - 1, col : 0 .. LastColumn]
AddressOf(c) == Stride * c.row + c.col

(* Hd66753::new.                                                           *)
Init == /\ writeLatch = None /\ readLatched = FALSE
        /\ ir = 0
        /\ up = FALSE /\ am = 0
        /\ ac = 0 /\ place = [row |-> 0, col |-> 0]
        /\ lcdStopped = FALSE

-------------------------------------------------------------------------------
(* The address counter after a write: the next address, or the one before, *)
(* and from an invalid one on to the next row or back to the end of its own*)
Beside(a) == IF up THEN (a + 1) % Size ELSE IF a = 0 THEN BelowZero ELSE a - 1

(* Mutant: the last column of a row counts as invalid.                     *)
AdvancedEarly(a) == LET b == Beside(a)
                        row == b - (b % Stride)
                    IN  IF b % Stride < LastColumn THEN b
                        ELSE IF up THEN (row + Stride) % Size ELSE row + LastColumn

Advanced(a) == LET b == Beside(a)
                   row == b - (b % Stride)
               IN  IF b % Stride <= LastColumn THEN b
                   ELSE IF up THEN (row + Stride) % Size ELSE row + LastColumn

(* The cell that follows in reading order, or against it.  Before the first*)
(* cell there is none.                                                     *)
Following(c) ==
  IF c.col < LastColumn THEN [c EXCEPT !.col = @ + 1]
  ELSE [row |-> IF c.row < CgramHeight - 1 THEN c.row + 1 ELSE 0, col |-> 0]

Preceding(c) ==
  IF c.col > 0 THEN [c EXCEPT !.col = @ - 1]
  ELSE IF c.row > 0 THEN [row |-> c.row - 1, col |-> LastColumn] ELSE None

(* handle_data_write of the word v: the entry mode, whose last direction   *)
(* is an error, ...                                                        *)
EntryMode(v) == /\ ir = 5
                /\ up' = ((v \div 16) % 2 = 1)
                /\ am' = (v \div 4) % 4
                /\ lcdStopped' = (am' = 3)
                /\ UNCHANGED <<ac, place>>

(* ... the address, ...                                                    *)
AddressSet(v) == /\ ir = 17
                 /\ ac' = v % Size
                 /\ place' = IF ac' % Stride <= LastColumn
                             THEN [row |-> ac' \div Stride, col |-> ac' % Stride] ELSE None
                 /\ UNCHANGED <<up, am, lcdStopped>>

(* ... a cell, in the one direction that is implemented ...                *)
WriteCell == /\ ir = 18 /\ am = 0
             /\ ac' = Advanced(ac)
             /\ place' = IF place = None THEN None
                         ELSE IF up THEN Following(place) ELSE Preceding(place)
             /\ UNCHANGED <<up, am, lcdStopped>>

(* ... and in the others, which fail once the cell is written; ...         *)
WriteVertically == /\ ir = 18 /\ am # 0
                   /\ lcdStopped' = TRUE
                   /\ UNCHANGED <<up, am, ac, place>>

(* ... the registers left out, and 0x0f, which is no command.              *)
SetOther == ir \notin {5, 17, 18} /\ lcdStopped' = (ir = 15) /\ UNCHANGED <<up, am, ac, place>>

-------------------------------------------------------------------------------
Running == ~lcdStopped

(* The first byte of a word waits in the latch, whatever port it was for.  *)
LatchByte(b) == /\ Running
                /\ writeLatch = None
                /\ writeLatch' = b
                /\ UNCHANGED <<readLatched, ir, up, am, ac, place, lcdStopped>>

WriteCommand(b) == /\ Running
                   /\ writeLatch # None
                   /\ writeLatch' = None
                   /\ ir' = writeLatch * 256 + b
                   /\ lcdStopped' = (ir' > 18)
                   /\ UNCHANGED <<readLatched, up, am, ac, place>>

WriteWord(b) == LET v == writeLatch * 256 + b
                IN  /\ Running
                    /\ writeLatch # None
                    /\ writeLatch' = None
                    /\ EntryMode(v) \/ AddressSet(v) \/ WriteCell \/ WriteVertically \/ SetOther
                    /\ UNCHANGED <<readLatched, ir>>

(* r32 of the command port (the contrast) and of the data port, where only *)
(* the device code can be read: high byte first, the low one is latched.   *)
ReadHigh == /\ Running
            /\ ~readLatched
            /\ readLatched' = TRUE
            /\ UNCHANGED <<writeLatch, ir, up, am, ac, place, lcdStopped>>

ReadCommand == ReadHigh
ReadData    == ir = 0 /\ ReadHigh

(* The latched byte answers a read of any port.                            *)
ReadLow == /\ Running
           /\ readLatched
           /\ readLatched' = FALSE
           /\ UNCHANGED <<writeLatch, ir, up, am, ac, place, lcdStopped>>

(* A read of an unmapped offset that finds no latched byte, or of data when*)
(* the index is not that of the device code; a write to an unmapped offset *)
(* that completes a word.                                                  *)
BadRead == /\ Running
           /\ ~readLatched
           /\ lcdStopped' = TRUE
           /\ UNCHANGED <<writeLatch, readLatched, ir, up, am, ac, place>>

BadWrite == /\ Running
            /\ writeLatch # None
            /\ writeLatch' = None
            /\ lcdStopped' = TRUE
            /\ UNCHANGED <<readLatched, ir, up, am, ac, place>>

Next == \/ \E b \in HighBytes : LatchByte(b)
        \/ \E b \in CommandBytes : WriteCommand(b)
        \/ \E b \in DataBytes : WriteWord(b)
        \/ ReadCommand \/ ReadData \/ ReadLow \/ BadRead \/ BadWrite

Spec == Init /\ [][Next]_lcdVars

-------------------------------------------------------------------------------
(* A picture that the guest writes word by word lands cell by cell: after  *)
(* any number of writes from a cell, in either direction and with changes  *)
(* of direction between them, the next word goes to the next cell of the   *)
(* panel in this order, and never to one of the invalid addresses of the   *)
(* table at the head of hd66753.rs.                                        *)
CellsInOrder == place # None => place \in Cells /\ ac = AddressOf(place)
===============================================================================
