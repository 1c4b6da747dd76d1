----------------------------- MODULE Board_proofs -----------------------------
(***************************************************************************)
(* Proofs about the parts of Board, each for any values of its constants,  *)
(* and that the board is made of them: what a part promises, it promises   *)
(* whatever the others do.                                                 *)
(***************************************************************************)
EXTENDS Board, TLAPS

(* Gpio: every register write ends with an update of its port, and a line  *)
(* of another port is not touched by it; a line that toggles owes a        *)
(* trigger, and a trigger that is cleared is followed by an update of all  *)
(* the ports.                                                              *)

GpioInv == TypeOK /\ StaleInputIsOwed

(* What the registers of the ports in ps say after an update: the enabled  *)
(* lines as they are, and everything else as it was.                       *)
LEMMA Updated ==
  ASSUME TypeOK, NEW ps \in SUBSET Ports, NEW en \in SUBSET Lines,
         NEW lv, NEW st \in SUBSET Lines
  PROVE  /\ InputAfter(ps, en) \in SUBSET Lines
         /\ StatusAfter(ps, en, lv, st) \in SUBSET Lines
         /\ \A l \in Visited(ps, en) : l \in InputAfter(ps, en) <=> l \in high
         /\ \A l \in Lines \ Visited(ps, en) : l \in InputAfter(ps, en) <=> l \in inputVal
BY DEF TypeOK, InputAfter, StatusAfter, Edges, Visited

(* The interrupt line is a flag.                                           *)
LEMMA DriveIsFlag ==
  ASSUME NEW ps, Drive(ps)
  PROVE  irq' \in BOOLEAN
BY DEF Drive

(* A write to a register of port p, whichever it is.                       *)
LEMMA WriteKeeps ==
  ASSUME GpioInv, NEW p \in Ports, NEW st \in SUBSET Lines,
         Guest,
         enable' \in SUBSET Lines, level' \in SUBSET Lines, intEnable' \in SUBSET Lines,
         \A l \in Lines \ LinesOf(p) : l \in enable' <=> l \in enable,
         inputVal' = InputAfter({p}, enable'),
         intStatus' = StatusAfter({p}, enable', level', st),
         Drive({p}),
         UNCHANGED <<lineVars, trigger, updating, halted>>
  PROVE  GpioInv'
<1> DEFINE en == enable'
           lv == level'
<1>1. /\ inputVal' \in SUBSET Lines
      /\ intStatus' \in SUBSET Lines
      /\ \A l \in Visited({p}, en) : l \in inputVal' <=> l \in high
      /\ \A l \in Lines \ Visited({p}, en) : l \in inputVal' <=> l \in inputVal
  <2> HIDE DEF en, lv
  <2>1. en \in SUBSET Lines
    BY DEF en
  <2>2. inputVal' = InputAfter({p}, en) /\ intStatus' = StatusAfter({p}, en, lv, st)
    BY DEF en, lv
  <2>3. /\ InputAfter({p}, en) \in SUBSET Lines
        /\ StatusAfter({p}, en, lv, st) \in SUBSET Lines
        /\ \A l \in Visited({p}, en) : l \in InputAfter({p}, en) <=> l \in high
        /\ \A l \in Lines \ Visited({p}, en) : l \in InputAfter({p}, en) <=> l \in inputVal
    BY <2>1, Updated, Zenon DEF GpioInv
  <2> QED BY <2>2, <2>3
<1>2. irq' \in BOOLEAN
  BY DriveIsFlag
<1>3. TypeOK'
  BY <1>1, <1>2 DEF GpioInv, TypeOK, lineVars
<1>4. StaleInputIsOwed'
  <2> SUFFICES ASSUME NEW l \in enable', ~(l \in inputVal' <=> l \in high')
               PROVE  (trigger \/ updating \/ l \in owes)'
    BY DEF StaleInputIsOwed
  <2>1. l \notin Visited({p}, en)
    BY <1>1 DEF lineVars
  <2>2. l \in Lines /\ l \notin LinesOf(p)
    BY <2>1 DEF Visited, LinesOf
  <2>3. l \in enable /\ (l \in inputVal' <=> l \in inputVal) /\ high' = high
    BY <1>1, <2>1, <2>2 DEF lineVars
  <2> QED BY <2>3 DEF GpioInv, StaleInputIsOwed, lineVars
<1> QED BY <1>3, <1>4 DEF GpioInv

(* Every step keeps the invariant.                                         *)
LEMMA GpioNext ==
  ASSUME GpioInv, [Next]_vars
  PROVE  GpioInv'
<1> USE GpioAssumption
<1>1. ASSUME NEW l \in Lines, Toggle(l) PROVE GpioInv'
  BY <1>1 DEF Toggle, GpioInv, TypeOK, StaleInputIsOwed, regVars
<1>2. ASSUME NEW l \in Lines, Notify(l) PROVE GpioInv'
  BY <1>2 DEF Notify, GpioInv, TypeOK, StaleInputIsOwed, regVars
<1>3. ASSUME NEW p \in Ports, Access(p) PROVE GpioInv'
  <2> USE DEF Update
  <2>1. CASE WriteEnable(p)
    <3>1. enable' \in SUBSET Lines /\ \A l \in Lines \ LinesOf(p) : l \in enable' <=> l \in enable
      BY <2>1 DEF WriteEnable, Write, LinesOf, GpioInv, TypeOK
    <3> QED BY <2>1, <3>1, WriteKeeps DEF WriteEnable, GpioInv, TypeOK
  <2>2. CASE WriteIntLevel(p)
    <3>1. level' \in SUBSET Lines
      BY <2>2 DEF WriteIntLevel, Write, LinesOf, GpioInv, TypeOK
    <3> QED BY <2>2, <3>1, WriteKeeps DEF WriteIntLevel, GpioInv, TypeOK
  <2>3. CASE WriteIntEnable(p)
    <3>1. intEnable' \in SUBSET Lines
      BY <2>3 DEF WriteIntEnable, Write, LinesOf, GpioInv, TypeOK
    <3> QED BY <2>3, <3>1, WriteKeeps DEF WriteIntEnable, GpioInv, TypeOK
  <2>4. CASE WriteIntClear(p)
    <3>1. PICK v \in SUBSET LinesOf(p) :
             intStatus' = StatusAfter({p}, enable, level, intStatus \ v)
      BY <2>4 DEF WriteIntClear
    <3>2. intStatus \ v \in SUBSET Lines
      BY DEF GpioInv, TypeOK
    <3> QED BY <2>4, <3>1, <3>2, WriteKeeps DEF WriteIntClear, GpioInv, TypeOK
  <2>5. CASE WriteOutput(p)
    BY <2>5, WriteKeeps DEF WriteOutput, GpioInv, TypeOK
  <2> QED BY <1>3, <2>1, <2>2, <2>3, <2>4, <2>5 DEF Access
<1>4. CASE BadAccess \/ CheckChanged \/ UNCHANGED vars
  <2>1. CASE BadAccess
    BY <1>4, <2>1 DEF BadAccess, GpioInv, TypeOK, StaleInputIsOwed,
                      regVars, lineVars
  <2>2. CASE CheckChanged
    BY <1>4, <2>2 DEF CheckChanged, GpioInv, TypeOK, StaleInputIsOwed,
                      regVars, lineVars
  <2>3. CASE UNCHANGED vars
    BY <1>4, <2>3 DEF vars, GpioInv, TypeOK, StaleInputIsOwed
  <2> QED BY <1>4, <2>1, <2>2, <2>3
<1>5. CASE UpdateBlock
  <2>1. /\ inputVal' = InputAfter(Ports, enable)
        /\ intStatus' = StatusAfter(Ports, enable, level, intStatus)
        /\ Drive(Ports)
        /\ UNCHANGED <<high, owes, trigger, enable, level, intEnable, halted>>
        /\ updating' = FALSE
    BY <1>5 DEF UpdateBlock, Update, lineVars
  <2>2. /\ inputVal' \in SUBSET Lines
        /\ intStatus' \in SUBSET Lines
        /\ \A l \in Visited(Ports, enable) : l \in inputVal' <=> l \in high
    BY <2>1, Updated DEF GpioInv, TypeOK
  <2>3. Visited(Ports, enable) = enable
    BY DEF Visited, GpioInv, TypeOK
  <2>4. irq' \in BOOLEAN
    BY <2>1, DriveIsFlag
  <2>5. TypeOK'
    BY <2>1, <2>2, <2>4 DEF GpioInv, TypeOK
  <2>6. StaleInputIsOwed'
    BY <2>1, <2>2, <2>3 DEF StaleInputIsOwed
  <2> QED BY <2>5, <2>6 DEF GpioInv
<1> QED BY <1>1, <1>2, <1>3, <1>4, <1>5 DEF Next

(* InputVal never shows an old level of an enabled line without an update  *)
(* on its way: gpio.rs, any lines on any ports, any guest.                 *)
THEOREM InputsAreHonest == Spec => []StaleInputIsOwed
<1>1. Init => GpioInv
  BY DEF Init, GpioInv, TypeOK, StaleInputIsOwed
<1>2. GpioInv /\ [Next]_vars => GpioInv'
  BY GpioNext
<1>3. GpioInv => StaleInputIsOwed
  BY DEF GpioInv
<1> QED BY <1>1, <1>2, <1>3, PTL DEF Spec

(* The registers hold lines and the flags are flags.                       *)
THEOREM TypeCorrect == Spec => []TypeOK
<1>1. Init => GpioInv
  BY DEF Init, GpioInv, TypeOK, StaleInputIsOwed
<1>2. GpioInv /\ [Next]_vars => GpioInv'
  BY GpioNext
<1>3. GpioInv => TypeOK
  BY DEF GpioInv
<1> QED BY <1>1, <1>2, <1>3, PTL DEF Spec

-------------------------------------------------------------------------------
(* OptoWheel: the keypad and the wheel                                     *)

(* KeysAreTold is not inductive: a key may change between the two halves of*)
(* a read that follows an acknowledgement.  The emulator's thread does not *)
(* look at i2c_changed in between, so that change is still owed.           *)
KeysInv == ~acked \/ reading => (seen.keys # pressed => Opto!Owed)

(* Nor is WheelIsTold: after a first move that the guest has not seen, a   *)
(* second one can only be under way with its interrupt.                    *)
WheelInv == ~acked /\ ~Opto!Owed => \/ seen.wheel = wheel
                                    \/ seen.wheel = previous /\ ui.does # "move"

OptoInv == /\ "keys" \in DOMAIN seen /\ "wheel" \in DOMAIN seen
       /\ "does" \in DOMAIN ui
       /\ KeysInv /\ WheelInv

LEMMA OptoInit == Opto!Init => OptoInv
BY DEF Opto!Init, OptoInv, KeysInv, WheelInv, Opto!Idle

LEMMA OptoNext == OptoInv /\ [Opto!Next]_Opto!optoVars => OptoInv'
<1> SUFFICES ASSUME OptoInv, [Opto!Next]_Opto!optoVars PROVE OptoInv'
  OBVIOUS
<1> USE DEF OptoInv, KeysInv, WheelInv, Opto!Owed, Opto!guestVars
<1>1. ASSUME NEW k, NEW down, Opto!MoveKey(k, down)
      PROVE  OptoInv'
  BY <1>1 DEF Opto!MoveKey
<1>2. ASSUME NEW dy, Opto!Scroll(dy)
      PROVE  OptoInv'
  BY <1>2 DEF Opto!Scroll
<1>3. CASE Opto!Notify
  <2>1. /\ changed' = TRUE /\ UNCHANGED <<pressed, wheel, previous, seen, acked, reading>>
        /\ "does" \in DOMAIN ui'
    BY <1>3 DEF Opto!Notify, Opto!Idle
  <2> QED BY <2>1
<1>4. CASE Opto!MoveWheel
  <2>1. /\ ui.does = "move" /\ ui'.does = "nothing" /\ "does" \in DOMAIN ui'
        /\ previous' = wheel
        /\ UNCHANGED <<pressed, seen, acked, reading, changed, keypadIrq>>
    BY <1>4 DEF Opto!MoveWheel, Opto!Idle
  <2> QED BY <2>1
<1>5. CASE Opto!OnChange
  BY <1>5 DEF Opto!OnChange, Opto!uiVars
<1>6. CASE Opto!ReadKeys
  <2>1. /\ seen'.keys = pressed /\ seen'.wheel = seen.wheel
        /\ "keys" \in DOMAIN seen' /\ "wheel" \in DOMAIN seen'
        /\ UNCHANGED <<pressed, wheel, previous, ui, changed, keypadIrq, acked>>
    BY <1>6 DEF Opto!ReadKeys, Opto!uiVars
  <2> QED BY <2>1
<1>7. CASE Opto!ReadWheel
  <2>1. /\ seen'.wheel = wheel /\ seen'.keys = seen.keys
        /\ "keys" \in DOMAIN seen' /\ "wheel" \in DOMAIN seen'
        /\ reading
        /\ UNCHANGED <<pressed, wheel, previous, ui, changed, keypadIrq>>
    BY <1>7 DEF Opto!ReadWheel, Opto!uiVars
  <2> QED BY <2>1
<1>8. CASE Opto!Acknowledge
  BY <1>8 DEF Opto!Acknowledge, Opto!Running, Opto!uiVars
<1>9. CASE Opto!ReadUnknown
  BY <1>9 DEF Opto!ReadUnknown, Opto!uiVars
<1>10. CASE UNCHANGED Opto!optoVars
  <2>1. UNCHANGED <<pressed, wheel, previous, ui, seen, acked, reading, changed, keypadIrq>>
    BY <1>10 DEF Opto!optoVars, Opto!uiVars
  <2> QED BY <2>1
<1> QED BY <1>1, <1>2, <1>3, <1>4, <1>5, <1>6, <1>7, <1>8, <1>9, <1>10 DEF Opto!Next

(* When what the guest read of 0x40 (opto.rs) is no longer so, and it has  *)
(* not acknowledged since, an interrupt is raised or on its way; only the  *)
(* last move of the wheel can be missing without one.                      *)
THEOREM InputIsTold == Opto!Spec => [](KeysAreTold /\ WheelIsTold)
<1>1. OptoInv => KeysAreTold /\ WheelIsTold
  BY DEF OptoInv, KeysInv, WheelInv, KeysAreTold, WheelIsTold, Opto!KeysAreTold, Opto!WheelIsTold
<1> QED BY OptoInit, OptoNext, <1>1, PTL DEF Opto!Spec

-------------------------------------------------------------------------------
(* Pmu: single bytes against transactions.  A transaction is followed byte *)
(* by byte, and what the bytes so far mean is compared with the chip.      *)

Byte == 0..255
Chips == [reg : {None} \cup Byte, written : BOOLEAN, regs : [Pcf!Stored -> Byte]]
Data  == [Pcf!Cells -> Byte]
During == [chip : Chips, cells : Data, err : {"ok", "stub", "fatal"}]

LEMMA Outcomes ==
  ASSUME NEW old \in {"ok", "stub", "fatal"}, NEW new \in {"ok", "stub", "fatal"}
  PROVE  Pcf!Later(old, new) \in {"ok", "stub", "fatal"}
BY DEF Pcf!Later

(* What a register reads as is a byte.                                     *)
LEMMA ReadsBytes ==
  ASSUME NEW r \in Byte, NEW regs \in [Pcf!Stored -> Byte]
  PROVE  /\ Pcf!RegRead(r, regs).val \in Byte
         /\ Pcf!RegRead(r, regs).outcome \in {"ok", "stub", "fatal"}
<1> USE DEF Pcf!Silent, Pcf!Kept, Pcf!Clock, Pcf!Fixed, Pcf!Readouts
<1>1. CASE r \in Pcf!Silent
  <2>1. Pcf!RegRead(r, regs) = [val |-> regs[r], outcome |-> "ok"]
    BY <1>1 DEF Pcf!RegRead
  <2>2. regs[r] \in Byte
    BY <1>1 DEF Pcf!Stored
  <2> QED BY <2>1, <2>2
<1>2. CASE r \notin Pcf!Silent /\ r \in Pcf!Kept
  <2>1. Pcf!RegRead(r, regs) = [val |-> regs[r], outcome |-> "stub"]
    BY <1>2 DEF Pcf!RegRead
  <2>2. regs[r] \in Byte
    BY <1>2 DEF Pcf!Stored
  <2> QED BY <2>1, <2>2
<1>3. CASE r \notin Pcf!Silent /\ r \notin Pcf!Kept /\ r \in Pcf!Readouts
  <2>1. Pcf!Adc(r, regs) \in Byte
    BY <1>3 DEF Pcf!Adc, Pcf!Readouts, Byte
  <2>2. Pcf!RegRead(r, regs) = [val |-> Pcf!Adc(r, regs), outcome |-> "stub"]
    BY <1>3 DEF Pcf!RegRead, Pcf!Silent, Pcf!Kept, Pcf!Clock, Pcf!Fixed, Pcf!Readouts
  <2> QED BY <2>1, <2>2
<1>4. CASE r \notin Pcf!Silent /\ r \notin Pcf!Kept /\ r \notin Pcf!Readouts
  BY <1>4 DEF Pcf!RegRead, Byte
<1> QED BY <1>1, <1>2, <1>3, <1>4

(* A byte read moves the pointer on and leaves the registers alone.        *)
LEMMA OneRead ==
  ASSUME NEW s \in During, NEW i \in Pcf!Cells
  PROVE  /\ Pcf!ReadByte(s, i) \in During
         /\ Pcf!ReadByte(s, i).chip.written = FALSE
         /\ Pcf!ReadByte(s, i).chip.regs = s.chip.regs
         /\ Pcf!ReadByte(s, i).chip.reg =
              IF s.chip.reg = None THEN None ELSE (s.chip.reg + 1) % 256
<1>1. s.chip \in Chips /\ s.cells \in Data /\ s.err \in {"ok", "stub", "fatal"}
  BY DEF During
<1>2. CASE s.chip.reg = None
  <2> DEFINE c == [s.chip EXCEPT !.written = FALSE]
             d == [s.cells EXCEPT ![i] = 0]
  <2>1. Pcf!ReadByte(s, i) = [chip |-> c, cells |-> d, err |-> "fatal"]
    BY <1>2 DEF Pcf!ReadByte
  <2>2. c \in Chips /\ c.written = FALSE /\ c.regs = s.chip.regs /\ c.reg = None
    BY <1>1, <1>2 DEF Chips
  <2>3. d \in Data
    BY <1>1 DEF Data, Byte
  <2> HIDE DEF c, d
  <2> QED BY <1>2, <2>1, <2>2, <2>3 DEF During
<1>3. CASE s.chip.reg # None
  <2> DEFINE r == Pcf!RegRead(s.chip.reg, s.chip.regs)
             c == [s.chip EXCEPT !.written = FALSE, !.reg = (s.chip.reg + 1) % 256]
             d == [s.cells EXCEPT ![i] = r.val]
             e == Pcf!Later(s.err, r.outcome)
  <2>1. Pcf!ReadByte(s, i) = [chip |-> c, cells |-> d, err |-> e]
    BY <1>3 DEF Pcf!ReadByte
  <2>2. s.chip.reg \in Byte /\ s.chip.regs \in [Pcf!Stored -> Byte]
    BY <1>1, <1>3 DEF Chips
  <2>3. r.val \in Byte /\ r.outcome \in {"ok", "stub", "fatal"}
    BY <2>2, ReadsBytes
  <2>4. (s.chip.reg + 1) % 256 \in Byte
    BY <2>2 DEF Byte
  <2>5. c \in Chips /\ c.written = FALSE /\ c.regs = s.chip.regs /\ c.reg = (s.chip.reg + 1) % 256
    BY <1>1, <2>4 DEF Chips
  <2>6. d \in Data
    BY <1>1, <2>3 DEF Data
  <2>7. e \in {"ok", "stub", "fatal"}
    BY <1>1, <2>3, Outcomes
  <2> HIDE DEF r, c, d, e
  <2> QED BY <1>3, <2>1, <2>5, <2>6, <2>7 DEF During
<1> QED BY <1>2, <1>3

(* Within a transaction the pointer wraps at most once.                    *)
LEMMA Wraps ==
  ASSUME NEW n \in 0..511
  PROVE  n % 256 = IF n < 256 THEN n ELSE n - 256
<1>1. CASE n < 256
  BY <1>1
<1>2. CASE n >= 256
  BY <1>2
<1> QED BY <1>1, <1>2

(* What the registers hold once the first byte has named one and k more    *)
(* have been written.                                                      *)
Meant(k) == [r \in Pcf!Stored |-> IF Pcf!Writes(k, r) = {} THEN meant[r]
                                  ELSE data[CHOOSE j \in Pcf!Writes(k, r) : TRUE]]

WrittenUpTo(s, k) == /\ s \in During
                     /\ s.chip.written = TRUE
                     /\ s.chip.reg = (data[0] + k) % 256
                     /\ s.chip.regs = Meant(k)
                     /\ s.cells = data

LEMMA FirstByte ==
  ASSUME NEW s \in During, s.chip.written = FALSE, s.chip.regs = meant,
         s.cells = data, 0 \in Pcf!Cells
  PROVE  WrittenUpTo(Pcf!WriteByte(s, 0), 0)
<1>1. s.chip \in Chips /\ data \in Data /\ s.err \in {"ok", "stub", "fatal"}
  BY DEF During
<1>2. data[0] \in Byte
  BY <1>1 DEF Data
<1> DEFINE c == [s.chip EXCEPT !.written = TRUE, !.reg = data[0]]
<1>3. Pcf!WriteByte(s, 0) = [s EXCEPT !.chip = c]
  BY DEF Pcf!WriteByte
<1>4. c \in Chips /\ c.written = TRUE /\ c.reg = data[0] /\ c.regs = meant
  BY <1>1, <1>2 DEF Chips
<1>5. data[0] = (data[0] + 0) % 256
  BY <1>2 DEF Byte
<1>6. meant = Meant(0)
  <2>1. meant \in [Pcf!Stored -> Byte]
    BY <1>1 DEF Chips
  <2>2. \A r : Pcf!Writes(0, r) = {}
    BY DEF Pcf!Writes
  <2> QED BY <2>1, <2>2 DEF Meant
<1> HIDE DEF c
<1>7. /\ Pcf!WriteByte(s, 0) \in During
      /\ Pcf!WriteByte(s, 0).chip = c
      /\ Pcf!WriteByte(s, 0).cells = data
  BY <1>3, <1>4 DEF During
<1> QED BY <1>4, <1>5, <1>6, <1>7 DEF WrittenUpTo

LEMMA NextByte ==
  ASSUME NEW k \in 0..2, NEW s, WrittenUpTo(s, k), k + 1 \in Pcf!Cells, 0 \in Pcf!Cells,
         meant \in [Pcf!Stored -> Byte]
  PROVE  WrittenUpTo(Pcf!WriteByte(s, k + 1), k + 1)
<1> DEFINE at == s.chip.reg
           b  == data[k + 1]
           R  == [r \in Pcf!Stored |-> IF r = at THEN b ELSE s.chip.regs[r]]
           c  == [s.chip EXCEPT !.reg = (at + 1) % 256, !.regs = R]
           e  == Pcf!Later(s.err, Pcf!RegWriteOutcome(at))
<1>1. s.chip \in Chips /\ data \in Data /\ s.err \in {"ok", "stub", "fatal"}
      /\ s.cells = data /\ s.chip.written = TRUE
  BY DEF During, WrittenUpTo
<1>2. data[0] \in Byte /\ b \in Byte
  BY <1>1 DEF Data
<1>3. at = (data[0] + k) % 256 /\ at \in Byte /\ at # None
  <2>1. at = (data[0] + k) % 256
    BY DEF WrittenUpTo
  <2>2. at \in Byte
    BY <2>1, <1>2 DEF Byte
  <2> QED BY <2>1, <2>2, NoneIsNothing DEF Byte
<1>4. Pcf!WriteByte(s, k + 1) = [s EXCEPT !.chip = c, !.err = e]
  BY <1>1, <1>3 DEF Pcf!WriteByte
<1>5. (at + 1) % 256 \in Byte /\ (at + 1) % 256 = (data[0] + (k + 1)) % 256
  <2> DEFINE n == data[0] + k
             m == at + 1
  <2>3. at = n % 256
    BY <1>3
  <2>5. n \in 0..511 /\ n + 1 \in 0..511 /\ data[0] + (k + 1) = n + 1
    BY <1>2 DEF Byte
  <2> HIDE DEF n, at
  <2>6. m \in 0..511
    BY <1>3 DEF Byte
  <2>7. m % 256 = IF m < 256 THEN m ELSE m - 256
    <3> HIDE DEF m
    <3> QED BY <2>6, Wraps
  <2>1. at = IF n < 256 THEN n ELSE n - 256
    BY <2>5, <2>3, Wraps
  <2>4. (n + 1) % 256 = IF n + 1 < 256 THEN n + 1 ELSE n + 1 - 256
    BY <2>5, Wraps
  <2>2. m \in Int /\ at \in Int /\ n \in Int
    BY <1>3, <2>5, <2>6 DEF Byte
  <2>8. m % 256 \in Byte
    BY <2>6, <2>7 DEF Byte
  <2>9. m % 256 = (n + 1) % 256
    BY <1>3, <2>1, <2>4, <2>5, <2>7 DEF Byte
  <2> QED BY <2>5, <2>8, <2>9
<1>6. s.chip.regs \in [Pcf!Stored -> Byte] /\ s.chip.regs = Meant(k)
  BY <1>1 DEF Chips, WrittenUpTo
<1>7. R \in [Pcf!Stored -> Byte]
  BY <1>2, <1>6
<1>8. c \in Chips /\ c.written = TRUE /\ c.reg = (data[0] + (k + 1)) % 256 /\ c.regs = R
  <2> HIDE DEF R
  <2> QED BY <1>1, <1>5, <1>7 DEF Chips
<1>9. e \in {"ok", "stub", "fatal"}
  <2>1. Pcf!RegWriteOutcome(at) \in {"ok", "stub", "fatal"}
    BY DEF Pcf!RegWriteOutcome
  <2> QED BY <1>1, <2>1, Outcomes
<1>10. R = Meant(k + 1)
  <2> SUFFICES ASSUME NEW r \in Pcf!Stored PROVE R[r] = Meant(k + 1)[r]
    BY <1>6 DEF Meant
  <2>1. r \in 0..255
    BY DEF Pcf!Stored, Pcf!Silent, Pcf!Kept
  <2>2. CASE r = at
    <3>1. Pcf!Target(k + 1) = r
      BY <2>2, <1>2, <1>3 DEF Pcf!Target, Byte
    <3>2. \A j \in 1..k : Pcf!Target(j) # r
      <4> SUFFICES ASSUME NEW j \in 1..k PROVE Pcf!Target(j) # r
        OBVIOUS
      <4> DEFINE n == data[0] + k
                 m == data[0] + j - 1
      <4>1. n \in 0..511 /\ m \in 0..511 /\ m < n /\ n < m + 256
        BY <1>2 DEF Byte
      <4>2. Pcf!Target(j) = m % 256 /\ r = n % 256
        BY <2>2, <1>2, <1>3 DEF Pcf!Target, Byte
      <4> HIDE DEF n, m
      <4>3. n % 256 = IF n < 256 THEN n ELSE n - 256
        BY <4>1, Wraps
      <4>4. m % 256 = IF m < 256 THEN m ELSE m - 256
        BY <4>1, Wraps
      <4> QED BY <4>1, <4>2, <4>3, <4>4
    <3>3. Pcf!Writes(k + 1, r) = {k + 1}
      BY <3>1, <3>2 DEF Pcf!Writes
    <3>4. (CHOOSE j \in {k + 1} : TRUE) = k + 1
      OBVIOUS
    <3>5. Meant(k + 1)[r] = data[k + 1]
      BY <3>3, <3>4 DEF Meant
    <3> QED BY <2>2, <3>5
  <2>3. CASE r # at
    <3>1. Pcf!Target(k + 1) # r
      BY <2>3, <1>2, <1>3 DEF Pcf!Target, Byte
    <3>2. Pcf!Writes(k + 1, r) = Pcf!Writes(k, r)
      <4>1. \A j : j \in 1..(k + 1) <=> j \in 1..k \/ j = k + 1
        OBVIOUS
      <4> QED BY <3>1, <4>1 DEF Pcf!Writes
    <3>3. Meant(k + 1)[r] = Meant(k)[r]
      <4>1. \A n : Meant(n)[r] = IF Pcf!Writes(n, r) = {} THEN meant[r]
                                ELSE data[CHOOSE j \in Pcf!Writes(n, r) : TRUE]
        BY DEF Meant
      <4> QED BY <3>2, <4>1, Zenon
    <3> QED BY <2>3, <3>3, <1>6
  <2> QED BY <2>2, <2>3
<1> HIDE DEF c, e, R, at, b
<1>11. /\ Pcf!WriteByte(s, k + 1) \in During
       /\ Pcf!WriteByte(s, k + 1).chip = c
       /\ Pcf!WriteByte(s, k + 1).cells = data
  BY <1>4, <1>8, <1>9, <1>1 DEF During, WrittenUpTo
<1> QED BY <1>8, <1>10, <1>11 DEF WrittenUpTo

(* Every length is of up to four bytes, and there are cells for them.      *)
LEMMA CellsOfLens ==
  ASSUME NEW len \in Lens
  PROVE  len \in 0..3 /\ \A i \in 0..len : i \in Pcf!Cells
BY PmuAssumption DEF Pcf!Cells

(* A write leaves the registers as the transaction means them, with the    *)
(* pointer above the last of them.                                         *)
LEMMA WriteTransaction ==
  ASSUME NEW s \in During, s.chip.written = FALSE, s.chip.regs = meant, s.cells = data,
         NEW len \in Lens
  PROVE  WrittenUpTo(Pcf!WriteAll(s, len), len)
<1> DEFINE one   == Pcf!WriteByte(s, 0)
           two   == Pcf!WriteByte(one, 1)
           three == Pcf!WriteByte(two, 2)
           four  == Pcf!WriteByte(three, 3)
<1>1. len \in 0..3 /\ \A i \in 0..len : i \in Pcf!Cells
  BY CellsOfLens
<1>2. 0 \in Pcf!Cells /\ meant \in [Pcf!Stored -> Byte]
  BY <1>1 DEF During, Chips
<1>3. WrittenUpTo(one, 0)
  BY <1>2, FirstByte
<1>4. 1 \in Pcf!Cells => WrittenUpTo(two, 1)
  <2> HIDE DEF one
  <2>1. 0 + 1 = 1 /\ 0 \in 0..2
    OBVIOUS
  <2> QED BY <1>2, <1>3, <2>1, NextByte
<1>5. 1 \in Pcf!Cells /\ 2 \in Pcf!Cells => WrittenUpTo(three, 2)
  <2> HIDE DEF two
  <2>1. 1 + 1 = 2 /\ 1 \in 0..2
    OBVIOUS
  <2> QED BY <1>2, <1>4, <2>1, NextByte
<1>6. 1 \in Pcf!Cells /\ 2 \in Pcf!Cells /\ 3 \in Pcf!Cells => WrittenUpTo(four, 3)
  <2> HIDE DEF three
  <2>1. 2 + 1 = 3 /\ 2 \in 0..2
    OBVIOUS
  <2> QED BY <1>2, <1>5, <2>1, NextByte
<1>7. Pcf!WriteAll(s, len) = CASE len = 0 -> one [] len = 1 -> two
                               [] len = 2 -> three [] len = 3 -> four
  BY DEF Pcf!WriteAll
<1> HIDE DEF one, two, three, four
<1>8. CASE len = 0
  BY <1>3, <1>7, <1>8
<1>9. CASE len = 1
  <2>1. 1 \in Pcf!Cells
    BY <1>1, <1>9
  <2> QED BY <1>4, <1>7, <1>9, <2>1
<1>10. CASE len = 2
  <2>1. 1 \in Pcf!Cells /\ 2 \in Pcf!Cells
    BY <1>1, <1>10
  <2> QED BY <1>5, <1>7, <1>10, <2>1
<1>11. CASE len = 3
  <2>1. 1 \in Pcf!Cells /\ 2 \in Pcf!Cells /\ 3 \in Pcf!Cells
    BY <1>1, <1>11
  <2> QED BY <1>6, <1>7, <1>11, <2>1
<1> QED BY <1>1, <1>8, <1>9, <1>10, <1>11

(* A read leaves the registers alone and moves a pointer that is set by as *)
(* many places as it has bytes.                                            *)
ReadUpTo(t, s, n) == /\ t \in During
                     /\ t.chip.written = FALSE
                     /\ t.chip.regs = s.chip.regs
                     /\ t.chip.reg = IF s.chip.reg = None THEN None
                                     ELSE (s.chip.reg + n) % 256

LEMMA NextRead ==
  ASSUME NEW s \in During, NEW n \in 1..3, NEW t, ReadUpTo(t, s, n), n \in Pcf!Cells
  PROVE  ReadUpTo(Pcf!ReadByte(t, n), s, n + 1)
<1> DEFINE u == Pcf!ReadByte(t, n)
           a == s.chip.reg
           b == t.chip.reg
<1>1. /\ u \in During /\ u.chip.written = FALSE /\ u.chip.regs = t.chip.regs
      /\ u.chip.reg = IF b = None THEN None ELSE (b + 1) % 256
  BY OneRead DEF ReadUpTo
<1>2. b = IF a = None THEN None ELSE (a + n) % 256
  BY DEF ReadUpTo
<1>3. a # None => a \in Byte
  BY DEF During, Chips
<1> HIDE DEF u, a, b
<1>4. ASSUME a # None PROVE b # None /\ (b + 1) % 256 = (a + (n + 1)) % 256
  <2> DEFINE m == a + n
             l == b + 1
  <2>1. m \in 0..511 /\ m + 1 \in 0..511 /\ a + (n + 1) = m + 1
    BY <1>3, <1>4 DEF Byte
  <2>2. b = m % 256
    BY <1>2, <1>4
  <2> HIDE DEF m
  <2>3. b = IF m < 256 THEN m ELSE m - 256
    BY <2>1, <2>2, Wraps
  <2>4. l \in 0..511 /\ b # None /\ b \in Int
    BY <2>1, <2>3, NoneIsNothing
  <2>5. l % 256 = IF l < 256 THEN l ELSE l - 256
    <3> HIDE DEF l
    <3> QED BY <2>4, Wraps
  <2>6. (m + 1) % 256 = IF m + 1 < 256 THEN m + 1 ELSE m + 1 - 256
    BY <2>1, Wraps
  <2>7. l % 256 = (m + 1) % 256
    BY <2>1, <2>3, <2>4, <2>5, <2>6
  <2> QED BY <2>1, <2>4, <2>7
<1>5. u.chip.reg = IF a = None THEN None ELSE (a + (n + 1)) % 256
  BY <1>1, <1>2, <1>4
<1> QED BY <1>1, <1>5 DEF ReadUpTo, a, u

LEMMA ReadTransaction ==
  ASSUME NEW s \in During, NEW len \in Lens
  PROVE  ReadUpTo(Pcf!ReadAll(s, len), s, len + 1)
<1> DEFINE one   == Pcf!ReadByte(s, 0)
           two   == Pcf!ReadByte(one, 1)
           three == Pcf!ReadByte(two, 2)
           four  == Pcf!ReadByte(three, 3)
<1>1. len \in 0..3 /\ \A i \in 0..len : i \in Pcf!Cells
  BY CellsOfLens
<1>3. ReadUpTo(one, s, 1)
  <2>1. 0 \in Pcf!Cells
    BY <1>1
  <2> QED BY <2>1, OneRead DEF ReadUpTo
<1>4. 1 \in Pcf!Cells => ReadUpTo(two, s, 2)
  <2> HIDE DEF one
  <2>1. 1 + 1 = 2 /\ 1 \in 1..3
    OBVIOUS
  <2> QED BY <1>3, <2>1, NextRead
<1>5. 1 \in Pcf!Cells /\ 2 \in Pcf!Cells => ReadUpTo(three, s, 3)
  <2> HIDE DEF two
  <2>1. 2 + 1 = 3 /\ 2 \in 1..3
    OBVIOUS
  <2> QED BY <1>4, <2>1, NextRead
<1>6. 1 \in Pcf!Cells /\ 2 \in Pcf!Cells /\ 3 \in Pcf!Cells => ReadUpTo(four, s, 4)
  <2> HIDE DEF three
  <2>1. 3 + 1 = 4 /\ 3 \in 1..3
    OBVIOUS
  <2> QED BY <1>5, <2>1, NextRead
<1>7. Pcf!ReadAll(s, len) = CASE len = 0 -> one [] len = 1 -> two
                              [] len = 2 -> three [] len = 3 -> four
  BY DEF Pcf!ReadAll
<1> HIDE DEF one, two, three, four
<1>8. CASE len = 0
  <2>1. len + 1 = 1
    BY <1>8
  <2> QED BY <1>3, <1>7, <1>8, <2>1
<1>9. CASE len = 1
  <2>1. 1 \in Pcf!Cells /\ len + 1 = 2
    BY <1>1, <1>9
  <2> QED BY <1>4, <1>7, <1>9, <2>1
<1>10. CASE len = 2
  <2>1. 1 \in Pcf!Cells /\ 2 \in Pcf!Cells /\ len + 1 = 3
    BY <1>1, <1>10
  <2> QED BY <1>5, <1>7, <1>10, <2>1
<1>11. CASE len = 3
  <2>1. 1 \in Pcf!Cells /\ 2 \in Pcf!Cells /\ 3 \in Pcf!Cells /\ len + 1 = 4
    BY <1>1, <1>11
  <2> QED BY <1>6, <1>7, <1>11, <2>1
<1> QED BY <1>1, <1>8, <1>9, <1>10, <1>11

(* The chip is as the transactions left it, and between them it waits for  *)
(* a byte that names a register; all it holds are bytes.                   *)
PmuInv == /\ data \in Data /\ chip \in Chips
          /\ chip.written = FALSE
          /\ chip.regs = meant /\ chip.reg = cursor

LEMMA PmuInit == Pcf!Init => PmuInv
<1> SUFFICES ASSUME Pcf!Init PROVE PmuInv
  OBVIOUS
<1>1. Pcf!NewRegs \in [Pcf!Stored -> Byte]
  BY DEF Pcf!NewRegs, Byte
<1>2. data = [i \in Pcf!Cells |-> 0] /\ chip = [reg |-> None, written |-> FALSE, regs |-> Pcf!NewRegs]
      /\ meant = Pcf!NewRegs /\ cursor = None
  BY DEF Pcf!Init
<1>3. data \in Data
  BY <1>2 DEF Data, Byte
<1> QED BY <1>1, <1>2, <1>3 DEF PmuInv, Chips

LEMMA SendKeeps ==
  ASSUME PmuInv, NEW op \in {"read", "write"}, NEW len \in Lens, Pcf!Send(op, len)
  PROVE  PmuInv'
<1> DEFINE start == [chip |-> chip, cells |-> data, err |-> "ok"]
           addr  == [cfg EXCEPT !.op = op, !.len = len].addr
           res   == Pcf!DoTxn(op, addr, len)
<1>1. /\ start \in During
      /\ start.chip = chip /\ start.cells = data
  BY DEF PmuInv, During
<1>2. chip' = res.chip /\ data' = res.cells
  BY DEF Pcf!Send
<1>3. CASE addr # Pcf!PmuAddr
  <2>1. res = [start EXCEPT !.err = "stub"]
    BY <1>3 DEF Pcf!DoTxn
  <2>2. res.chip = chip /\ res.cells = data
    BY <2>1
  <2>3. meant' = meant /\ cursor' = cursor
    BY <1>3 DEF Pcf!Send
  <2> HIDE DEF res
  <2> QED BY <1>2, <2>2, <2>3 DEF PmuInv
<1>4. CASE addr = Pcf!PmuAddr /\ op = "write"
  <2> DEFINE end == Pcf!WriteAll(start, len)
  <2>1. res = [end EXCEPT !.chip = Pcf!WriteDone(@)]
    BY <1>4 DEF Pcf!DoTxn
  <2> HIDE DEF start
  <2>2. WrittenUpTo(end, len)
    BY <1>1, WriteTransaction DEF PmuInv
  <2> HIDE DEF end, res
  <2>3. end \in During /\ end.chip \in Chips /\ end.cells = data
    BY <2>2 DEF WrittenUpTo, During
  <2>4. res.chip = [end.chip EXCEPT !.written = FALSE] /\ res.cells = data
    BY <2>1, <2>3 DEF During, Pcf!WriteDone
  <2>5. /\ res.chip \in Chips /\ res.chip.written = FALSE
        /\ res.chip.reg = end.chip.reg /\ res.chip.regs = end.chip.regs
    BY <2>3, <2>4 DEF Chips
  <2>6. /\ cursor' = (data[0] + len) % 256
        /\ meant' = [r \in Pcf!Stored |-> IF Pcf!Writes(len, r) = {} THEN meant[r]
                                          ELSE data[CHOOSE k \in Pcf!Writes(len, r) : TRUE]]
    BY <1>4 DEF Pcf!Send
  <2>7. meant' = Meant(len)
    BY <2>6 DEF Meant
  <2>8. res.chip.reg = cursor' /\ res.chip.regs = meant'
    BY <2>2, <2>5, <2>6, <2>7 DEF WrittenUpTo
  <2> QED BY <1>2, <2>4, <2>5, <2>8 DEF PmuInv
<1>5. CASE addr = Pcf!PmuAddr /\ op = "read"
  <2> DEFINE end == Pcf!ReadAll(start, len)
  <2>1. res = end
    BY <1>5 DEF Pcf!DoTxn
  <2> HIDE DEF start
  <2>2. ReadUpTo(end, start, len + 1)
    BY <1>1, ReadTransaction
  <2> HIDE DEF end, res
  <2>3. end.chip \in Chips /\ end.cells \in Data
    BY <2>2 DEF ReadUpTo, During
  <2>4. meant' = meant /\ cursor' = IF cursor = None THEN cursor ELSE (cursor + len + 1) % 256
    BY <1>5 DEF Pcf!Send
  <2>5. cursor # None => (cursor + len + 1) % 256 = (cursor + (len + 1)) % 256
    BY CellsOfLens DEF PmuInv, Chips, Byte
  <2>6. end.chip.reg = cursor' /\ end.chip.regs = meant'
    BY <1>1, <2>2, <2>4, <2>5 DEF PmuInv, ReadUpTo
  <2> QED BY <1>2, <2>1, <2>2, <2>3, <2>6 DEF PmuInv, ReadUpTo
<1> QED BY <1>3, <1>4, <1>5

LEMMA PmuNext == PmuInv /\ [Pcf!Next]_Pcf!pmuVars => PmuInv'
<1> SUFFICES ASSUME PmuInv, [Pcf!Next]_Pcf!pmuVars PROVE PmuInv'
  OBVIOUS
<1>1. ASSUME NEW i \in Pcf!Cells, NEW b \in Bytes, Pcf!WriteData(i, b) PROVE PmuInv'
  <2>1. data' = [data EXCEPT ![i] = b] /\ UNCHANGED <<chip, meant, cursor>>
    BY <1>1 DEF Pcf!WriteData
  <2>2. b \in Byte
    BY PmuAssumption DEF Byte
  <2> QED BY <2>1, <2>2 DEF PmuInv, Data
<1>2. ASSUME UNCHANGED <<data, chip, meant, cursor>> PROVE PmuInv'
  BY <1>2 DEF PmuInv
<1>3. ASSUME NEW op \in {"read", "write"}, NEW addr \in BusAddrs, Pcf!WriteAddr(op, addr) PROVE PmuInv'
  BY <1>2, <1>3 DEF Pcf!WriteAddr, Pcf!chipVars
<1>4. ASSUME NEW op \in {"read", "write"}, NEW len \in Lens,
             Pcf!WriteControl(op, len) \/ Pcf!SendRefused(op, len) PROVE PmuInv'
  BY <1>2, <1>4 DEF Pcf!WriteControl, Pcf!SendRefused, Pcf!chipVars
<1>5. CASE Pcf!ReadStatus \/ Pcf!BadAccess \/ Pcf!EndInstruction
  BY <1>2, <1>5 DEF Pcf!ReadStatus, Pcf!BadAccess, Pcf!EndInstruction, Pcf!chipVars
<1>6. CASE UNCHANGED Pcf!pmuVars
  BY <1>2, <1>6 DEF Pcf!pmuVars
<1> QED BY <1>1, <1>3, <1>4, <1>5, <1>6, SendKeeps DEF Pcf!Next

(* The chip sees single bytes, but does what the guest's transactions mean *)
(* (I2CCon::do_txn, Pcf5060x): any bytes, any addresses, up to four bytes. *)
THEOREM ChipFollowsTransactions == Pcf!Spec => []PmuFollowsTransactions
<1>1. PmuInv => PmuFollowsTransactions
  BY DEF PmuInv, PmuFollowsTransactions, Pcf!PmuFollowsTransactions
<1> QED BY PmuInit, PmuNext, <1>1, PTL DEF Pcf!Spec

-------------------------------------------------------------------------------
(* Lcd: the address counter is where the writes so far have taken it       *)

LcdInv == /\ writeLatch \in {None} \cup HighBytes
          /\ up \in BOOLEAN
          /\ ac \in 0 .. Display!Size - 1
          /\ CellsInOrder

LEMMA RamHasSize == Display!Size \in Nat \ {0} /\ Display!Size = 32 * CgramHeight
BY LcdAssumption DEF Display!Size, Display!Stride

(* The remainder of a number that is at most its divisor.                  *)
LEMMA Rest ==
  ASSUME NEW k \in Nat \ {0}, NEW x \in 0 .. k
  PROVE  x % k = IF x = k THEN 0 ELSE x
<1> DEFINE d == x \div k
           e == x % k
<1>1. d \in Int /\ e \in Int /\ 0 <= e /\ e < k /\ x = d * k + e
  OBVIOUS
<1> HIDE DEF d, e
<1>2. ASSUME d < 0 PROVE FALSE
  <2>1. d * k <= -k
    BY <1>1, <1>2
  <2> QED BY <1>1, <2>1
<1>3. ASSUME d > 1 PROVE FALSE
  <2>1. d * k >= 2 * k
    BY <1>1, <1>3
  <2> QED BY <1>1, <2>1
<1>4. d = 0 \/ d = 1
  BY <1>1, <1>2, <1>3
<1> QED BY <1>1, <1>4 DEF e

(* An address is that of the cell in its row and column.                   *)
LEMMA AddressOfCell ==
  ASSUME NEW a \in 0 .. Display!Size - 1, a % 32 <= 20
  PROVE  LET c == [row |-> a \div 32, col |-> a % 32]
         IN  c \in Display!Cells /\ a = Display!AddressOf(c)
<1> DEFINE d == a \div 32
           e == a % 32
<1>1. d \in Int /\ 0 <= d /\ e \in 0 .. 20 /\ a = 32 * d + e
  BY RamHasSize
<1>2. 32 * d < 32 * CgramHeight
  BY <1>1, RamHasSize, LcdAssumption
<1>3. d \in 0 .. CgramHeight - 1
  BY <1>1, <1>2, LcdAssumption
<1> QED BY <1>1, <1>3 DEF Display!Cells, Display!AddressOf, Display!Stride, Display!LastColumn

LEMMA CellHasAddress ==
  ASSUME NEW c \in Display!Cells
  PROVE  /\ Display!AddressOf(c) \in 0 .. Display!Size - 1
         /\ Display!AddressOf(c) % 32 = c.col
         /\ Display!AddressOf(c) = 32 * c.row + c.col
<1>1. c.row \in 0 .. CgramHeight - 1 /\ c.col \in 0 .. 20
  BY DEF Display!Cells, Display!LastColumn
<1>2. Display!AddressOf(c) = 32 * c.row + c.col
  BY DEF Display!AddressOf, Display!Stride
<1> QED BY <1>1, <1>2, RamHasSize, LcdAssumption

(* A write leaves the counter inside the RAM ...                           *)
LEMMA AdvancedFits ==
  ASSUME NEW a \in 0 .. Display!Size - 1, up \in BOOLEAN
  PROVE  Display!Advanced(a) \in 0 .. Display!Size - 1
<1> DEFINE b == Display!Beside(a)
           row == b - (b % 32)
<1>1. b \in 0 .. Display!Size - 1
  <2>1. (a + 1) % Display!Size \in 0 .. Display!Size - 1
    BY Rest, RamHasSize
  <2> QED BY <2>1, RamHasSize, LcdAssumption DEF Display!Beside
<1> HIDE DEF b
<1>2. row \in 0 .. Display!Size - 32
  <2>1. b \div 32 \in Int /\ b % 32 \in 0 .. 31 /\ b = 32 * (b \div 32) + (b % 32)
    BY <1>1, RamHasSize
  <2>2. 32 * (b \div 32) < 32 * CgramHeight
    BY <1>1, <2>1, RamHasSize, LcdAssumption
  <2>3. b \div 32 <= CgramHeight - 1
    BY <2>1, <2>2, LcdAssumption
  <2> QED BY <1>1, <2>1, <2>3, RamHasSize, LcdAssumption
<1>3. (row + 32) % Display!Size \in 0 .. Display!Size - 1
  <2> DEFINE n == row + 32
  <2>1. n \in 0 .. Display!Size
    <3> HIDE DEF row
    <3> QED BY <1>2, RamHasSize
  <2> HIDE DEF n
  <2>2. n % Display!Size = IF n = Display!Size THEN 0 ELSE n
    BY <2>1, Rest, RamHasSize
  <2>3. n % Display!Size \in 0 .. Display!Size - 1
    BY <2>1, <2>2, RamHasSize
  <2> QED BY <2>3 DEF n
<1>4. row + 20 \in 0 .. Display!Size - 1
  BY <1>2, RamHasSize
<1>5. \/ Display!Advanced(a) = b \/ Display!Advanced(a) = row + 20
      \/ Display!Advanced(a) = (row + 32) % Display!Size
  BY DEF Display!Advanced, Display!Stride, Display!LastColumn, b
<1> QED BY <1>1, <1>3, <1>4, <1>5

(* ... and takes it from a cell to the next one, in either direction.      *)
LEMMA AdvancedUp ==
  ASSUME NEW c \in Display!Cells, up
  PROVE  LET d == Display!Following(c)
         IN  d \in Display!Cells /\ Display!Advanced(Display!AddressOf(c)) = Display!AddressOf(d)
<1> DEFINE a == Display!AddressOf(c)
           b == a + 1
<1>1. c.row \in 0 .. CgramHeight - 1 /\ c.col \in 0 .. 20 /\ c = [row |-> c.row, col |-> c.col]
  BY DEF Display!Cells, Display!LastColumn
<1>2. a = 32 * c.row + c.col /\ a \in Nat
  BY <1>1, CellHasAddress
<1> HIDE DEF a
<1>3. b < Display!Size /\ b \in Nat /\ b % Display!Size = b
  <2>1. b < Display!Size /\ b \in Nat
    BY <1>1, <1>2, RamHasSize, LcdAssumption
  <2> HIDE DEF b
  <2> QED BY <2>1, Rest, RamHasSize
<1>4. Display!Beside(a) = b
  BY <1>3 DEF Display!Beside
<1>5. CASE c.col < 20
  <2>1. b % 32 = c.col + 1
    BY <1>1, <1>2, <1>5
  <2>2. Display!Advanced(a) = b
    <3> HIDE DEF b
    <3> QED BY <1>4, <1>5, <1>1, <2>1 DEF Display!Advanced, Display!Stride, Display!LastColumn
  <2>3. Display!Following(c) = [row |-> c.row, col |-> c.col + 1]
    BY <1>1, <1>5 DEF Display!Following, Display!LastColumn
  <2> QED BY <1>1, <1>2, <1>5, <2>2, <2>3
          DEF Display!Cells, Display!AddressOf, Display!Stride, Display!LastColumn, a
<1>6. CASE c.col = 20
  <2>1. b % 32 = 21 /\ b - (b % 32) + 32 = 32 * (c.row + 1)
    BY <1>1, <1>2, <1>6
  <2>2. Display!Advanced(a) = (32 * (c.row + 1)) % Display!Size
    <3> HIDE DEF b
    <3> QED BY <1>4, <2>1 DEF Display!Advanced, Display!Stride, Display!LastColumn
  <2>3. (32 * (c.row + 1)) % Display!Size = IF c.row < CgramHeight - 1 THEN 32 * (c.row + 1) ELSE 0
    <3> DEFINE n == 32 * (c.row + 1)
    <3>1. n \in 0 .. Display!Size /\ (n = Display!Size <=> ~(c.row < CgramHeight - 1))
      BY <1>1, RamHasSize, LcdAssumption
    <3> HIDE DEF n
    <3>2. n % Display!Size = IF n = Display!Size THEN 0 ELSE n
      BY <3>1, Rest, RamHasSize
    <3> QED BY <3>1, <3>2 DEF n
  <2>4. Display!Following(c) = [row |-> IF c.row < CgramHeight - 1 THEN c.row + 1 ELSE 0, col |-> 0]
    BY <1>1, <1>6 DEF Display!Following, Display!LastColumn
  <2> QED BY <1>1, <2>2, <2>3, <2>4, LcdAssumption
          DEF Display!Cells, Display!AddressOf, Display!Stride, Display!LastColumn, a
<1> QED BY <1>1, <1>5, <1>6

LEMMA AdvancedDown ==
  ASSUME NEW c \in Display!Cells, ~up, Display!Preceding(c) # None
  PROVE  LET d == Display!Preceding(c)
         IN  d \in Display!Cells /\ Display!Advanced(Display!AddressOf(c)) = Display!AddressOf(d)
<1> DEFINE a == Display!AddressOf(c)
           b == a - 1
<1>1. c.row \in 0 .. CgramHeight - 1 /\ c.col \in 0 .. 20 /\ c = [row |-> c.row, col |-> c.col]
  BY DEF Display!Cells, Display!LastColumn
<1>2. a = 32 * c.row + c.col /\ a \in Nat
  BY <1>1, CellHasAddress
<1> HIDE DEF a
<1>3. CASE c.col > 0
  <2>1. a # 0 /\ b % 32 = c.col - 1
    BY <1>1, <1>2, <1>3
  <2>2. Display!Beside(a) = b
    BY <2>1 DEF Display!Beside
  <2>3. Display!Advanced(a) = b
    <3> HIDE DEF b
    <3> QED BY <1>1, <2>1, <2>2 DEF Display!Advanced, Display!Stride, Display!LastColumn
  <2>4. Display!Preceding(c) = [row |-> c.row, col |-> c.col - 1]
    BY <1>1, <1>3 DEF Display!Preceding
  <2> QED BY <1>1, <1>2, <1>3, <2>3, <2>4
          DEF Display!Cells, Display!AddressOf, Display!Stride, Display!LastColumn, a
<1>4. CASE c.col = 0
  <2>1. c.row > 0 /\ Display!Preceding(c) = [row |-> c.row - 1, col |-> 20]
    BY <1>1, <1>4 DEF Display!Preceding, Display!LastColumn
  <2>2. a # 0 /\ b % 32 = 31 /\ b - (b % 32) = 32 * (c.row - 1)
    BY <1>1, <1>2, <1>4, <2>1
  <2>3. Display!Beside(a) = b
    BY <2>2 DEF Display!Beside
  <2>4. Display!Advanced(a) = 32 * (c.row - 1) + 20
    <3> HIDE DEF b
    <3> QED BY <2>2, <2>3 DEF Display!Advanced, Display!Stride, Display!LastColumn
  <2> DEFINE d == [row |-> c.row - 1, col |-> 20]
  <2>5. d.row = c.row - 1 /\ d.col = 20 /\ d.row \in 0 .. CgramHeight - 1
    <3>1. d.row = c.row - 1 /\ d.col = 20
      OBVIOUS
    <3>2. c.row - 1 \in 0 .. CgramHeight - 1
      BY <1>1, <2>1, LcdAssumption
    <3> QED BY <3>1, <3>2
  <2>6. d \in Display!Cells
    BY <2>5 DEF Display!Cells, Display!LastColumn
  <2>7. Display!AddressOf(d) = 32 * (c.row - 1) + 20
    BY <2>5 DEF Display!AddressOf, Display!Stride
  <2> HIDE DEF d
  <2>8. Display!Preceding(c) = d
    BY <2>1 DEF d
  <2> QED BY <2>4, <2>6, <2>7, <2>8 DEF a
<1> QED BY <1>1, <1>3, <1>4

LEMMA LcdInit == Display!Init => LcdInv
<1> SUFFICES ASSUME Display!Init PROVE LcdInv
  OBVIOUS
<1> DEFINE c == [row |-> 0, col |-> 0]
<1>1. c.row = 0 /\ c.col = 0 /\ 0 \in 0 .. CgramHeight - 1 /\ 0 \in 0 .. 20
  BY LcdAssumption
<1>2. c \in Display!Cells /\ Display!AddressOf(c) = 0
  BY <1>1 DEF Display!Cells, Display!AddressOf, Display!Stride, Display!LastColumn
<1>3. place = c /\ ac = 0 /\ up = FALSE /\ writeLatch = None
  BY DEF Display!Init
<1> HIDE DEF c
<1>4. ac \in 0 .. Display!Size - 1
  <2>1. Display!Size \in Nat /\ Display!Size > 0
    BY RamHasSize, LcdAssumption
  <2> QED BY <1>3, <2>1
<1>5. CellsInOrder
  BY <1>2, <1>3 DEF CellsInOrder, Display!CellsInOrder
<1> QED BY <1>3, <1>4, <1>5 DEF LcdInv

(* The write of a cell moves the counter as it moves the place.            *)
LEMMA CellKeeps ==
  ASSUME LcdInv, Display!WriteCell
  PROVE  up' \in BOOLEAN /\ ac' \in 0 .. Display!Size - 1 /\ CellsInOrder'
<1>1. up' = up /\ up \in BOOLEAN /\ ac' = Display!Advanced(ac) /\ ac \in 0 .. Display!Size - 1
  BY DEF LcdInv, Display!WriteCell
<1>2. ASSUME place' # None PROVE place' \in Display!Cells /\ ac' = Display!AddressOf(place')
  <2>1. place # None /\ place' = IF up THEN Display!Following(place) ELSE Display!Preceding(place)
    BY <1>2 DEF Display!WriteCell
  <2>2. place \in Display!Cells /\ ac = Display!AddressOf(place)
    BY <2>1 DEF LcdInv, CellsInOrder, Display!CellsInOrder
  <2>3. CASE up
    BY <1>1, <2>1, <2>2, <2>3, AdvancedUp
  <2>4. CASE ~up
    BY <1>1, <1>2, <2>1, <2>2, <2>4, AdvancedDown
  <2> QED BY <2>3, <2>4
<1> QED BY <1>1, <1>2, AdvancedFits DEF CellsInOrder, Display!CellsInOrder

LEMMA AddressKeeps ==
  ASSUME LcdInv, NEW v \in Nat, Display!AddressSet(v)
  PROVE  up' \in BOOLEAN /\ ac' \in 0 .. Display!Size - 1 /\ CellsInOrder'
<1>1. up' = up /\ ac' = v % Display!Size
  BY DEF Display!AddressSet
<1>2. ac' \in 0 .. Display!Size - 1
  BY <1>1, RamHasSize
<1>3. place' = IF ac' % 32 <= 20 THEN [row |-> ac' \div 32, col |-> ac' % 32] ELSE None
  BY DEF Display!AddressSet, Display!Stride, Display!LastColumn
<1>4. ASSUME place' # None PROVE place' \in Display!Cells /\ ac' = Display!AddressOf(place')
  BY <1>2, <1>3, <1>4, AddressOfCell
<1> QED BY <1>1, <1>2, <1>4 DEF LcdInv, CellsInOrder, Display!CellsInOrder

LEMMA LcdNext == LcdInv /\ [Display!Next]_Display!lcdVars => LcdInv'
<1> SUFFICES ASSUME LcdInv, [Display!Next]_Display!lcdVars PROVE LcdInv'
  OBVIOUS
<1>1. UNCHANGED <<ac, place>> => CellsInOrder'
  BY DEF LcdInv, CellsInOrder, Display!CellsInOrder
<1>2. ASSUME NEW b \in DataBytes, Display!WriteWord(b) PROVE LcdInv'
  <2> DEFINE v == writeLatch * 256 + b
  <2>1. v \in Nat /\ writeLatch' = None
    <3>1. writeLatch \in HighBytes /\ writeLatch' = None
      BY <1>2 DEF LcdInv, Display!WriteWord
    <3>2. writeLatch \in Nat /\ b \in Nat
      BY <3>1, LcdAssumption
    <3> QED BY <3>1, <3>2
  <2>2. \/ Display!EntryMode(v) \/ Display!AddressSet(v) \/ Display!WriteCell
        \/ Display!WriteVertically \/ Display!SetOther
    BY <1>2 DEF Display!WriteWord
  <2> HIDE DEF v
  <2>3. CASE Display!EntryMode(v)
    BY <1>1, <2>1, <2>3 DEF LcdInv, Display!EntryMode
  <2>4. CASE Display!AddressSet(v)
    BY <2>1, <2>4, AddressKeeps DEF LcdInv
  <2>5. CASE Display!WriteCell
    BY <2>1, <2>5, CellKeeps DEF LcdInv
  <2>6. CASE Display!WriteVertically \/ Display!SetOther
    BY <1>1, <2>1, <2>6 DEF LcdInv, Display!WriteVertically, Display!SetOther
  <2> QED BY <2>2, <2>3, <2>4, <2>5, <2>6
<1>3. CASE \/ \E b \in HighBytes : Display!LatchByte(b)
           \/ \E b \in CommandBytes : Display!WriteCommand(b)
           \/ Display!ReadCommand \/ Display!ReadData \/ Display!ReadLow
           \/ Display!BadRead \/ Display!BadWrite
  BY <1>1, <1>3 DEF LcdInv, Display!LatchByte, Display!WriteCommand, Display!ReadCommand, Display!ReadData,
     Display!ReadHigh, Display!ReadLow, Display!BadRead, Display!BadWrite
<1>4. CASE UNCHANGED Display!lcdVars
  BY <1>1, <1>4 DEF LcdInv, Display!lcdVars
<1> QED BY <1>2, <1>3, <1>4 DEF Display!Next

(* Words that the guest writes after each other (handle_data_write) go to  *)
(* the cells of the panel one after the other, for any height of the RAM,  *)
(* any words and commands between them, and with any changes of direction. *)
THEOREM CellsAreInOrder == Display!Spec => []CellsInOrder
<1>1. LcdInv => CellsInOrder
  BY DEF LcdInv
<1> QED BY LcdInit, LcdNext, <1>1, PTL DEF Display!Spec

-------------------------------------------------------------------------------
(* Debugger: single steps without interrupts                               *)

(* Interrupts are away only during a step that keeps them away, or after   *)
(* an error in one, when the thread has left the sessions for good.        *)
IrqInv == /\ resume # None => Desktop!InSession
          /\ skipIrqCheck /\ ~frozen =>
                \/ resume = "step" /\ ~singleStepIrq
                \/ resume = None /\ thread \in {"dumping", "sending", "ended"}

(* A session after a fatal error is of a frozen system.                    *)
MortemInv == thread \in {"post-mortem", "post-mortem session"} => frozen

DebuggerInv == IrqInv /\ MortemInv

LEMMA DebuggerInit == Desktop!Init => DebuggerInv
BY DEF Desktop!Init, DebuggerInv, IrqInv, MortemInv

LEMMA DebuggerNext == DebuggerInv /\ [Desktop!Next]_Desktop!dbgVars => DebuggerInv'
<1> SUFFICES ASSUME DebuggerInv, [Desktop!Next]_Desktop!dbgVars PROVE DebuggerInv'
  OBVIOUS
<1> USE NoneIsNothing DEF DebuggerInv, IrqInv, MortemInv, Desktop!InSession
(* The thread goes from one place to the next, outside of any request.     *)
<1>1. CASE Desktop!Start
  BY <1>1 DEF Desktop!Start, Desktop!Keep, Desktop!sysVars
<1>2. CASE Desktop!Connect
  BY <1>2 DEF Desktop!Connect, Desktop!Keep, Desktop!sysVars
<1>3. CASE Desktop!ConnectFails
  BY <1>3 DEF Desktop!ConnectFails, Desktop!Leave, Desktop!Keep, Desktop!sysVars
<1>4. CASE Desktop!RunFails
  BY <1>4 DEF Desktop!RunFails, Desktop!Keep, Desktop!sysVars
<1>5. CASE Desktop!DumpFails
  BY <1>5 DEF Desktop!DumpFails, Desktop!Leave, Desktop!Keep, Desktop!sysVars
<1>6. CASE Desktop!Dump
  BY <1>6 DEF Desktop!Dump, Desktop!Keep, Desktop!sysVars
<1>7. CASE Desktop!SendKill
  BY <1>7 DEF Desktop!SendKill, Desktop!sysVars
<1>8. CASE Desktop!Detach
  BY <1>8 DEF Desktop!Detach, Desktop!Keep, Desktop!sysVars
<1>9. CASE Desktop!KillTarget
  BY <1>9 DEF Desktop!KillTarget, Desktop!Leave, Desktop!Keep, Desktop!sysVars
<1>10. CASE Desktop!ConnectionBreaks
  BY <1>10 DEF Desktop!ConnectionBreaks, Desktop!Leave, Desktop!Keep, Desktop!sysVars
(* The requests of a session.                                              *)
<1>11. CASE Desktop!Session
  <2> USE DEF Desktop!Outside
  <2>1. CASE Desktop!ResumeStep
    BY <2>1 DEF Desktop!ResumeStep
  <2>2. CASE Desktop!ResumeContinue
    BY <2>2 DEF Desktop!ResumeContinue
  <2>3. CASE Desktop!StepReturns
    BY <2>3 DEF Desktop!StepReturns
  <2>4. CASE Desktop!ContinueReturns
    BY <2>4 DEF Desktop!ContinueReturns
  <2>5. CASE Desktop!ResumeFails
    BY <2>5 DEF Desktop!ResumeFails, Desktop!sysVars
  <2>6. CASE Desktop!SetSingleStepIrq
    BY <2>6 DEF Desktop!SetSingleStepIrq
  <2>7. ASSUME Desktop!PointRequest PROVE DebuggerInv'
    BY <2>7 DEF Desktop!PointRequest
  <2> QED
    BY <1>11, <2>1, <2>2, <2>3, <2>4, <2>5, <2>6, <2>7
       DEF Desktop!Session, Desktop!AddBreakpoint, Desktop!RemoveBreakpoint,
           Desktop!AddWatchpoint, Desktop!RemoveWatchpoint
<1>12. CASE Desktop!SeeKill \/ Desktop!CloseWindow
  <2>1. UNCHANGED <<thread, resume, singleStepIrq, skipIrqCheck, frozen>>
    BY <1>12 DEF Desktop!SeeKill, Desktop!CloseWindow, Desktop!Main, Desktop!sysVars
  <2> QED BY <2>1
<1>13. CASE UNCHANGED Desktop!dbgVars
  BY <1>13 DEF Desktop!dbgVars, Desktop!sysVars
<1> QED
  BY <1>1, <1>2, <1>3, <1>4, <1>5, <1>6, <1>7, <1>8, <1>9, <1>10, <1>11, <1>12, <1>13
     DEF Desktop!Next

(* A single step that keeps interrupts away never leaves a running system  *)
(* without them (gdb.rs, main.rs): any requests of GDB, any failures.      *)
THEOREM InterruptsComeBack == Desktop!Spec => []IrqsComeBack
<1>1. DebuggerInv => IrqsComeBack
  BY NoneIsNothing DEF DebuggerInv, IrqInv, IrqsComeBack, Desktop!IrqsComeBack, Desktop!InSession
<1> QED BY DebuggerInit, DebuggerNext, <1>1, PTL DEF Desktop!Spec

-------------------------------------------------------------------------------
(* Raster: the two triangles of a quad.  Seen from the centre of a pixel,  *)
(* every edge is a determinant, and so is the part of the area it bounds:  *)
(* that settles the sides of the quad a triangle does not have.  The pixels*)
(* on the diagonal are settled by is_top_left.                             *)

Points == Int \X Int

LEMMA EdgeSum ==
  ASSUME NEW a \in Points, NEW b \in Points, NEW c \in Points, NEW p \in Points
  PROVE  /\ Quad!Edge(a, b, c) = Quad!Edge(a, b, p) + Quad!Edge(b, c, p) + Quad!Edge(c, a, p)
         /\ Quad!Edge(a, b, p) \in Int
         /\ Quad!Edge(b, a, p) = -Quad!Edge(a, b, p)
BY DEF Quad!Edge, Points

(* Seen from p, an edge is a determinant.                                  *)
LEMMA EdgeFrom ==
  ASSUME NEW a \in Points, NEW b \in Points, NEW p \in Points
  PROVE  Quad!Edge(a, b, p) = (a[2] - p[2]) * (b[1] - p[1]) - (a[1] - p[1]) * (b[2] - p[2])
BY DEF Quad!Edge, Points

LEMMA FourVectors ==
  ASSUME NEW ax \in Int, NEW ay \in Int, NEW bx \in Int, NEW by \in Int,
         NEW cx \in Int, NEW cy \in Int, NEW dx \in Int, NEW dy \in Int
  PROVE  (ay * bx - ax * by) * (cy * dx - cx * dy) + (by * cx - bx * cy) * (ay * dx - ax * dy)
            = (ay * cx - ax * cy) * (by * dx - bx * dy)
OBVIOUS

(* How the sides and the diagonals of four points lie to a fifth.          *)
LEMMA Pluecker ==
  ASSUME NEW a \in Points, NEW b \in Points, NEW c \in Points, NEW d \in Points, NEW p \in Points
  PROVE  Quad!Edge(a, b, p) * Quad!Edge(c, d, p) + Quad!Edge(b, c, p) * Quad!Edge(a, d, p)
            = Quad!Edge(a, c, p) * Quad!Edge(b, d, p)
<1> DEFINE ax == a[1] - p[1]  ay == a[2] - p[2]  bx == b[1] - p[1]  by == b[2] - p[2]
           cx == c[1] - p[1]  cy == c[2] - p[2]  dx == d[1] - p[1]  dy == d[2] - p[2]
<1>1. /\ ax \in Int /\ ay \in Int /\ bx \in Int /\ by \in Int
      /\ cx \in Int /\ cy \in Int /\ dx \in Int /\ dy \in Int
  BY DEF Points
<1>2. /\ Quad!Edge(a, b, p) = ay * bx - ax * by
      /\ Quad!Edge(c, d, p) = cy * dx - cx * dy
      /\ Quad!Edge(b, c, p) = by * cx - bx * cy
      /\ Quad!Edge(a, d, p) = ay * dx - ax * dy
      /\ Quad!Edge(a, c, p) = ay * cx - ax * cy
      /\ Quad!Edge(b, d, p) = by * dx - bx * dy
  BY EdgeFrom
<1> HIDE DEF ax, ay, bx, by, cx, cy, dx, dy
<1>3. (ay * bx - ax * by) * (cy * dx - cx * dy) + (by * cx - bx * cy) * (ay * dx - ax * dy)
        = (ay * cx - ax * cy) * (by * dx - bx * dy)
  BY <1>1, FourVectors
<1> QED BY <1>2, <1>3

(* A sum of what is not negative, with a positive factor, has its sign.    *)
LEMMA SignOfSum ==
  ASSUME NEW s \in Int, NEW t \in Int, NEW u \in Int, NEW v \in Int, NEW x \in Int, NEW y \in Int,
         s > 0, u >= 0, v >= 0, x > 0, y > 0, t * s = u * x + v * y
  PROVE  t >= 0
<1>1. u * x >= 0 /\ v * y >= 0
  OBVIOUS
<1>2. ASSUME t < 0 PROVE FALSE
  <2>1. t * s < 0
    BY <1>2
  <2> QED BY <1>1, <2>1
<1> QED BY <1>2

(* The sides of a quad that the first triangle does not have.              *)
LEMMA Numbers ==
  ASSUME NEW ab \in Int, NEW bc \in Int, NEW cd \in Int, NEW da \in Int, NEW acc \in Int, NEW bd \in Int,
         ab * cd - bc * da = acc * bd,
         ab + bc - acc > 0, bc + cd - bd > 0, cd + da + acc > 0, da + ab + bd > 0,
         ab >= 0, bc >= 0, -acc >= 0
  PROVE  cd >= 0 /\ da >= 0
<1>1. cd * (ab + bc - acc) = bc * (cd + da + acc) + (-acc) * (bc + cd - bd)
  <2>1. cd * (ab + bc - acc) = ab * cd + bc * cd - acc * cd
    OBVIOUS
  <2>2. bc * (cd + da + acc) + (-acc) * (bc + cd - bd) = bc * cd + bc * da - acc * cd + acc * bd
    OBVIOUS
  <2> QED BY <2>1, <2>2
<1>2. da * (ab + bc - acc) = (-acc) * (da + ab + bd) + ab * (cd + da + acc)
  OBVIOUS
<1> DEFINE s == ab + bc - acc
           x == cd + da + acc
           y == bc + cd - bd
           z == da + ab + bd
           m == -acc
<1>3. s \in Int /\ x \in Int /\ y \in Int /\ z \in Int /\ m \in Int
  OBVIOUS
<1>4. s > 0 /\ x > 0 /\ y > 0 /\ z > 0 /\ m >= 0
  OBVIOUS
<1>5. cd * s = bc * x + m * y /\ da * s = m * z + ab * x
  BY <1>1, <1>2
<1> HIDE DEF s, x, y, z, m
<1> QED BY <1>3, <1>4, <1>5, SignOfSum

(* Of a pixel on an edge that two triangles share, just one of them.       *)
LEMMA OneSide ==
  ASSUME NEW a \in Points, NEW b \in Points, NEW p \in Points, a[1] # b[1] \/ a[2] # b[2]
  PROVE  Quad!Has(a, b, p) <=> ~Quad!Has(b, a, p)
<1>1. Quad!Edge(b, a, p) = -Quad!Edge(a, b, p) /\ Quad!Edge(a, b, p) \in Int
  BY EdgeSum
<1>2. Quad!IsTopLeft(a, b) <=> ~Quad!IsTopLeft(b, a)
  BY DEF Quad!IsTopLeft, Points
<1> QED BY <1>1, <1>2 DEF Quad!Has

In(a, b, c, p) == Quad!Has(a, b, p) /\ Quad!Has(b, c, p) /\ Quad!Has(c, a, p)

(* A convex quad: it turns the same way, to the positive, at every corner. *)
Turns(a, b, c, d) == /\ Quad!Edge(a, b, c) > 0 /\ Quad!Edge(b, c, d) > 0
                     /\ Quad!Edge(c, d, a) > 0 /\ Quad!Edge(d, a, b) > 0

LEMMA InFirst ==
  ASSUME NEW a \in Points, NEW b \in Points, NEW c \in Points, NEW d \in Points, NEW p \in Points,
         Turns(a, b, c, d), In(a, b, c, p)
  PROVE  /\ Quad!Edge(a, b, p) >= 0 /\ Quad!Edge(b, c, p) >= 0
         /\ Quad!Edge(c, d, p) >= 0 /\ Quad!Edge(d, a, p) >= 0
<1> DEFINE ab == Quad!Edge(a, b, p)  bc == Quad!Edge(b, c, p)  cd == Quad!Edge(c, d, p)
           da == Quad!Edge(d, a, p)  acc == Quad!Edge(a, c, p)  bd == Quad!Edge(b, d, p)
<1>1. /\ ab \in Int /\ bc \in Int /\ cd \in Int /\ da \in Int /\ acc \in Int /\ bd \in Int
      /\ Quad!Edge(c, a, p) = -acc /\ Quad!Edge(a, d, p) = -da /\ Quad!Edge(d, b, p) = -bd
  BY EdgeSum
<1>2. /\ Quad!Edge(a, b, c) = ab + bc + Quad!Edge(c, a, p)
      /\ Quad!Edge(b, c, d) = bc + cd + Quad!Edge(d, b, p)
      /\ Quad!Edge(c, d, a) = cd + da + acc
      /\ Quad!Edge(d, a, b) = da + ab + bd
  BY EdgeSum
<1>3. ab * cd + bc * Quad!Edge(a, d, p) = acc * bd
  BY Pluecker
<1>4. ab >= 0 /\ bc >= 0 /\ Quad!Edge(c, a, p) >= 0
  BY <1>1 DEF In, Quad!Has
<1>5. /\ ab + bc + Quad!Edge(c, a, p) > 0 /\ bc + cd + Quad!Edge(d, b, p) > 0
      /\ cd + da + acc > 0 /\ da + ab + bd > 0
  BY <1>2 DEF Turns
<1> HIDE DEF ab, bc, cd, da, acc, bd
<1>6. ab * cd - bc * da = acc * bd
  <2>1. bc * (-da) = -(bc * da)
    BY <1>1
  <2> QED BY <1>1, <1>3, <2>1
<1>7. ab + bc - acc > 0 /\ bc + cd - bd > 0 /\ -acc >= 0
  BY <1>1, <1>4, <1>5
<1>8. cd >= 0 /\ da >= 0
  BY <1>1, <1>4, <1>5, <1>6, <1>7, Numbers
<1> QED BY <1>4, <1>8 DEF ab, bc, cd, da

(* The two triangles of a convex quad: no point is in both; every point    *)
(* inside the quad is in one; a point of either is beyond no side.         *)
LEMMA Quadrangle ==
  ASSUME NEW a \in Points, NEW b \in Points, NEW c \in Points, NEW d \in Points, NEW p \in Points,
         Turns(a, b, c, d)
  PROVE  LET sides == {Quad!Edge(a, b, p), Quad!Edge(b, c, p), Quad!Edge(c, d, p), Quad!Edge(d, a, p)}
         IN  /\ ~(In(a, b, c, p) /\ In(a, c, d, p))
             /\ (\A e \in sides : e > 0) => In(a, b, c, p) \/ In(a, c, d, p)
             /\ In(a, b, c, p) \/ In(a, c, d, p) => \A e \in sides : e >= 0
             /\ ~(\A e \in sides : e < 0)
<1> DEFINE ab == Quad!Edge(a, b, p)  bc == Quad!Edge(b, c, p)  cd == Quad!Edge(c, d, p)
           da == Quad!Edge(d, a, p)  sides == {ab, bc, cd, da}
<1>1. ab \in Int /\ bc \in Int /\ cd \in Int /\ da \in Int
  BY EdgeSum
<1>2. a[1] # c[1] \/ a[2] # c[2]
  <2>1. Quad!Edge(a, b, c) > 0
    BY DEF Turns
  <2> QED BY <2>1 DEF Quad!Edge, Points
<1>3. Quad!Has(a, c, p) <=> ~Quad!Has(c, a, p)
  BY <1>2, OneSide
<1>4. ~(In(a, b, c, p) /\ In(a, c, d, p))
  BY <1>3 DEF In
<1>5. ASSUME \A e \in sides : e > 0 PROVE In(a, b, c, p) \/ In(a, c, d, p)
  <2>1. Quad!Has(a, b, p) /\ Quad!Has(b, c, p) /\ Quad!Has(c, d, p) /\ Quad!Has(d, a, p)
    BY <1>5 DEF Quad!Has
  <2> QED BY <1>3, <2>1 DEF In
<1>6. In(a, b, c, p) => \A e \in sides : e >= 0
  BY InFirst
<1>7. In(a, c, d, p) => \A e \in sides : e >= 0
  <2>1. In(a, c, d, p) => In(c, d, a, p)
    BY DEF In
  <2>2. Turns(c, d, a, b)
    BY DEF Turns
  <2> QED BY <2>1, <2>2, InFirst
<1>8. ~(\A e \in sides : e < 0)
  <2> SUFFICES ASSUME ab < 0, bc < 0, cd < 0, da < 0 PROVE FALSE
    OBVIOUS
  <2>1. /\ Quad!Edge(a, b, c) = ab + bc + Quad!Edge(c, a, p)
        /\ Quad!Edge(c, d, a) = cd + da + Quad!Edge(a, c, p)
        /\ Quad!Edge(c, a, p) = -Quad!Edge(a, c, p)
        /\ Quad!Edge(a, c, p) \in Int
    BY EdgeSum
  <2>2. Quad!Edge(a, b, c) > 0 /\ Quad!Edge(c, d, a) > 0
    BY DEF Turns
  <2> HIDE DEF ab, bc, cd, da
  <2> QED BY <1>1, <2>1, <2>2
<1> QED BY <1>4, <1>5, <1>6, <1>7, <1>8

(* A point with an integral weight from each corner lies between them.     *)
LEMMA Weighted ==
  ASSUME NEW u \in Int, NEW v \in Int, NEW w \in Int, NEW x \in Int, NEW y \in Int, NEW z \in Int,
         u >= 0, v >= 0, w >= 0, u + v + w > 0, u * x + v * y + w * z = 0
  PROVE  (x <= 0 \/ y <= 0 \/ z <= 0) /\ (x >= 0 \/ y >= 0 \/ z >= 0)
<1>1. ASSUME x > 0, y > 0, z > 0 PROVE FALSE
  <2>1. u * x >= u /\ v * y >= v /\ w * z >= w
    BY <1>1
  <2> QED BY <2>1
<1>2. ASSUME x < 0, y < 0, z < 0 PROVE FALSE
  <2>1. u * x <= -u /\ v * y <= -v /\ w * z <= -w
    BY <1>2
  <2> QED BY <2>1
<1> QED BY <1>1, <1>2

LEMMA ThreeVectors ==
  ASSUME NEW ax \in Int, NEW ay \in Int, NEW bx \in Int, NEW by \in Int,
         NEW cx \in Int, NEW cy \in Int
  PROVE  /\ (by * cx - bx * cy) * ax + (cy * ax - cx * ay) * bx + (ay * bx - ax * by) * cx = 0
         /\ (by * cx - bx * cy) * ay + (cy * ax - cx * ay) * by + (ay * bx - ax * by) * cy = 0
OBVIOUS

LEMMA Around ==
  ASSUME NEW a \in Points, NEW b \in Points, NEW c \in Points, NEW p \in Points,
         Quad!Edge(a, b, c) > 0, In(a, b, c, p)
  PROVE  \A i \in {1, 2} : (\E v \in {a, b, c} : v[i] <= p[i]) /\ (\E v \in {a, b, c} : p[i] <= v[i])
<1> DEFINE ax == a[1] - p[1]  ay == a[2] - p[2]  bx == b[1] - p[1]  by == b[2] - p[2]
           cx == c[1] - p[1]  cy == c[2] - p[2]
           u == by * cx - bx * cy  v == cy * ax - cx * ay  w == ay * bx - ax * by
<1>1. ax \in Int /\ ay \in Int /\ bx \in Int /\ by \in Int /\ cx \in Int /\ cy \in Int
  BY DEF Points
<1>2. Quad!Edge(b, c, p) = u /\ Quad!Edge(c, a, p) = v /\ Quad!Edge(a, b, p) = w
  BY EdgeFrom
<1>3. u \in Int /\ v \in Int /\ w \in Int
  BY <1>1
<1>4. u >= 0 /\ v >= 0 /\ w >= 0
  BY <1>2, <1>3 DEF In, Quad!Has
<1>5. u + v + w > 0
  <2>1. Quad!Edge(a, b, c) = w + u + v
    BY <1>2, EdgeSum
  <2> QED BY <1>3, <2>1
<1>6. u * ax + v * bx + w * cx = 0 /\ u * ay + v * by + w * cy = 0
  BY <1>1, ThreeVectors
<1> HIDE DEF u, v, w
<1>7. /\ (ax <= 0 \/ bx <= 0 \/ cx <= 0) /\ (ax >= 0 \/ bx >= 0 \/ cx >= 0)
      /\ (ay <= 0 \/ by <= 0 \/ cy <= 0) /\ (ay >= 0 \/ by >= 0 \/ cy >= 0)
  <2> HIDE DEF ax, ay, bx, by, cx, cy
  <2> QED BY <1>1, <1>3, <1>4, <1>5, <1>6, Weighted
<1>8. /\ (a[1] <= p[1] \/ b[1] <= p[1] \/ c[1] <= p[1]) /\ (p[1] <= a[1] \/ p[1] <= b[1] \/ p[1] <= c[1])
      /\ (a[2] <= p[2] \/ b[2] <= p[2] \/ c[2] <= p[2]) /\ (p[2] <= a[2] \/ p[2] <= b[2] \/ p[2] <= c[2])
  BY <1>7 DEF Points
<1> QED BY <1>8

(* Of four numbers one is the least and one the greatest.                  *)
LEMMA LeastAndMost ==
  ASSUME NEW w \in Int, NEW x \in Int, NEW y \in Int, NEW z \in Int
  PROVE  LET L == Quad!Least({w, x, y, z})
             M == Quad!Most({w, x, y, z})
         IN  /\ L \in Int /\ L <= w /\ L <= x /\ L <= y /\ L <= z
             /\ M \in Int /\ w <= M /\ x <= M /\ y <= M /\ z <= M
<1> DEFINE S == {w, x, y, z}
<1>1. \E k \in S : \A n \in S : k <= n
  OBVIOUS
<1>2. \E k \in S : \A n \in S : n <= k
  OBVIOUS
<1>3. Quad!Least(S) \in S /\ \A n \in S : Quad!Least(S) <= n
  <2> HIDE DEF S
  <2> QED BY <1>1 DEF Quad!Least
<1>4. Quad!Most(S) \in S /\ \A n \in S : n <= Quad!Most(S)
  <2> HIDE DEF S
  <2> QED BY <1>2 DEF Quad!Most
<1> QED BY <1>3, <1>4

(* A pixel whose centre has corners on all sides is in their box.          *)
LEMMA InBox ==
  ASSUME NEW a \in Points, NEW b \in Points, NEW c \in Points, NEW d \in Points,
         NEW p \in Quad!Pixels,
         \A i \in {1, 2} : /\ \E v \in {a, b, c, d} : v[i] <= Quad!Centre(p)[i]
                           /\ \E v \in {a, b, c, d} : Quad!Centre(p)[i] <= v[i]
  PROVE  p \in Quad!Box({a, b, c, d})
<1> DEFINE ax == a[1]  bx == b[1]  cx == c[1]  dx == d[1]  xs == {ax, bx, cx, dx}
           ay == a[2]  by == b[2]  cy == c[2]  dy == d[2]  ys == {ay, by, cy, dy}
           x  == 2 * p[1] + 1
           y  == 2 * p[2] + 1
           Lx == Quad!Least(xs)  Mx == Quad!Most(xs)
           Ly == Quad!Least(ys)  My == Quad!Most(ys)
<1>1. {v[1] : v \in {a, b, c, d}} = xs /\ {v[2] : v \in {a, b, c, d}} = ys
  OBVIOUS
<1>2. /\ ax \in Int /\ bx \in Int /\ cx \in Int /\ dx \in Int
      /\ ay \in Int /\ by \in Int /\ cy \in Int /\ dy \in Int
  BY DEF Points
<1>3. /\ p[1] \in Int /\ p[2] \in Int /\ x \in Int /\ y \in Int
      /\ Quad!Centre(p)[1] = x /\ Quad!Centre(p)[2] = y
  BY DEF Quad!Pixels, Quad!Centre
<1>4. /\ ax <= x \/ bx <= x \/ cx <= x \/ dx <= x
      /\ x <= ax \/ x <= bx \/ x <= cx \/ x <= dx
      /\ ay <= y \/ by <= y \/ cy <= y \/ dy <= y
      /\ y <= ay \/ y <= by \/ y <= cy \/ y <= dy
  BY <1>3
<1>5. /\ Lx \in Int /\ Lx <= ax /\ Lx <= bx /\ Lx <= cx /\ Lx <= dx
      /\ Mx \in Int /\ ax <= Mx /\ bx <= Mx /\ cx <= Mx /\ dx <= Mx
  <2> HIDE DEF ax, bx, cx, dx
  <2> QED BY <1>2, LeastAndMost
<1>6. /\ Ly \in Int /\ Ly <= ay /\ Ly <= by /\ Ly <= cy /\ Ly <= dy
      /\ My \in Int /\ ay <= My /\ by <= My /\ cy <= My /\ dy <= My
  <2> HIDE DEF ay, by, cy, dy
  <2> QED BY <1>2, LeastAndMost
<1>8. Lx <= x /\ x <= Mx /\ Ly <= y /\ y <= My
  <2> HIDE DEF ax, bx, cx, dx, ay, by, cy, dy, Lx, Mx, Ly, My, x, y
  <2> QED BY <1>2, <1>3, <1>4, <1>5, <1>6
<1> HIDE DEF Lx, Mx, Ly, My
<1>7. /\ Lx \div 2 <= p[1] /\ p[1] <= (Mx + 1) \div 2
      /\ Ly \div 2 <= p[2] /\ p[2] <= (My + 1) \div 2
  BY <1>3, <1>5, <1>6, <1>8
<1> QED BY <1>1, <1>7 DEF Quad!Box, Lx, Mx, Ly, My

LEMMA CentreIsPoint ==
  ASSUME NEW p \in Quad!Pixels
  PROVE  Quad!Centre(p) \in Points
BY DEF Quad!Centre, Quad!Pixels, Points

(* A triangle covers the pixels whose centre is in it, in whichever order  *)
(* its corners are given.                                                  *)
LEMMA CoveredIsIn ==
  ASSUME NEW a \in Points, NEW b \in Points, NEW c \in Points,
         Quad!Edge(a, b, c) > 0, NEW p \in Quad!Pixels
  PROVE  /\ p \in Quad!Covered(<<a, b, c>>) <=> In(a, b, c, Quad!Centre(p))
         /\ p \in Quad!Covered(<<a, c, b>>) <=> In(a, b, c, Quad!Centre(p))
<1> DEFINE q == Quad!Centre(p)
<1>1. q \in Points
  BY CentreIsPoint
<1>2. In(a, b, c, q) => p \in Quad!Box({a, b, c})
  <2> SUFFICES ASSUME In(a, b, c, q) PROVE p \in Quad!Box({a, b, c})
    OBVIOUS
  <2>1. {a, b, c} = {a, b, c, c}
    OBVIOUS
  <2>2. \A i \in {1, 2} : (\E v \in {a, b, c} : v[i] <= q[i]) /\ (\E v \in {a, b, c} : q[i] <= v[i])
    <3> HIDE DEF q
    <3> QED BY <1>1, Around
  <2>3. \A i \in {1, 2} : (\E v \in {a, b, c, c} : v[i] <= q[i]) /\ (\E v \in {a, b, c, c} : q[i] <= v[i])
    <3> HIDE DEF q
    <3> QED BY <2>1, <2>2, Zenon
  <2>4. p \in Quad!Box({a, b, c, c})
    BY <2>3, InBox
  <2> QED BY <2>1, <2>4
<1>3. Quad!Oriented(<<a, b, c>>) = <<a, b, c>>
  <2>1. Quad!Edge(a, b, c) \in Int
    BY EdgeSum
  <2>2. ~(Quad!Edge(a, b, c) < 0)
    BY <2>1
  <2> QED BY <2>2 DEF Quad!Oriented
<1>4. Quad!Oriented(<<a, c, b>>) = <<a, b, c>>
  <2>1. Quad!Edge(a, c, b) = -Quad!Edge(a, b, c) /\ Quad!Edge(a, b, c) \in Int
    BY DEF Quad!Edge, Points
  <2>2. Quad!Edge(a, c, b) < 0
    BY <2>1
  <2> QED BY <2>2 DEF Quad!Oriented
<1>5. ASSUME NEW v, Quad!Oriented(v) = <<a, b, c>>
      PROVE  p \in Quad!Covered(v) <=> In(a, b, c, q)
  BY <1>2, <1>5 DEF Quad!Covered, In
<1> QED BY <1>3, <1>4, <1>5

(* Dividing what is less than a divisor above a multiple of it.            *)
LEMMA DivExact ==
  ASSUME NEW m \in Int, NEW k \in Int, NEW r \in Int, k > 0, 0 <= r, r < k
  PROVE  (m * k + r) \div k = m
<1> DEFINE n == m * k + r
           d == n \div k
           e == n % k
<1>1. n \in Int
  OBVIOUS
<1>2. d \in Int /\ e \in Int /\ 0 <= e /\ e < k /\ n = d * k + e
  <2> HIDE DEF n
  <2> QED BY <1>1
<1>3. (d - m) * k = r - e
  BY <1>2
<1> HIDE DEF d, e
<1>4. ASSUME d > m PROVE FALSE
  <2>1. (d - m) * k >= k
    BY <1>2, <1>4
  <2> QED BY <1>2, <1>3, <2>1
<1>5. ASSUME d < m PROVE FALSE
  <2>1. (m - d) * k >= k
    BY <1>2, <1>5
  <2>2. (m - d) * k = e - r
    BY <1>2, <1>3
  <2> QED BY <1>2, <2>1, <2>2
<1> QED BY <1>2, <1>4, <1>5 DEF d

Pixel == [c : 0..255, a : 0..255]

LEMMA OnOpaque ==
  ASSUME NEW d \in Pixel, NEW s \in Pixel, d.a = 255
  PROVE  Quad!Blend(d, s).a = 255 /\ Quad!Between(Quad!Blend(d, s).c, s.c, d.c)
<1> DEFINE x == d.c  y == s.c  w == s.a  i == 255 - w  n == y * w + x * i
<1>1. /\ x \in 0..255 /\ y \in 0..255 /\ w \in 0..255 /\ i \in 0..255 /\ w + i = 255
  BY DEF Pixel
<1> HIDE DEF x, y, w, i
<1>2. (d.a * i + 127) \div 255 = i
  BY <1>1
<1>3. (x * d.a * i) \div 255 = x * i
  <2>1. x * d.a * i = (x * i) * 255 + 0 /\ x * i \in Int
    BY <1>1
  <2> QED BY <2>1, DivExact
<1>4. n \in Int
  BY <1>1
<1>5. /\ y <= x => y * 255 <= n /\ n <= x * 255
      /\ x <= y => x * 255 <= n /\ n <= y * 255
  <2>1. y <= x => y * i <= x * i /\ y * w <= x * w
    BY <1>1
  <2>2. x <= y => x * i <= y * i /\ x * w <= y * w
    BY <1>1
  <2>3. x * 255 = x * w + x * i /\ y * 255 = y * w + y * i
    BY <1>1
  <2>4. x * i \in Int /\ x * w \in Int /\ y * i \in Int /\ y * w \in Int
    BY <1>1
  <2> QED BY <2>1, <2>2, <2>3, <2>4
<1> DEFINE m == (n + 127) \div 255
<1>6. m \in 0..255 /\ (y <= x => y <= m /\ m <= x) /\ (x <= y => x <= m /\ m <= y)
  <2> HIDE DEF n
  <2> QED BY <1>1, <1>4, <1>5
<1>7. Quad!Blend(d, s) = [c |-> m % 256, a |-> 255]
  <2>1. w + i = 255 /\ 255 # 0 /\ 255 \div 2 = 127 /\ 255 - w = i
    BY <1>1
  <2> HIDE DEF m
  <2>2. ((y * w + x * i) + 127) \div 255 = m
    BY DEF m
  <2> USE DEF x, y, w
  <2> QED BY <1>2, <1>3, <2>1, <2>2 DEF Quad!Blend
<1>8. m % 256 = m
  BY <1>6
<1>9. Quad!Between(m, y, x)
  <2> HIDE DEF m
  <2> QED BY <1>1, <1>6 DEF Quad!Between
<1> QED BY <1>7, <1>8, <1>9 DEF x, y

LEMMA OnTransparent ==
  ASSUME NEW d \in Pixel, NEW s \in Pixel, d.a = 0, s.a > 0
  PROVE  Quad!Blend(d, s) = s
<1> DEFINE x == d.c  y == s.c  w == s.a  i == 255 - w
<1>1. /\ x \in 0..255 /\ y \in 0..255 /\ w \in 1..255 /\ i \in 0..255
  BY DEF Pixel
<1>2. s = [c |-> y, a |-> w]
  BY DEF Pixel
<1> HIDE DEF x, y, w, i
<1>3. (d.a * i + 127) \div 255 = 0 /\ (x * d.a * i) \div 255 = 0
  BY <1>1
<1>4. (y * w + w \div 2) \div w = y
  <2>1. w \div 2 \in Int /\ 0 <= w \div 2 /\ w \div 2 < w
    BY <1>1
  <2> QED BY <1>1, <2>1, DivExact
<1>5. y % 256 = y
  BY <1>1
<1>6. Quad!Blend(d, s) = [c |-> y, a |-> w]
  <2>1. w + 0 = w /\ w # 0 /\ y * w + 0 = y * w
    BY <1>1
  <2> QED BY <1>3, <1>4, <1>5, <2>1 DEF Quad!Blend, x, y, w, i
<1> QED BY <1>2, <1>6

LEMMA WithTransparent ==
  ASSUME NEW d \in Pixel, NEW s \in Pixel, d.a > 0, s.a = 0
  PROVE  Quad!Blend(d, s) = d
<1> DEFINE x == d.c  w == d.a
<1>1. x \in 0..255 /\ w \in 1..255 /\ s.c \in 0..255
  BY DEF Pixel
<1>2. d = [c |-> x, a |-> w]
  BY DEF Pixel
<1> HIDE DEF x, w
<1>3. (w * 255 + 127) \div 255 = w
  BY <1>1
<1>4. (x * w * 255) \div 255 = x * w
  <2>1. x * w * 255 = (x * w) * 255 + 0 /\ x * w \in Int
    BY <1>1
  <2> QED BY <2>1, DivExact
<1>5. (x * w + w \div 2) \div w = x
  <2>1. w \div 2 \in Int /\ 0 <= w \div 2 /\ w \div 2 < w
    BY <1>1
  <2> QED BY <1>1, <2>1, DivExact
<1>6. x % 256 = x
  BY <1>1
<1>7. Quad!Blend(d, s) = [c |-> x, a |-> w]
  <2>1. 255 - 0 = 255 /\ 0 + w = w /\ w # 0 /\ s.c * 0 = 0 /\ 0 + x * w = x * w
    BY <1>1
  <2> QED BY <1>3, <1>4, <1>5, <1>6, <2>1 DEF Quad!Blend, x, w
<1> QED BY <1>2, <1>7

(* What a quad is, and what its two triangles cover: the pixels in one of  *)
(* two triangles that lie side by side, whichever way the quad turns.      *)
LEMMA TwoTriangles ==
  ASSUME NEW p \in Quad!Pixels, quad \in [1..4 -> Points], Quad!Convex(quad)
  PROVE  /\ ~(p \in Quad!Covered(Quad!Triangle(1)) /\ p \in Quad!Covered(Quad!Triangle(2)))
         /\ Quad!Inside(p) => \/ p \in Quad!Covered(Quad!Triangle(1))
                             \/ p \in Quad!Covered(Quad!Triangle(2))
         /\ Quad!Beyond(p) => /\ p \notin Quad!Covered(Quad!Triangle(1))
                             /\ p \notin Quad!Covered(Quad!Triangle(2))
<1> DEFINE a == quad[1]  b == quad[2]  c == quad[3]  d == quad[4]
           q == Quad!Centre(p)
           ab == Quad!Edge(a, b, q)  bc == Quad!Edge(b, c, q)
           cd == Quad!Edge(c, d, q)  da == Quad!Edge(d, a, q)
<1>1. a \in Points /\ b \in Points /\ c \in Points /\ d \in Points /\ q \in Points
  BY CentreIsPoint
<1>2. /\ Quad!Triangle(1) = <<a, b, c>> /\ Quad!Triangle(2) = <<a, c, d>>
      /\ Quad!Sides(p) = {ab, bc, cd, da}
      /\ Quad!Corners(quad) = {Quad!Edge(a, b, c), Quad!Edge(b, c, d), Quad!Edge(c, d, a), Quad!Edge(d, a, b)}
  <2>1. 1..4 = {1, 2, 3, 4} /\ (1 % 4) + 1 = 2 /\ (2 % 4) + 1 = 3 /\ (3 % 4) + 1 = 4 /\ (4 % 4) + 1 = 1
        /\ ((1 + 1) % 4) + 1 = 3 /\ ((2 + 1) % 4) + 1 = 4 /\ ((3 + 1) % 4) + 1 = 1 /\ ((4 + 1) % 4) + 1 = 2
    OBVIOUS
  <2> QED BY <2>1 DEF Quad!Triangle, Quad!Sides, Quad!Corners
<1>3. ab \in Int /\ bc \in Int /\ cd \in Int /\ da \in Int
  BY <1>1, EdgeSum
<1>4. CASE \A e \in Quad!Corners(quad) : e > 0
  <2>1. Turns(a, b, c, d)
    BY <1>2, <1>4 DEF Turns
  <2>2. Quad!Edge(a, b, c) > 0 /\ Quad!Edge(a, c, d) > 0
    BY <1>1, <2>1 DEF Turns, Quad!Edge, Points
  <2>3. /\ p \in Quad!Covered(Quad!Triangle(1)) <=> In(a, b, c, q)
        /\ p \in Quad!Covered(Quad!Triangle(2)) <=> In(a, c, d, q)
    BY <1>1, <1>2, <2>2, CoveredIsIn
  <2>4. /\ ~(In(a, b, c, q) /\ In(a, c, d, q))
        /\ (\A e \in {ab, bc, cd, da} : e > 0) => In(a, b, c, q) \/ In(a, c, d, q)
        /\ In(a, b, c, q) \/ In(a, c, d, q) => \A e \in {ab, bc, cd, da} : e >= 0
        /\ ~(\A e \in {ab, bc, cd, da} : e < 0)
    BY <1>1, <2>1, Quadrangle
  <2> HIDE DEF a, b, c, d, q, ab, bc, cd, da
  <2> QED BY <1>2, <1>3, <2>3, <2>4 DEF Quad!Inside, Quad!Beyond
<1>5. CASE \A e \in Quad!Corners(quad) : e < 0
  <2>1. Turns(a, d, c, b)
    <3>1. /\ Quad!Edge(a, d, c) = -Quad!Edge(c, d, a) /\ Quad!Edge(d, c, b) = -Quad!Edge(b, c, d)
          /\ Quad!Edge(c, b, a) = -Quad!Edge(a, b, c) /\ Quad!Edge(b, a, d) = -Quad!Edge(d, a, b)
          /\ Quad!Edge(c, d, a) \in Int /\ Quad!Edge(b, c, d) \in Int
          /\ Quad!Edge(a, b, c) \in Int /\ Quad!Edge(d, a, b) \in Int
      BY <1>1 DEF Quad!Edge, Points
    <3>2. /\ Quad!Edge(c, d, a) < 0 /\ Quad!Edge(b, c, d) < 0
          /\ Quad!Edge(a, b, c) < 0 /\ Quad!Edge(d, a, b) < 0
      BY <1>2, <1>5
    <3> QED BY <3>1, <3>2 DEF Turns
  <2>2. Quad!Edge(a, d, c) > 0 /\ Quad!Edge(a, c, b) > 0
    BY <1>1, <2>1 DEF Turns, Quad!Edge, Points
  <2>3. /\ p \in Quad!Covered(Quad!Triangle(1)) <=> In(a, c, b, q)
        /\ p \in Quad!Covered(Quad!Triangle(2)) <=> In(a, d, c, q)
    BY <1>1, <1>2, <2>2, CoveredIsIn
  <2> DEFINE ad == Quad!Edge(a, d, q)  dc == Quad!Edge(d, c, q)
             cb == Quad!Edge(c, b, q)  ba == Quad!Edge(b, a, q)
  <2>4. /\ ~(In(a, d, c, q) /\ In(a, c, b, q))
        /\ (\A e \in {ad, dc, cb, ba} : e > 0) => In(a, d, c, q) \/ In(a, c, b, q)
        /\ In(a, d, c, q) \/ In(a, c, b, q) => \A e \in {ad, dc, cb, ba} : e >= 0
        /\ ~(\A e \in {ad, dc, cb, ba} : e < 0)
    BY <1>1, <2>1, Quadrangle
  <2>5. ad = -da /\ dc = -cd /\ cb = -bc /\ ba = -ab
    BY <1>1, EdgeSum
  <2> HIDE DEF a, b, c, d, q, ab, bc, cd, da, ad, dc, cb, ba
  <2> QED BY <1>2, <1>3, <2>3, <2>4, <2>5 DEF Quad!Inside, Quad!Beyond
<1> QED BY <1>4, <1>5 DEF Quad!Convex

(* Every pixel inside is in the box that a solid quad fills.               *)
LEMMA InsideIsInBox ==
  ASSUME NEW p \in Quad!Pixels, quad \in [1..4 -> Points], Quad!Convex(quad), Quad!Inside(p)
  PROVE  p \in Quad!Box({quad[i] : i \in 1..4})
<1> DEFINE a == quad[1]  b == quad[2]  c == quad[3]  d == quad[4]
           q == Quad!Centre(p)
           S == {a, b, c, d}
<1>1. a \in Points /\ b \in Points /\ c \in Points /\ d \in Points /\ q \in Points
  BY CentreIsPoint
<1>2. {quad[i] : i \in 1..4} = S
  <2>1. 1..4 = {1, 2, 3, 4}
    OBVIOUS
  <2> QED BY <2>1
<1>3. /\ Quad!Triangle(1) = <<a, b, c>> /\ Quad!Triangle(2) = <<a, c, d>>
  BY DEF Quad!Triangle
<1> SUFFICES \A i \in {1, 2} : (\E v \in S : v[i] <= q[i]) /\ (\E v \in S : q[i] <= v[i])
  BY <1>1, <1>2, InBox
<1>4. ASSUME NEW x \in S, NEW y \in S, NEW z \in S, Quad!Edge(x, y, z) > 0, In(x, y, z, q)
      PROVE  \A i \in {1, 2} : (\E v \in S : v[i] <= q[i]) /\ (\E v \in S : q[i] <= v[i])
  <2>1. x \in Points /\ y \in Points /\ z \in Points
    BY <1>1
  <2> HIDE DEF S, q
  <2>2. \A i \in {1, 2} : (\E v \in {x, y, z} : v[i] <= q[i]) /\ (\E v \in {x, y, z} : q[i] <= v[i])
    BY <1>1, <1>4, <2>1, Around
  <2>3. \A v \in {x, y, z} : v \in S
    OBVIOUS
  <2> QED BY <2>2, <2>3, Zenon
<1>5. ASSUME NEW x \in S, NEW y \in S, NEW z \in S, p \in Quad!Covered(<<x, y, z>>)
      PROVE  \A i \in {1, 2} : (\E v \in S : v[i] <= q[i]) /\ (\E v \in S : q[i] <= v[i])
  <2>1. x \in Points /\ y \in Points /\ z \in Points
    BY <1>1
  <2> DEFINE o == Quad!Oriented(<<x, y, z>>)
  <2>2. Quad!Edge(o[1], o[2], o[3]) # 0 /\ In(o[1], o[2], o[3], q)
    BY <1>5 DEF Quad!Covered, In
  <2>3. Quad!Edge(x, y, z) \in Int /\ Quad!Edge(x, z, y) = -Quad!Edge(x, y, z)
    BY <2>1 DEF Quad!Edge, Points
  <2>4. CASE Quad!Edge(x, y, z) < 0
    <3>1. o[1] = x /\ o[2] = z /\ o[3] = y
      BY <2>4 DEF Quad!Oriented
    <3>2. Quad!Edge(x, z, y) > 0
      BY <2>3, <2>4
    <3> HIDE DEF S, o
    <3> QED BY <1>4, <2>2, <3>1, <3>2
  <2>5. CASE ~(Quad!Edge(x, y, z) < 0)
    <3>1. o[1] = x /\ o[2] = y /\ o[3] = z
      BY <2>5 DEF Quad!Oriented
    <3>2. Quad!Edge(x, y, z) > 0
      <4> HIDE DEF o
      <4> QED BY <2>2, <2>3, <2>5, <3>1
    <3> HIDE DEF S, o
    <3> QED BY <1>4, <2>2, <3>1, <3>2
  <2> QED BY <2>4, <2>5
<1>6. p \in Quad!Covered(<<a, b, c>>) \/ p \in Quad!Covered(<<a, c, d>>)
  BY <1>3, TwoTriangles
<1> QED BY <1>5, <1>6

First  == Quad!Covered(Quad!Triangle(1))
Second == Quad!Covered(Quad!Triangle(2))
Solid  == IF src.a = 0 THEN {} ELSE Quad!Box({quad[i] : i \in 1..4})

(* The framebuffer with the quad blended into the pixels ps and no other.  *)
Once(ps) == [p \in Quad!Pixels |-> IF p \in ps THEN Quad!Blend(ground, src) ELSE ground]

RasterInv ==
  /\ quad \in Quads /\ src \in Pixel /\ ground \in Pixel /\ kind \in {"textured", "solid"}
  /\ \/ todo = {1, 2} /\ fb = Once({})
     \/ todo = {2} /\ kind = "textured" /\ fb = Once(First)
     \/ todo = {} /\ kind = "textured" /\ fb = Once(First \cup Second)
     \/ todo = {} /\ kind = "solid" /\ fb = Once(Solid)

LEMMA RasterInit == Quad!Init => RasterInv
BY RasterAssumption DEF Quad!Init, RasterInv, Once, Pixel

(* Blending into pixels that are still as they were.                       *)
LEMMA PaintedOnce ==
  ASSUME NEW ps, NEW qs, fb = Once(ps), \A p \in Quad!Pixels : ~(p \in ps /\ p \in qs)
  PROVE  Quad!Painted(qs) = Once(ps \cup qs)
<1> SUFFICES ASSUME NEW p \in Quad!Pixels
             PROVE  (IF p \in qs THEN Quad!Blend(fb[p], src) ELSE fb[p])
                      = IF p \in ps \cup qs THEN Quad!Blend(ground, src) ELSE ground
  BY DEF Quad!Painted, Once
<1>1. fb[p] = IF p \in ps THEN Quad!Blend(ground, src) ELSE ground
  BY DEF Once
<1> QED BY <1>1

LEMMA RasterNext == RasterInv /\ [Quad!Next]_Quad!rasterVars => RasterInv'
<1> SUFFICES ASSUME RasterInv, [Quad!Next]_Quad!rasterVars PROVE RasterInv'
  OBVIOUS
<1>1. quad \in [1..4 -> Points] /\ Quad!Convex(quad)
  BY RasterAssumption DEF RasterInv, Points
<1>2. ASSUME UNCHANGED <<quad, src, ground>>
      PROVE  First' = First /\ Second' = Second /\ Solid' = Solid /\ \A ps : Once(ps)' = Once(ps)
  BY <1>2 DEF First, Second, Solid, Once, Quad!Triangle
<1>3. ASSUME NEW i \in todo, Quad!DrawTriangle(i) PROVE RasterInv'
  <2>1. UNCHANGED <<quad, src, ground, kind>> /\ kind = "textured"
    BY <1>3 DEF Quad!DrawTriangle
  <2>2. First' = First /\ Second' = Second /\ Solid' = Solid /\ \A ps : Once(ps)' = Once(ps)
    BY <1>2, <2>1
  <2>3. CASE todo = {1, 2} /\ fb = Once({})
    <3>1. Quad!Least({1, 2}) = 1
      BY DEF Quad!Least
    <3>2. i = 1 /\ todo' = {2} /\ fb' = Quad!Painted(First)
      BY <1>3, <2>3, <3>1 DEF Quad!DrawTriangle, First
    <3>3. fb' = Once({} \cup First)
      BY <2>3, <3>2, PaintedOnce
    <3>4. {} \cup First = First
      OBVIOUS
    <3>5. fb' = Once(First)
      BY <3>3, <3>4
    <3> QED BY <2>1, <2>2, <3>2, <3>5 DEF RasterInv
  <2>4. CASE todo = {2} /\ fb = Once(First)
    <3>1. Quad!Least({2}) = 2
      BY DEF Quad!Least
    <3>2. i = 2 /\ todo' = {} /\ fb' = Quad!Painted(Second)
      BY <1>3, <2>4, <3>1 DEF Quad!DrawTriangle, Second
    <3>3. fb' = Once(First \cup Second)
      BY <1>1, <2>4, <3>2, PaintedOnce, TwoTriangles DEF First, Second
    <3> QED BY <2>1, <2>2, <3>2, <3>3 DEF RasterInv
  <2> QED BY <1>3, <2>1, <2>3, <2>4 DEF RasterInv
<1>4. CASE Quad!DrawSolid
  <2>1. /\ kind = "solid" /\ todo # {} /\ todo' = {}
        /\ UNCHANGED <<quad, src, ground, kind>>
    BY <1>4 DEF Quad!DrawSolid
  <2>2. First' = First /\ Second' = Second /\ Solid' = Solid /\ \A ps : Once(ps)' = Once(ps)
    BY <1>2, <2>1
  <2>3. fb = Once({})
    BY <2>1 DEF RasterInv
  <2>4. fb' = Once(Solid)
    <3>1. CASE src.a = 0
      BY <1>4, <2>3, <3>1 DEF Quad!DrawSolid, Solid
    <3>2. CASE src.a # 0
      <4>1. fb' = Quad!Painted(Solid)
        BY <1>4, <3>2 DEF Quad!DrawSolid, Solid
      <4>2. fb' = Once({} \cup Solid)
        BY <2>3, <4>1, PaintedOnce
      <4>3. {} \cup Solid = Solid
        OBVIOUS
      <4> QED BY <4>2, <4>3
    <3> QED BY <3>1, <3>2
  <2> QED BY <2>1, <2>2, <2>4 DEF RasterInv
<1>5. CASE UNCHANGED Quad!rasterVars
  <2>1. First' = First /\ Second' = Second /\ Solid' = Solid /\ \A ps : Once(ps)' = Once(ps)
    BY <1>2, <1>5 DEF Quad!rasterVars
  <2> QED BY <1>5, <2>1 DEF RasterInv, Quad!rasterVars
<1> QED BY <1>3, <1>4, <1>5 DEF Quad!Next

(* A convex quad is blended into each of its pixels once, and as a blend   *)
(* should be (rasterize_quad_tinted, rasterize_solid_quad, blend_src_over):*)
(* any corners, colours and screen.                                        *)
THEOREM QuadsAreBlendedOnce == Quad!Spec => []QuadBlendedOnce
<1>1. ASSUME RasterInv PROVE QuadBlendedOnce
  <2> DEFINE once == Quad!Blend(ground, src)
  <2> SUFFICES ASSUME todo = {} PROVE QuadBlendedOnce
    BY DEF QuadBlendedOnce, Quad!QuadBlendedOnce
  <2>1. quad \in [1..4 -> Points] /\ Quad!Convex(quad) /\ src \in Pixel /\ ground \in Pixel
    BY <1>1, RasterAssumption DEF RasterInv, Points
  <2>2. /\ ground.a = 255 => once.a = 255 /\ Quad!Between(once.c, src.c, ground.c)
        /\ ground.a = 0 /\ src.a > 0 => once = src
        /\ ground.a > 0 /\ src.a = 0 => once = ground
    BY <2>1, OnOpaque, OnTransparent, WithTransparent
  <2>3. ASSUME NEW p \in Quad!Pixels
        PROVE  /\ fb[p] \in {ground, once}
               /\ Quad!Inside(p) /\ (kind = "textured" \/ src.a > 0) => fb[p] = once
               /\ Quad!Beyond(p) /\ kind = "textured" => fb[p] = ground
    <3>1. CASE kind = "textured"
      <4>1. fb = Once(First \cup Second)
        BY <1>1, <3>1 DEF RasterInv
      <4>2. /\ Quad!Inside(p) => p \in First \cup Second
            /\ Quad!Beyond(p) => p \notin First \cup Second
        BY <2>1, TwoTriangles DEF First, Second
      <4> QED BY <4>1, <4>2 DEF Once
    <3>2. CASE kind = "solid"
      <4>1. fb = Once(Solid)
        BY <1>1, <3>2 DEF RasterInv
      <4>2. Quad!Inside(p) /\ src.a > 0 => p \in Solid
        BY <2>1, InsideIsInBox DEF Solid
      <4> QED BY <3>2, <4>1, <4>2 DEF Once
    <3> QED BY <1>1, <3>1, <3>2 DEF RasterInv
  <2> QED BY <2>2, <2>3 DEF QuadBlendedOnce, Quad!QuadBlendedOnce
<1> QED BY RasterInit, RasterNext, <1>1, PTL DEF Quad!Spec

-------------------------------------------------------------------------------
(* The board                                                               *)

(* A step of the board is a step of one part, and no step of the others.   *)
LEMMA PartsStep == [BoardNext]_boardVars => /\ [Next]_vars
                                            /\ [Opto!Next]_Opto!optoVars
                                            /\ [Pcf!Next]_Pcf!pmuVars
                                            /\ [Display!Next]_Display!lcdVars
                                            /\ [Desktop!Next]_Desktop!dbgVars
                                            /\ [Quad!Next]_Quad!rasterVars
<1> SUFFICES ASSUME [BoardNext]_boardVars
             PROVE  /\ [Next]_vars /\ [Opto!Next]_Opto!optoVars
                    /\ [Pcf!Next]_Pcf!pmuVars /\ [Display!Next]_Display!lcdVars
                    /\ [Desktop!Next]_Desktop!dbgVars /\ [Quad!Next]_Quad!rasterVars
  OBVIOUS
<1>1. /\ UNCHANGED optoVars => UNCHANGED Opto!optoVars
      /\ UNCHANGED pmuVars => UNCHANGED Pcf!pmuVars
      /\ UNCHANGED lcdVars => UNCHANGED Display!lcdVars
      /\ UNCHANGED dbgVars => UNCHANGED Desktop!dbgVars
      /\ UNCHANGED rasterVars => UNCHANGED Quad!rasterVars
  BY DEF optoVars, Opto!optoVars, Opto!uiVars, Opto!guestVars, pmuVars, Pcf!pmuVars,
         lcdVars, Display!lcdVars,
         dbgVars, Desktop!dbgVars, Desktop!sysVars, Desktop!pointVars, Desktop!uiVars,
         rasterVars, Quad!rasterVars
<1>2. CASE GpioStep
  BY <1>1, <1>2 DEF GpioStep
<1>3. CASE OptoStep
  BY <1>1, <1>3 DEF OptoStep
<1>4. CASE PmuStep
  BY <1>1, <1>4 DEF PmuStep
<1>5. CASE LcdStep
  BY <1>1, <1>5 DEF LcdStep
<1>6. CASE DebuggerStep
  BY <1>1, <1>6 DEF DebuggerStep
<1>7. CASE RasterStep
  BY <1>1, <1>7 DEF RasterStep
<1>8. CASE UNCHANGED boardVars
  BY <1>1, <1>8 DEF boardVars
<1> QED BY <1>2, <1>3, <1>4, <1>5, <1>6, <1>7, <1>8 DEF BoardNext

(* The board implements each of its parts: none sees the others.           *)
THEOREM BoardIsItsParts ==
  BoardSpec => /\ Init /\ [][Next]_vars
               /\ Opto!Spec /\ Pcf!Spec /\ Display!Spec /\ Desktop!Spec /\ Quad!Spec
<1>1. BoardInit => Init /\ Opto!Init /\ Pcf!Init /\ Display!Init /\ Desktop!Init /\ Quad!Init
  BY DEF BoardInit
<1> QED BY <1>1, PartsStep, PTL
           DEF BoardSpec, Opto!Spec, Pcf!Spec, Display!Spec, Desktop!Spec, Quad!Spec

(* So the promises of the parts are kept on the board, whatever the other  *)
(* parts do in between.                                                    *)
THEOREM BoardKeepsPromises ==
  BoardSpec => []/\ StaleInputIsOwed
                 /\ KeysAreTold /\ WheelIsTold
                 /\ PmuFollowsTransactions /\ CellsInOrder /\ IrqsComeBack /\ QuadBlendedOnce
<1>1. Init => GpioInv
  BY DEF Init, GpioInv, TypeOK, StaleInputIsOwed
<1>2. GpioInv /\ [Next]_vars => GpioInv'
  BY GpioNext
<1>3. GpioInv => StaleInputIsOwed
  BY DEF GpioInv
<1> QED BY <1>1, <1>2, <1>3, BoardIsItsParts, InputIsTold, ChipFollowsTransactions,
           CellsAreInOrder, InterruptsComeBack, QuadsAreBlendedOnce, PTL
===============================================================================
