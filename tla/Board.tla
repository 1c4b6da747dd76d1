--------------------------------- MODULE Board --------------------------------
(***************************************************************************)
(* The parts around the cores that share no state with each other: the     *)
(* GPIO block, the click wheel, the PMU behind the I2C bus, the display,   *)
(* the rasterizer and the desktop program with its debugger.  Each is a    *)
(* module of its own; here they run side by side, a step of one at a time. *)
(***************************************************************************)
EXTENDS Gpio

CONSTANTS
  None,                                          \* Option::None
  Keys, Scrolls, MaxScrolls,                     \* of OptoWheel
  Bytes, Lens, BusAddrs, MaxAccesses, Window,    \* of Pmu
  HighBytes, CommandBytes, DataBytes, CgramHeight, BelowZero,   \* of Lcd
  PointAddrs, MaxPoints,                         \* of Debugger
  Width, Height, Quads, Sources, Grounds         \* of Raster

VARIABLES
  pressed, active, wheel, ui, changed, keypadIrq, fatal, reading,
  seen, acked, previous, scrolls,
  cfg, busy, data, chip, accesses, exception, stopped, meant, cursor,
  writeLatch, readLatched, ir, up, am, ac, place, lcdStopped,
  gdb, thread, connected, resume, stop, singleStepIrq, skipIrqCheck, frozen,
  breakpoints, watchpoints, watchKinds, channel, window, aborted,
  quad, src, ground, kind, fb, todo

Opto    == INSTANCE OptoWheel
Pcf     == INSTANCE Pmu WITH Addrs <- BusAddrs
Display == INSTANCE Lcd
Desktop == INSTANCE Debugger WITH Addrs <- PointAddrs
Quad    == INSTANCE Raster

(* None is none of the values it stands beside; what the guest writes are  *)
(* bytes; the quads drawn are convex, and their corners in order.          *)
ASSUME NoneIsNothing == None \notin Int /\ None \notin {"step", "continue"}

ASSUME PmuAssumption == Bytes \subseteq 0..255 /\ Lens \subseteq 0..3

ASSUME LcdAssumption == /\ HighBytes \cup DataBytes \subseteq 0..255
                        /\ CgramHeight \in Nat \ {0} /\ BelowZero \in 0 .. 32 * CgramHeight - 1

ASSUME RasterAssumption == /\ \A q \in Quads : q \in [1..4 -> Int \X Int] /\ Quad!Convex(q)
                           /\ Sources \subseteq [c : 0..255, a : 0..255]
                           /\ Grounds \subseteq [c : 0..255, a : 0..255]

optoVars   == <<pressed, active, wheel, ui, changed, keypadIrq, fatal, reading,
                seen, acked, previous, scrolls>>
pmuVars    == <<cfg, busy, data, chip, accesses, exception, stopped, meant, cursor>>
lcdVars    == <<writeLatch, readLatched, ir, up, am, ac, place, lcdStopped>>
dbgVars    == <<gdb, thread, connected, resume, stop, singleStepIrq, skipIrqCheck,
                frozen, breakpoints, watchpoints, watchKinds, channel, window, aborted>>
rasterVars == <<quad, src, ground, kind, fb, todo>>
boardVars  == <<vars, optoVars, pmuVars, lcdVars, dbgVars, rasterVars>>

BoardInit == Init /\ Opto!Init /\ Pcf!Init /\ Display!Init /\ Desktop!Init /\ Quad!Init

(* A step of one part leaves the others as they are.                       *)
GpioStep     == Next /\ UNCHANGED <<optoVars, pmuVars, lcdVars, dbgVars, rasterVars>>
OptoStep     == Opto!Next /\ UNCHANGED <<vars, pmuVars, lcdVars, dbgVars, rasterVars>>
PmuStep      == Pcf!Next /\ UNCHANGED <<vars, optoVars, lcdVars, dbgVars, rasterVars>>
LcdStep      == Display!Next /\ UNCHANGED <<vars, optoVars, pmuVars, dbgVars, rasterVars>>
DebuggerStep == Desktop!Next /\ UNCHANGED <<vars, optoVars, pmuVars, lcdVars, rasterVars>>
RasterStep   == Quad!Next /\ UNCHANGED <<vars, optoVars, pmuVars, lcdVars, dbgVars>>

BoardNext == GpioStep \/ OptoStep \/ PmuStep \/ LcdStep \/ DebuggerStep \/ RasterStep

BoardSpec == BoardInit /\ [][BoardNext]_boardVars

-------------------------------------------------------------------------------
(* The properties of the parts; each is stated in its own module.          *)
KeysAreTold            == Opto!KeysAreTold
WheelIsTold            == Opto!WheelIsTold
PmuFollowsTransactions == Pcf!PmuFollowsTransactions
CellsInOrder           == Display!CellsInOrder
IrqsComeBack           == Desktop!IrqsComeBack
QuadBlendedOnce        == Quad!QuadBlendedOnce
===============================================================================
