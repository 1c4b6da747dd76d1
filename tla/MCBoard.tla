-------------------------------- MODULE MCBoard --------------------------------
(***************************************************************************)
(* A small instance of Board.  The parts share no state, so a behaviour is *)
(* of the one part that `which` names, and the others rest.                *)
(***************************************************************************)
EXTENDS Board

CONSTANT Parts

VARIABLE which

allVars == <<which, boardVars>>

(* A pair of lines on the first and the last port.                         *)
PairLines  == {"first", "last"}
PairPortOf == [l \in PairLines |-> IF l = "first" THEN "A" ELSE "D"]

(* One key; scrolls of a notch, one way or the other.                      *)
OneKey  == {"action"}
Notches == {-1, 1}

(* MBCC1, which is not implemented, and MBCC2 above it, which is kept.     *)
TwoRegisters == {41, 42}
OneOrTwo     == {0, 1}
Near         == {0, 1, 41, 42, 43, 44}

(* The commands that change something, one of the others, and two that are *)
(* none; data that set every direction, and the address of a first cell, of*)
(* the last one of a row and of the one after it, which is invalid.        *)
Settings == {0, 5, 15, 17, 18, 19}
Turnover == {0, 4, 12, 16, 20, 21}

(* A square, a wider one half off the screen, a diamond and a trapezoid,   *)
(* in half pixels, in either direction of turn.                            *)
Shapes == {<< <<0, 0>>, <<0, 6>>, <<6, 6>>, <<6, 0>> >>,
           << <<-2, -2>>, <<10, -2>>, <<10, 4>>, <<-2, 4>> >>,
           << <<3, -1>>, <<7, 3>>, <<3, 7>>, <<-1, 3>> >>,
           << <<1, 1>>, <<3, 7>>, <<7, 7>>, <<7, 1>> >>}
Turns  == Shapes \cup {[i \in 1..4 |-> q[5 - i]] : q \in Shapes}
                 \cup {[i \in 1..4 |-> q[(i % 4) + 1]] : q \in Shapes}
Colours == [c : {0, 200, 255}, a : {0, 1, 128, 255}]
Cleared == {[c |-> 0, a |-> 0], [c |-> 100, a |-> 0], [c |-> 255, a |-> 255], [c |-> 100, a |-> 255]}

(* Of the parts at rest one state is enough.                               *)
MCInit == /\ which \in Parts
          /\ which # "raster" => /\ quad = CHOOSE q \in Quads : TRUE
                                 /\ src = CHOOSE s \in Sources : TRUE
                                 /\ ground = CHOOSE g \in Grounds : TRUE
                                 /\ kind = "solid"
          /\ which # "desktop" => gdb = None
          /\ BoardInit

MCNext == /\ UNCHANGED which
          /\ \/ which = "gpio"    /\ GpioStep
             \/ which = "opto"    /\ OptoStep
             \/ which = "pmu"     /\ PmuStep
             \/ which = "lcd"     /\ LcdStep
             \/ which = "desktop" /\ DebuggerStep
             \/ which = "raster"  /\ RasterStep

(* The fairness of Gpio, for the behaviours that are its own.              *)
Own(A) == which = "gpio" /\ A /\ UNCHANGED which
            /\ UNCHANGED <<optoVars, pmuVars, lcdVars, dbgVars, rasterVars>>

MCSpec == /\ MCInit /\ [][MCNext]_allVars
          /\ \A l \in Lines : WF_allVars(Own(Notify(l)))
          /\ WF_allVars(Own(CheckChanged))
          /\ WF_allVars(Own(UpdateBlock))
================================================================================
