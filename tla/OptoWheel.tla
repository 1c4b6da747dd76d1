------------------------------- MODULE OptoWheel -------------------------------
(***************************************************************************)
(* The click wheel and the keypad of the iPod 4G: the opto block           *)
(* (devices/platform/pp/opto.rs) on the emulator's thread, and the         *)
(* callbacks of sys/ipod4g/controls.rs on the UI's thread.  They share the *)
(* signal lines of the keys, the wheel's position behind a mutex, and the  *)
(* Edge trigger i2c_changed, which Ipod4g::step polls to interrupt the     *)
(* guest.  The guest learns of a key or of the wheel by reading 0x40.      *)
(*                                                                         *)
(* A line of a key is driven by one thread (see Signal), so a change of it *)
(* is two steps: the level, then the trigger.  The status register 0x04,   *)
(* which only the guest writes and reads, is left out, and so are the      *)
(* bits of the hold line in 0x40: that line belongs to Gpio.               *)
(***************************************************************************)
EXTENDS Integers

CONSTANTS
  Keys,     \* the keys with a line of their own: action, up, down, left, right
  Scrolls,  \* dy of one scroll event, as a whole number of notches
  MaxScrolls   \* bound: scroll events of a behaviour

Clicks == 96    \* wheelclicks of a full rotation

VARIABLES
  pressed,   \* the keys whose line is asserted
  active,    \* the level of the wheel's line, which only carries edges
  wheel,     \* the position behind the mutex
  ui,        \* what a callback of the UI thread has still to do
  changed,   \* i2c_changed
  keypadIrq, \* the interrupt line of the block
  fatal,     \* an access of the guest ended run()
  reading,   \* a read of 0x40 has taken the keys, not yet the wheel
  seen,      \* what the guest's last read of 0x40 returned
  acked,     \* the guest cleared the interrupt after that read
  previous,  \* the position before the last move
  scrolls    \* scroll events so far

uiVars    == <<pressed, active, wheel, ui, previous, scrolls>>
guestVars == <<keypadIrq, fatal, reading, seen, acked>>
optoVars  == <<uiVars, changed, guestVars>>

Idle == [does |-> "nothing"]

(* Controls::new_tx_rx and OptoWheel::new.                                 *)
Init == /\ pressed = {} /\ active = FALSE
        /\ wheel = 0 /\ previous = 0 /\ scrolls = 0
        /\ ui = Idle
        /\ changed = FALSE /\ keypadIrq = FALSE /\ fatal = FALSE
        /\ seen = [keys |-> {}, wheel |-> 0]
        /\ reading = FALSE /\ acked = FALSE

-------------------------------------------------------------------------------
(* The UI thread                                                           *)

(* A key callback: assert() or clear().  Asserting an asserted line (a key *)
(* repeat) or clearing a clear one returns early and notifies nobody.      *)
MoveKey(k, down) == /\ ui = Idle
                    /\ down # (k \in pressed)
                    /\ pressed' = IF down THEN pressed \cup {k} ELSE pressed \ {k}
                    /\ ui' = [does |-> "notify"]
                    /\ UNCHANGED <<active, wheel, previous, scrolls>>
                    /\ UNCHANGED <<changed, guestVars>>

(* Mutant: the callback asserts the line and never clears it, so that only *)
(* the first scroll is an edge.                                            *)
ScrollOneWay(dy) == /\ ui = Idle
                    /\ scrolls < MaxScrolls
                    /\ scrolls' = scrolls + 1
                    /\ active' = TRUE
                    /\ ui' = [does |-> IF active THEN "move" ELSE "notify and move", dy |-> dy]
                    /\ UNCHANGED <<pressed, wheel, previous>>
                    /\ UNCHANGED <<changed, guestVars>>

(* The scroll callback makes an edge of the wheel's line, whichever way ... *)
Scroll(dy) == /\ ui = Idle
              /\ scrolls < MaxScrolls
              /\ scrolls' = scrolls + 1
              /\ active' = ~active
              /\ ui' = [does |-> "notify and move", dy |-> dy]
              /\ UNCHANGED <<pressed, wheel, previous>>
              /\ UNCHANGED <<changed, guestVars>>

(* Mutant: the trigger is left alone, as a Trigger of the wrong kind does. *)
NotifyNobody == /\ ui.does \in {"notify", "notify and move"}
                /\ ui' = IF ui.does = "notify" THEN Idle ELSE [ui EXCEPT !.does = "move"]
                /\ UNCHANGED <<pressed, active, wheel, previous, scrolls>>
                /\ UNCHANGED <<changed, guestVars>>

Notify == /\ ui.does \in {"notify", "notify and move"}
          /\ changed' = TRUE
          /\ ui' = IF ui.does = "notify" THEN Idle ELSE [ui EXCEPT !.does = "move"]
          /\ UNCHANGED <<pressed, active, wheel, previous, scrolls>>
          /\ UNCHANGED guestVars

(* ... and only then moves it: (-dy * 2.) as i8 as u8, added modulo 2^8 to  *)
(* the position, and the remainder of that by 96.                          *)
Turned(w, dy) == ((w + ((-2 * dy) % 256)) % 256) % Clicks

MoveWheel == /\ ui.does = "move"
             /\ wheel' = Turned(wheel, ui.dy)
             /\ previous' = wheel
             /\ ui' = Idle
             /\ UNCHANGED <<pressed, active, scrolls>>
             /\ UNCHANGED <<changed, guestVars>>

-------------------------------------------------------------------------------
(* The emulator's thread                                                   *)

Running == ~fatal /\ ~reading

(* step(): i2c_changed.check_and_clear and OptoWheel::on_change.           *)
OnChange == /\ Running
            /\ changed
            /\ changed' = FALSE
            /\ keypadIrq' = TRUE
            /\ UNCHANGED <<uiVars, fatal, reading, seen, acked>>

(* r32(0x40): first the lines of the keys, then the position under its     *)
(* mutex; callbacks of the UI run in between.                              *)
ReadKeys == /\ Running
            /\ reading' = TRUE
            /\ seen' = [seen EXCEPT !.keys = pressed]
            /\ UNCHANGED <<uiVars, changed, keypadIrq, fatal, acked>>

ReadWheel == /\ reading
             /\ reading' = FALSE
             /\ seen' = [seen EXCEPT !.wheel = wheel]
             /\ acked' = FALSE
             /\ UNCHANGED <<uiVars, changed, keypadIrq, fatal>>

(* w32(0x00) and w32(0x40): whatever is written, the interrupt is cleared. *)
Acknowledge == /\ Running
               /\ keypadIrq' = FALSE
               /\ acked' = TRUE
               /\ UNCHANGED <<uiVars, changed, fatal, reading, seen>>

(* r32 of 0x20 and 0x24 is not implemented.                                *)
ReadUnknown == /\ Running
               /\ fatal' = TRUE
               /\ UNCHANGED <<uiVars, changed, keypadIrq, reading, seen, acked>>

Next == \/ \E k \in Keys, down \in BOOLEAN : MoveKey(k, down)
        \/ \E dy \in Scrolls : Scroll(dy)
        \/ Notify \/ MoveWheel
        \/ OnChange \/ ReadKeys \/ ReadWheel \/ Acknowledge \/ ReadUnknown

Spec == Init /\ [][Next]_optoVars

-------------------------------------------------------------------------------
(* An interrupt is raised or on its way.                                   *)
Owed == keypadIrq \/ changed \/ ui.does \in {"notify", "notify and move"}

(* A guest that acknowledges before it reads is told of every key: when    *)
(* what it read is no longer so, an interrupt is raised or on its way.     *)
KeysAreTold == ~acked /\ seen.keys # pressed => Owed

(* The wheel's line is edged before the wheel moves, so an interrupt can   *)
(* find the old position; but the guest is never more than the last move   *)
(* behind without an interrupt that will tell it.                          *)
WheelIsTold == ~acked /\ ~Owed => seen.wheel \in {wheel, previous}
===============================================================================
