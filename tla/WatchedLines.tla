----------------------------- MODULE WatchedLines -----------------------------
(***************************************************************************)
(* What clicky's signal lines promise their consumer, with no word on how. *)
(*                                                                         *)
(* A line is high or low.  A consumer (the emulator's step loop) keeps the *)
(* level it last read from each line.  Whenever that level is out of date  *)
(* the consumer is owed a notification, and it stays owed until the        *)
(* consumer has read the line.                                             *)
(***************************************************************************)
CONSTANT Lines

VARIABLES
  level,   \* the level of each line
  seen,    \* the level the consumer last read from each line
  owed     \* the lines the consumer has been, or is about to be, told to read

wvars == <<level, seen, owed>>

WInit == /\ level = [l \in Lines |-> FALSE]
         /\ seen  = [l \in Lines |-> FALSE]
         /\ owed  = {}

(* A producer changes the level of a line: the consumer is owed a look.    *)
Change(l) == /\ level' = [level EXCEPT ![l] = ~level[l]]
             /\ owed'  = owed \cup {l}
             /\ UNCHANGED seen

(* A notification that announces no new change; lines share triggers, so   *)
(* one change may be announced for every line.                             *)
Remind == /\ owed \subseteq owed'
          /\ owed' \subseteq Lines
          /\ UNCHANGED <<level, seen>>

(* The consumer reads a line it has been told about.                       *)
Learn(l) == /\ l \in owed
            /\ seen' = [seen EXCEPT ![l] = level[l]]
            /\ owed' \in {owed, owed \ {l}}
            /\ UNCHANGED level

WNext == \/ \E l \in Lines : Change(l) \/ Learn(l)
         \/ Remind

WSpec == WInit /\ [][WNext]_wvars

(* The promise: a stale reading is never left without a notification.      *)
StaleIsOwed == \A l \in Lines : seen[l] # level[l] => l \in owed
===============================================================================
