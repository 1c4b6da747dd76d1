-------------------------------- MODULE MCEapp --------------------------------
(* Four games for EappRuntime in one run, chosen in the initial state: one *)
(* reads files through request objects, one opens files, one allocates, one*)
(* polls the buttons.  A game that did all of it would only multiply their *)
(* states: the theorems are about that one.                                *)
EXTENDS EappRuntime

TwoReqs == {"r1", "r2"}
TwoFiles == {"f1", "f2"}
TwoPaths == {"p1", "p2"}
SmallSizes == {1, 3, 16}
SmallBoot == <<2, 1>>
ThreeButtons == {"up", "down", "menu"}
ButtonIds == [b \in ThreeButtons |-> IF b = "menu" THEN 1 ELSE 5]

VARIABLE game

MCInit == Init /\ game \in {"requests", "opens", "allocates", "plays"}

MCRequests == /\ game = "requests"
              /\ ReadRequest \/ ListDirectory \/ OpenStream \/ CompleteOwner \/ Fault
              /\ UNCHANGED game
MCOpens == game = "opens" /\ (OpenFile \/ FilesystemOpen) /\ UNCHANGED game
MCAllocates == game = "allocates" /\ (Allocate \/ Draw) /\ UNCHANGED game
MCKey == game = "plays" /\ Key /\ UNCHANGED game
MCReturn == Return /\ UNCHANGED game
MCPoll == game = "plays" /\ Poll /\ UNCHANGED game

MCNext == MCRequests \/ MCOpens \/ MCAllocates \/ MCKey \/ MCReturn \/ MCPoll

MCSpec == /\ MCInit /\ [][MCNext]_<<vars, game>>
          /\ WF_<<vars, game>>(MCReturn) /\ WF_<<vars, game>>(MCPoll)
===============================================================================
