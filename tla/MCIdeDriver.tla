------------------------------ MODULE MCIdeDriver -----------------------------
(***************************************************************************)
(* A driver that moves up to three sectors of four bytes, and the handler  *)
(* orders that acknowledge and read Status before they touch the data.     *)
(***************************************************************************)
EXTENDS IdeDriver

OneCore == {"cpu"}
None == {}
DriverValues == [r \in Regs |-> CASE r = "sector_count" -> {1, 2, 3}
                                  [] r = "head"         -> {0}
                                  [] OTHER              -> {}]
DriverCommands == {"ReadSectors", "WriteSectors"}
DataLast  == {<<"ack", "status", "data">>, <<"status", "ack", "data">>}
AckLast   == {<<"status", "data", "ack">>}
===============================================================================
