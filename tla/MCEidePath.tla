------------------------------ MODULE MCEidePath ------------------------------
(***************************************************************************)
(* Small instances of EidePath: sectors of two or four bytes, a device of  *)
(* two or three blocks, and one Sector Count that is a mode byte for DMA.  *)
(***************************************************************************)
EXTENDS EidePath

OneCore  == {"cpu"}
TwoCores == {"cpu", "cop"}

SmallDmaModes == {1}
ZeroLength    == {0}

(* The bytes the guest writes; only LBA addresses of the first two blocks. *)
SmallValues == [r \in Regs |-> CASE r = "feature"      -> {1, 3}
                                 [] r = "sector_count" -> {1, 2}
                                 [] r = "sector_no"    -> {0, 2}
                                 [] OTHER              -> {0}]
AllValues == [SmallValues EXCEPT !["sector_count"] = {1}, !["sector_no"] = {0}]
FewValues == [SmallValues EXCEPT !["sector_no"] = {0}]

PioCommands == Commands \ {"ReadDMA", "WriteDMA"}

None == {}
AnyDirection == BOOLEAN
NoBits == {{}}
===============================================================================
