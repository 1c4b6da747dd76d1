------------------------------ MODULE SectorStream -----------------------------
(***************************************************************************)
(* What an ATA drive promises the guest about the sectors of a transfer,   *)
(* with no word on registers, buffers, bytes or the block device.          *)
(*                                                                         *)
(* A job is a run of blocks to read or to write.  Its sectors pass one by  *)
(* one, in order; the guest is told (by INTRQ) when one is due and when    *)
(* the last is through.  A job may be dropped for another at any sector.   *)
(* The sector of an Identify belongs to no job.                            *)
(***************************************************************************)
EXTENDS Integers

VARIABLES
  job,       \* the blocks asked for last, of kind "none" before the first
  left,      \* the sectors still to pass
  at,        \* the block whose sector passes next
  told,      \* INTRQ: the guest has been told something it has not read
  perSector, \* every sector is announced, not only the end of a transfer
  stopped    \* the emulator has ended, with whatever was half done

svars == <<job, left, at, told, perSector, stopped>>

SInit == /\ job.kind = "none"
         /\ left = 0
         /\ at = 0
         /\ told = FALSE
         /\ perSector = TRUE
         /\ stopped = FALSE

(* The guest asks for blocks; what was left of the last job is dropped.    *)
Begin == /\ job'.kind \in {"read", "write"}
         /\ job'.count >= 1
         /\ left' = job'.count
         /\ at' = job'.first
         /\ told'
         /\ UNCHANGED perSector

(* The guest asks the drive what it is: one sector of no block.            *)
Identify == /\ job'.kind = "none"
            /\ left' = 1
            /\ at' = 0
            /\ told'
            /\ UNCHANGED perSector

(* A sector has passed.                                                    *)
Pass == /\ left > 0
        /\ left' = left - 1
        /\ at' = IF job.kind = "none" THEN at ELSE at + 1
        /\ left' = 0 \/ perSector => told'
        /\ UNCHANGED <<job, perSector>>

(* Everything else a guest does, the reading of INTRQ included.            *)
Elsewhere == UNCHANGED <<job, left, at>>

SNext == /\ ~stopped
         /\ stopped' \/ Begin \/ Identify \/ Pass \/ Elsewhere

SSpec == SInit /\ [][SNext]_svars
===============================================================================
