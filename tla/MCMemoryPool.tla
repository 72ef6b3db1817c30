---------------------------- MODULE MCMemoryPool ----------------------------
(***************************************************************************)
(* Two devices of four and two segments of 2 MB, the first with 1 MB left  *)
(* over that no segment covers, and two VMs.  Sizes and offsets include    *)
(* unaligned, zero and negative ones, and ranges past the device's end.    *)
(***************************************************************************)
EXTENDS MemoryPool, TLC

MCTotalSizeMb == 0 :> 9 @@ 1 :> 4
MCMbArg == -1 .. 8
=============================================================================
