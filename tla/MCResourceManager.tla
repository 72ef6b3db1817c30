------------------------- MODULE MCResourceManager -------------------------
(***************************************************************************)
(* The resource manager with 2 MB segments.                                *)
(*                                                                         *)
(* Three VM ids for a table of two entries, so that the table fills up and *)
(* slots are reused by other VMs; id 2 is no index of the agent table.     *)
(* Devices of two segments (and 1 MB no segment covers) and of one, up to  *)
(* two memory devices in the life of a VM.  Requests include zero and      *)
(* unaligned sizes, and sizes larger than a device.                        *)
(***************************************************************************)
EXTENDS ResourceManager, TLC

MemTotalSizeMb == 0 :> 5 @@ 1 :> 2
MemMbArg == {0, 2, 3, 4}
=============================================================================
