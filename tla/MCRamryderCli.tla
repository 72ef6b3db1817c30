--------------------------- MODULE MCRamryderCli ---------------------------
(***************************************************************************)
(* Two commands at a time for one VM id, with 2 MB segments: a local node  *)
(* of two segments and a CXL node of one.  get-vms may hide the VM, so     *)
(* that create-vm chooses an id that is in use; the table has room for     *)
(* another VM, and it is for the id that the manager refuses.  The         *)
(* requests: local memory, local and CXL memory, and a size that is no     *)
(* multiple of the segment size.  Plans over several channels are checked  *)
(* on all pools of three nodes with up to 4 MB free each; here they fail   *)
(* for want of nodes.                                                      *)
(***************************************************************************)
EXTENDS RamryderCli, TLC

CliTotalSizeMb == 0 :> 4 @@ 1 :> 2
CliTier == 0 :> 0 @@ 1 :> 1

Ask(memory, channels, cxl_memory, cxl_channels) ==
    [memory |-> memory, channels |-> channels,
     cxl_memory |-> cxl_memory, cxl_channels |-> cxl_channels]

CliCreate == {Ask(2, 1, 0, 0), Ask(2, 1, 2, 1), Ask(3, 1, 0, 0), Ask(5, 2, 0, 0)}
CliAttach == {Ask(2, 0, 0, 0), Ask(2, 0, 2, 1)}

CliSymmetry == Permutations(Cli)
=============================================================================
