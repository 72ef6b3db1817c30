--------------------------- MODULE MCGuestMonitor ---------------------------
(***************************************************************************)
(* Two slots of the VM table: the monitor can be at one VM while the RPC   *)
(* thread works on the same or on the other.                               *)
(***************************************************************************)
EXTENDS GuestMonitor
=============================================================================
