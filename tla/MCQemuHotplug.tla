---------------------------- MODULE MCQemuHotplug ----------------------------
(* One boot memory device and two to plug, each behind the one before it on  *)
(* the same DAX device.                                                      *)
EXTENDS QemuHotplug

MCMemId == 0 .. 2
MCBootMem == {0}
MCOffset == [m \in MCMemId |-> m]
=============================================================================
