---------------------------- MODULE MCRpcServer ----------------------------
(***************************************************************************)
(* Three clients and a backlog of one connection: one client is served,    *)
(* one waits, one cannot connect.  A query and an update with two          *)
(* different arguments are enough to tell whose request a handler acts on. *)
(* The files: the segment size before, behind and between the devices, an  *)
(* invalid one, none, and a short device line behind a long one.           *)
(* MCMinimalConfig.cfg: one file, with nothing but a device.               *)
(* MCStaleArgs.cfg: two clients, a file that the manager starts with.      *)
(***************************************************************************)
EXTENDS RpcServer

SegSize(n) == [key |-> "segment_size_mb", value |-> {n}, words |-> <<>>]
Dev(size) == [key |-> "dev", value |-> {0}, words |-> <<{size}, {0}, {0}>>]
ShortDev(size) == [key |-> "dev", value |-> {0}, words |-> <<{size}>>]
Url == [key |-> "other", value |-> {}, words |-> <<>>]

ConfigFiles ==
    {<<SegSize(3), Dev(7), SegSize(2), Dev(4), Url>>,
     <<ShortDev(4), SegSize(2)>>,
     <<SegSize(2), Dev(7), ShortDev(4)>>,
     <<SegSize(0), Dev(7)>>,
     <<Dev(0), SegSize(2)>>,
     <<Dev(7)>>}

MinimalFiles == {<<Dev(7)>>}

ServingFiles == {<<SegSize(2), Dev(7)>>}
=============================================================================
