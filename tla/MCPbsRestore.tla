----------------------------- MODULE MCPbsRestore -----------------------------
(***************************************************************************)
(* A job that restores a virtual machine, skips an id it cannot restore, and *)
(* restores a container.                                                     *)
(***************************************************************************)
EXTENDS PbsRestore, TLC

CONSTANTS vm, ct, host

AllIds == <<vm, ct, host>>
OneVm == <<vm>>
VmAndCt == vm :> <<"conf", "disk0", "disk1", "index">> @@ ct :> <<"conf", "disk0">>
VmOnly == vm :> <<"conf", "disk0">>
===============================================================================
