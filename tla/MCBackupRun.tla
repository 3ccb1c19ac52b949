------------------------------ MODULE MCBackupRun -----------------------------
(***************************************************************************)
(* Small instances of BackupRun: two jobs that share a plain partition and   *)
(* one with a LUKS partition of its own, in part or together.                *)
(***************************************************************************)
EXTENDS BackupRun, TLC

CONSTANTS j1, j2, j3, plain, luks

\* j1 and j2 on one partition, j3 on its own.
SharedAndOwn == j1 :> plain @@ j2 :> plain @@ j3 :> luks
SharedAndOwnPlan == j1 :> <<"local">> @@ j2 :> <<"pbs">> @@ j3 :> <<"pre", "ssh">>

\* Every kind of step between them.
MixedPlan == j1 :> <<"local", "pbs">> @@ j2 :> <<"post">> @@ j3 :> <<"pre", "ssh">>

\* One partition for both.
SamePlain == j1 :> plain @@ j2 :> plain
ShortPlan == j1 :> <<"local">> @@ j2 :> <<"pbs">>
===============================================================================
