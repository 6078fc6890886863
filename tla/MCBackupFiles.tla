---------------------------- MODULE MCBackupFiles ----------------------------
(* Small instances of BackupFiles for TLC. *)
EXTENDS BackupFiles

NoFaults  == {}
AnyFaults == AllFaults
=============================================================================
