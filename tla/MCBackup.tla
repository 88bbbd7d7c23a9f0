------------------------------ MODULE MCBackup ------------------------------
(***************************************************************************)
(* Backups with small bounds.                                              *)
(***************************************************************************)
EXTENDS Backup
=============================================================================
