-------------------------- MODULE MC_BackupRestore --------------------------
(* Instances of BackupRestore for TLC; the constants are in the .cfg files. *)
EXTENDS BackupRestore
===============================================================================
