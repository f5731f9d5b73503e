------------------------------ MODULE MC_Reports ------------------------------
(* Instances of Reports for TLC; the constants are in the .cfg file. *)
EXTENDS Reports, TLC

Interchangeable == Permutations(Importers) \cup Permutations(Groups)
===============================================================================
