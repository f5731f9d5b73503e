------------------------- MODULE MC_ComponentManager --------------------------
(* Two components, scans that share the lock, a few jobs and faults. *)
EXTENDS ComponentManager
===============================================================================
