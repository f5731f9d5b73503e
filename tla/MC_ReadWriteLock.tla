--------------------------- MODULE MC_ReadWriteLock ---------------------------
(* Small instances of the read/write lock for TLC. *)
EXTENDS ReadWriteLock

CONSTANTS r1, r2, r3, w1, w2

MCReaders == {r1, r2, r3}
MCWriters == {w1, w2}
MCEveryTask == {r1, r2, r3, w1, w2}
===============================================================================
