------------------------------ MODULE ScanLedger ------------------------------
(***************************************************************************)
(* What the scans table promises to whoever submits, watches and cancels   *)
(* scans, with nothing of queues, workers and processes.  A scan goes from *)
(* queued to running to one outcome, a cancellation may overtake it, a     *)
(* restart puts running scans back, and an outcome is final.  ScanManager  *)
(* implements it as long as no scan record is removed.                     *)
(***************************************************************************)
EXTENDS Integers, FiniteSets

CONSTANTS Ids, Images, MaxPending

VARIABLES status, image

vars == <<status, image>>

Active == {"queued", "running"}
ActiveScans == {i \in Ids : status[i] \in Active}

Init == \A i \in Ids : status[i] = "absent"

\* New scans of images that have no active scan, one each, within capacity.
Admit ==
    \E new \in SUBSET Ids :
        /\ \A i \in new : status[i] = "absent"
        /\ Cardinality(ActiveScans \cup new) <= MaxPending
        /\ status' = [i \in Ids |-> IF i \in new THEN "queued" ELSE status[i]]
        /\ \A i \in Ids \ new : image'[i] = image[i]
        /\ \A i \in new :
              /\ image'[i] \in Images
              /\ \A j \in ActiveScans \cup new : image'[j] = image'[i] => j = i

Become(i, s) == status' = [status EXCEPT ![i] = s] /\ UNCHANGED image

Begin(i) == status[i] = "queued" /\ Become(i, "running")

Settle(i) == /\ status[i] = "running"
             /\ \E s \in {"completed", "failed"} : Become(i, s)

Cancel(i) == status[i] \in Active /\ Become(i, "cancelled")

\* A restart, or the end of one worker at shutdown.
PutBack ==
    \E back \in SUBSET {i \in Ids : status[i] = "running"} :
        /\ status' = [i \in Ids |-> IF i \in back THEN "queued" ELSE status[i]]
        /\ UNCHANGED image

Next == \/ Admit
        \/ PutBack
        \/ \E i \in Ids : Begin(i) \/ Settle(i) \/ Cancel(i)

Spec == Init /\ [][Next]_vars
===============================================================================
