----------------------------- MODULE MC_Accounts -----------------------------
(* Instances of Accounts for TLC; the constants are in the .cfg file. *)
EXTENDS Accounts, TLC

Interchangeable == Permutations(Threads)

\* An administrator and a member who has signed in: a state that Spec reaches
\* with two requests, from which the finding needs few more.
SignedIn ==
    /\ users = [u \in Users |-> IF u = 1 THEN Enrolled("admin")
                                         ELSE Enrolled("member")]
    /\ sessions = {[id |-> 1, user |-> 2, level |-> "full", live |-> TRUE]}
    /\ tokens = [u \in Users |-> 1]
    /\ request = [a \in Actors |-> Idle]
    /\ requests = 2
    /\ late = {} /\ overtaken = {}
    /\ inherited = [u \in Users |-> {}]

FromSignedIn == SignedIn /\ [][Next]_vars
===============================================================================
