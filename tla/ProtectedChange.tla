--------------------------- MODULE ProtectedChange ---------------------------
(***************************************************************************)
(* What a protected change of the appliance promises for each item: the    *)
(* runtime may pass through anything while the change is open, and when it *)
(* is closed the runtime is either exactly what it was before or what the  *)
(* application has recorded as applied.  Between two changes an item is    *)
(* not protected.                                                          *)
(***************************************************************************)
CONSTANTS Items, Values

VARIABLES
    applied,  \* what the application has recorded as applied
    live,     \* what runs
    saved,    \* what ran when the change was opened
    txn       \* the change of each item

vars == <<applied, live, saved, txn>>

Init ==
    /\ applied \in [Items -> Values] /\ live \in [Items -> Values]
    /\ saved = live
    /\ txn = [i \in Items |-> "none"]

Moves(i, from, to) == txn[i] = from /\ txn'[i] = to

Open(i) ==
    /\ Moves(i, "none", "active")
    /\ saved'[i] = live[i] /\ live'[i] = live[i] /\ applied'[i] = applied[i]

(* The runtime changes, the record of it and the way back do not.          *)
Work(i) ==
    /\ Moves(i, "active", "active")
    /\ saved'[i] = saved[i] /\ applied'[i] = applied[i]

(* The decision: what runs becomes what is applied.                        *)
Decide(i) ==
    /\ Moves(i, "active", "committed")
    /\ live'[i] = live[i] /\ applied'[i] = live[i]

(* A decided change may be taken back and redone, never undecided.         *)
Settle(i) ==
    /\ Moves(i, "committed", "committed")
    /\ applied'[i] = applied[i]

RollBack(i) ==
    /\ Moves(i, "active", "none")
    /\ live[i] = saved[i] /\ live'[i] = live[i] /\ applied'[i] = applied[i]

Complete(i) ==
    /\ Moves(i, "committed", "none")
    /\ live[i] = applied[i] /\ live'[i] = live[i] /\ applied'[i] = applied[i]

Unprotected(i) == Moves(i, "none", "none")

Next ==
    \A i \in Items :
        \/ Open(i) \/ Work(i) \/ Decide(i) \/ Settle(i)
        \/ RollBack(i) \/ Complete(i) \/ Unprotected(i)

Spec == Init /\ [][Next]_vars
=============================================================================
