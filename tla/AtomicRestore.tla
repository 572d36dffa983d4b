--------------------------- MODULE AtomicRestore ---------------------------
(***************************************************************************)
(* What a restore of an instance promises, whatever dies in the middle:    *)
(* the state on disk is one whole instance, and until the restored one has *)
(* served, the one before it can still be had back.                        *)
(***************************************************************************)
CONSTANTS
    Instances,      \* the whole states an instance may be in
    None

VARIABLES
    installed,      \* the instance a boot would find
    undo            \* the one a failed boot would go back to, or None

Init == installed \in Instances /\ undo = None

\* A restore replaces the instance in one step, never over an unconfirmed one.
Install ==
    /\ undo = None
    /\ installed' \in Instances
    /\ undo' = installed

\* The restored instance has served: there is no way back any more.
Keep == undo # None /\ undo' = None /\ UNCHANGED installed

\* It failed: everything is as it was.
GoBack == undo # None /\ installed' = undo /\ undo' = None

Next == Install \/ Keep \/ GoBack

Spec == Init /\ [][Next]_<<installed, undo>>
=============================================================================
