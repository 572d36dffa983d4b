---------------------------- MODULE InputPromise ----------------------------
(***************************************************************************)
(* What the terminal's input path promises the person typing: a keystroke  *)
(* is told apart from its copies by its id, it is retired from the page's  *)
(* queue only once it reached the pane, and what reached the pane was      *)
(* typed.  Duplicates are allowed (at least once); silent loss is not.     *)
(***************************************************************************)
CONSTANT Keys

VARIABLES typed, landed, retired

Init == typed = {} /\ landed = {} /\ retired = {}

Type(k) ==
    /\ k \notin typed
    /\ typed' = typed \cup {k}
    /\ UNCHANGED <<landed, retired>>

\* The first copy reaches the pane; later copies leave this state alone.
Land(k) ==
    /\ k \in typed
    /\ landed' = landed \cup {k}
    /\ UNCHANGED <<typed, retired>>

Retire(k) ==
    /\ k \in landed
    /\ retired' = retired \cup {k}
    /\ UNCHANGED <<typed, landed>>

Next == \E k \in Keys : Type(k) \/ Land(k) \/ Retire(k)

Spec == Init /\ [][Next]_<<typed, landed, retired>>
=============================================================================
