-------------------------- MODULE MCRestoreJournal --------------------------
EXTENDS RestoreJournal, TLC
CONSTANTS lean, full, broken, c1, c2
TwoWhole == {lean, full, broken}
TheirParts == (lean :> {1, 2}) @@ (full :> {1, 2, 3}) @@ (broken :> {1, 2})
OneBroken == {broken}
TwoClis == {c1, c2}
Order(g, h) == (c1 :> [gen |-> g, start |-> TRUE]) @@ (c2 :> [gen |-> h, start |-> FALSE])
AnyOrder == {Order(g, h) : g, h \in {full, broken}}
=============================================================================
