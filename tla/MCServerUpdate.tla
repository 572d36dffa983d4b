--------------------------- MODULE MCServerUpdate ---------------------------
(* TLC instances of ServerUpdate.                                            *)
EXTENDS ServerUpdate

\* Each release upgrades the one before; the middle one cannot migrate.
ThreeReleases == {1, 2, 3}
SecondIsBad == {2}

\* Both migrate; going back to the first is what cannot boot.
TwoReleases == {1, 2}
NoneIsBad == {}

JobOnly == {"job"}
CliOnly == {"cli"}
JobAndRollback == {"job", "rollback"}
Everyone == {"job", "cli", "rollback"}
=============================================================================
