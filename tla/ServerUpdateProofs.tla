------------------------- MODULE ServerUpdateProofs -------------------------
(***************************************************************************)
(* Proofs about ServerUpdate, for any releases and any number of crashes:  *)
(* every state is well typed; an instance updated from the dashboard alone *)
(* can always boot; and so can, under systemd, one that a terminal updates *)
(* and rolls back too, unless two transactions crossed.                    *)
(***************************************************************************)
EXTENDS ServerUpdate, TLAPS

USE VersionsAssumption, ActorsAssumption, SupervisorAssumption, MaxCrashesAssumption

-----------------------------------------------------------------------------
(* Type correctness. *)

\* A process executes a version, and only a process that read its marker reverts.
Alive == run = None <=> up \in {"stopped", "down"}
Reverting == {"reverting", "restored", "putBack", "reported"}
RevertsItsOwn == up \in Reverting => OwnsTransaction

TypeInv == TypeOK /\ Alive /\ RevertsItsOwn

\* What a step of each kind leaves alone, unfolded once.
USE DEF disk, server, terminal, history

LEMMA TypeInitially == Init => TypeInv
<1> SUFFICES ASSUME Init PROVE TypeInv
  OBVIOUS
<1>1. Idle \in Work
  BY DEF Idle, Work, Stages
<1>2. work \in [Updaters -> Work]
  BY <1>1 DEF Init
<1>3. TypeOK
  <2>1. binary \in Versions /\ db \in Versions /\ run \in Versions /\ crashes \in 0..MaxCrashes
    BY DEF Init
  <2>2. /\ previous = None /\ pending = None /\ failed = None /\ seen = None /\ rbMarker = None
        /\ up \in Listening /\ rb \in RollbackStages
        /\ rbStopped = FALSE /\ damaged = FALSE /\ crossed = FALSE
    BY DEF Init, Listening, RollbackStages
  <2> QED
    BY <1>2, <2>1, <2>2, Zenon DEF TypeOK
<1>4. Alive /\ RevertsItsOwn
  BY NoneAssumption DEF Init, Alive, RevertsItsOwn, Reverting
<1> QED
  BY <1>3, <1>4 DEF TypeInv

LEMMA TypeStep == TypeInv /\ [Next]_vars => TypeInv'
<1> SUFFICES ASSUME TypeInv, [Next]_vars PROVE TypeInv'
  OBVIOUS
<1>0. TypeOK /\ Alive /\ RevertsItsOwn
  BY DEF TypeInv
<1> USE NoneAssumption DEF TypeInv, TypeOK, Alive, RevertsItsOwn, Reverting, OwnsTransaction, Updaters,
      Work, Stages, Marked, Idle, Markers, RollbackStages, Listening, Booting
<1>1. CASE Spawn
  BY <1>1 DEF Spawn
<1>2. CASE ReadMarker
  BY <1>2 DEF ReadMarker
<1>3. CASE RecordedDropsMarker
  BY <1>3 DEF RecordedDropsMarker
<1>4. CASE Migrate
  BY <1>4 DEF Migrate, Opens
<1>5. CASE MigrationThrows
  BY <1>5 DEF MigrationThrows, Exits, Opens
<1>6. CASE RevertDatabase
  <2> HIDE DEF TypeInv, TypeOK, Alive, RevertsItsOwn, OwnsTransaction, Updaters,
           RollbackStages, Listening, Booting, Work, Stages, Marked, Idle, Markers
  <2>1. /\ up = "reverting" /\ up' = "restored" /\ UNCHANGED <<run, seen>>
        /\ db' \in {db, seen.backup} /\ damaged' \in {damaged, TRUE}
        /\ UNCHANGED <<binary, previous, pending, failed, work, terminal, crossed, crashes>>
    BY <1>6 DEF RevertDatabase
  <2>2. RevertsItsOwn' /\ Alive' /\ seen \in Markers
    BY <1>0, <2>1 DEF RevertsItsOwn, Alive, TypeOK, OwnsTransaction
  <2>3. db' \in Versions /\ damaged' \in BOOLEAN
    BY <1>0, <2>1, <2>2 DEF TypeOK, Markers
  <2>4. up' \in Booting
    BY <2>1 DEF Booting
  <2>5. TypeOK'
    BY <1>0, <2>1, <2>3, <2>4 DEF TypeOK
  <2> QED
    BY <2>2, <2>5 DEF TypeInv
<1>7. CASE RevertBinary
  <2> HIDE DEF TypeInv, TypeOK, Alive, RevertsItsOwn, OwnsTransaction, Updaters,
           RollbackStages, Listening, Booting, Work, Stages, Marked, Idle, Markers
  <2>1. /\ up = "restored" /\ up' = "putBack" /\ UNCHANGED <<run, seen>>
        /\ damaged' \in {damaged, TRUE}
        /\ UNCHANGED <<pending, failed, db, work, terminal, crossed, crashes>>
    BY <1>7 DEF RevertBinary
  <2>2. RevertsItsOwn' /\ Alive'
    BY <1>0, <2>1 DEF RevertsItsOwn, Alive, TypeOK, OwnsTransaction
  <2>3. binary' \in Versions /\ previous' \in Versions \cup {None}
    BY <1>0, <1>7 DEF TypeOK, RevertBinary
  <2>4. up' \in Booting
    BY <2>1 DEF Booting
  <2>5. TypeOK'
    BY <1>0, <2>1, <2>3, <2>4 DEF TypeOK
  <2> QED
    BY <2>2, <2>5 DEF TypeInv
<1>8. CASE RevertReports
  BY <1>8 DEF RevertReports
<1>9. CASE RevertDropsMarker
  BY <1>9 DEF RevertDropsMarker, Exits
<1>10. CASE Listen
  BY <1>10 DEF Listen
<1>11. CASE CompleteDropsCopy
  BY <1>11 DEF CompleteDropsCopy
<1>12. CASE CompleteDropsMarker
  BY <1>12 DEF CompleteDropsMarker
<1>13. CASE Crash
  BY <1>13 DEF Crash, Exits
<1>14. CASE ServiceStarted
  BY <1>14 DEF ServiceStarted
<1>15. ASSUME NEW u \in Updaters, Update(u) PROVE TypeInv'
  <2>1. CASE Claim(u)
    BY <2>1 DEF Claim, Able
  <2>2. CASE Snapshot(u)
    BY <2>2 DEF Snapshot, Able
  <2>3. CASE GivesUp(u)
    BY <2>3 DEF GivesUp, Able, Returns
  <2>4. CASE FindNoMarker(u)
    BY <2>4 DEF FindNoMarker, Able, Advance
  <2>5. CASE WriteMarker(u)
    BY <2>5 DEF WriteMarker, Able, Advance
  <2>6. CASE ClearStale(u)
    BY <2>6 DEF ClearStale, Able, Advance
  <2>7. CASE KeepPrevious(u)
    BY <2>7 DEF KeepPrevious, Able, Advance
  <2>8. CASE KeepFails(u)
    BY <2>8 DEF KeepFails, Able, Advance
  <2>9. CASE Swap(u)
    BY <2>9 DEF Swap, Able, Advance
  <2>10. CASE SwapFails(u)
    BY <2>10 DEF SwapFails, Able, Advance
  <2>11. CASE Undo(u)
    BY <2>11 DEF Undo, Able, Returns
  <2> QED
    BY <1>15, <2>1, <2>2, <2>3, <2>4, <2>5, <2>6, <2>7, <2>8, <2>9, <2>10, <2>11 DEF Update
<1>16. CASE JobRestarts
  BY <1>16 DEF JobRestarts, Able, Exits
<1>17. CASE CliRestarts
  BY <1>17 DEF CliRestarts, Able
<1>18. CASE CliStopsWaiting
  BY <1>18 DEF CliStopsWaiting, Able, Returns
<1>19. CASE CliLeaves
  BY <1>19 DEF CliLeaves
<1>20. CASE RollbackProbes
  BY <1>20 DEF RollbackProbes, RollbackGoes
<1>21. CASE RollbackReads
  BY <1>21 DEF RollbackReads, RollbackGoes, LastMarker
<1>22. CASE RollbackStops
  BY <1>22 DEF RollbackStops, RollbackGoes, Exits, SeenRunning
<1>23. CASE RollbackRestores
  BY <1>23 DEF RollbackRestores, RollbackGoes, LastMarker
<1>24. CASE RollbackRenames
  <2> HIDE DEF TypeInv, TypeOK, Alive, RevertsItsOwn, OwnsTransaction, Updaters,
           RollbackStages, Listening, Booting, Work, Stages, Marked, Idle, Markers
  <2>1. UNCHANGED <<pending, failed, db, server, work, history>>
    BY <1>24 DEF RollbackRenames
  <2>2. /\ binary' \in Versions /\ previous' \in Versions \cup {None}
        /\ rb' \in RollbackStages
        /\ rbMarker' \in {rbMarker, None} /\ rbStopped' \in {rbStopped, FALSE}
    BY <1>0, <1>24 DEF TypeOK, RollbackRenames, RollbackGoes, RollbackEnds, RollbackStages
  <2>3. RevertsItsOwn' /\ Alive'
    BY <1>0, <2>1 DEF RevertsItsOwn, Alive, OwnsTransaction
  <2>4. TypeOK'
    BY <1>0, <2>1, <2>2 DEF TypeOK
  <2> QED
    BY <2>3, <2>4 DEF TypeInv
<1>25. CASE RollbackClears
  BY <1>25 DEF RollbackClears, RollbackGoes
<1>26. CASE RollbackStarts
  BY <1>26 DEF RollbackStarts, RollbackGoes, RollbackEnds
<1>27. CASE RollbackLeaves
  <2> HIDE DEF TypeInv, TypeOK, Alive, RevertsItsOwn, OwnsTransaction, Updaters,
           RollbackStages, Listening, Booting, Work, Stages, Marked, Idle, Markers
  <2>1. /\ UNCHANGED <<disk, server, work, history>>
        /\ rb' = "idle" /\ rbMarker' = None /\ rbStopped' = FALSE
    BY <1>27 DEF RollbackLeaves, RollbackGoes, RollbackEnds
  <2>2. RevertsItsOwn' /\ Alive'
    BY <1>0, <2>1 DEF RevertsItsOwn, Alive, OwnsTransaction
  <2>3. rb' \in RollbackStages
    BY <2>1 DEF RollbackStages
  <2>4. TypeOK'
    BY <1>0, <2>1, <2>3 DEF TypeOK
  <2> QED
    BY <2>2, <2>4 DEF TypeInv
<1>28. CASE UNCHANGED vars
  BY <1>28 DEF vars
<1> QED
  BY <1>1, <1>2, <1>3, <1>4, <1>5, <1>6, <1>7, <1>8, <1>9, <1>10, <1>11, <1>12, <1>13, <1>14, <1>15, <1>16, <1>17, <1>18, <1>19, <1>20, <1>21, <1>22, <1>23, <1>24, <1>25, <1>26, <1>27, <1>28 DEF Next, Boot, Cli, Rollback

\* Every reachable state is well typed, whoever drives the updates.
THEOREM TypeCorrect == Spec => []TypeOK
<1>1. TypeInv => TypeOK
  BY DEF TypeInv
<1> QED
  BY TypeInitially, TypeStep, <1>1, PTL DEF Spec

-----------------------------------------------------------------------------
(* Recoverability of the dashboard's updates. *)

\* Nobody is at the terminal, and the service manager keeps the server up.
Alone == work["cli"].at = "idle" /\ rb = "idle" /\ up # "stopped"

\* The job lives inside a server that has finished its boot.
JobIsInside == work["job"].at # "idle" => up = "settled"

\* What the job's stage says of the disk.
JobAndDisk ==
    LET job == work["job"] IN
    /\ job.at \in {"idle", "claimed", "copied", "clear"} /\ up = "settled" => pending = None
    /\ job.at \notin {"idle", "claimed"} => job.copy = db
    /\ job.at \in Marked \cup {"kept", "swapped"} =>
          pending = [to |-> job.goal, backup |-> job.copy]
    /\ job.at \in {"kept", "swapped"} => previous = run
    /\ job.at = "swapped" => binary = job.goal

\* What the boot's stage says of the disk and of the marker it read.
Owned == pending = seen /\ OwnsTransaction
Unowned == pending = None /\ ~OwnsTransaction

RunsInstalled ==
    /\ up \in {"started", "recorded", "opening", "reverting", "restored",
               "migrated", "serving", "clearing"} => binary = run
    /\ up = "settled" /\ work["job"].at # "swapped" => binary = run

Opened == up \in {"migrated"} \cup Listening => db = run /\ Opens(run, db)

BootAndMarker ==
    /\ up = "recorded" => pending # None /\ seen = pending /\ seen.to # run
    /\ up \in {"opening", "migrated"} => Owned \/ Unowned
    /\ up \in Reverting \cup {"serving", "clearing"} => Owned

BootAndDisk ==
    /\ up \in {"reverting", "restored"} => damaged \/ RevertBoots
    /\ up = "restored" => damaged \/ db = seen.backup
    /\ up \in {"putBack", "reported"} => damaged \/ Opens(binary, db)

RecoveryInv ==
    /\ TypeInv
    /\ Alone
    /\ JobIsInside
    /\ JobAndDisk
    /\ RunsInstalled
    /\ Opened
    /\ BootAndMarker
    /\ BootAndDisk
    /\ BootRecovers
LEMMA RecoveryInitially == Init => RecoveryInv
<1> SUFFICES ASSUME Init PROVE RecoveryInv
  OBVIOUS
<1>1. work["job"].at = "idle" /\ work["cli"].at = "idle"
  BY DEF Init, Updaters, Idle
<1>2. /\ up = "settled" /\ rb = "idle" /\ pending = None /\ seen = None
      /\ run = First /\ binary = First /\ db = First
  BY DEF Init
<1>3. Opens(First, First)
  BY DEF Opens
<1>4. Alone /\ JobIsInside /\ RunsInstalled
  BY <1>1, <1>2 DEF Alone, JobIsInside, RunsInstalled
<1>5. JobAndDisk
  BY <1>1, <1>2 DEF JobAndDisk, Marked
<1>6. Opened /\ BootRecovers
  BY <1>2, <1>3 DEF Opened, BootRecovers
<1>7. BootAndMarker /\ BootAndDisk
  BY <1>2 DEF BootAndMarker, BootAndDisk, Reverting
<1> QED
  BY <1>4, <1>5, <1>6, <1>7, TypeInitially DEF RecoveryInv

\* Without a terminal nobody but the server and its job moves.
LEMMA TerminalIsQuiet ==
    ASSUME Actors = {"job"}, RecoveryInv
    PROVE  ~ServiceStarted /\ ~Update("cli") /\ ~Cli /\ ~Rollback
<1>1. ~ServiceStarted
  BY DEF RecoveryInv, Alone, ServiceStarted
<1>2. ~Able("cli")
  BY DEF Able
<1>3. ~Update("cli")
  BY <1>2 DEF Update, Claim, Snapshot, GivesUp, FindNoMarker, WriteMarker, ClearStale, KeepPrevious,
     KeepFails, Swap, SwapFails, Undo, Advance, Returns
<1>4. ~Cli
  BY <1>2 DEF RecoveryInv, Alone, Cli, CliRestarts, CliStopsWaiting, CliLeaves, Returns
<1>5. ~Rollback
  BY DEF RecoveryInv, Alone, Rollback, RollbackProbes, RollbackReads, RollbackStops, RollbackRestores,
     RollbackRenames, RollbackClears, RollbackStarts, RollbackLeaves, RollbackGoes, RollbackEnds
<1> QED
  BY <1>1, <1>3, <1>4, <1>5

LEMMA RecoveryStep ==
    ASSUME Actors = {"job"}, RecoveryInv, [Next]_vars
    PROVE  RecoveryInv'
<1>1. TypeInv'
  BY TypeStep DEF RecoveryInv
<1>2. TypeOK /\ Alive
  BY DEF RecoveryInv, TypeInv
<1> DEFINE Rest == Alone /\ JobIsInside /\ JobAndDisk /\ RunsInstalled /\ Opened
                   /\ BootAndMarker /\ BootAndDisk /\ BootRecovers
<1> SUFFICES Rest'
  BY <1>1 DEF RecoveryInv
<1>3. Rest
  BY DEF RecoveryInv
<1> USE <1>2, <1>3, NoneAssumption DEF Alone, JobIsInside, JobAndDisk, RunsInstalled, Opened, Opens, BootAndMarker,
      Owned, Unowned, OwnsTransaction, BootAndDisk, BootRecovers, RevertBoots, Marked, Listening,
      Reverting, Booting, Alive, TypeOK, Updaters, Work, Idle, Markers
<1>4. CASE Spawn
  BY <1>4 DEF Spawn
<1>5. CASE ReadMarker
  BY <1>5 DEF ReadMarker
<1>6. CASE RecordedDropsMarker
  BY <1>6 DEF RecordedDropsMarker
<1>7. CASE Migrate
  BY <1>7 DEF Migrate
<1>8. CASE MigrationThrows
  BY <1>8 DEF MigrationThrows, Exits
<1>9. CASE RevertDatabase
  BY <1>9 DEF RevertDatabase
<1>10. CASE RevertBinary
  BY <1>10 DEF RevertBinary
<1>11. CASE RevertReports
  BY <1>11 DEF RevertReports
<1>12. CASE RevertDropsMarker
  BY <1>12 DEF RevertDropsMarker, Exits
<1>13. CASE Listen
  BY <1>13 DEF Listen
<1>14. CASE CompleteDropsCopy
  BY <1>14 DEF CompleteDropsCopy
<1>15. CASE CompleteDropsMarker
  BY <1>15 DEF CompleteDropsMarker
<1>16. CASE Crash
  BY <1>16 DEF Crash, Exits
<1>17. CASE Update("job")
  <2>1. CASE Claim("job")
    BY <2>1 DEF Claim, Able
  <2>2. CASE Snapshot("job")
    BY <2>2 DEF Snapshot, Able
  <2>3. CASE GivesUp("job")
    BY <2>3 DEF GivesUp, Able, Returns
  <2>4. CASE FindNoMarker("job")
    BY <2>4 DEF FindNoMarker, Able, Advance
  <2>5. CASE WriteMarker("job")
    BY <2>5 DEF WriteMarker, Able, Advance
  <2>6. CASE ClearStale("job")
    BY <2>6 DEF ClearStale, Able, Advance
  <2>7. CASE KeepPrevious("job")
    BY <2>7 DEF KeepPrevious, Able, Advance
  <2>8. CASE KeepFails("job")
    BY <2>8 DEF KeepFails, Able, Advance
  <2>9. CASE Swap("job")
    BY <2>9 DEF Swap, Able, Advance
  <2>10. CASE SwapFails("job")
    BY <2>10 DEF SwapFails, Able, Advance
  <2>11. CASE Undo("job")
    BY <2>11 DEF Undo, Able, Returns
  <2> QED
    BY <1>17, <2>1, <2>2, <2>3, <2>4, <2>5, <2>6, <2>7, <2>8, <2>9, <2>10, <2>11 DEF Update
<1>18. CASE JobRestarts
  BY <1>18 DEF JobRestarts, Exits, Able
<1>19. CASE UNCHANGED vars
  BY <1>19 DEF vars
<1> QED
  BY TerminalIsQuiet, <1>4, <1>5, <1>6, <1>7, <1>8, <1>9, <1>10, <1>11, <1>12, <1>13, <1>14, <1>15, <1>16, <1>17, <1>18, <1>19 DEF Next, Boot, Updaters

\* An instance that is updated from the dashboard alone can boot after a crash
\* at any step, however many releases there are and however often it crashes:
\* the installed binary opens the database, or the marker, the kept copy and
\* the backup are all there to revert with.
THEOREM DashboardUpdatesRecover ==
    ASSUME Actors = {"job"}
    PROVE  Spec => []BootRecovers
<1>1. RecoveryInv /\ [Next]_vars => RecoveryInv'
  BY RecoveryStep
<1>2. RecoveryInv => BootRecovers
  BY DEF RecoveryInv
<1> QED
  BY RecoveryInitially, <1>1, <1>2, PTL DEF Spec
-----------------------------------------------------------------------------
(* The terminal's rollback. *)

\* From its stop to its start, the service stays stopped.
RollbackHoldsService == rb \in {"stopped", "restored", "renamed", "cleared"} => up = "stopped"

LEMMA RollbackStep ==
    ASSUME Supervisor = "systemd", RollbackHoldsService, [Next]_vars
    PROVE  RollbackHoldsService'
<1> USE DEF RollbackHoldsService
<1>1. CASE Boot
  BY <1>1 DEF Boot, Spawn, ReadMarker, RecordedDropsMarker, Migrate, MigrationThrows, RevertDatabase,
     RevertBinary, RevertReports, RevertDropsMarker, Listen, CompleteDropsCopy, CompleteDropsMarker
<1>2. CASE Crash \/ ServiceStarted
  BY <1>2 DEF Crash, ServiceStarted
<1>3. ASSUME NEW u \in Updaters, Update(u) PROVE RollbackHoldsService'
  BY <1>3 DEF Update, Claim, Snapshot, GivesUp, FindNoMarker, WriteMarker, ClearStale, KeepPrevious,
     KeepFails, Swap, SwapFails, Undo
<1>4. CASE JobRestarts \/ Cli
  BY <1>4 DEF JobRestarts, Able, Listening, Cli, CliRestarts, CliStopsWaiting, CliLeaves
<1>5. CASE Rollback
  <2>1. CASE RollbackStops
    <3>1. rb = "read" /\ (SeenRunning => up' = "stopped") /\ (~SeenRunning => up' = up)
      BY <2>1 DEF RollbackStops, RollbackGoes, Exits
    <3>2. ~SeenRunning => up = "stopped"
      BY DEF SeenRunning
    <3> QED
      BY <3>1, <3>2
  <2>2. CASE RollbackStarts \/ RollbackLeaves
    BY <2>2 DEF RollbackStarts, RollbackLeaves, RollbackEnds, RollbackGoes
  <2>3. CASE RollbackProbes \/ RollbackReads
    BY <2>3 DEF RollbackProbes, RollbackReads, RollbackGoes
  <2>4. CASE RollbackRestores \/ RollbackRenames \/ RollbackClears
    BY <2>4 DEF RollbackRestores, RollbackRenames, RollbackClears, RollbackEnds, RollbackGoes
  <2> QED
    BY <1>5, <2>1, <2>2, <2>3, <2>4 DEF Rollback
<1>6. CASE UNCHANGED vars
  BY <1>6 DEF vars
<1> QED
  BY <1>1, <1>2, <1>3, <1>4, <1>5, <1>6 DEF Next

\* Under systemd no rollback replaces the database of a running server, whoever
\* else updates it meanwhile.
THEOREM SystemdRestoresUnopened ==
    ASSUME Supervisor = "systemd"
    PROVE  Spec => []RestoresUnopened
<1>1. Init => RollbackHoldsService
  BY DEF Init, RollbackHoldsService
<1>2. RollbackHoldsService /\ [Next]_vars => RollbackHoldsService'
  BY RollbackStep
<1>3. RollbackHoldsService => RestoresUnopened
  BY DEF RollbackHoldsService, RestoresUnopened
<1> QED
  BY <1>1, <1>2, <1>3, PTL DEF Spec

-----------------------------------------------------------------------------
(* Every mix of actors, unless two of them crossed. *)

\* The job runs inside a listening server, and the terminal does one thing at
\* a time.
OneHand ==
    /\ work["job"].at # "idle" => up \in Listening
    /\ rb # "idle" => work["cli"].at = "idle"

\* The boot acts on the marker it read, and has yet to drop it.
HasRead ==
    \/ up \in {"recorded", "reverting", "restored", "putBack", "reported", "serving", "clearing"}
    \/ up \in {"opening", "migrated"} /\ OwnsTransaction

\* What it read still stands and is nobody's who is at work on the disk.
BootHolds ==
    /\ HasRead => seen # None /\ pending = seen /\ \A u \in Updaters : work[u].at \notin Marked
    /\ up = "recorded" => binary # pending.to
    /\ HasRead /\ up # "recorded" => OwnsTransaction

\* An updater between its marker and its swap is the only one, and finds the
\* disk as a server that boots would.
UpdaterHolds ==
    \A u \in Updaters : work[u].at \in Marked =>
        /\ pending = [to |-> work[u].goal, backup |-> work[u].copy]
        /\ \A w \in Updaters \ {u} : work[w].at \notin Marked
        /\ Opens(binary, db)
        /\ run \in {None, binary}
        /\ previous \in {None, binary}
        /\ work[u].at = "kept" => previous = binary

\* The server runs what is installed, or what the marker keeps a copy of.
Runs ==
    run # None /\ up \notin {"putBack", "reported"} =>
        run = binary \/ (pending # None /\ pending.to = binary /\ previous # None)

\* No backup is newer than the database, and a recorded failure beside a marker
\* is that marker's.
MarkersFit ==
    /\ pending # None => pending.backup <= db
    /\ failed # None => failed.backup <= db
    /\ pending # None /\ failed # None => failed = pending

\* The installed binary opens the database, or the marker is its own and the
\* kept copy opens the backup.
DiskFits ==
    /\ pending = None \/ pending.to # binary => Opens(binary, db)
    /\ Opens(binary, db) \/ previous # None
    /\ pending # None /\ previous # None => Opens(previous, pending.backup)
    /\ previous \notin {None, binary} => pending # None /\ pending.to = binary

\* What the stage of the boot, or of the rollback, adds.
StageFits ==
    /\ up \in {"migrated", "serving", "clearing"} => Opens(run, db)
    /\ up = "clearing" => previous = None
    /\ up = "restored" => db = seen.backup
    /\ up \in {"putBack", "reported"} => previous = None /\ Opens(binary, db)
    /\ rb = "restored" /\ LastMarker # None => db = LastMarker.backup
    /\ rb = "renamed" => previous = None /\ Opens(binary, db)

UncrossedInv == BootHolds /\ UpdaterHolds /\ Runs /\ MarkersFit /\ DiskFits /\ StageFits

\* Neither history excuses anything.
Clean == ~crossed /\ ~damaged

LEMMA HandStep == ASSUME TypeInv, OneHand, [Next]_vars PROVE OneHand'
  <1> USE NoneAssumption DEF OneHand, TypeInv, TypeOK, Alive, Updaters, Work, Idle, Listening, Booting
  <1>1. CASE Spawn
    BY <1>1 DEF Spawn
  <1>2. CASE ReadMarker
    BY <1>2 DEF ReadMarker
  <1>3. CASE RecordedDropsMarker
    BY <1>3 DEF RecordedDropsMarker
  <1>4. CASE Migrate
    BY <1>4 DEF Migrate
  <1>5. CASE MigrationThrows
    BY <1>5 DEF MigrationThrows, Exits
  <1>6. CASE RevertDatabase
    BY <1>6 DEF RevertDatabase
  <1>7. CASE RevertBinary
    BY <1>7 DEF RevertBinary
  <1>8. CASE RevertReports
    BY <1>8 DEF RevertReports
  <1>9. CASE RevertDropsMarker
    BY <1>9 DEF RevertDropsMarker, Exits
  <1>10. CASE Listen
    BY <1>10 DEF Listen
  <1>11. CASE CompleteDropsCopy
    BY <1>11 DEF CompleteDropsCopy
  <1>12. CASE CompleteDropsMarker
    BY <1>12 DEF CompleteDropsMarker
  <1>13. CASE Crash
    BY <1>13 DEF Crash, Exits
  <1>14. CASE ServiceStarted
    BY <1>14 DEF ServiceStarted
  <1>15. CASE JobRestarts
    BY <1>15 DEF JobRestarts, Exits, Able
  <1>16. ASSUME NEW u \in Updaters, Update(u) PROVE OneHand'
    <2>1. CASE Claim(u)
      BY <2>1 DEF Claim, Able
    <2>2. CASE Snapshot(u)
      BY <2>2 DEF Snapshot, Able
    <2>3. CASE GivesUp(u)
      BY <2>3 DEF GivesUp, Able, Returns
    <2>4. CASE FindNoMarker(u)
      BY <2>4 DEF FindNoMarker, Able, Advance
    <2>5. CASE WriteMarker(u)
      BY <2>5 DEF WriteMarker, Able, Advance
    <2>6. CASE ClearStale(u)
      BY <2>6 DEF ClearStale, Able, Advance
    <2>7. CASE KeepPrevious(u)
      BY <2>7 DEF KeepPrevious, Able, Advance
    <2>8. CASE KeepFails(u)
      BY <2>8 DEF KeepFails, Able, Advance
    <2>9. CASE Swap(u)
      BY <2>9 DEF Swap, Able, Advance
    <2>10. CASE SwapFails(u)
      BY <2>10 DEF SwapFails, Able, Advance
    <2>11. CASE Undo(u)
      BY <2>11 DEF Undo, Able, Returns
    <2> QED BY <1>16, <2>1, <2>2, <2>3, <2>4, <2>5, <2>6, <2>7, <2>8, <2>9, <2>10, <2>11 DEF Update
  <1>17. CASE CliRestarts
    BY <1>17 DEF CliRestarts, Able
  <1>18. CASE CliStopsWaiting
    BY <1>18 DEF CliStopsWaiting, Able, Returns
  <1>19. CASE CliLeaves
    BY <1>19 DEF CliLeaves
  <1>20. CASE RollbackProbes
    BY <1>20 DEF RollbackProbes, RollbackGoes
  <1>21. CASE RollbackReads
    BY <1>21 DEF RollbackReads, RollbackGoes
  <1>22. CASE RollbackStops
    BY <1>22 DEF RollbackStops, RollbackGoes, Exits, SeenRunning
  <1>23. CASE RollbackRestores
    BY <1>23 DEF RollbackRestores, RollbackGoes
  <1>24. CASE RollbackRenames
    BY <1>24 DEF RollbackRenames, RollbackGoes, RollbackEnds
  <1>25. CASE RollbackClears
    BY <1>25 DEF RollbackClears, RollbackGoes
  <1>26. CASE RollbackStarts
    BY <1>26 DEF RollbackStarts, RollbackEnds, RollbackGoes
  <1>27. CASE RollbackLeaves
    BY <1>27 DEF RollbackLeaves, RollbackEnds, RollbackGoes
  <1>28. CASE UNCHANGED vars
    BY <1>28 DEF vars
  <1> QED BY <1>1, <1>2, <1>3, <1>4, <1>5, <1>6, <1>7, <1>8, <1>9, <1>10, <1>11, <1>12, <1>13, <1>14, <1>15, <1>16, <1>17, <1>18, <1>19, <1>20, <1>21, <1>22, <1>23, <1>24, <1>25, <1>26, <1>27, <1>28 DEF Next, Boot, Cli, Rollback

\* The history variables only ever turn true.
LEMMA HistoryGrows == ASSUME [Next]_vars, Clean' PROVE TypeOK => Clean
  <1> USE DEF Clean, TypeOK
  <1>1. CASE Spawn
    BY <1>1 DEF Spawn
  <1>2. CASE ReadMarker
    BY <1>2 DEF ReadMarker
  <1>3. CASE RecordedDropsMarker
    BY <1>3 DEF RecordedDropsMarker
  <1>4. CASE Migrate
    BY <1>4 DEF Migrate
  <1>5. CASE MigrationThrows
    BY <1>5 DEF MigrationThrows, Exits
  <1>6. CASE RevertDatabase
    BY <1>6 DEF RevertDatabase
  <1>7. CASE RevertBinary
    BY <1>7 DEF RevertBinary
  <1>8. CASE RevertReports
    BY <1>8 DEF RevertReports
  <1>9. CASE RevertDropsMarker
    BY <1>9 DEF RevertDropsMarker, Exits
  <1>10. CASE Listen
    BY <1>10 DEF Listen
  <1>11. CASE CompleteDropsCopy
    BY <1>11 DEF CompleteDropsCopy
  <1>12. CASE CompleteDropsMarker
    BY <1>12 DEF CompleteDropsMarker
  <1>13. CASE Crash
    BY <1>13 DEF Crash, Exits
  <1>14. CASE ServiceStarted
    BY <1>14 DEF ServiceStarted
  <1>15. CASE JobRestarts
    BY <1>15 DEF JobRestarts, Exits, Able
  <1>16. ASSUME NEW u \in Updaters, Update(u) PROVE TypeOK => Clean
    <2>1. CASE Claim(u)
      BY <2>1 DEF Claim, Able
    <2>2. CASE Snapshot(u)
      BY <2>2 DEF Snapshot, Able
    <2>3. CASE GivesUp(u)
      BY <2>3 DEF GivesUp, Able, Returns
    <2>4. CASE FindNoMarker(u)
      BY <2>4 DEF FindNoMarker, Able, Advance
    <2>5. CASE WriteMarker(u)
      BY <2>5 DEF WriteMarker, Able, Advance
    <2>6. CASE ClearStale(u)
      BY <2>6 DEF ClearStale, Able, Advance
    <2>7. CASE KeepPrevious(u)
      BY <2>7 DEF KeepPrevious, Able, Advance
    <2>8. CASE KeepFails(u)
      BY <2>8 DEF KeepFails, Able, Advance
    <2>9. CASE Swap(u)
      BY <2>9 DEF Swap, Able, Advance
    <2>10. CASE SwapFails(u)
      BY <2>10 DEF SwapFails, Able, Advance
    <2>11. CASE Undo(u)
      BY <2>11 DEF Undo, Able, Returns
    <2> QED BY <1>16, <2>1, <2>2, <2>3, <2>4, <2>5, <2>6, <2>7, <2>8, <2>9, <2>10, <2>11 DEF Update
  <1>17. CASE CliRestarts
    BY <1>17 DEF CliRestarts, Able
  <1>18. CASE CliStopsWaiting
    BY <1>18 DEF CliStopsWaiting, Able, Returns
  <1>19. CASE CliLeaves
    BY <1>19 DEF CliLeaves
  <1>20. CASE RollbackProbes
    BY <1>20 DEF RollbackProbes, RollbackGoes
  <1>21. CASE RollbackReads
    BY <1>21 DEF RollbackReads, RollbackGoes
  <1>22. CASE RollbackStops
    BY <1>22 DEF RollbackStops, RollbackGoes, Exits, SeenRunning
  <1>23. CASE RollbackRestores
    BY <1>23 DEF RollbackRestores, RollbackGoes
  <1>24. CASE RollbackRenames
    BY <1>24 DEF RollbackRenames, RollbackGoes, RollbackEnds
  <1>25. CASE RollbackClears
    BY <1>25 DEF RollbackClears, RollbackGoes
  <1>26. CASE RollbackStarts
    BY <1>26 DEF RollbackStarts, RollbackEnds, RollbackGoes
  <1>27. CASE RollbackLeaves
    BY <1>27 DEF RollbackLeaves, RollbackEnds, RollbackGoes
  <1>28. CASE UNCHANGED vars
    BY <1>28 DEF vars
  <1> QED BY <1>1, <1>2, <1>3, <1>4, <1>5, <1>6, <1>7, <1>8, <1>9, <1>10, <1>11, <1>12, <1>13, <1>14, <1>15, <1>16, <1>17, <1>18, <1>19, <1>20, <1>21, <1>22, <1>23, <1>24, <1>25, <1>26, <1>27, <1>28 DEF Next, Boot, Cli, Rollback

\* What all of the following rest on.
Safe == /\ TypeInv /\ TypeInv' /\ OneHand /\ RollbackHoldsService
        /\ Clean /\ Clean' /\ UncrossedInv

LEMMA BootHoldsStep == ASSUME Safe, [Next]_vars PROVE BootHolds'
  <1> USE NoneAssumption DEF Safe, TypeInv, TypeOK, Alive, RevertsItsOwn, Reverting, OneHand, RollbackHoldsService, Clean, UncrossedInv,
          BootHolds, UpdaterHolds, Runs, HasRead, OwnsTransaction, Updaters, Work, Idle, Listening, Booting, Marked, Markers
  <1>1. CASE Spawn
    BY <1>1 DEF Spawn
  <1>2. CASE ReadMarker
    BY <1>2 DEF ReadMarker
  <1>3. CASE RecordedDropsMarker
    BY <1>3 DEF RecordedDropsMarker
  <1>4. CASE Migrate
    BY <1>4 DEF Migrate
  <1>5. CASE MigrationThrows
    BY <1>5 DEF MigrationThrows, Exits
  <1>6. CASE RevertDatabase
    BY <1>6 DEF RevertDatabase
  <1>7. CASE RevertBinary
    BY <1>7 DEF RevertBinary
  <1>8. CASE RevertReports
    BY <1>8 DEF RevertReports
  <1>9. CASE RevertDropsMarker
    BY <1>9 DEF RevertDropsMarker, Exits
  <1>10. CASE Listen
    BY <1>10 DEF Listen
  <1>11. CASE CompleteDropsCopy
    BY <1>11 DEF CompleteDropsCopy
  <1>12. CASE CompleteDropsMarker
    BY <1>12 DEF CompleteDropsMarker
  <1>13. CASE Crash
    BY <1>13 DEF Crash, Exits
  <1>14. CASE ServiceStarted
    BY <1>14 DEF ServiceStarted
  <1>15. CASE JobRestarts
    BY <1>15 DEF JobRestarts, Exits, Able
  <1>16. ASSUME NEW u \in Updaters, Update(u) PROVE BootHolds'
    <2>1. CASE Claim(u)
      BY <2>1 DEF Claim, Able
    <2>2. CASE Snapshot(u)
      BY <2>2 DEF Snapshot, Able
    <2>3. CASE GivesUp(u)
      BY <2>3 DEF GivesUp, Able, Returns
    <2>4. CASE FindNoMarker(u)
      BY <2>4 DEF FindNoMarker, Able, Advance
    <2>5. CASE WriteMarker(u)
      BY <2>5 DEF WriteMarker, Able, Advance
    <2>6. CASE ClearStale(u)
      BY <2>6 DEF ClearStale, Able, Advance
    <2>7. CASE KeepPrevious(u)
      BY <2>7 DEF KeepPrevious, Able, Advance
    <2>8. CASE KeepFails(u)
      BY <2>8 DEF KeepFails, Able, Advance
    <2>9. CASE Swap(u)
      BY <2>9 DEF Swap, Able, Advance
    <2>10. CASE SwapFails(u)
      BY <2>10 DEF SwapFails, Able, Advance
    <2>11. CASE Undo(u)
      BY <2>11 DEF Undo, Able, Returns
    <2> QED BY <1>16, <2>1, <2>2, <2>3, <2>4, <2>5, <2>6, <2>7, <2>8, <2>9, <2>10, <2>11 DEF Update
  <1>17. CASE CliRestarts
    BY <1>17 DEF CliRestarts, Able
  <1>18. CASE CliStopsWaiting
    BY <1>18 DEF CliStopsWaiting, Able, Returns
  <1>19. CASE CliLeaves
    BY <1>19 DEF CliLeaves
  <1>20. CASE RollbackProbes
    BY <1>20 DEF RollbackProbes, RollbackGoes
  <1>21. CASE RollbackReads
    BY <1>21 DEF RollbackReads, RollbackGoes
  <1>22. CASE RollbackStops
    BY <1>22 DEF RollbackStops, RollbackGoes, Exits, SeenRunning
  <1>23. CASE RollbackRestores
    BY <1>23 DEF RollbackRestores, RollbackGoes
  <1>24. CASE RollbackRenames
    BY <1>24 DEF RollbackRenames, RollbackGoes, RollbackEnds
  <1>25. CASE RollbackClears
    BY <1>25 DEF RollbackClears, RollbackGoes
  <1>26. CASE RollbackStarts
    BY <1>26 DEF RollbackStarts, RollbackEnds, RollbackGoes
  <1>27. CASE RollbackLeaves
    BY <1>27 DEF RollbackLeaves, RollbackEnds, RollbackGoes
  <1>28. CASE UNCHANGED vars
    BY <1>28 DEF vars
  <1> QED BY <1>1, <1>2, <1>3, <1>4, <1>5, <1>6, <1>7, <1>8, <1>9, <1>10, <1>11, <1>12, <1>13, <1>14, <1>15, <1>16, <1>17, <1>18, <1>19, <1>20, <1>21, <1>22, <1>23, <1>24, <1>25, <1>26, <1>27, <1>28 DEF Next, Boot, Cli, Rollback

LEMMA UpdaterHoldsStep == ASSUME Safe, [Next]_vars PROVE UpdaterHolds'
  <1> USE NoneAssumption DEF Safe, TypeInv, TypeOK, Alive, RevertsItsOwn, Reverting, OneHand, RollbackHoldsService, Clean, UncrossedInv,
          BootHolds, UpdaterHolds, Runs, DiskFits, HasRead, OwnsTransaction, Opens, Updaters, Work, Idle, Listening, Booting, Marked, Markers
  <1>1. CASE Spawn
    BY <1>1 DEF Spawn
  <1>2. CASE ReadMarker
    BY <1>2 DEF ReadMarker
  <1>3. CASE RecordedDropsMarker
    BY <1>3 DEF RecordedDropsMarker
  <1>4. CASE Migrate
    BY <1>4 DEF Migrate
  <1>5. CASE MigrationThrows
    BY <1>5 DEF MigrationThrows, Exits
  <1>6. CASE RevertDatabase
    BY <1>6 DEF RevertDatabase
  <1>7. CASE RevertBinary
    BY <1>7 DEF RevertBinary
  <1>8. CASE RevertReports
    BY <1>8 DEF RevertReports
  <1>9. CASE RevertDropsMarker
    BY <1>9 DEF RevertDropsMarker, Exits
  <1>10. CASE Listen
    BY <1>10 DEF Listen
  <1>11. CASE CompleteDropsCopy
    BY <1>11 DEF CompleteDropsCopy
  <1>12. CASE CompleteDropsMarker
    BY <1>12 DEF CompleteDropsMarker
  <1>13. CASE Crash
    BY <1>13 DEF Crash, Exits
  <1>14. CASE ServiceStarted
    BY <1>14 DEF ServiceStarted
  <1>15. CASE JobRestarts
    BY <1>15 DEF JobRestarts, Exits, Able
  <1>16. ASSUME NEW u \in Updaters, Update(u) PROVE UpdaterHolds'
    <2>1. CASE Claim(u)
      BY <2>1 DEF Claim, Able
    <2>2. CASE Snapshot(u)
      BY <2>2 DEF Snapshot, Able
    <2>3. CASE GivesUp(u)
      BY <2>3 DEF GivesUp, Able, Returns
    <2>4. CASE FindNoMarker(u)
      BY <2>4 DEF FindNoMarker, Able, Advance
    <2>5. CASE WriteMarker(u)
      <3>1. /\ pending = None /\ work[u].copy = db /\ UNCHANGED <<binary, previous, db, run>>
            /\ work' = [work EXCEPT ![u].at = "begun"]
            /\ pending' = [to |-> work[u].goal, backup |-> work[u].copy]
        BY <2>5 DEF WriteMarker, Advance
      <3>2. \A w \in Updaters : work[w].at \notin Marked BY <3>1
      <3>3. Opens(binary, db) /\ previous \in {None, binary} /\ run \in {None, binary}
        <4>1. up \notin {"putBack", "reported"} BY <3>1
        <4> QED BY <3>1, <4>1
      <3>4. /\ work'[u].goal = work[u].goal /\ work'[u].copy = work[u].copy /\ work'[u].at = "begun"
            /\ \A w \in Updaters \ {u} : work'[w] = work[w]
        BY <3>1
      <3> QED BY <3>1, <3>2, <3>3, <3>4
    <2>6. CASE ClearStale(u)
      BY <2>6 DEF ClearStale, Able, Advance
    <2>7. CASE KeepPrevious(u)
      BY <2>7 DEF KeepPrevious, Able, Advance
    <2>8. CASE KeepFails(u)
      BY <2>8 DEF KeepFails, Able, Advance
    <2>9. CASE Swap(u)
      BY <2>9 DEF Swap, Able, Advance
    <2>10. CASE SwapFails(u)
      BY <2>10 DEF SwapFails, Able, Advance
    <2>11. CASE Undo(u)
      BY <2>11 DEF Undo, Able, Returns
    <2> QED BY <1>16, <2>1, <2>2, <2>3, <2>4, <2>5, <2>6, <2>7, <2>8, <2>9, <2>10, <2>11 DEF Update
  <1>17. CASE CliRestarts
    BY <1>17 DEF CliRestarts, Able
  <1>18. CASE CliStopsWaiting
    BY <1>18 DEF CliStopsWaiting, Able, Returns
  <1>19. CASE CliLeaves
    BY <1>19 DEF CliLeaves
  <1>20. CASE RollbackProbes
    BY <1>20 DEF RollbackProbes, RollbackGoes
  <1>21. CASE RollbackReads
    BY <1>21 DEF RollbackReads, RollbackGoes
  <1>22. CASE RollbackStops
    BY <1>22 DEF RollbackStops, RollbackGoes, Exits, SeenRunning
  <1>23. CASE RollbackRestores
    BY <1>23 DEF RollbackRestores, RollbackGoes
  <1>24. CASE RollbackRenames
    BY <1>24 DEF RollbackRenames, RollbackGoes, RollbackEnds
  <1>25. CASE RollbackClears
    BY <1>25 DEF RollbackClears, RollbackGoes
  <1>26. CASE RollbackStarts
    BY <1>26 DEF RollbackStarts, RollbackEnds, RollbackGoes
  <1>27. CASE RollbackLeaves
    BY <1>27 DEF RollbackLeaves, RollbackEnds, RollbackGoes
  <1>28. CASE UNCHANGED vars
    BY <1>28 DEF vars
  <1> QED BY <1>1, <1>2, <1>3, <1>4, <1>5, <1>6, <1>7, <1>8, <1>9, <1>10, <1>11, <1>12, <1>13, <1>14, <1>15, <1>16, <1>17, <1>18, <1>19, <1>20, <1>21, <1>22, <1>23, <1>24, <1>25, <1>26, <1>27, <1>28 DEF Next, Boot, Cli, Rollback

LEMMA RunsStep == ASSUME Safe, [Next]_vars PROVE Runs'
  <1> USE NoneAssumption DEF Safe, TypeInv, TypeOK, Alive, RevertsItsOwn, Reverting, OneHand, RollbackHoldsService, Clean, UncrossedInv,
          BootHolds, UpdaterHolds, Runs, DiskFits, StageFits, HasRead, OwnsTransaction, Opens, Updaters, Work, Idle, Listening, Booting, Marked, Markers
  <1>1. CASE Spawn
    BY <1>1 DEF Spawn
  <1>2. CASE ReadMarker
    BY <1>2 DEF ReadMarker
  <1>3. CASE RecordedDropsMarker
    BY <1>3 DEF RecordedDropsMarker
  <1>4. CASE Migrate
    BY <1>4 DEF Migrate
  <1>5. CASE MigrationThrows
    BY <1>5 DEF MigrationThrows, Exits
  <1>6. CASE RevertDatabase
    BY <1>6 DEF RevertDatabase
  <1>7. CASE RevertBinary
    BY <1>7 DEF RevertBinary
  <1>8. CASE RevertReports
    BY <1>8 DEF RevertReports
  <1>9. CASE RevertDropsMarker
    BY <1>9 DEF RevertDropsMarker, Exits
  <1>10. CASE Listen
    BY <1>10 DEF Listen
  <1>11. CASE CompleteDropsCopy
    BY <1>11 DEF CompleteDropsCopy
  <1>12. CASE CompleteDropsMarker
    BY <1>12 DEF CompleteDropsMarker
  <1>13. CASE Crash
    BY <1>13 DEF Crash, Exits
  <1>14. CASE ServiceStarted
    BY <1>14 DEF ServiceStarted
  <1>15. CASE JobRestarts
    BY <1>15 DEF JobRestarts, Exits, Able
  <1>16. ASSUME NEW u \in Updaters, Update(u) PROVE Runs'
    <2>1. CASE Claim(u)
      BY <2>1 DEF Claim, Able
    <2>2. CASE Snapshot(u)
      BY <2>2 DEF Snapshot, Able
    <2>3. CASE GivesUp(u)
      BY <2>3 DEF GivesUp, Able, Returns
    <2>4. CASE FindNoMarker(u)
      BY <2>4 DEF FindNoMarker, Able, Advance
    <2>5. CASE WriteMarker(u)
      BY <2>5 DEF WriteMarker, Able, Advance
    <2>6. CASE ClearStale(u)
      BY <2>6 DEF ClearStale, Able, Advance
    <2>7. CASE KeepPrevious(u)
      BY <2>7 DEF KeepPrevious, Able, Advance
    <2>8. CASE KeepFails(u)
      BY <2>8 DEF KeepFails, Able, Advance
    <2>9. CASE Swap(u)
      BY <2>9 DEF Swap, Able, Advance
    <2>10. CASE SwapFails(u)
      BY <2>10 DEF SwapFails, Able, Advance
    <2>11. CASE Undo(u)
      BY <2>11 DEF Undo, Able, Returns
    <2> QED BY <1>16, <2>1, <2>2, <2>3, <2>4, <2>5, <2>6, <2>7, <2>8, <2>9, <2>10, <2>11 DEF Update
  <1>17. CASE CliRestarts
    BY <1>17 DEF CliRestarts, Able
  <1>18. CASE CliStopsWaiting
    BY <1>18 DEF CliStopsWaiting, Able, Returns
  <1>19. CASE CliLeaves
    BY <1>19 DEF CliLeaves
  <1>20. CASE RollbackProbes
    BY <1>20 DEF RollbackProbes, RollbackGoes
  <1>21. CASE RollbackReads
    BY <1>21 DEF RollbackReads, RollbackGoes
  <1>22. CASE RollbackStops
    BY <1>22 DEF RollbackStops, RollbackGoes, Exits, SeenRunning
  <1>23. CASE RollbackRestores
    BY <1>23 DEF RollbackRestores, RollbackGoes
  <1>24. CASE RollbackRenames
    BY <1>24 DEF RollbackRenames, RollbackGoes, RollbackEnds
  <1>25. CASE RollbackClears
    BY <1>25 DEF RollbackClears, RollbackGoes
  <1>26. CASE RollbackStarts
    BY <1>26 DEF RollbackStarts, RollbackEnds, RollbackGoes
  <1>27. CASE RollbackLeaves
    BY <1>27 DEF RollbackLeaves, RollbackEnds, RollbackGoes
  <1>28. CASE UNCHANGED vars
    BY <1>28 DEF vars
  <1> QED BY <1>1, <1>2, <1>3, <1>4, <1>5, <1>6, <1>7, <1>8, <1>9, <1>10, <1>11, <1>12, <1>13, <1>14, <1>15, <1>16, <1>17, <1>18, <1>19, <1>20, <1>21, <1>22, <1>23, <1>24, <1>25, <1>26, <1>27, <1>28 DEF Next, Boot, Cli, Rollback

LEMMA MarkersFitStep == ASSUME Safe, [Next]_vars PROVE MarkersFit'
  <1> USE NoneAssumption DEF Safe, TypeInv, TypeOK, Alive, RevertsItsOwn, Reverting, OneHand, RollbackHoldsService, Clean, UncrossedInv,
          BootHolds, MarkersFit, HasRead, OwnsTransaction, LastMarker, Opens, Updaters, Work, Idle, Listening, Booting, Marked, Markers
  <1>1. CASE Spawn
    BY <1>1 DEF Spawn
  <1>2. CASE ReadMarker
    BY <1>2 DEF ReadMarker
  <1>3. CASE RecordedDropsMarker
    BY <1>3 DEF RecordedDropsMarker
  <1>4. CASE Migrate
    <2>1. db \in Nat /\ run \in Nat /\ db <= run /\ db' \in {db, run} /\ UNCHANGED <<pending, failed>>
      BY <1>4 DEF Migrate
    <2>2. /\ pending # None => pending.backup \in Nat
          /\ failed # None => failed.backup \in Nat
      OBVIOUS
    <2> QED BY <2>1, <2>2
  <1>5. CASE MigrationThrows
    <2>1. db \in Nat /\ run \in Nat /\ (db' = db \/ (db <= run /\ db' = run)) /\ UNCHANGED <<pending, failed>>
      BY <1>5 DEF MigrationThrows, Exits
    <2>2. /\ pending # None => pending.backup \in Nat
          /\ failed # None => failed.backup \in Nat
      OBVIOUS
    <2> QED BY <2>1, <2>2
  <1>6. CASE RevertDatabase
    BY <1>6 DEF RevertDatabase
  <1>7. CASE RevertBinary
    BY <1>7 DEF RevertBinary
  <1>8. CASE RevertReports
    BY <1>8 DEF RevertReports
  <1>9. CASE RevertDropsMarker
    BY <1>9 DEF RevertDropsMarker, Exits
  <1>10. CASE Listen
    BY <1>10 DEF Listen
  <1>11. CASE CompleteDropsCopy
    BY <1>11 DEF CompleteDropsCopy
  <1>12. CASE CompleteDropsMarker
    BY <1>12 DEF CompleteDropsMarker
  <1>13. CASE Crash
    BY <1>13 DEF Crash, Exits
  <1>14. CASE ServiceStarted
    BY <1>14 DEF ServiceStarted
  <1>15. CASE JobRestarts
    BY <1>15 DEF JobRestarts, Exits, Able
  <1>16. ASSUME NEW u \in Updaters, Update(u) PROVE MarkersFit'
    <2>1. CASE Claim(u)
      BY <2>1 DEF Claim, Able
    <2>2. CASE Snapshot(u)
      BY <2>2 DEF Snapshot, Able
    <2>3. CASE GivesUp(u)
      BY <2>3 DEF GivesUp, Able, Returns
    <2>4. CASE FindNoMarker(u)
      BY <2>4 DEF FindNoMarker, Able, Advance
    <2>5. CASE WriteMarker(u)
      <3>1. failed = None /\ work[u].copy = db /\ UNCHANGED <<db, failed>>
            /\ pending' = [to |-> work[u].goal, backup |-> work[u].copy]
        BY <2>5 DEF WriteMarker, Advance
      <3>2. db \in Nat /\ pending'.backup = db BY <3>1
      <3> QED BY <3>1, <3>2
    <2>6. CASE ClearStale(u)
      BY <2>6 DEF ClearStale, Able, Advance
    <2>7. CASE KeepPrevious(u)
      BY <2>7 DEF KeepPrevious, Able, Advance
    <2>8. CASE KeepFails(u)
      BY <2>8 DEF KeepFails, Able, Advance
    <2>9. CASE Swap(u)
      BY <2>9 DEF Swap, Able, Advance
    <2>10. CASE SwapFails(u)
      BY <2>10 DEF SwapFails, Able, Advance
    <2>11. CASE Undo(u)
      BY <2>11 DEF Undo, Able, Returns
    <2> QED BY <1>16, <2>1, <2>2, <2>3, <2>4, <2>5, <2>6, <2>7, <2>8, <2>9, <2>10, <2>11 DEF Update
  <1>17. CASE CliRestarts
    BY <1>17 DEF CliRestarts, Able
  <1>18. CASE CliStopsWaiting
    BY <1>18 DEF CliStopsWaiting, Able, Returns
  <1>19. CASE CliLeaves
    BY <1>19 DEF CliLeaves
  <1>20. CASE RollbackProbes
    BY <1>20 DEF RollbackProbes, RollbackGoes
  <1>21. CASE RollbackReads
    BY <1>21 DEF RollbackReads, RollbackGoes
  <1>22. CASE RollbackStops
    BY <1>22 DEF RollbackStops, RollbackGoes, Exits, SeenRunning
  <1>23. CASE RollbackRestores
    <2>1. rbMarker = LastMarker /\ db' = (IF rbMarker # None THEN rbMarker.backup ELSE db)
      BY <1>23 DEF RollbackRestores, RollbackGoes, LastMarker
    <2>2. UNCHANGED <<pending, failed>> BY <1>23 DEF RollbackRestores
    <2>3. /\ pending # None => pending.backup \in Nat
          /\ failed # None => failed.backup \in Nat
      OBVIOUS
    <2>4. /\ pending # None => db' = pending.backup
          /\ pending = None /\ failed # None => db' = failed.backup
      BY <2>1 DEF LastMarker
    <2> QED BY <2>2, <2>3, <2>4
  <1>24. CASE RollbackRenames
    BY <1>24 DEF RollbackRenames, RollbackGoes, RollbackEnds
  <1>25. CASE RollbackClears
    BY <1>25 DEF RollbackClears, RollbackGoes
  <1>26. CASE RollbackStarts
    BY <1>26 DEF RollbackStarts, RollbackEnds, RollbackGoes
  <1>27. CASE RollbackLeaves
    BY <1>27 DEF RollbackLeaves, RollbackEnds, RollbackGoes
  <1>28. CASE UNCHANGED vars
    BY <1>28 DEF vars
  <1> QED BY <1>1, <1>2, <1>3, <1>4, <1>5, <1>6, <1>7, <1>8, <1>9, <1>10, <1>11, <1>12, <1>13, <1>14, <1>15, <1>16, <1>17, <1>18, <1>19, <1>20, <1>21, <1>22, <1>23, <1>24, <1>25, <1>26, <1>27, <1>28 DEF Next, Boot, Cli, Rollback

LEMMA DiskFitsStep == ASSUME Safe, [Next]_vars PROVE DiskFits'
  <1> USE NoneAssumption DEF Safe, TypeInv, TypeOK, Alive, RevertsItsOwn, Reverting, OneHand, RollbackHoldsService, Clean, UncrossedInv,
          BootHolds, UpdaterHolds, Runs, MarkersFit, DiskFits, StageFits, HasRead, OwnsTransaction, LastMarker, Opens, Updaters, Work, Idle, Listening, Booting, Marked, Markers
  <1>1. CASE Spawn
    BY <1>1 DEF Spawn
  <1>2. CASE ReadMarker
    BY <1>2 DEF ReadMarker
  <1>3. CASE RecordedDropsMarker
    BY <1>3 DEF RecordedDropsMarker
  <1>4. CASE Migrate
    BY <1>4 DEF Migrate
  <1>5. CASE MigrationThrows
    BY <1>5 DEF MigrationThrows, Exits
  <1>6. CASE RevertDatabase
    BY <1>6 DEF RevertDatabase
  <1>7. CASE RevertBinary
    BY <1>7 DEF RevertBinary
  <1>8. CASE RevertReports
    BY <1>8 DEF RevertReports
  <1>9. CASE RevertDropsMarker
    BY <1>9 DEF RevertDropsMarker, Exits
  <1>10. CASE Listen
    BY <1>10 DEF Listen
  <1>11. CASE CompleteDropsCopy
    BY <1>11 DEF CompleteDropsCopy
  <1>12. CASE CompleteDropsMarker
    BY <1>12 DEF CompleteDropsMarker
  <1>13. CASE Crash
    BY <1>13 DEF Crash, Exits
  <1>14. CASE ServiceStarted
    BY <1>14 DEF ServiceStarted
  <1>15. CASE JobRestarts
    BY <1>15 DEF JobRestarts, Exits, Able
  <1>16. ASSUME NEW u \in Updaters, Update(u) PROVE DiskFits'
    <2>1. CASE Claim(u)
      BY <2>1 DEF Claim, Able
    <2>2. CASE Snapshot(u)
      BY <2>2 DEF Snapshot, Able
    <2>3. CASE GivesUp(u)
      BY <2>3 DEF GivesUp, Able, Returns
    <2>4. CASE FindNoMarker(u)
      BY <2>4 DEF FindNoMarker, Able, Advance
    <2>5. CASE WriteMarker(u)
      BY <2>5 DEF WriteMarker, Able, Advance
    <2>6. CASE ClearStale(u)
      BY <2>6 DEF ClearStale, Able, Advance
    <2>7. CASE KeepPrevious(u)
      BY <2>7 DEF KeepPrevious, Able, Advance
    <2>8. CASE KeepFails(u)
      BY <2>8 DEF KeepFails, Able, Advance
    <2>9. CASE Swap(u)
      BY <2>9 DEF Swap, Able, Advance
    <2>10. CASE SwapFails(u)
      BY <2>10 DEF SwapFails, Able, Advance
    <2>11. CASE Undo(u)
      BY <2>11 DEF Undo, Able, Returns
    <2> QED BY <1>16, <2>1, <2>2, <2>3, <2>4, <2>5, <2>6, <2>7, <2>8, <2>9, <2>10, <2>11 DEF Update
  <1>17. CASE CliRestarts
    BY <1>17 DEF CliRestarts, Able
  <1>18. CASE CliStopsWaiting
    BY <1>18 DEF CliStopsWaiting, Able, Returns
  <1>19. CASE CliLeaves
    BY <1>19 DEF CliLeaves
  <1>20. CASE RollbackProbes
    BY <1>20 DEF RollbackProbes, RollbackGoes
  <1>21. CASE RollbackReads
    BY <1>21 DEF RollbackReads, RollbackGoes
  <1>22. CASE RollbackStops
    BY <1>22 DEF RollbackStops, RollbackGoes, Exits, SeenRunning
  <1>23. CASE RollbackRestores
    <2>1. rbMarker = LastMarker /\ db' = (IF rbMarker # None THEN rbMarker.backup ELSE db)
      BY <1>23 DEF RollbackRestores, RollbackGoes, LastMarker
    <2>2. UNCHANGED <<pending, failed, binary, previous>> BY <1>23 DEF RollbackRestores
    <2>3. db' \in Nat /\ db \in Nat /\ binary \in Nat /\ db' <= db
      <3>1. /\ pending # None => pending.backup \in Nat /\ pending.backup <= db
            /\ failed # None => failed.backup \in Nat /\ failed.backup <= db
        OBVIOUS
      <3> QED BY <2>1, <3>1
    <2>4. Opens(binary, db) => Opens(binary, db') BY <2>3
    <2>5. UNCHANGED <<pending, failed, binary, previous>> /\ DiskFits BY <2>2
    <2> QED BY ONLY <2>4, <2>5 DEF DiskFits, Opens
  <1>24. CASE RollbackRenames
    BY <1>24 DEF RollbackRenames, RollbackGoes, RollbackEnds
  <1>25. CASE RollbackClears
    BY <1>25 DEF RollbackClears, RollbackGoes
  <1>26. CASE RollbackStarts
    BY <1>26 DEF RollbackStarts, RollbackEnds, RollbackGoes
  <1>27. CASE RollbackLeaves
    BY <1>27 DEF RollbackLeaves, RollbackEnds, RollbackGoes
  <1>28. CASE UNCHANGED vars
    BY <1>28 DEF vars
  <1> QED BY <1>1, <1>2, <1>3, <1>4, <1>5, <1>6, <1>7, <1>8, <1>9, <1>10, <1>11, <1>12, <1>13, <1>14, <1>15, <1>16, <1>17, <1>18, <1>19, <1>20, <1>21, <1>22, <1>23, <1>24, <1>25, <1>26, <1>27, <1>28 DEF Next, Boot, Cli, Rollback

LEMMA StageFitsStep == ASSUME Safe, [Next]_vars PROVE StageFits'
  <1> USE NoneAssumption DEF Safe, TypeInv, TypeOK, Alive, RevertsItsOwn, Reverting, OneHand, RollbackHoldsService, Clean, UncrossedInv,
          BootHolds, UpdaterHolds, Runs, MarkersFit, DiskFits, StageFits, HasRead, OwnsTransaction, LastMarker, Opens, Updaters, Work, Idle, Listening, Booting, Marked, Markers
  <1>1. CASE Spawn
    BY <1>1 DEF Spawn
  <1>2. CASE ReadMarker
    BY <1>2 DEF ReadMarker
  <1>3. CASE RecordedDropsMarker
    BY <1>3 DEF RecordedDropsMarker
  <1>4. CASE Migrate
    BY <1>4 DEF Migrate
  <1>5. CASE MigrationThrows
    BY <1>5 DEF MigrationThrows, Exits
  <1>6. CASE RevertDatabase
    BY <1>6 DEF RevertDatabase
  <1>7. CASE RevertBinary
    BY <1>7 DEF RevertBinary
  <1>8. CASE RevertReports
    BY <1>8 DEF RevertReports
  <1>9. CASE RevertDropsMarker
    BY <1>9 DEF RevertDropsMarker, Exits
  <1>10. CASE Listen
    BY <1>10 DEF Listen
  <1>11. CASE CompleteDropsCopy
    BY <1>11 DEF CompleteDropsCopy
  <1>12. CASE CompleteDropsMarker
    BY <1>12 DEF CompleteDropsMarker
  <1>13. CASE Crash
    BY <1>13 DEF Crash, Exits
  <1>14. CASE ServiceStarted
    BY <1>14 DEF ServiceStarted
  <1>15. CASE JobRestarts
    BY <1>15 DEF JobRestarts, Exits, Able
  <1>16. ASSUME NEW u \in Updaters, Update(u) PROVE StageFits'
    <2>1. CASE Claim(u)
      BY <2>1 DEF Claim, Able
    <2>2. CASE Snapshot(u)
      BY <2>2 DEF Snapshot, Able
    <2>3. CASE GivesUp(u)
      BY <2>3 DEF GivesUp, Able, Returns
    <2>4. CASE FindNoMarker(u)
      BY <2>4 DEF FindNoMarker, Able, Advance
    <2>5. CASE WriteMarker(u)
      BY <2>5 DEF WriteMarker, Able, Advance
    <2>6. CASE ClearStale(u)
      BY <2>6 DEF ClearStale, Able, Advance
    <2>7. CASE KeepPrevious(u)
      BY <2>7 DEF KeepPrevious, Able, Advance
    <2>8. CASE KeepFails(u)
      BY <2>8 DEF KeepFails, Able, Advance
    <2>9. CASE Swap(u)
      BY <2>9 DEF Swap, Able, Advance
    <2>10. CASE SwapFails(u)
      BY <2>10 DEF SwapFails, Able, Advance
    <2>11. CASE Undo(u)
      BY <2>11 DEF Undo, Able, Returns
    <2> QED BY <1>16, <2>1, <2>2, <2>3, <2>4, <2>5, <2>6, <2>7, <2>8, <2>9, <2>10, <2>11 DEF Update
  <1>17. CASE CliRestarts
    BY <1>17 DEF CliRestarts, Able
  <1>18. CASE CliStopsWaiting
    BY <1>18 DEF CliStopsWaiting, Able, Returns
  <1>19. CASE CliLeaves
    BY <1>19 DEF CliLeaves
  <1>20. CASE RollbackProbes
    BY <1>20 DEF RollbackProbes, RollbackGoes
  <1>21. CASE RollbackReads
    BY <1>21 DEF RollbackReads, RollbackGoes
  <1>22. CASE RollbackStops
    BY <1>22 DEF RollbackStops, RollbackGoes, Exits, SeenRunning
  <1>23. CASE RollbackRestores
    BY <1>23 DEF RollbackRestores, RollbackGoes
  <1>24. CASE RollbackRenames
    BY <1>24 DEF RollbackRenames, RollbackGoes, RollbackEnds
  <1>25. CASE RollbackClears
    BY <1>25 DEF RollbackClears, RollbackGoes
  <1>26. CASE RollbackStarts
    BY <1>26 DEF RollbackStarts, RollbackEnds, RollbackGoes
  <1>27. CASE RollbackLeaves
    BY <1>27 DEF RollbackLeaves, RollbackEnds, RollbackGoes
  <1>28. CASE UNCHANGED vars
    BY <1>28 DEF vars
  <1> QED BY <1>1, <1>2, <1>3, <1>4, <1>5, <1>6, <1>7, <1>8, <1>9, <1>10, <1>11, <1>12, <1>13, <1>14, <1>15, <1>16, <1>17, <1>18, <1>19, <1>20, <1>21, <1>22, <1>23, <1>24, <1>25, <1>26, <1>27, <1>28 DEF Next, Boot, Cli, Rollback

\* Each part holds at the start.
LEMMA UncrossedInitially == Init => OneHand /\ RollbackHoldsService /\ UncrossedInv
  <1> SUFFICES ASSUME Init PROVE OneHand /\ RollbackHoldsService /\ UncrossedInv
    OBVIOUS
  <1>1. \A u \in Updaters : work[u].at = "idle" BY DEF Init, Idle
  <1>2. /\ up = "settled" /\ rb = "idle" /\ pending = None /\ failed = None /\ seen = None /\ previous = None
        /\ run = First /\ binary = First /\ db = First
    BY DEF Init
  <1>3. Opens(First, First) BY DEF Opens
  <1>4. OneHand /\ RollbackHoldsService BY <1>1, <1>2 DEF OneHand, RollbackHoldsService, Updaters
  <1>5. BootHolds /\ Runs BY <1>2 DEF BootHolds, HasRead, Runs
  <1>6. UpdaterHolds BY <1>1 DEF UpdaterHolds, Marked
  <1>7. MarkersFit /\ DiskFits /\ StageFits BY <1>2, <1>3 DEF MarkersFit, DiskFits, StageFits
  <1> QED BY <1>4, <1>5, <1>6, <1>7 DEF UncrossedInv

\* Under systemd an instance that the dashboard, a terminal's updates and a
\* terminal's rollbacks all change can boot after a crash at any step, for any
\* releases and any number of crashes, unless two of them crossed.
THEOREM UncrossedRecover ==
    ASSUME Supervisor = "systemd"
    PROVE  Spec => []BootRecoversUnlessCrossed
  <1> DEFINE Inv == OneHand /\ RollbackHoldsService /\ (Clean => UncrossedInv)
  <1>1. Init => Inv BY UncrossedInitially
  <1>2. TypeInv /\ Inv /\ [Next]_vars => Inv'
    <2> SUFFICES ASSUME TypeInv, Inv, [Next]_vars PROVE Inv'
      OBVIOUS
    <2>1. TypeInv' BY TypeStep
    <2>2. OneHand' BY HandStep
    <2>3. RollbackHoldsService' BY RollbackStep
    <2>4. ASSUME Clean' PROVE UncrossedInv'
      <3>1. Clean BY <2>4, HistoryGrows DEF TypeInv
      <3>2. Safe BY <2>1, <2>4, <3>1 DEF Safe
      <3>3. BootHolds' /\ UpdaterHolds' BY <3>2, BootHoldsStep, UpdaterHoldsStep
      <3>4. Runs' /\ MarkersFit' BY <3>2, RunsStep, MarkersFitStep
      <3>5. DiskFits' /\ StageFits' BY <3>2, DiskFitsStep, StageFitsStep
      <3> QED BY <3>3, <3>4, <3>5 DEF UncrossedInv
    <2> QED BY <2>2, <2>3, <2>4
  <1>3. Inv => BootRecoversUnlessCrossed
    BY DEF Clean, UncrossedInv, DiskFits, BootRecoversUnlessCrossed, BootRecovers, RevertBoots
  <1> QED BY TypeInitially, TypeStep, <1>1, <1>2, <1>3, PTL DEF Spec
=============================================================================
