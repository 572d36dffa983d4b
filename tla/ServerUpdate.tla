---------------------------- MODULE ServerUpdate ----------------------------
(***************************************************************************)
(* The control plane replacing its own binary: the transaction of          *)
(* update-transaction.ts, the dashboard's job of server-update.ts, the     *)
(* terminal's `subshell-server update` and `update --rollback` of          *)
(* cli/commands/update.ts, and the boot of index.ts that finishes or       *)
(* reverts what they began.                                                *)
(*                                                                         *)
(* Three processes share one directory and one database: the server under  *)
(* its service manager, the job inside it, and a terminal.  Each action is *)
(* one durable step (a rename, a marker written or removed, a database     *)
(* replaced); any process may die between two of them.                     *)
(*                                                                         *)
(* A version is a number, and a database's schema is the version that      *)
(* migrated it last.  Data beyond the schema is not modelled.              *)
(***************************************************************************)
EXTENDS Naturals

CONSTANTS
    Versions,       \* the releases that exist
    First,          \* the one installed at the start
    Bad,            \* those whose migrations throw
    Actors,         \* who drives updates: a subset of {"job", "cli", "rollback"}
    Supervisor,     \* what supervises the server: "systemd" or "launchd"
    MaxCrashes,     \* bound: deaths of the server's process it did not choose
    None            \* "no such file"

ASSUME VersionsAssumption ==
    /\ Versions \subseteq Nat
    /\ First \in Versions \ Bad
ASSUME ActorsAssumption == Actors \subseteq {"job", "cli", "rollback"}
ASSUME SupervisorAssumption == Supervisor \in {"systemd", "launchd"}
ASSUME MaxCrashesAssumption == MaxCrashes \in Nat

Updaters == {"job", "cli"}

\* pending.json and failed.json; `from` and the paths are the same in every marker
\* (the live path and its `.previous`) but for the version that is kept there.
Markers == [to : Versions, backup : Versions]

ASSUME NoneAssumption == None \notin Versions \cup Markers

VARIABLES
    binary,     \* the version at the path the service definition names
    previous,   \* the version at `.previous`, or None
    pending,    \* pending.json
    failed,     \* failed.json
    db,         \* the schema of the live database
    up,         \* the server's process
    run,        \* the version that process executes, None without one
    seen,       \* the marker its boot read
    work,       \* work[u]: how far updater u has come, the version it installs and
                \* the schema in the copy it took
    rb,         \* the terminal's rollback
    rbMarker,   \* the marker it read
    rbStopped,  \* it stopped the service and owes it a start
    damaged,    \* history: a revert could not restore the database
    crossed,    \* history: two actors' transactions ran into each other
    crashes     \* how many times the process was killed

disk == <<binary, previous, pending, failed, db>>
server == <<up, run, seen>>
terminal == <<rb, rbMarker, rbStopped>>
history == <<damaged, crossed, crashes>>
vars == <<disk, server, work, terminal, history>>

\* "stopped" and "down" are the manager's: it respawns only the second.  The
\* rest are the boot's, each named for what it has done.
Booting == {"started", "recorded", "opening", "reverting", "restored", "putBack",
            "reported", "migrated"}
Listening == {"serving", "clearing", "settled"}
Stages == {"idle", "claimed", "copied", "clear", "begun", "bare", "kept", "undone", "swapped", "waiting"}
Marked == {"begun", "bare", "kept", "undone"}   \* the marker stands, the new binary does not
Work == [at : Stages, goal : Versions, copy : Versions]
Idle == [at |-> "idle", goal |-> First, copy |-> First]
RollbackStages == {"idle", "probed", "read", "stopped", "restored", "renamed", "cleared"}

TypeOK ==
    /\ binary \in Versions
    /\ previous \in Versions \cup {None}
    /\ pending \in Markers \cup {None}
    /\ failed \in Markers \cup {None}
    /\ db \in Versions
    /\ up \in {"stopped", "down"} \cup Booting \cup Listening
    /\ run \in Versions \cup {None}
    /\ seen \in Markers \cup {None}
    /\ work \in [Updaters -> Work]
    /\ rb \in RollbackStages
    /\ rbMarker \in Markers \cup {None}
    /\ rbStopped \in BOOLEAN
    /\ damaged \in BOOLEAN
    /\ crossed \in BOOLEAN
    /\ crashes \in 0..MaxCrashes

Init ==
    /\ binary = First /\ previous = None
    /\ pending = None /\ failed = None
    /\ db = First
    /\ up = "settled" /\ run = First /\ seen = None
    /\ work = [u \in Updaters |-> Idle]
    /\ rb = "idle" /\ rbMarker = None /\ rbStopped = FALSE
    /\ damaged = FALSE /\ crossed = FALSE /\ crashes = 0

-----------------------------------------------------------------------------
(* The boot. *)

\* A binary opens a database no newer than itself, when its migrations do not throw.
Opens(v, schema) == schema <= v /\ v \notin Bad

\* The process ends, and with it its memory and the job inside it.
Exits(where) ==
    /\ up' = where
    /\ run' = None
    /\ seen' = None
    /\ work' = [work EXCEPT !["job"] = Idle]

Spawn ==
    /\ up = "down"
    /\ up' = "started"
    /\ run' = binary
    /\ seen' = None
    /\ UNCHANGED <<disk, work, terminal, history>>

\* readPending: a marker for another version is recorded as a failure first.
ReadMarker ==
    /\ up = "started"
    /\ seen' = pending
    /\ IF pending # None /\ pending.to # run
       THEN up' = "recorded" /\ failed' \in {failed, pending}
       ELSE up' = "opening" /\ UNCHANGED failed
    /\ crossed' = \/ crossed
                  \/ /\ pending # None
                     /\ \/ pending.to # run /\ binary = pending.to
                        \/ \E u \in Updaters : work[u].at \in Marked
    /\ UNCHANGED <<binary, previous, pending, db, run, work, terminal, damaged, crashes>>

\* Mutant of RecordedDropsMarker: the failure is recorded and the marker stays.
RecordedKeepsMarker ==
    /\ up = "recorded"
    /\ up' = "opening"
    /\ UNCHANGED <<disk, run, seen, work, terminal, history>>

\* recordFailure's second half.
RecordedDropsMarker ==
    /\ up = "recorded"
    /\ pending' = None
    /\ up' = "opening"
    /\ UNCHANGED <<binary, previous, failed, db, run, seen, work, terminal, history>>

\* This boot is the one the marker it read was written for.
OwnsTransaction == seen # None /\ seen.to = run

Migrate ==
    /\ up = "opening"
    /\ Opens(run, db)
    /\ db' = run
    /\ up' = "migrated"
    /\ UNCHANGED <<binary, previous, pending, failed, run, seen, work, terminal, history>>

\* Mutant of MigrationThrows: it dies without reverting.
ThrowsOnly ==
    /\ up = "opening"
    /\ ~Opens(run, db)
    /\ db' \in {db} \cup (IF db <= run THEN {run} ELSE {})
    /\ Exits("down")
    /\ UNCHANGED <<binary, previous, pending, failed, terminal, history>>

\* A migration throws (the accounts' run after the others').  The boot that owns
\* the transaction reverts it; any other just dies.
MigrationThrows ==
    /\ up = "opening"
    /\ ~Opens(run, db)
    /\ db' \in {db} \cup (IF db <= run THEN {run} ELSE {})
    /\ IF OwnsTransaction
       THEN up' = "reverting" /\ UNCHANGED <<run, seen, work>>
       ELSE Exits("down")
    /\ UNCHANGED <<binary, previous, pending, failed, terminal, history>>

\* Mutant of RevertDatabase: the marker goes with it and not last.
RevertDropsMarkerFirst ==
    /\ up = "reverting"
    /\ up' = "restored"
    /\ pending' = None
    /\ \/ db' = seen.backup /\ UNCHANGED damaged
       \/ damaged' = TRUE /\ UNCHANGED db
    /\ UNCHANGED <<binary, previous, failed, run, seen, work, terminal, crossed, crashes>>

\* revertUpdate: the database first; a restore that fails is logged and passed.
RevertDatabase ==
    /\ up = "reverting"
    /\ up' = "restored"
    /\ \/ db' = seen.backup /\ UNCHANGED damaged
       \/ damaged' = TRUE /\ UNCHANGED db
    /\ UNCHANGED <<binary, previous, pending, failed, run, seen, work, terminal, crossed, crashes>>

\* The binary second; a copy that is gone, does not run or does not move is logged.
RevertBinary ==
    /\ up = "restored"
    /\ up' = "putBack"
    /\ \/ /\ previous # None
          /\ binary' = previous
          /\ previous' = None
          /\ UNCHANGED damaged
       \/ /\ damaged' = TRUE
          /\ UNCHANGED <<binary, previous>>
    /\ UNCHANGED <<pending, failed, db, run, seen, work, terminal, crossed, crashes>>

\* failed.json, best effort.
RevertReports ==
    /\ up = "putBack"
    /\ up' = "reported"
    /\ failed' \in {failed, seen}
    /\ UNCHANGED <<binary, previous, pending, db, run, seen, work, terminal, history>>

\* The marker last; then exit(1), and the manager respawns.
RevertDropsMarker ==
    /\ up = "reported"
    /\ pending' = None
    /\ Exits("down")
    /\ UNCHANGED <<binary, previous, failed, db, terminal, history>>

Listen ==
    /\ up = "migrated"
    /\ up' = IF OwnsTransaction THEN "serving" ELSE "settled"
    /\ UNCHANGED <<disk, run, seen, work, terminal, history>>

\* completeUpdate: the audit was awaited, then the copy goes, then the marker.
CompleteDropsCopy ==
    /\ up = "serving"
    /\ previous' = None
    /\ up' = "clearing"
    /\ UNCHANGED <<binary, pending, failed, db, run, seen, work, terminal, history>>

CompleteDropsMarker ==
    /\ up = "clearing"
    /\ pending' = None
    /\ up' = "settled"
    /\ UNCHANGED <<binary, previous, failed, db, run, seen, work, terminal, history>>

\* The process dies: a port it cannot bind, a kill, a power cut.
Crash ==
    /\ up \notin {"stopped", "down"}
    /\ crashes < MaxCrashes
    /\ crashes' = crashes + 1
    /\ Exits("down")
    /\ UNCHANGED <<disk, terminal, damaged, crossed>>

\* An operator starts it again, but not in the middle of a rollback.
ServiceStarted ==
    /\ up = "stopped"
    /\ rb = "idle"
    /\ up' = "down"
    /\ UNCHANGED <<disk, run, seen, work, terminal, history>>

-----------------------------------------------------------------------------
(* An update: the job's steps and the terminal's are the same. *)

\* The job runs inside a listening server; the terminal runs one verb at a time.
Able(u) ==
    /\ u \in Actors
    /\ IF u = "job" THEN up \in Listening ELSE rb = "idle"

Advance(u, from, to) ==
    /\ Able(u)
    /\ work[u].at = from
    /\ work' = [work EXCEPT ![u].at = to]

\* The verb or the job returns.
Returns(u, from) ==
    /\ Able(u)
    /\ work[u].at = from
    /\ work' = [work EXCEPT ![u] = Idle]

\* The dashboard installs a newer release and looks at the marker; the terminal
\* installs any other one and does not look.
Claim(u) ==
    /\ Able(u)
    /\ work[u].at = "idle"
    /\ \E v \in Versions :
          /\ IF u = "job" THEN v > run /\ pending = None ELSE v # binary
          /\ work' = [work EXCEPT ![u] = [at |-> "claimed", goal |-> v, copy |-> First]]
    /\ UNCHANGED <<disk, server, terminal, history>>

\* Downloaded, probed; createUpdateBackup copies the database.
Snapshot(u) ==
    /\ Able(u)
    /\ work[u].at = "claimed"
    /\ work' = [work EXCEPT ![u] = [at |-> "copied", goal |-> @.goal, copy |-> db]]
    /\ crossed' = (crossed \/ pending # None)
    /\ UNCHANGED <<disk, server, terminal, damaged, crashes>>

\* Every failure before the transaction leaves the host as it was.
GivesUp(u) ==
    /\ Returns(u, "claimed") \/ Returns(u, "copied")
    /\ UNCHANGED <<disk, server, terminal, history>>

\* beginUpdate: no marker may stand; an earlier failure is moved aside if it can be ...
FindNoMarker(u) ==
    /\ Advance(u, "copied", "clear")
    /\ pending = None
    /\ failed' \in {failed, None}
    /\ UNCHANGED <<binary, previous, pending, db, server, terminal, history>>

\* ... and the marker is written.
WriteMarker(u) ==
    /\ Advance(u, "clear", "begun")
    /\ pending' = [to |-> work[u].goal, backup |-> work[u].copy]
    /\ crossed' = (crossed \/ pending # None \/ failed # None \/ work[u].copy # db)
    /\ UNCHANGED <<binary, previous, failed, db, server, terminal, damaged, crashes>>

\* keepPreviousBinary: a stale copy goes, then the live binary gets a second name.
ClearStale(u) ==
    /\ Advance(u, "begun", "bare")
    /\ previous' = None
    /\ UNCHANGED <<binary, pending, failed, db, server, terminal, history>>

\* Mutant of KeepPrevious: the link fails and nobody notices.
KeepsNothing(u) ==
    /\ Advance(u, "bare", "kept")
    /\ UNCHANGED <<disk, server, terminal, history>>

KeepPrevious(u) ==
    /\ Advance(u, "bare", "kept")
    /\ previous' = binary
    /\ UNCHANGED <<binary, pending, failed, db, server, terminal, history>>

\* Neither a link nor a copy.
KeepFails(u) ==
    /\ Advance(u, "begun", "undone") \/ Advance(u, "bare", "undone")
    /\ UNCHANGED <<disk, server, terminal, history>>

Swap(u) ==
    /\ Advance(u, "kept", "swapped")
    /\ binary' = work[u].goal
    /\ UNCHANGED <<previous, pending, failed, db, server, terminal, history>>

SwapFails(u) ==
    /\ Advance(u, "kept", "undone")
    /\ previous' = None
    /\ UNCHANGED <<binary, pending, failed, db, server, terminal, history>>

\* Either failure ends in dropping the marker.
Undo(u) ==
    /\ Returns(u, "undone")
    /\ pending' = None
    /\ UNCHANGED <<binary, previous, failed, db, server, terminal, history>>

\* The job exits for the manager.
JobRestarts ==
    /\ Able("job")
    /\ work["job"].at = "swapped"
    /\ Exits("down")
    /\ UNCHANGED <<disk, terminal, history>>

\* The terminal restarts a running service and waits for the markers ...
CliRestarts ==
    /\ Able("cli")
    /\ work["cli"].at = "swapped"
    /\ up # "stopped"
    /\ up' = "down"
    /\ run' = None
    /\ seen' = None
    /\ work' = [work EXCEPT !["cli"].at = "waiting", !["job"] = Idle]
    /\ UNCHANGED <<disk, terminal, history>>

\* ... until either answers, its minute is over (a rollback may follow), or it dies.
CliStopsWaiting ==
    /\ Returns("cli", "waiting")
    /\ UNCHANGED <<disk, server, terminal, history>>

\* --no-restart, no service, a restart that fails; or the terminal dies anywhere.
CliLeaves ==
    /\ work["cli"].at \notin {"idle", "waiting"}
    /\ work' = [work EXCEPT !["cli"] = Idle]
    /\ UNCHANGED <<disk, server, terminal, history>>

-----------------------------------------------------------------------------
(* update --rollback. *)

\* Rolling back is one verb of the one terminal.
RollbackGoes(from, to) ==
    /\ "rollback" \in Actors
    /\ work["cli"].at = "idle"
    /\ rb = from
    /\ rb' = to

RollbackEnds(from) ==
    /\ RollbackGoes(from, "idle")
    /\ rbMarker' = None
    /\ rbStopped' = FALSE

LastMarker == IF pending # None THEN pending ELSE failed

RollbackProbes ==
    /\ RollbackGoes("idle", "probed")
    /\ previous # None
    /\ UNCHANGED <<disk, server, work, rbMarker, rbStopped, history>>

\* readPending() ?? readFailed(), then the operator is asked.
RollbackReads ==
    /\ RollbackGoes("probed", "read")
    /\ rbMarker' = LastMarker
    /\ UNCHANGED <<disk, server, work, rbStopped, history>>

\* What queryService may call running.  systemd's `activating` counts; launchd's
\* throttled respawn does not.
SeenRunning == up # "stopped" /\ (up = "down" => Supervisor = "systemd")

\* Mutant of RollbackStops: it goes on beside the service.
RollbackStopsNothing ==
    /\ RollbackGoes("read", "stopped")
    /\ rbStopped' = FALSE
    /\ UNCHANGED <<disk, server, work, rbMarker, history>>

RollbackStops ==
    /\ RollbackGoes("read", "stopped")
    /\ rbStopped' = SeenRunning
    /\ IF SeenRunning THEN Exits("stopped") ELSE UNCHANGED <<server, work>>
    /\ UNCHANGED <<disk, rbMarker, history>>

RollbackRestores ==
    /\ RollbackGoes("stopped", "restored")
    /\ db' = IF rbMarker # None THEN rbMarker.backup ELSE db
    /\ crossed' = (crossed \/ rbMarker # LastMarker)
    /\ UNCHANGED <<binary, previous, pending, failed, server, work,
                   rbMarker, rbStopped, damaged, crashes>>

\* The rename; with the copy gone it throws and the verb is over.
RollbackRenames ==
    /\ IF previous # None
       THEN /\ RollbackGoes("restored", "renamed")
            /\ binary' = previous
            /\ previous' = None
            /\ UNCHANGED <<rbMarker, rbStopped>>
       ELSE RollbackEnds("restored") /\ UNCHANGED <<binary, previous>>
    /\ UNCHANGED <<pending, failed, db, server, work, history>>

RollbackClears ==
    /\ RollbackGoes("renamed", "cleared")
    /\ pending' = None
    /\ UNCHANGED <<binary, previous, failed, db, server, work, rbMarker, rbStopped, history>>

RollbackStarts ==
    /\ RollbackEnds("cleared")
    /\ up' = IF rbStopped /\ up = "stopped" THEN "down" ELSE up
    /\ UNCHANGED <<disk, run, seen, work, history>>

\* Refused, declined, a restore that throws, or the terminal dies.
RollbackLeaves ==
    /\ rb # "idle"
    /\ RollbackEnds(rb)
    /\ UNCHANGED <<disk, server, work, history>>

-----------------------------------------------------------------------------
Boot ==
    \/ Spawn \/ ReadMarker \/ RecordedDropsMarker \/ Migrate \/ MigrationThrows
    \/ RevertDatabase \/ RevertBinary \/ RevertReports \/ RevertDropsMarker
    \/ Listen \/ CompleteDropsCopy \/ CompleteDropsMarker

Update(u) ==
    \/ Claim(u) \/ Snapshot(u) \/ GivesUp(u) \/ FindNoMarker(u) \/ WriteMarker(u)
    \/ ClearStale(u) \/ KeepPrevious(u) \/ KeepFails(u)
    \/ Swap(u) \/ SwapFails(u) \/ Undo(u)

Cli == CliRestarts \/ CliStopsWaiting \/ CliLeaves

Rollback ==
    \/ RollbackProbes \/ RollbackReads \/ RollbackStops \/ RollbackRestores
    \/ RollbackRenames \/ RollbackClears \/ RollbackStarts \/ RollbackLeaves

Next ==
    \/ Boot \/ Crash \/ ServiceStarted
    \/ \E u \in Updaters : Update(u)
    \/ JobRestarts \/ Cli \/ Rollback

Spec == Init /\ [][Next]_vars

\* From the marker to the swap the job runs without an await; then a timer exits.
Landing ==
    \/ ClearStale("job") \/ KeepPrevious("job") \/ KeepFails("job")
    \/ Swap("job") \/ SwapFails("job") \/ Undo("job") \/ JobRestarts

\* The manager respawns what is down, a boot goes on, a job that began lands.
Fairness == WF_vars(Boot) /\ WF_vars(Landing)

FairSpec == Spec /\ Fairness

-----------------------------------------------------------------------------
(* Properties. *)

\* The revert at the next boot is able to bring the old version back.
RevertBoots ==
    /\ pending # None
    /\ pending.to = binary
    /\ previous # None
    /\ Opens(previous, pending.backup)

\* Whatever step the process stops at, the next boot comes up: the installed
\* binary opens the database, or finds the marker, the copy and the backup with
\* which it reverts to a version that does.  Claimed of the dashboard's updates;
\* a terminal's can lose its marker to a boot.
BootRecovers == damaged \/ Opens(binary, db) \/ RevertBoots

\* The same of every mix of actors, unless two of them crossed: a marker was
\* consumed while its swap stood or was about to, a copy was taken inside
\* another's transaction, a transaction was opened beside another's marker, over
\* the record of another's failure or on a copy another had outdated, or a
\* rollback acted on a marker that no longer was the last.  Under systemd there
\* is no other way; launchd may also start the server under a rollback.
BootRecoversUnlessCrossed == crossed \/ BootRecovers

\* No rollback replaces the database under a process that may have it open.
\* Claimed of systemd, which reports a unit between two respawns as running.
RestoresUnopened == rb = "restored" => up \in {"stopped", "down"}

\* A marker never refuses updates for ever: the next boot finishes the update,
\* reverts it or records its failure, whatever it is interrupted by.
MarkerSettles == pending # None ~> pending = None

\* The instance always comes back to serve, whichever versions are installed.
ServesAgain == []<>(damaged \/ up \in Listening)
=============================================================================
