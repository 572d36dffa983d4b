----------------------------- MODULE AgentUpdate -----------------------------
(***************************************************************************)
(* A node replacing its own binary: the transaction of the agent's         *)
(* update.ts, the three ways into it (the plane's `update` command, the    *)
(* loopback dashboard and the terminal's `subshell update` and             *)
(* `--rollback`), and the parts of daemon.ts that settle it: an accepted   *)
(* connection deletes what the update kept, a 4406 puts it back.           *)
(*                                                                         *)
(* Two processes share one directory: the daemon under its service         *)
(* manager, and a terminal.  Each action is one durable step; either       *)
(* process may die between two of them.  A version is a number, a release  *)
(* is runnable, and the plane decides which versions it talks to.          *)
(***************************************************************************)
EXTENDS Naturals

CONSTANTS
    Versions,       \* the releases that exist
    First,          \* the one installed at the start
    Planes,         \* the sets of versions a plane may accept
    Actors,         \* who drives: a subset of {"daemon", "terminal"}
    MaxOps,         \* bound: updates and rollbacks begun
    MaxFaults,      \* bound: processes killed, connections lost
    MaxMoves,       \* bound: changes of what the plane accepts
    None            \* "no such file"

ASSUME VersionsAssumption == Versions \subseteq Nat /\ First \in Versions
ASSUME PlanesAssumption ==
    Planes \subseteq SUBSET Versions /\ \E plane \in Planes : First \in plane
ASSUME ActorsAssumption == Actors \subseteq {"daemon", "terminal"}
ASSUME BoundsAssumption == MaxOps \in Nat /\ MaxFaults \in Nat /\ MaxMoves \in Nat

\* update-pending.json and update-failed.json.  The paths in them are the same in
\* every marker; the terminal runs the binary at that path when it is started.
Markers == [from : Versions, to : Versions]

ASSUME NoneAssumption == None \notin Versions \cup Markers

VARIABLES
    binary,     \* the version at the path the service definition names
    previous,   \* the version at `.previous`, or None
    pending,    \* update-pending.json
    failed,     \* update-failed.json
    run,        \* the version the daemon executes, None between two processes
    link,       \* its connection
    settle,     \* its completeUpdate; "open" until the process has settled
    revert,     \* its revertAfterRefusal
    reverting,  \* the marker the revert read
    work,       \* work[a]: how far a's update or rollback has come
    accepts,    \* the versions the plane accepts
    proven,     \* history: versions the plane has accepted on this node
    slips,      \* history: what went past the transaction's own reasoning
    ops, faults, moves

disk == <<binary, previous, pending, failed>>
daemon == <<run, link, settle, revert, reverting>>
plane == <<accepts, moves>>
bounds == <<ops, faults>>
vars == <<disk, daemon, work, plane, proven, slips, bounds>>

\* "fresh": established, and live on the plane, which has not ruled yet.
Links == {"down", "fresh", "accepted", "held", "refused"}
Settles == {"open", "begun", "read", "copyGone", "done"}
Reverts == {"none", "asked", "read", "runs", "deaf", "restored", "recorded"}
Updating == {"fetching", "marked", "cleared", "unkept", "kept", "swapped"}
RollingBack == {"looked", "rolled", "rolledBack"}
Stages == {"idle"} \cup Updating \cup RollingBack
Work == [at : Stages, from : Versions, to : Versions]
Idle == [at |-> "idle", from |-> First, to |-> First]

TypeOK ==
    /\ binary \in Versions
    /\ previous \in Versions \cup {None}
    /\ pending \in Markers \cup {None}
    /\ failed \in Markers \cup {None}
    /\ run \in Versions \cup {None}
    /\ link \in Links
    /\ settle \in Settles
    /\ revert \in Reverts
    /\ reverting \in Markers \cup {None}
    /\ work \in [Actors -> Work]
    /\ accepts \in Planes
    /\ proven \subseteq Versions
    /\ slips \subseteq {"early", "leaked", "again", "crossed", "behind", "deaf"}
    /\ ops \in 0..MaxOps
    /\ faults \in 0..MaxFaults
    /\ moves \in 0..MaxMoves

Init ==
    /\ binary = First /\ previous = None
    /\ pending = None /\ failed = None
    /\ run = First /\ link = "accepted" /\ settle = "done"
    /\ revert = "none" /\ reverting = None
    /\ work = [a \in Actors |-> Idle]
    /\ accepts \in {p \in Planes : First \in p}
    /\ proven = {First} /\ slips = {}
    /\ ops = 0 /\ faults = 0 /\ moves = 0

At(a, stage) == a \in Actors /\ work[a].at = stage
To(a, stage) == work' = [work EXCEPT ![a].at = stage]
When(slip, happens) == IF happens THEN {slip} ELSE {}

\* Whoever stands between two steps of a transaction over the files.
InFlight ==
    {a \in Actors : work[a].at \notin {"idle", "fetching"}}
    \cup {x \in {"settle"} : settle \in {"read", "copyGone"}}
    \cup {x \in {"revert"} : revert \notin {"none", "asked"}}

-----------------------------------------------------------------------------
(* The daemon's process and its connection. *)

\* The process ends, and with it what it was in the middle of.
Exits ==
    /\ run' = None
    /\ link' = "down"
    /\ settle' = "open"
    /\ revert' = "none"
    /\ reverting' = None

JobEnds == work' = [a \in Actors |-> IF a = "daemon" THEN Idle ELSE work[a]]

\* The service manager respawns whatever is at the path.
Spawn ==
    /\ run = None
    /\ run' = binary
    /\ UNCHANGED <<disk, link, settle, revert, reverting, work, plane, proven, slips, bounds>>

Dial ==
    /\ run # None
    /\ link = "down"
    /\ link' = "fresh"
    /\ UNCHANGED <<disk, run, settle, revert, reverting, work, plane, proven, slips, bounds>>

\* The plane's gates pass; a version that is accepted has proved itself here.
PlaneAccepts ==
    /\ link = "fresh" /\ run \in accepts
    /\ link' = "accepted"
    /\ proven' = proven \cup {run}
    /\ UNCHANGED <<disk, run, settle, revert, reverting, work, plane, slips, bounds>>

\* A refused agent is not closed: it is held, for an update to rescue it.
PlaneHolds ==
    /\ link = "fresh" /\ run \notin accepts
    /\ link' = "held"
    /\ UNCHANGED <<disk, run, settle, revert, reverting, work, plane, proven, slips, bounds>>

\* The connection is lost, or the plane restarts under it.
LinkDrops ==
    /\ link \in {"fresh", "accepted", "held"}
    /\ faults < MaxFaults
    /\ faults' = faults + 1
    /\ link' = "down"
    /\ UNCHANGED <<disk, run, settle, revert, reverting, work, plane, proven, slips, ops>>

\* Another plane is installed.  Its restart ends the connection.
PlaneMoves ==
    /\ moves < MaxMoves
    /\ moves' = moves + 1
    /\ accepts' \in Planes \ {accepts}
    /\ link' = IF link = "refused" THEN link ELSE "down"
    /\ UNCHANGED <<disk, run, settle, revert, reverting, work, proven, slips, bounds>>

-----------------------------------------------------------------------------
(* An accepted connection: markUpdateAccepted and completeUpdate. *)

\* Mutant of MarkAccepted: any inbound frame settles, a held socket's rescue too.
AnyFrameSettles ==
    /\ link \in {"fresh", "accepted", "held"}
    /\ settle = "open"
    /\ settle' = "begun"
    /\ slips' = slips \cup When("leaked", link = "fresh")
    /\ UNCHANGED <<disk, run, link, revert, reverting, work, plane, proven, bounds>>

\* A verified command that is not `update`, or UPDATE_ACCEPTED_MS on an accepted
\* socket (it is longer than the plane's budget for a held one).  A command can
\* arrive before the plane has ruled: the socket is live until it is held.
MarkAccepted ==
    /\ link \in {"fresh", "accepted"}
    /\ settle = "open"
    /\ settle' = "begun"
    /\ slips' = slips \cup When("leaked", link = "fresh")
    /\ UNCHANGED <<disk, run, link, revert, reverting, work, plane, proven, bounds>>

\* completeUpdate reads the marker; it does not ask which version that names.
SettleReads ==
    /\ settle = "begun"
    /\ settle' = IF pending = None THEN "done" ELSE "read"
    /\ slips' = IF pending = None THEN slips
                ELSE slips \cup When("early", pending.to # run)
                           \cup When("crossed", InFlight # {})
    /\ UNCHANGED <<disk, run, link, revert, reverting, work, plane, proven, bounds>>

\* Mutant of SettleDropsCopy: the marker alone is dropped.
SettleKeepsCopy ==
    /\ settle = "read"
    /\ settle' = "copyGone"
    /\ UNCHANGED <<disk, run, link, revert, reverting, work, plane, proven, slips, bounds>>

SettleDropsCopy ==
    /\ settle = "read"
    /\ settle' = "copyGone"
    /\ previous' = None
    /\ UNCHANGED <<binary, pending, failed, run, link, revert, reverting, work, plane, proven,
                   slips, bounds>>

SettleDropsMarker ==
    /\ settle = "copyGone"
    /\ settle' = "done"
    /\ pending' = None
    /\ UNCHANGED <<binary, previous, failed, run, link, revert, reverting, work, plane, proven,
                   slips, bounds>>

-----------------------------------------------------------------------------
(* A 4406: revertAfterRefusal, then exit 1. *)

\* rename(`.previous`, binary).  Two names of one file are left alone.
Restores ==
    /\ binary' = previous
    /\ previous' \in {None} \cup {v \in {previous} : v = binary}

\* Mutant of PlaneGivesUp: a 4406 exits as any refused agent did before.
GivesUpAndExits ==
    /\ link = "held"
    /\ Exits /\ JobEnds
    /\ UNCHANGED <<disk, plane, proven, slips, bounds>>

\* The plane's budget for a held socket runs out.  Nothing settles after this.
PlaneGivesUp ==
    /\ link = "held"
    /\ link' = "refused"
    /\ settle' = IF settle = "open" THEN "done" ELSE settle
    /\ revert' = "asked"
    /\ UNCHANGED <<disk, run, reverting, work, plane, proven, slips, bounds>>

\* Without a marker, or without the copy it names, there is nothing to put back.
RevertReads ==
    /\ revert = "asked"
    /\ IF pending = None
       THEN Exits /\ JobEnds
       ELSE /\ revert' = "read" /\ reverting' = pending
            /\ UNCHANGED <<run, link, settle, work>>
    /\ slips' = slips \cup When("crossed", InFlight # {})
    /\ UNCHANGED <<disk, plane, proven, bounds>>

\* The copy is asked for its version before it is trusted; it may not answer in time.
RevertLooks ==
    /\ revert = "read"
    /\ IF previous = None
       THEN Exits /\ JobEnds /\ UNCHANGED slips
       ELSE /\ revert' \in {"runs", "deaf"}
            /\ slips' = slips \cup When("deaf", revert' = "deaf")
            /\ UNCHANGED <<run, link, settle, reverting, work>>
    /\ UNCHANGED <<disk, plane, proven, bounds>>

\* The copy may be gone since it was looked at; the rename then throws.
RevertRestores ==
    /\ revert = "runs"
    /\ IF previous = None
       THEN Exits /\ JobEnds /\ UNCHANGED <<binary, previous>>
       ELSE /\ Restores
            /\ revert' = "restored"
            /\ UNCHANGED <<run, link, settle, reverting, work>>
    /\ UNCHANGED <<pending, failed, plane, proven, slips, bounds>>

RevertRecords ==
    /\ revert \in {"restored", "deaf"}
    /\ failed' = reverting
    /\ revert' = "recorded"
    /\ UNCHANGED <<binary, previous, pending, run, link, settle, reverting, work, plane, proven,
                   slips, bounds>>

\* A rename or a write throws: the daemon says so and exits.
RevertThrows ==
    /\ revert \in {"runs", "restored", "deaf"}
    /\ faults < MaxFaults
    /\ faults' = faults + 1
    /\ Exits /\ JobEnds
    /\ UNCHANGED <<disk, plane, proven, slips, ops>>

RevertDropsMarker ==
    /\ revert = "recorded"
    /\ pending' = None
    /\ Exits /\ JobEnds
    /\ UNCHANGED <<binary, previous, failed, plane, proven, slips, bounds>>

-----------------------------------------------------------------------------
(* applyUpdate, by the daemon (for the plane or its dashboard) or a terminal. *)

\* The guards a caller answers with `force` do not bound what is installed; only
\* the version that is running is refused.  The daemon answers the plane on an
\* accepted or a held socket, and its own dashboard at any time.
Begin(a) ==
    /\ At(a, "idle")
    /\ ops < MaxOps
    /\ a = "daemon" => run # None
    /\ ops' = ops + 1
    /\ LET own == IF a = "daemon" THEN run ELSE binary
       IN  \E v \in Versions \ {own} :
               work' = [work EXCEPT ![a] = [at |-> "fetching", from |-> own, to |-> v]]
    /\ UNCHANGED <<disk, daemon, plane, proven, slips, faults>>

\* The download is refused: a digest, a signature, or the version it reports.
FetchFails(a) ==
    /\ At(a, "fetching")
    /\ work' = [work EXCEPT ![a] = Idle]
    /\ UNCHANGED <<disk, daemon, plane, proven, slips, bounds>>

\* Mutant of Mark: the marker names the new version twice.
MarkNamesTarget(a) ==
    /\ At(a, "fetching")
    /\ pending' = [from |-> work[a].to, to |-> work[a].to]
    /\ To(a, "marked")
    /\ slips' = slips \cup When("crossed", InFlight # {})
                      \cup When("again", pending # None)
                      \cup When("behind", binary # work[a].from)
    /\ UNCHANGED <<binary, previous, failed, daemon, plane, proven, bounds>>

\* The marker first.  It replaces whatever marker stands.
Mark(a) ==
    /\ At(a, "fetching")
    /\ pending' = [from |-> work[a].from, to |-> work[a].to]
    /\ To(a, "marked")
    /\ slips' = slips \cup When("crossed", InFlight # {})
                      \cup When("again", pending # None)
                      \cup When("behind", binary # work[a].from)
    /\ UNCHANGED <<binary, previous, failed, daemon, plane, proven, bounds>>

\* keepPrevious removes what stands at `.previous`, whoever kept it, ...
Clear(a) ==
    /\ At(a, "marked")
    /\ previous' = None
    /\ To(a, "cleared")
    /\ UNCHANGED <<binary, pending, failed, daemon, plane, proven, slips, bounds>>

\* ... and makes it a second name of the file at the path, or a copy of it.
Keep(a) ==
    /\ At(a, "cleared")
    /\ previous' = binary
    /\ To(a, "kept")
    /\ UNCHANGED <<binary, pending, failed, daemon, plane, proven, slips, bounds>>

\* Neither the link nor the copy succeeds.
KeepFails(a) ==
    /\ At(a, "cleared")
    /\ To(a, "unkept")
    /\ UNCHANGED <<disk, daemon, plane, proven, slips, bounds>>

Swap(a) ==
    /\ At(a, "kept")
    /\ binary' = work[a].to
    /\ To(a, "swapped")
    /\ UNCHANGED <<previous, pending, failed, daemon, plane, proven, slips, bounds>>

SwapFails(a) ==
    /\ At(a, "kept")
    /\ previous' = None
    /\ To(a, "unkept")
    /\ UNCHANGED <<binary, pending, failed, daemon, plane, proven, slips, bounds>>

Unmark(a) ==
    /\ At(a, "unkept")
    /\ pending' = None
    /\ work' = [work EXCEPT ![a] = Idle]
    /\ UNCHANGED <<binary, previous, failed, daemon, plane, proven, slips, bounds>>

-----------------------------------------------------------------------------
(* rollbackUpdate, by the terminal or the daemon's dashboard. *)

\* There is a copy, and it answered.  The markers are read for their words alone.
RollbackLooks(a) ==
    /\ At(a, "idle")
    /\ ops < MaxOps
    /\ a = "daemon" => run # None
    /\ previous # None
    /\ ops' = ops + 1
    /\ To(a, "looked")
    /\ slips' = slips \cup When("crossed", InFlight # {})
    /\ UNCHANGED <<disk, daemon, plane, proven, faults>>

RollbackRenames(a) ==
    /\ At(a, "looked")
    /\ IF previous = None
       THEN work' = [work EXCEPT ![a] = Idle] /\ UNCHANGED <<binary, previous>>
       ELSE Restores /\ To(a, "rolled")
    /\ UNCHANGED <<pending, failed, daemon, plane, proven, slips, bounds>>

RollbackDropsMarker(a) ==
    /\ At(a, "rolled")
    /\ pending' = None
    /\ To(a, "rolledBack")
    /\ UNCHANGED <<binary, previous, failed, daemon, plane, proven, slips, bounds>>

\* The terminal asks the manager for a restart; the daemon exits to be respawned.
Restart(a) ==
    /\ a \in Actors /\ work[a].at \in {"swapped", "rolledBack"}
    /\ Exits
    /\ work' = [b \in Actors |-> IF b \in {a, "daemon"} THEN Idle ELSE work[b]]
    /\ UNCHANGED <<disk, plane, proven, slips, bounds>>

\* --no-restart, a restart that fails, a rollback on a daemon nothing supervises.
\* The plane's update is refused there, so the daemon never swaps and stays.
LeaveRunning(a) ==
    /\ a \in Actors
    /\ \/ work[a].at = "rolledBack"
       \/ a = "terminal" /\ work[a].at = "swapped"
    /\ work' = [work EXCEPT ![a] = Idle]
    /\ UNCHANGED <<disk, daemon, plane, proven, slips, bounds>>

-----------------------------------------------------------------------------
(* Deaths. *)

\* The daemon is killed, or restarted by hand.
DaemonDies ==
    /\ run # None
    /\ faults < MaxFaults
    /\ faults' = faults + 1
    /\ Exits /\ JobEnds
    /\ UNCHANGED <<disk, plane, proven, slips, ops>>

TerminalDies ==
    /\ "terminal" \in Actors /\ work["terminal"].at # "idle"
    /\ faults < MaxFaults
    /\ faults' = faults + 1
    /\ work' = [work EXCEPT !["terminal"] = Idle]
    /\ UNCHANGED <<disk, daemon, plane, proven, slips, ops>>

Next ==
    \/ Spawn \/ Dial \/ PlaneAccepts \/ PlaneHolds \/ LinkDrops \/ PlaneMoves
    \/ MarkAccepted \/ SettleReads \/ SettleDropsCopy \/ SettleDropsMarker
    \/ PlaneGivesUp \/ RevertReads \/ RevertLooks \/ RevertRestores
    \/ RevertRecords \/ RevertThrows \/ RevertDropsMarker
    \/ \E a \in Actors :
        \/ Begin(a) \/ FetchFails(a) \/ Mark(a) \/ Clear(a) \/ Keep(a) \/ KeepFails(a)
        \/ Swap(a) \/ SwapFails(a) \/ Unmark(a)
        \/ RollbackLooks(a) \/ RollbackRenames(a) \/ RollbackDropsMarker(a)
        \/ Restart(a) \/ LeaveRunning(a)
    \/ DaemonDies \/ TerminalDies

Spec == Init /\ [][Next]_vars

\* What is under way finishes, the manager respawns, the daemon dials, the plane
\* rules on what it is told and gives a held socket up.  Nobody has to start
\* anything, and nothing has to go wrong.
FairSpec ==
    /\ Spec
    /\ WF_vars(Spawn) /\ WF_vars(Dial) /\ WF_vars(PlaneAccepts \/ PlaneHolds)
    /\ WF_vars(MarkAccepted) /\ WF_vars(SettleReads) /\ WF_vars(SettleDropsCopy)
    /\ WF_vars(SettleDropsMarker)
    /\ WF_vars(PlaneGivesUp) /\ WF_vars(RevertReads) /\ WF_vars(RevertLooks)
    /\ WF_vars(RevertRestores) /\ WF_vars(RevertRecords) /\ WF_vars(RevertDropsMarker)

-----------------------------------------------------------------------------
(* Properties. *)

\* Five ways around the transaction, each of which alone loses the way back: a
\* process settles the update that will replace it ("early"); a command reaches a
\* connection the plane is about to hold ("leaked"); an update begins over one
\* that is not settled ("again"); two transactions interleave ("crossed"); the
\* copy does not answer its probe in time ("deaf").
Misreasoned == {"early", "leaked", "again", "crossed", "deaf"}
Unless(excused) == slips \cap excused = {}

\* A binary at the path that no plane has accepted yet always has its way back:
\* the marker that makes a 4406 revert it, and a copy that was accepted once.
WayBack ==
    (binary \notin proven /\ Unless(Misreasoned)) =>
        pending # None /\ pending.to = binary /\ previous \in proven

\* A copy that is not the binary itself belongs to a transaction somebody can
\* still settle, revert or roll back.
CopyIsAccounted ==
    (previous \notin {None, binary} /\ Unless(Misreasoned)) =>
        pending # None

\* What a revert records is what it did: the version it came from is back.
RecordIsTrue ==
    (revert \in {"restored", "recorded"} /\ Unless(Misreasoned \cup {"behind"})) =>
        binary = reverting.from

\* A node that can go back is not lost: on a plane that goes on accepting what it
\* accepted, it ends up connected.
NodeReturns ==
    []<>(\/ link = "accepted"
         \/ ~(proven \subseteq accepts)
         \/ ~Unless(Misreasoned))

-----------------------------------------------------------------------------
(* The inductive strengthening the proofs rest on. *)

MidWork(a) == work[a].at \notin {"idle", "fetching"}
MidSettle == settle \in {"read", "copyGone"}
MidRevert == revert \notin {"none", "asked"}

OneAtATime ==
    /\ \A a, b \in Actors : MidWork(a) /\ MidWork(b) => a = b
    /\ \A a \in Actors : MidWork(a) => ~MidSettle /\ ~MidRevert
    /\ ~(MidSettle /\ MidRevert)

\* Nothing of a process is left without it, and what is accepted is proven.
ProcessInv ==
    /\ run = None => link = "down" /\ settle = "open" /\ revert = "none"
    /\ link = "accepted" => run \in proven
    /\ settle \in {"begun", "read", "copyGone"} /\ Unless({"leaked"}) => run \in proven

\* Until its swap, an update has a proven binary at the path and its own marker.
UpdateInv ==
    \A a \in Actors :
        /\ work[a].at \in {"marked", "cleared", "unkept", "kept"} =>
            /\ binary \in proven
            /\ pending # None /\ pending.to = work[a].to
        /\ work[a].at \in {"cleared", "unkept"} => previous = None
        /\ work[a].at = "kept" => previous = binary
        /\ work[a].at = "rolled" => binary \in proven /\ previous \in {None, binary}

SettleInv ==
    /\ MidSettle => pending # None /\ pending.to \in proven
    /\ settle = "copyGone" => previous = None

\* A revert that swaps nothing is one whose probe had no answer.
RevertInv ==
    /\ revert # "deaf"
    /\ revert \in {"restored", "recorded"} => binary \in proven /\ previous \in {None, binary}

CopyIsProven == previous \in proven \cup {None}

FilesInv ==
    Unless(Misreasoned) =>
        OneAtATime /\ UpdateInv /\ SettleInv /\ RevertInv /\ CopyIsProven

\* What a marker says it came from is what is kept beside it.
RecordInv ==
    Unless(Misreasoned \cup {"behind"}) =>
        /\ pending # None /\ previous # None => previous = pending.from
        /\ \A a \in Actors :
            work[a].at \in {"marked", "cleared", "unkept", "kept"} => binary = pending.from
        /\ revert \in {"read", "runs"} => pending # None /\ reverting = pending

Inv == TypeOK /\ ProcessInv /\ FilesInv /\ WayBack /\ CopyIsAccounted /\ RecordInv /\ RecordIsTrue
=============================================================================
