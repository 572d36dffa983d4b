--------------------------- MODULE RestoreJournal ---------------------------
(***************************************************************************)
(* Replacing an instance by a backup: the journal of                       *)
(* modules/backups/journal.ts and transaction.ts, the `restore` command    *)
(* that drives it (cli/commands, modules/backups/restore.ts), and the boot *)
(* that confirms or undoes it (config/env.ts, index.ts).                   *)
(*                                                                         *)
(* An instance is several files: the database, config.env and the data     *)
(* components, numbered in the order of journal.replacements.  Each action *)
(* is one durable step; any process may die between two of them.           *)
(***************************************************************************)
EXTENDS Naturals

CONSTANTS
    N,              \* the number of components
    Config,         \* the component that is config.env
    Gens,           \* whole instances: the one installed, and the backups
    Has,            \* Has[g]: the components g consists of
    Bad,            \* those no server can boot on
    Clis,           \* the restore commands; each is its own transaction
    Orders,         \* what they may be told: each a backup, and whether to start
    MaxFaults,      \* bound: processes that die, and steps that fail
    MaxHands,       \* bound: interventions of the operator
    None

Parts == 1..N

ASSUME PartsAssumption == N \in Nat /\ Config \in Parts
ASSUME GensAssumption == Bad \subseteq Gens
ASSUME HasAssumption == Has \in [Gens -> {P \in SUBSET Parts : Config \in P}]
ASSUME ClisAssumption == "server" \notin Clis
ASSUME OrdersAssumption == Orders \subseteq [Clis -> [gen : Gens, start : BOOLEAN]]
ASSUME BoundsAssumption == MaxFaults \in Nat /\ MaxHands \in Nat

Actors == Clis \cup {"server"}
Files(g) == [i \in Parts |-> IF i \in Has[g] THEN g ELSE None]

VARIABLES
    target,         \* target[i]: the generation at the path the instance uses
    previous,       \* previous[i]: the original put aside, or None
    next,           \* next[i]: the prepared replacement, or None
    journal,        \* restore-journal.json
    receipt,        \* restore-result.json
    lock,           \* the holder of instance-state.lock
    doing,          \* which loop over the components the holder is in
    cur,            \* its component
    step,           \* its step at that component
    at,             \* where each process stands
    asked,          \* what each command was told
    enabled,        \* the manager keeps the service running
    byHand,         \* this server was started in a terminal
    cfg,            \* the settings of this server: whose config.env they are
    fate,           \* history: what became of each transaction
    gap,            \* history: a replacement crossed this server after it had
                    \* its settings and before it took the lock
    misled,         \* history: commands that undid something not their own
    faults, hands

files == <<target, previous, next>>
disk == <<files, journal, receipt>>
loop == <<doing, cur, step>>
server == <<enabled, byHand, cfg>>
history == <<fate, gap, misled>>
bounds == <<faults, hands>>
vars == <<disk, lock, loop, at, asked, server, history, bounds>>

Phases == {"preparing", "applying", "pending-boot", "rolling-back", "finalizing"}
Outcomes == {"completed", "rolled-back"}
Receipts == [tx : Clis, outcome : Outcomes]
Journals == [tx : Clis, gen : Gens, phase : Phases, orig : SUBSET Parts, repl : SUBSET Parts]
Instances == {Files(g) : g \in Gens}

ASSUME NoneAssumption ==
    None \notin Gens \cup Actors \cup Journals \cup Receipts \cup Outcomes \cup Instances

ServerStages == {"down", "loading", "loaded", "booting", "serving", "failing"}
\* The last line: what the command has told the operator, or "dead".
CliStages ==
    {"new", "loading", "ready", "planned", "stopping", "offline", "locked",
     "applying", "applied", "starting", "waiting", "saw", "settling",
     "refused", "pendingBoot", "restored", "putBack", "unconfirmed", "recoveryPending", "dead"}
Open == {"booting", "serving"}

TypeOK ==
    /\ target \in [Parts -> Gens \cup {None}]
    /\ previous \in [Parts -> Gens \cup {None}]
    /\ next \in [Parts -> Gens \cup {None}]
    /\ journal \in Journals \cup {None}
    /\ receipt \in Receipts \cup {None}
    /\ lock \in Actors \cup {None}
    /\ doing \in {"nothing", "prepare", "apply", "undo", "finish"}
    /\ cur \in 0..(N + 1)
    /\ step \in {"look", "aside", "in", "remove", "rename", "drop", "next", "report", "close"}
    /\ at \in [Actors -> ServerStages \cup CliStages]
    /\ at["server"] \in ServerStages /\ \A c \in Clis : at[c] \in CliStages
    /\ asked \in Orders
    /\ enabled \in BOOLEAN /\ byHand \in BOOLEAN /\ gap \in BOOLEAN
    /\ cfg \in Gens \cup {None}
    /\ fate \in [Clis -> Outcomes \cup {None}]
    /\ misled \subseteq Clis
    /\ faults \in 0..MaxFaults /\ hands \in 0..MaxHands

\* A server serves the instance it was installed as.
Init ==
    /\ \E g \in Gens \ Bad : target = Files(g) /\ cfg = g
    /\ previous = [i \in Parts |-> None] /\ next = [i \in Parts |-> None]
    /\ journal = None /\ receipt = None
    /\ lock = "server"
    /\ doing = "nothing" /\ cur = 0 /\ step = "look"
    /\ at = [a \in Actors |-> IF a = "server" THEN "serving" ELSE "new"]
    /\ asked \in Orders
    /\ enabled = TRUE /\ byHand = FALSE
    /\ fate = [c \in Clis |-> None] /\ gap = FALSE /\ misled = {}
    /\ faults = 0 /\ hands = 0

Phase == IF journal = None THEN "none" ELSE journal.phase
Goes(a, from, to) == at[a] = from /\ at' = [at EXCEPT ![a] = to]
Idle == doing' = "nothing" /\ cur' = 0 /\ step' = "look"
Release(a) == lock' = IF lock = a THEN None ELSE lock
WritePhase(phase) == journal' = [journal EXCEPT !.phase = phase]

-----------------------------------------------------------------------------
(* rollbackInstanceRestoreSync: undo, from the last component to the first. *)

\* The replacement stands at the target.  While the journal says "preparing" it
\* names no replacement yet, so nothing counts as installed.
InstalledNew(i) == i \in journal.repl /\ next[i] = None

\* Mutant of UndoStep: what existed is put back, though it was not moved yet.
UndoStepOfOriginals(i) ==
    IF i = 0 THEN "report"
    ELSE IF i \in journal.orig THEN IF i = Config THEN "rename" ELSE "remove"
    ELSE IF InstalledNew(i) THEN "remove"
    ELSE "next"

\* The first step at component i, or the receipt once all are done.
UndoStep(i) ==
    IF i = 0 THEN "report"
    ELSE IF previous[i] # None THEN IF i = Config THEN "rename" ELSE "remove"
    ELSE IF i \notin journal.orig /\ InstalledNew(i) THEN "remove"
    ELSE "next"

BeginUndo ==
    /\ WritePhase("rolling-back")
    /\ fate' = [fate EXCEPT ![journal.tx] = "rolled-back"]
    /\ doing' = "undo" /\ cur' = N /\ step' = UndoStep(N)
    /\ UNCHANGED <<files, receipt>>

Undoing(s) == lock # None /\ doing = "undo" /\ step = s
OnlyFiles == UNCHANGED <<journal, receipt, lock, at, asked, server, history, bounds>>

UndoRemove ==
    /\ Undoing("remove")
    /\ target' = [target EXCEPT ![cur] = None]
    /\ step' = IF previous[cur] # None THEN "rename" ELSE "next"
    /\ UNCHANGED <<previous, next, doing, cur>> /\ OnlyFiles

\* Renaming one name of a file over its other name does nothing.
UndoRename ==
    /\ Undoing("rename")
    /\ IF target[cur] = previous[cur]
       THEN UNCHANGED <<target, previous>>
       ELSE /\ target' = [target EXCEPT ![cur] = previous[cur]]
            /\ previous' = [previous EXCEPT ![cur] = None]
    /\ step' = "drop"
    /\ UNCHANGED <<next, doing, cur>> /\ OnlyFiles

UndoDrop ==
    /\ Undoing("drop")
    /\ previous' = [previous EXCEPT ![cur] = None]
    /\ step' = "next"
    /\ UNCHANGED <<target, next, doing, cur>> /\ OnlyFiles

UndoNext ==
    /\ Undoing("next")
    /\ next' = [next EXCEPT ![cur] = None]
    /\ cur' = cur - 1 /\ step' = UndoStep(cur - 1)
    /\ UNCHANGED <<target, previous, doing>> /\ OnlyFiles

-----------------------------------------------------------------------------
(* finalizeInstanceRestoreSync: the originals go. *)

BeginFinish ==
    /\ WritePhase("finalizing")
    /\ fate' = [fate EXCEPT ![journal.tx] = "completed"]
    /\ doing' = "finish" /\ cur' = 1 /\ step' = "drop"
    /\ UNCHANGED <<files, receipt>>

Finishing(s) == lock # None /\ doing = "finish" /\ step = s

FinishDrop ==
    /\ Finishing("drop")
    /\ previous' = [previous EXCEPT ![cur] = None]
    /\ step' = "next"
    /\ UNCHANGED <<target, next, doing, cur>> /\ OnlyFiles

FinishNext ==
    /\ Finishing("next")
    /\ next' = [next EXCEPT ![cur] = None]
    /\ cur' = cur + 1 /\ step' = IF cur = N THEN "report" ELSE "drop"
    /\ UNCHANGED <<target, previous, doing>> /\ OnlyFiles

-----------------------------------------------------------------------------
(* The end of both: the receipt, then the journal's removal. *)

Report ==
    /\ lock # None /\ step = "report"
    /\ receipt' = [tx |-> journal.tx,
                   outcome |-> IF doing = "undo" THEN "rolled-back" ELSE "completed"]
    /\ step' = "close"
    /\ UNCHANGED <<files, journal, lock, doing, cur, at, asked, server, history, bounds>>

\* loadConfigEnv is through: what the process did not inherit, it reads now.
Loaded(a) ==
    /\ at' = [at EXCEPT ![a] = IF a = "server" THEN "loaded" ELSE "ready"]
    /\ cfg' = IF a = "server" /\ cfg = None THEN target[Config] ELSE cfg

\* Where the process that undid or finished goes on.
After(stage) ==
    CASE stage = "booting" -> "serving"
      [] stage = "failing" -> "down"
      [] stage = "applying" -> "refused"
      [] stage = "settling" -> "putBack"

Close ==
    /\ lock # None /\ step = "close"
    /\ journal' = None
    /\ Idle
    /\ IF at[lock] = "loading"
       THEN Loaded(lock)
       ELSE at' = [at EXCEPT ![lock] = After(at[lock])] /\ UNCHANGED cfg
    /\ lock' = IF at[lock] = "booting" THEN lock ELSE None
    /\ UNCHANGED <<files, receipt, asked, enabled, byHand, history, bounds>>

-----------------------------------------------------------------------------
(* loadConfigEnv, which the server and the command both begin with. *)

\* A server's lock lets a command read the config; any other makes it throw.
HeldByServer == lock = "server" /\ at["server"] # "loading"

\* Mutant of LoadsAsItIs: no lock makes it throw.
LoadsUnderAnyLock(a) ==
    /\ at[a] = "loading" /\ lock # a
    /\ journal = None \/ lock # None \/ Phase = "pending-boot"
    /\ Loaded(a)
    /\ UNCHANGED <<disk, lock, loop, asked, enabled, byHand, history, bounds>>

LoadsAsItIs(a) ==
    /\ at[a] = "loading" /\ lock # a
    /\ \/ journal = None
       \/ HeldByServer
       \/ lock = None /\ Phase = "pending-boot"
    /\ Loaded(a)
    /\ UNCHANGED <<disk, lock, loop, asked, enabled, byHand, history, bounds>>

LoadThrows(a) ==
    /\ journal # None /\ lock \notin {None, a} /\ ~HeldByServer
    /\ Goes(a, "loading", IF a = "server" THEN "down" ELSE "refused")
    /\ UNCHANGED <<disk, lock, loop, asked, server, history, bounds>>

\* A server has settings, and does not see what happens to their file.
Crosses == gap' = (gap \/ at["server"] = "loaded" \/ (at["server"] = "loading" /\ cfg # None))

LoadFinishes(a) ==
    /\ at[a] = "loading" /\ lock = None /\ Phase = "finalizing"
    /\ lock' = a
    /\ BeginFinish
    /\ UNCHANGED <<at, asked, server, gap, misled, bounds>>

\* What was inherited from the interrupted config.env is read anew.
LoadUndoes(a) ==
    /\ at[a] = "loading" /\ lock = None
    /\ Phase \notin {"none", "pending-boot", "finalizing"}
    /\ lock' = a
    /\ BeginUndo
    /\ IF a = "server"
       THEN cfg' = (IF cfg = target[Config] THEN None ELSE cfg) /\ UNCHANGED gap
       ELSE Crosses /\ UNCHANGED cfg
    /\ UNCHANGED <<at, asked, enabled, byHand, misled, bounds>>

-----------------------------------------------------------------------------
(* The server: index.ts, and the manager that runs it. *)

\* systemd refuses to start a unit whose EnvironmentFile is missing, and hands
\* down what is in it.
Spawn ==
    /\ enabled /\ target[Config] # None
    /\ Goes("server", "down", "loading")
    /\ byHand' = FALSE
    /\ cfg' = target[Config] /\ gap' = (lock # None)
    /\ UNCHANGED <<disk, lock, loop, asked, enabled, fate, misled, bounds>>

ServerLocks ==
    /\ IF lock = None
       THEN Goes("server", "loaded", "booting") /\ lock' = "server"
       ELSE Goes("server", "loaded", "down") /\ UNCHANGED lock
    /\ UNCHANGED <<disk, loop, asked, server, history, bounds>>

Booting == at["server"] = "booting" /\ doing = "nothing"

\* bootServer ends with finalizeInstanceRestore.
BootConfirms ==
    /\ Booting /\ \A i \in Parts : target[i] \notin Bad
    /\ Phase \in {"pending-boot", "finalizing"}
    /\ BeginFinish
    /\ UNCHANGED <<lock, at, asked, server, gap, misled, bounds>>

BootServes ==
    /\ Booting /\ \A i \in Parts : target[i] \notin Bad
    /\ journal = None
    /\ Goes("server", "booting", "serving")
    /\ UNCHANGED <<disk, lock, loop, asked, server, history, bounds>>

\* It cannot boot, the journal is not one to confirm, or something else broke.
BootFails ==
    /\ Booting
    /\ \/ /\ \/ \E i \in Parts : target[i] \in Bad
             \/ Phase \notin {"none", "pending-boot", "finalizing"}
          /\ UNCHANGED faults
       \/ faults < MaxFaults /\ faults' = faults + 1
    /\ IF Phase \notin {"none", "finalizing"}
       THEN BeginUndo /\ Goes("server", "booting", "failing") /\ UNCHANGED lock
       ELSE /\ Goes("server", "booting", "down") /\ Release("server")
            /\ UNCHANGED <<disk, loop, fate>>
    /\ UNCHANGED <<asked, server, gap, misled, hands>>

\* A process ends, and the operating system drops its lock.
Dies(a) ==
    /\ at' = [at EXCEPT ![a] = IF a = "server" THEN "down" ELSE "dead"]
    /\ Release(a)
    /\ IF lock = a THEN Idle ELSE UNCHANGED loop

ManagerStops ==
    /\ ~enabled /\ ~byHand /\ at["server"] # "down"
    /\ Dies("server")
    /\ UNCHANGED <<disk, asked, server, history, bounds>>

Gone == {"down", "new", "refused", "pendingBoot", "restored", "putBack",
         "unconfirmed", "recoveryPending", "dead"}

Crash(a) ==
    /\ at[a] \notin Gone /\ faults < MaxFaults
    /\ faults' = faults + 1
    /\ Dies(a)
    /\ UNCHANGED <<disk, asked, server, history, hands>>

\* The operator starts the service, or a server in a terminal.
HandEnables ==
    /\ ~enabled /\ hands < MaxHands
    /\ enabled' = TRUE /\ hands' = hands + 1
    /\ UNCHANGED <<disk, lock, loop, at, asked, byHand, cfg, history, faults>>

HandStarts ==
    /\ hands < MaxHands /\ hands' = hands + 1
    /\ Goes("server", "down", "loading")
    /\ byHand' = TRUE
    /\ cfg' = None /\ gap' = FALSE
    /\ UNCHANGED <<disk, lock, loop, asked, enabled, fate, misled, faults>>

-----------------------------------------------------------------------------
(* executeRestore, up to the replacement. *)

Steps == <<disk, loop, asked, byHand, cfg, fate, gap, misled, bounds>>

CliBegins(c) == Goes(c, "new", "loading") /\ UNCHANGED <<Steps, lock, enabled>>

\* Refused over a pending restore, or a lock that is not the service's server.
CliPlans(c) ==
    /\ IF journal = None /\ (lock = None \/ (HeldByServer /\ ~byHand))
       THEN Goes(c, "ready", "planned")
       ELSE Goes(c, "ready", "refused")
    /\ UNCHANGED <<Steps, lock, enabled>>

CliStops(c) ==
    /\ Goes(c, "planned", "stopping")
    /\ enabled' = FALSE
    /\ UNCHANGED <<Steps, lock>>

CliSeesOffline(c) ==
    /\ lock = None /\ (at["server"] = "down" \/ byHand)
    /\ Goes(c, "stopping", "offline")
    /\ UNCHANGED <<Steps, lock, enabled>>

CliLocks(c) ==
    /\ lock = None
    /\ Goes(c, "offline", "locked")
    /\ lock' = c
    /\ UNCHANGED <<Steps, enabled>>

\* No consent, a wait that ran out, a lock taken by another, a database in use.
CliRefuses(c) ==
    /\ at[c] \in {"planned", "stopping", "offline", "locked"}
    /\ at' = [at EXCEPT ![c] = "refused"]
    /\ Release(c)
    /\ UNCHANGED <<Steps, enabled>>

-----------------------------------------------------------------------------
(* restoreInstanceBackup. *)

\* The link that publishes the first journal fails if there is one.
WriteJournal(c) ==
    /\ journal = None
    /\ Goes(c, "locked", "applying")
    /\ journal' = [tx |-> c, gen |-> asked[c].gen, phase |-> "preparing",
                   orig |-> {i \in Parts : target[i] # None}, repl |-> {}]
    /\ doing' = "prepare" /\ cur' = 1 /\ step' = "look"
    /\ Crosses
    /\ UNCHANGED <<files, receipt, lock, asked, server, fate, misled, bounds>>

Prepare ==
    /\ lock # None /\ doing = "prepare" /\ cur <= N
    /\ next' = IF cur \in Has[journal.gen]
               THEN [next EXCEPT ![cur] = journal.gen] ELSE next
    /\ cur' = cur + 1
    /\ UNCHANGED <<target, previous, doing, step>> /\ OnlyFiles

BeginApply ==
    /\ lock # None /\ doing = "prepare" /\ cur = N + 1
    /\ journal' = [journal EXCEPT !.phase = "applying", !.repl = Has[journal.gen]]
    /\ doing' = "apply" /\ cur' = 1 /\ step' = "aside"
    /\ UNCHANGED <<files, receipt, lock, at, asked, server, history, bounds>>

Applying(s) == lock # None /\ doing = "apply" /\ cur <= N /\ step = s

\* Mutant of MoveAside: config.env is renamed like the others.
MovesConfigAway ==
    /\ Applying("aside")
    /\ IF cur \in journal.orig
       THEN /\ previous' = [previous EXCEPT ![cur] = target[cur]]
            /\ target' = [target EXCEPT ![cur] = None]
       ELSE UNCHANGED <<target, previous>>
    /\ step' = "in"
    /\ UNCHANGED <<next, doing, cur>> /\ OnlyFiles

\* config.env gets a second name instead of another one, and never is absent.
MoveAside ==
    /\ Applying("aside")
    /\ IF cur \in journal.orig
       THEN /\ previous' = [previous EXCEPT ![cur] = target[cur]]
            /\ target' = IF cur = Config THEN target ELSE [target EXCEPT ![cur] = None]
       ELSE UNCHANGED <<target, previous>>
    /\ step' = "in"
    /\ UNCHANGED <<next, doing, cur>> /\ OnlyFiles

PutIn ==
    /\ Applying("in")
    /\ IF cur \in journal.repl
       THEN /\ target' = [target EXCEPT ![cur] = next[cur]]
            /\ next' = [next EXCEPT ![cur] = None]
       ELSE UNCHANGED <<target, next>>
    /\ cur' = cur + 1 /\ step' = "aside"
    /\ UNCHANGED <<previous, doing>> /\ OnlyFiles

AwaitBoot ==
    /\ lock # None /\ doing = "apply" /\ cur = N + 1
    /\ WritePhase("pending-boot")
    /\ at' = [at EXCEPT ![lock] = "applied"]
    /\ Idle
    /\ UNCHANGED <<files, receipt, lock, asked, server, history, bounds>>

\* Any step may fail; the command undoes what the journal says.
ApplyFails ==
    /\ doing \in {"prepare", "apply"} /\ faults < MaxFaults
    /\ faults' = faults + 1
    /\ BeginUndo
    /\ UNCHANGED <<lock, at, asked, server, gap, misled, hands>>

-----------------------------------------------------------------------------
(* executeRestore, from there on. *)

CliReleases(c) ==
    /\ Goes(c, "applied", IF asked[c].start THEN "starting" ELSE "pendingBoot")
    /\ lock' = None
    /\ UNCHANGED <<Steps, enabled>>

\* The stage cannot be removed: the restore counts as failed.
CleanupFails(c) ==
    /\ faults < MaxFaults /\ faults' = faults + 1
    /\ Goes(c, "applied", "settling")
    /\ lock' = None
    /\ UNCHANGED <<disk, loop, asked, server, history, hands>>

CliStarts(c) ==
    /\ Goes(c, "starting", "waiting")
    /\ enabled' = TRUE
    /\ UNCHANGED <<Steps, lock>>

\* Mutant of CliConfirms: whose receipt it is does not matter.
ConfirmsAnyReceipt(c) ==
    /\ receipt # None /\ receipt.outcome = "completed"
    /\ Goes(c, "waiting", "restored")
    /\ UNCHANGED <<Steps, lock, enabled>>

CliConfirms(c) ==
    /\ receipt = [tx |-> c, outcome |-> "completed"]
    /\ Goes(c, "waiting", "restored")
    /\ UNCHANGED <<Steps, lock, enabled>>

\* A receipt of its rollback, or the wait ran out; then the journal is looked for.
CliFails(c) ==
    /\ LET undone == receipt = [tx |-> c, outcome |-> "rolled-back"] IN
       Goes(c, "waiting", IF journal # None THEN "saw"
                          ELSE IF undone THEN "putBack" ELSE "unconfirmed")
    /\ UNCHANGED <<Steps, lock, enabled>>

CliStopsAgain(c) ==
    /\ Goes(c, "saw", "settling")
    /\ enabled' = FALSE
    /\ UNCHANGED <<Steps, lock>>

Settling(c) == at[c] = "settling" /\ lock = None

\* The journal found under the lock is undone, whoever's it is by now.
CliUndoes(c) ==
    /\ Settling(c)
    /\ Phase \notin {"none", "finalizing"}
    /\ lock' = c
    /\ BeginUndo
    /\ misled' = IF journal.tx = c THEN misled ELSE misled \cup {c}
    /\ Crosses
    /\ UNCHANGED <<at, asked, server, bounds>>

\* There is none any more: rollbackInstanceRestoreSync returns, and the command
\* says that the previous instance was restored.
CliFindsNone(c) ==
    /\ Settling(c) /\ journal = None
    /\ Goes(c, "settling", "putBack")
    /\ misled' = misled \cup {c}
    /\ UNCHANGED <<disk, lock, loop, asked, server, fate, gap, bounds>>

\* The lock is not to be had, or the restore is being finalized.
CliLeavesIt(c) ==
    /\ lock # c /\ (lock # None \/ Phase = "finalizing")
    /\ Goes(c, "settling", "recoveryPending")
    /\ UNCHANGED <<Steps, lock, enabled>>

-----------------------------------------------------------------------------
LoopStep ==
    \/ UndoRemove \/ UndoRename \/ UndoDrop \/ UndoNext
    \/ FinishDrop \/ FinishNext \/ Report \/ Close
    \/ Prepare \/ BeginApply \/ MoveAside \/ PutIn \/ AwaitBoot

Load(a) == LoadsAsItIs(a) \/ LoadThrows(a) \/ LoadFinishes(a) \/ LoadUndoes(a)
Boot == BootConfirms \/ BootServes \/ BootFails

\* What a command does while it holds the lock, outside the loops.
CliHolds(c) ==
    /\ at[c] \in {"locked", "applied"}
    /\ WriteJournal(c) \/ CliRefuses(c) \/ CliReleases(c) \/ CleanupFails(c)

CliStep(c) ==
    \/ CliBegins(c) \/ CliPlans(c) \/ CliStops(c) \/ CliSeesOffline(c)
    \/ CliLocks(c) \/ CliRefuses(c) \/ WriteJournal(c) \/ CliReleases(c)
    \/ CleanupFails(c) \/ CliStarts(c) \/ CliConfirms(c) \/ CliFails(c)
    \/ CliStopsAgain(c) \/ CliUndoes(c) \/ CliFindsNone(c) \/ CliLeavesIt(c)

Next ==
    \/ LoopStep \/ ApplyFails
    \/ \E a \in Actors : Load(a) \/ Crash(a)
    \/ Spawn \/ ServerLocks \/ Boot \/ ManagerStops \/ HandEnables \/ HandStarts
    \/ \E c \in Clis : CliStep(c)

Spec == Init /\ [][Next]_vars

\* A process that is not killed goes on, and the manager starts and stops what it
\* is told to.  Nothing is assumed of operators, nor of a command that waits.
Fairness ==
    /\ WF_vars(LoopStep)
    /\ \A a \in Actors : WF_vars(Load(a))
    /\ WF_vars(Spawn) /\ WF_vars(ServerLocks) /\ WF_vars(Boot) /\ WF_vars(ManagerStops)
    /\ \A c \in Clis : WF_vars(CliHolds(c))

FairSpec == Spec /\ Fairness

-----------------------------------------------------------------------------
(* Properties. *)

\* Whoever opens the instance finds one generation of it, all of it, the one
\* whose settings it has: never the files of a replacement half done or half
\* undone.  Not kept for a server that had its settings, and found nothing to
\* recover, before a restore or a recovery took the lock (`gap`).
WholeWhenOpen == (at["server"] \in Open /\ ~gap) => target = Files(cfg)

\* What a command last says of its restore is what became of it, unless it undid
\* another's, or took the absence of the journal for its own success (`misled`).
TellsTruth ==
    \A c \in Clis :
        /\ at[c] = "restored" => fate[c] = "completed"
        /\ at[c] = "putBack" => fate[c] = "rolled-back" \/ c \in misled
        /\ at[c] = "refused" => fate[c] # "completed"

\* What the recovery of the disk as it stands would leave.
Back(i) ==
    IF previous[i] # None THEN previous[i]
    ELSE IF i \notin journal.orig /\ InstalledNew(i) THEN None ELSE target[i]
Undone == [i \in Parts |-> Back(i)]
Stands == Phase \in {"none", "pending-boot", "finalizing"}
Installed == IF Stands THEN target ELSE Undone
ToUndo == IF Phase = "pending-boot" THEN Undone ELSE None

\* The files, the journal and its recovery are one atomic replacement that can
\* be undone until it has served, whatever is interrupted where.
Atomic == INSTANCE AtomicRestore WITH
    Instances <- Instances,
    installed <- Installed,
    undo <- ToUndo
RestoreIsAtomic == Atomic!Spec

\* Left enabled, the service comes back to serve, whatever backup was put in.
ServesAgain == <>[]enabled => []<>(at["server"] = "serving")
=============================================================================
