# TLA+ models of the subshell control plane

subshell runs terminal sessions on machines ("nodes") that dial in to one
control plane. This directory holds TLA+ modules for the parts of it whose
correctness depends on the order of events: TLC checks them on small instances
and TLAPS proves the central invariants for every size of instance.

Contents: [the system](#the-system), [the modules](#the-modules),
[the runs](#the-runs), [fairness](#fairness), [the proofs](#the-proofs),
[divergences found](#divergences-found), [not modelled](#not-modelled),
[plan](#plan).

## The system

One Bun process is the control plane (`apps/server/api`). Node daemons
(`apps/node/agent`) and browsers hold websockets to it; sqlite holds what must
survive it. Everything in the process is an async function on one event loop,
so a step is the code between two awaits and every hazard below is a state that
changed during an await, a process that stopped between two writes, or a
message that came late.

| component | state | operations | hard because |
|---|---|---|---|
| node socket registry (`node-registry.ts`) | `live` and `held` maps, each record's `closing`, idle timers | attach, detach, hold, release, disconnect one or all | several sockets of one node overlap; close events come late |
| socket handler and encrypted link (`node-ws-handler.ts`, `link-session.ts`) | link phase, per-socket frame queue, handshake deadline, `nodes.status` | upgrade, open, message, close | every gate awaits a read or a write and acts on the answer afterwards |
| evicting routes (rotate, disable, re-register, delete, restart) | key binding, pin, `disabled` flag | commit, then evict | the commit and the eviction are separate; sockets cross them |
| command channel (`node-rpc.ts`) | per-connection send chain, sequence, pending map | sendCommand, resolveResult, failConnPendings, deadline | issue, sign, send and settle are four moments; the connection can change between them |
| node daemon (`daemon.ts`) | its side of the link, running commands | dial, handshake, ready, heartbeat, results | it is a peer that may die, lag or be an old build |
| server self-update (`update-transaction.ts`, `server-update.ts`, `cli/commands/update.ts`) | binary, kept copy, pending and failed markers, database copy | begin, swap, boot, migrate, revert, complete, roll back | two processes, a crash after any step |
| node self-update (`agent/update.ts`, `daemon.ts`) | binary, kept copy, marker, failure record | mark, keep, swap, settle, revert, roll back | the same, against a remote verdict that may change |
| backup and restore (`modules/backups`, the `restore` command, the boot) | the instance's files, their originals and replacements, journal, receipt, instance lock | prepare, replace, confirm, undo, recover | several files cannot be replaced in one step, and the process that confirms is not the one that replaced |
| subshell lifecycle (`subshell-manager.service.ts`) | a row and a pane per subshell, the keys minted for its panes, restart leases | create, restart, stop, delete, sweep, death, auto-restart | row, pane and key cannot change together |
| terminal input (`input-queue.ts` in the page; `subshell-ws.ts`, `input-hold.ts`, `input-window.ts`, `input-budget.ts`) | the page's queue, held writes, dedupe window, budget | type, re-send, write, hold, drain, drop, ack | at-least-once delivery against a bounded window |
| live feed (`live-publisher.ts`, `live-ws.ts`, the dashboard's hook) | coalesced events, an ordered drain, snapshots in flight, what a tab holds | publish, flush, resolve, broadcast, snapshot, merge | precedence under coalescing, awaited reads, two sources merged in the tab |
| node maintenance (`maintenance.ts`, two copies) | a stamped flag in the row and in the machine's file | set, reconcile | read, await, write |
| ssh relay, previews, channels, output viewers, network supervisor | see `PROJECT.json` | | |

How they interact: the socket handler writes the registry and the status
column; the routes call the registry and then drain the command channel; the
command channel routes by the registry and settles on frames the handler
passes on; the lifecycle, the input path and node updates issue commands
through it and learn from it that a node is away or an answer was lost;
lifecycle and routes announce what they wrote to the live feed; restore and
server update exclude each other by looking for each other's files.

What makes each part correct, in the words the properties use:

- registry and handler: no socket is forgotten; the row never claims a machine
  nobody answers for, and never disowns one that is there; nothing that was
  revoked (owner, key) stays in service.
- command channel: one answer per command; wire order is sequence order; an
  encrypted socket carries no plaintext.
- updates: whatever step the machine stops at, it can still come up, on a
  database its binary can open and with a binary its plane accepts.
- restore: the files change as one, until the restored instance has served they
  can change back as one, and the operator is told which of the two happened.
- lifecycle: no live pane and no working key without a running row; a live
  pane's key works; nothing is buried alive.
- input: nothing typed is lost or stuck; copies and disorder have a cause.
- live feed: once everything is heard, a tab shows what its viewer may see, as
  it is, and nobody else was ever sent it.

`PROJECT.json` lists the hazards at their lines, each with the properties
that cover it or the reason none does.

## The modules

| module | models | lines it stands for |
|---|---|---|
| `NodeRegistry` | the registry's maps and operations, for one node | `node-registry.ts` |
| `NodeLink` (extends it) | upgrade, open, close, frames, handshake, ready gates, evicting routes, restart, status row | `node-ws-handler.ts`, `link-session.ts`, routes |
| `NodeRpc` (extends `NodeRegistry`) | the command channel over the same sockets | `node-rpc.ts` |
| `CommandPromise` | abstract: each command is answered, once | its callers' view |
| `ServerUpdate` | the control plane replacing its own binary | `update-transaction.ts`, `server-update.ts`, `cli/commands/update.ts`, the boot in `index.ts`, `restoreDatabase` |
| `AgentUpdate` | a node replacing its own binary, against a plane that accepts, holds and moves | `agent/update.ts`, `commands/update.ts`, `daemon.ts` |
| `RestoreJournal` | an instance's files replaced by a backup: journal, command, boot, recovery | `journal.ts`, `transaction.ts`, `restore.ts`, `instance-state-lock.ts`, `config/env.ts`, `index.ts` |
| `AtomicRestore` | abstract: one replacement that can be undone until it has served | what `RestoreJournal` implements |
| `SubshellLifecycle` | one row, one pane, its keys and the restart lease | `subshell-manager.service.ts`, `subshells.repository.ts`, `tokens.ts` |
| `InputPath` | from a keystroke to the pane, for several pages of one node | `input-queue.ts`, `subshell-ws.ts`, `input-hold.ts`, `input-budget.ts`, `input-window.ts` |
| `InputPromise` | abstract: a keystroke is retired only once it landed | what `InputPath` implements |
| `LiveFeed` | from a write of one row to what one tab shows | `live-publisher.ts`, `live-topics.ts`, `live-ws.ts`, `use-live-subshells-feed.tsx`, `setShares`, `deleteSubshell` |
| `*Proofs` | the theorems of the module they are named after | |
| `MC*` | its TLC instances | |

Definitions keep the source's names where it has one. A definition commented
"Mutant" or "A slip" is a faulty variant of the definition after it, which no
behaviour uses: `PROJECT.json` pairs each checked property with one that
violates it.

Where the code knowingly, or by oversight, does not keep two things apart, the
models do not pretend that it does: a history variable records that they met,
and the properties that do not survive the meeting say so by name. Each such
excuse was kept only because TLC refutes the property without it; the section
on divergences tells what happens then.

### NodeRegistry

The maps are keyed by node id and no operation touches a second key, so the
module is about one node and several sockets. A websocket and the
`NodeConnection` record attached to it are one element of `Sockets`. `wire`
tracks the websocket: `new`, `upgraded`, `open`, `closing` (either end began
the closure) and `closed` (the close event was dispatched). Bun dispatches the
close event of a socket the plane itself closes; between the two lies the
window most hazards live in.

### NodeLink

One action per run of a handler between two awaits. What an await leaves
pending is a value of `task[s]` (the frame being handled; frames are serialized
per socket by `handleNodeMessageQueued`), `asking[s]` (the open handler's
re-ask of the owner), `rotating` and `sweeping` (the routes).

| code | actions |
|---|---|
| `authenticateNodeUpgrade` | `Upgrade` |
| `handleNodeOpen` | `HandleOpen`, `OwnerReasked`, `HandshakeDeadline` |
| `handleNodeClose` | `HandleClose` |
| link machine | `RefuseFrame`, `AcceptKx`, `ReceiveBinding`, `ReProveNodeKey`, `CompleteBinding`, `HoldProposal`, `AcceptRegister`, `RegisterAnswered`, `HoldPlaintextReady` |
| event switch | `DropFrame`, `Heartbeat`, `ReceiveReady`, `ApplyReadyLands`, `ReadyResumes`, `ReadyGates` |
| routes and timers | `RotateKey`/`RotateEvicts`, `DisableOwner`/`DisableSweeps`/`EnableOwner`, `CloseForRestart`, `HeldIdle`, `StaleSweep` |
| environment | `FrameArrives`, `PeerGone`, `PlaneRestarts`, `Forget` |

A daemon is told apart only by what the gates ask of it: its build
(`current`, `otherKey`, `otherProtocol`, `belowFloor`, `plainOld`,
`plainCurrent`). A database write takes effect where it is issued, except
`applyReady`, whose landing is an action of its own: the handler's own comments
reckon with it landing after a later eviction. `Forget` reuses a spent socket's
name for the next dial so that a run is not limited to as many dials as it has
sockets. `orphan` is a history variable: the row reads online because a plane
that has died wrote it. Frames that do not touch the link, the registry or the
status (terminal tail, relay, preview, inventory) are left out.

### NodeRpc and CommandPromise

A command's step in `conn.sendChain` is `queued`, `signing` (past the re-check,
awaiting keys and signature) and `inflight` (deadline armed, entry registered,
frame sent). When sockets open, are held or evicted is left free, subject only
to what the code requires, so the results do not depend on `NodeLink`'s
schedule. A forced eviction empties the maps at once; its callers drain the
records they captured later, and the two callers capture differently
(`draining`): the disable sweep both entries, the rotate route only the live
one.

`CommandPromise` has one variable, what each caller has been told. `NodeRpc`
implements it with `outcome` as it stands; safety is proved, liveness (every
caller is answered) is model-checked.

### ServerUpdate

Three processes share a directory and a database: the server under its service
manager, the dashboard's job inside that server, and a terminal that runs
`update` or `update --rollback`, one verb at a time. Each action is one durable
step (a file renamed, linked or removed, a marker written, the database
migrated or replaced), so a process can stop between any two of them; `Crash`
kills the server and `CliLeaves`/`RollbackLeaves` end the terminal.

| code | actions |
|---|---|
| `tryClaimServerUpdate`, `runJob`, `runInstall` | `Claim`, `Snapshot`, `GivesUp`, `Swap`, `SwapFails`, `JobRestarts`, `CliRestarts`, `CliStopsWaiting`, `CliLeaves` |
| `beginUpdate` | `FindNoMarker`, `WriteMarker` |
| `keepPreviousBinary`, `clearPending` | `ClearStale`, `KeepPrevious`, `KeepFails`, `Undo` |
| boot in `index.ts` | `Spawn`, `ReadMarker`, `Migrate`, `MigrationThrows`, `Listen` |
| `recordFailure` | `ReadMarker` (the record), `RecordedDropsMarker` |
| `revertUpdate` | `RevertDatabase`, `RevertBinary`, `RevertReports`, `RevertDropsMarker` |
| `completeUpdate` | `CompleteDropsCopy`, `CompleteDropsMarker` |
| `runRollback` | `RollbackProbes`, `RollbackReads`, `RollbackStops`, `RollbackRestores`, `RollbackRenames`, `RollbackClears`, `RollbackStarts` |

A version is a number and a database is the number of the version that last
migrated it: a binary opens a database that is not newer than itself, which is
what the header of `update-transaction.ts` reports of the migrator. A marker
keeps the version it installs and the schema of its backup; its paths are the
same in every marker. A host without a database, the deletion of the checkpoint
after completion, and data beyond the schema are left out. What `restoreDatabase`
does between its staging copy and its rename is one step: its own comment argues
that a crash inside leaves the old file whole.

`damaged` and `crossed` are history variables. `damaged`: a revert could not put
back the database or the binary, which the code logs and passes. `crossed`: two
actors' transactions ran into each other, in one of the ways that
`BootRecoversUnlessCrossed` lists. That under systemd the list is complete is
proved; under launchd it is not, as a respawn may start the server under a
rollback.

### AgentUpdate

The daemon under its service manager and a terminal share one directory. The
plane is a set of versions it accepts, which may change (`PlaneMoves`, another
release of it is installed); it accepts a fresh connection or holds it, and
gives a held one up with close code 4406 after its budget.

| code | actions |
|---|---|
| `execUpdate`, `applyUpdate` | `Begin`, `FetchFails`, `Mark`, `Clear`, `Keep`, `KeepFails`, `Swap`, `SwapFails`, `Unmark`, `Restart`, `LeaveRunning` |
| `markUpdateAccepted`, `completeUpdate` | `MarkAccepted`, `SettleReads`, `SettleDropsCopy`, `SettleDropsMarker` |
| `revertAfterRefusal` | `RevertReads`, `RevertLooks`, `RevertRestores`, `RevertRecords`, `RevertDropsMarker`, `RevertThrows` |
| `rollbackUpdate` | `RollbackLooks`, `RollbackRenames`, `RollbackDropsMarker` |
| connection loop | `Dial`, `PlaneAccepts`, `PlaneHolds`, `PlaneGivesUp`, `LinkDrops` |
| environment | `Spawn`, `DaemonDies`, `TerminalDies`, `PlaneMoves` |

Downloads, probes of the download and refusals before the marker are one
failure, `FetchFails`. A command may reach a connection before the plane has
ruled on it, so `MarkAccepted` is enabled on a fresh link. `proven` records the
versions a plane has accepted on this node. `slips` records the ways past the
transaction's own reasoning: `early`, `leaked`, `again`, `crossed` and `deaf`,
each of which alone loses the way back, and `behind` (a process that is no
longer the version at the path names itself in its marker), which only makes a
record false.

### RestoreJournal and AtomicRestore

An instance is `N` components in the order of `journal.replacements`, one of
which is `config.env`; a backup has some of them. A generation is the whole
instance the files belong to, so a torn instance is one whose files disagree.
Each action is a durable step, and any process may die between two.

| code | actions |
|---|---|
| `rollbackInstanceRestoreSync` | `BeginUndo`, `UndoRemove`, `UndoRename`, `UndoDrop`, `UndoNext`, `Report`, `Close` |
| `finalizeInstanceRestoreSync` | `BeginFinish`, `FinishDrop`, `FinishNext`, `Report`, `Close` |
| `restoreInstanceBackup` | `WriteJournal`, `Prepare`, `BeginApply`, `MoveAside`, `PutIn`, `AwaitBoot`, `ApplyFails` |
| `executeRestore` | `CliBegins`, `CliPlans`, `CliStops`, `CliSeesOffline`, `CliLocks`, `CliRefuses`, `CliReleases`, `CleanupFails`, `CliStarts`, `CliConfirms`, `CliFails`, `CliStopsAgain`, `CliUndoes`, `CliFindsNone`, `CliLeavesIt` |
| `loadConfigEnv`, `recoverInstanceRestoreSync` | `LoadsAsItIs`, `LoadThrows`, `LoadFinishes`, `LoadUndoes` |
| boot in `index.ts` | `ServerLocks`, `BootConfirms`, `BootServes`, `BootFails` |
| environment | `Spawn`, `ManagerStops`, `HandEnables`, `HandStarts`, `Crash` |

The lock is the operating system's (a sqlite transaction), so it goes with the
process that holds it. Under systemd a server inherits the values of the
`EnvironmentFile` as they are when it is spawned; one started by hand reads the
file itself. `link` gives `config.env` a second name and `rename` over one's own
other name does nothing, which is what `UndoRename` and `UndoDrop` are about.
A transaction is identified with the command that runs it.

`gap` records that a replacement crossed a server between its settings and its
lock; `misled` that a command undid a transaction not its own or took a missing
journal for its own undo. `AtomicRestore` has two variables, the instance a boot
would find and the one it would go back to; the refinement maps the first to
what the recovery of the disk as it stands would leave, the second to what
undoing would leave once the journal says `pending-boot`.

### SubshellLifecycle

A task is one running method of the manager, and a step is what it does between
two awaits; several tasks share one row, one pane and the keys minted for it.
`task[t].op` names the method and `task[t].pc` where it awaits, so the actions
below read in the order of the code, and those that several methods share (mint,
link, launch, look, revive, retire) appear once.

| code | actions |
|---|---|
| `createSubshell` | `Create`, `Mint`, `Link`, `LaunchSucceeds`/`LaunchRefused`/`LaunchBreaks`, `Settle`, `UnwindCreate`, `Mark`, `Retire` |
| `restartSubshell` | `Restart`, `KillOld`, `Park`, `UnwindRestart`, `CannotCompose`, `RotateKey`, `Look`, `Revive`, `KillOrphan` |
| stop, delete | `Stop`, `StopKills`, `KillFails`, `StopClaims`; `Delete`, `DeleteKills`, `DeleteRevokes`, `DeleteRow` |
| the minute sweep, the census | `Sweep`, `SweepRow`, `Probe`, `PatchAlive`, `FoldAlive`, `BestEffortKill` |
| `#applyDeath`, auto-restart | `Report`, `NodeReports`, `CheckLease`, `FreshRow`, `ClaimDeath`, `Schedule`, `Defer`, `AutoRestart`, `UnwindAuto`, `Bury`, `Reap` |

On a node every command can meet a closed link, and a launch can take effect and
lose its answer (`LaunchBreaks`). `exposed` records three kinds of meeting that
nothing in the code keeps apart: a revival or a census beside a stop between its
kill and its write, a restart beside an operation without a lease that asks for
none again, and a death handler acting on evidence about another pane.

### InputPath and InputPromise

A frame is its id; a page outlives its sockets, a socket is used once. The
node's input chain is the sequence `calls`; an answer can be lost after the
write. The four constants (`INFLIGHT_MAX`, `MAX_PENDING`, the node's share of
the budget, `WINDOW_SIZE`) are parameters. An ack is delivered with the step
that sends it. `dropped`, `doubted`, `stranded` and `moved` record why an id may
be missing, doubled or late: the page's own cap, a write whose outcome the plane
misread, a hold lost under a live socket, and a page that changed sockets.

| code | actions |
|---|---|
| `enqueue`, `flushUpToCap`, `ack`, `resendPending` | `Type`, `WindowFires`, `Ack`, `Attach`, `PageLosesSocket` |
| `handleMessage` | `IgnoreFrame`, `AckAgain`, `JoinHold`, `WriteFrame`, `WriteReclaiming`, `RefuseFrame`, `Resolved`, `Rejected` |
| `holdFailedInput`, `drain`, `dropInputHolds`, re-fire on `ready` | `HoldFailed`, `HoldOverflows`, `Draining`, `DropHold`, `PlaneSeesClose`, `NodeReady` |
| the node | `NodeWrites`, `LinkDrops`, `ChainIsLost` |

### LiveFeed

One row, the grants on it, and one tab of one viewer. Writes happen and are
announced in two steps (`owed`); the publisher coalesces (`publishLive`),
queues (`flush`) and resolves through two awaited reads (`FindRow`,
`ListShares`, `Broadcast`); the socket's snapshots read rows and grants in two
queries (`ListRows`, `ListAccess`, `SendSnapshot`); the tab merges
(`HearsSnapshot`, `HearsSubshell`, `HearsGone`, `HearsRecheck`). A version
counts the row's writes. `exposed` collects seven meetings by name: a change
that was never announced because its read failed (`unannounced`), a question
whose answer failed (`unanswered`), a frame heard while an older snapshot is
under way (`crossed`), a snapshot read across a revocation (`torn`), a
revocation swallowed by a deletion (`overtaken`), two edits that read the same
grants (`overlapped`), and two edits in one window (`merged`). Each property
names those it does not survive, and `NeverSharedNeverSeen` none.

## The runs

Each configuration names its bounds. Every run finishes within three minutes
on two workers.

| run | instance | asks |
|---|---|---|
| `link_holds` | 2 sockets, four builds the gates hold, 1.2M states | no socket is forgotten, an online row has a witness |
| `link_rotation` | 2 sockets, current build, 1 rotation, 1.3M states | an established link's key is the bound one, a swept owner's node is offline, an accepted machine reads online, only a step that leaves the node without a live socket takes the row offline |
| `link_liveness` | 2 sockets, a build held at its binding, 180k states, fair | a lasting disable ends with the node offline for good; a handshake ends |
| `rpc` | 2 sockets (one encrypted), 2 commands (one `update`), 377k states, fair | wire order, sealing, pending bookkeeping, the promise |
| `update_job` | 3 releases, the second cannot migrate, 2 crashes, 1802 states, fair | a boot recovers from every stop, markers settle, the instance serves again |
| `update_actors` | job, terminal and rollback, 2 releases, 2 crashes, 425k states, systemd | only a crossing loses recoverability; no rollback replaces an open database |
| `agent_update` | daemon and terminal, 2 releases, any plane, 2 operations, 2 faults, 1 change of plane, 2.4M states, fair | the way back, the copy, the record, the node's return |
| `restore` | 3 components, 3 generations (one cannot boot), 2 commands, 2 faults, 1 hand, 2.0M states, fair | one atomic replacement, whole instances opened, truthful reports, service in the end |
| `lifecycle` | 2 tasks, local or agent, 2 keys, 1 drop, 3.9M states | no stopped row keeps a pane or a key, a live pane's key works, no false death |
| `input` | one page that types 3 and reconnects, or two pages that type 2 and 1, a shared budget of 3; window, queue and in-flight of 2; 1 fault; 2.1M states | budget, progress, order, copies, the promise |
| `live` | an owner and one other user, the tab of either, 1 edit or deletion in flight, 2 events, 11.8M states | the tab is current, complete, not more than allowed, and never leaked to |
| `lifecycle_zombie` | 1 task, a node whose link stays up | refutes a comment, see below |

Why these bounds are enough to be interesting. Every race in the registry is
between a socket and its successor: two sockets, each of which can be dialed
again without limit through `Forget`, give every overlap of an old and a new
connection. One rotation is enough because a proof in flight is either
older or not older than the bound key. An inbox of one frame, besides the one
being handled, lets a frame wait across any eviction. Two commands on one chain
are the least that can swap.

Three releases with a bad one in the middle give the server's job an update that
completes, one that reverts and one over the other's leavings. Where a terminal
takes part two are enough, because it may also go back: to the first release,
which cannot open what the second migrated. Two crashes allow one inside the
recovery from another. For a node two operations are an update over another or
a rollback over an update, and the plane may stop accepting either version.

A restore is asked with a component before `config.env` (the database), one
after it, and one that only some generations have, so that there is something
to put in place of nothing and nothing in place of something. The second command
can find the first one's journal, receipt or lock at any point, and is told not
to start, so that a pending restore waits for a boot; two faults let a recovery
be interrupted, and the operator's hand a server run beside the service.

Two tasks are a race of any two methods, and a sweep, a report and a request
follow each other in the same run. Two keys are a first launch and a second. One
page on two sockets is the only way for a close event to come late, and three
frames against a window and a queue of two the least to overflow each.

Symmetry over sockets is used in the safety runs of `NodeLink` and in `input`,
over tasks in `lifecycle`; none of these checks a liveness property. Deadlock is
checked in `NodeLink`, which never stops. The others may: an update or a
deletion is over, the commands are a finite set, the faults are used up; where
stopping would be wrong a liveness property says so (`ServesAgain`,
`NodeReturns`, the promise of `rpc`).

`AcceptedReadsOnline` and `OfflineOnlyWhenGone` are asked of a fleet of current
daemons, where nothing is held: in the other fleets the first divergence below
breaks them.

Type invariants are theorems rather than invariants of the runs, except
`InputPath`'s, whose window and queue bounds are part of what is asked.

## Fairness

Weak fairness, and only for what the process owes itself: a suspended handler
is resumed, a queued frame is handled, an armed timer (handshake deadline, held
idle, command deadline) fires, a begun closure is dispatched, a route that
committed goes on to evict, the sixty-second sweep runs. A daemon owes
nothing: it need not send, reply or hang up. Nor does an operator. The
process may restart at any time and for ever, which is why the liveness
properties are stated as what becomes of a socket or of a disable that lasts.

In `ServerUpdate` the service manager respawns what is down (`Restart=always`,
`KeepAlive`) and a boot goes on; from its marker to the swap the job runs
without an await, and then a timer exits. The terminal owes nothing, and neither
does an operator who would start a stopped service. The liveness properties are
asked of the job alone, where crashes are bounded: a machine that is killed for
ever serves never.

In `AgentUpdate` the manager respawns, the daemon dials, the plane rules on a
connection and gives a held one up, and a settlement or a revert that began runs
on. That a held socket is given up before its daemon takes itself for accepted
is a comparison of two constants of the code: ten minutes against
`UPDATE_ACCEPTED_MS`. Nobody has to begin an update, to roll back or to finish
either.

In `RestoreJournal` a process that is not killed goes on with its loop, its
load and its boot, a command goes on while it holds the lock outside the loops,
and the manager starts and stops what it is told to. Nothing is assumed of an
operator, nor of a command that waits. `ServesAgain` asks only of a service that
is left enabled.

`SubshellLifecycle`, `InputPath` and `LiveFeed` are checked for safety: what
they promise is asked of the states in which nothing is left to happen, or of
each step.

## The proofs

All are for arbitrary constants under the assumptions the modules name. None
uses fairness.

`NodeLinkProofs`

- `TypeCorrect`, by one step per action.
- `RegistrySound`: `RegistryInv` is inductive. That an open socket is registered
  is not inductive alone: attaching needs to know that the new socket is in
  neither map and has nothing pending (`UnopenedIsBlank`), holding that the
  record it moves is not already in the other map (`RecordInOneMap`), and
  detaching that the live entry's close event is yet to come
  (`LiveSocketIsOwned`). `OpenSocketRegistered` is the corollary.
- `OnlineWitnessed`: the row and the live entry, from the type invariant alone.
  Every write of `online` leaves its writer in `readyLanded`, and the writer
  leaves it only by asking who owns the node.
- `DisabledSwept`: uses that an upgrade needs an enabled owner, so a live
  socket of a disabled owner was upgraded before the commit and is `asking`.
- `KeySound` and `EstablishedBound`: the inductive part is `ProofStands`, that
  a re-proof in flight on the live socket is not out of date unless an eviction
  is owed.
- `AcceptedOnline` and `OfflineWhenGone`, of a fleet of current daemons
  (`FleetIsCurrent`: nothing is held there, `NoneHeld`, because a ready is only
  said on a proved link and passes both gates). `Reported` says that the row reads
  online from the landing of the live socket's ready on; each projection empties
  the live entry or found it empty.

`NodeRpcProofs`

- `ChainSound`: `ChainInv` says that a queued or signing step has a caller, that
  only a chain's head signs, and that pending entries and sent commands
  correspond. `PendingWaits` follows.
- `OrderSound`/`WireInOrder`: no frame on a socket outruns its counter, and the
  command being signed holds the newest number; it is the head (`SigningIsHead`),
  so no other can be signed and overtake it.
- `SealSound`/`NoPlaintextOnEncrypted`: a step past the re-check has its link,
  and a link is never unset.
- `KeepsPromise`: every step is a step of `CommandPromise` or a stutter.

`ServerUpdateProofs`, for any set of releases, any but the first of them bad, any
number of crashes and either supervisor

- `TypeCorrect`, of every mix of actors. The restore types only because a boot
  that reverts owns the marker it read (`RevertsItsOwn`).
- `DashboardUpdatesRecover`: with the job alone, `BootRecovers`. It is far from
  inductive: `RecoveryInv` adds what each stage of the job and of the boot
  implies about the disk. The job works only inside a server that has finished
  its boot (`JobIsInside`), which is what the terminal lacks; its marker and its
  copy are those of the running version (`JobAndDisk`, `Opened`); a boot that
  reverts holds all three parts until the binary is back (`BootAndDisk`).
- `SystemdRestoresUnopened`: under systemd, whoever else updates, the service
  stays stopped from the rollback's stop to its start.
- `UncrossedRecover`: under systemd `BootRecoversUnlessCrossed` of every mix of
  actors. While nothing crossed (`UncrossedInv`): what a boot has read still
  stands and nobody works on the disk beside it (`BootHolds`); an updater between
  its marker and its swap is the only one (`UpdaterHolds`); no backup a marker or
  a record names is newer than the database (`MarkersFit`), which is what lets a
  rollback go by either; and a copy that is not the installed binary is the way
  back of the marker that stands (`DiskFits`). The attempt showed two crossings
  that two releases do not reach: a marker written from a copy, or beside a
  failure's record, that another transaction had outdated.

`AgentUpdateProofs`, for any releases, planes, drivers and number of deaths

- `BinaryKeepsItsWayBack`, `CopyKeepsItsMarker`, `RevertsRecordTheTruth`. The
  invariant (`Inv` in `AgentUpdate`) says, unless one of the five slips
  happened, that one transaction at a time is over the files (`OneAtATime`), and
  what each of its stages implies: until its swap an update has a proven binary
  and its own marker (`UpdateInv`), a settlement's marker names a proven version
  (`SettleInv`), and what is kept was accepted once (`CopyIsProven`). The record
  needs in addition that a marker's `from` is what is kept beside it
  (`RecordInv`).

`RestoreJournalProofs`, for any number of components, backups, commands, deaths
and interventions

- `Control`: who holds the lock where, and which loop runs under it in which
  phase of the journal. Everything else is relative to it: a file changes only
  under the lock.
- `FilesInv`: what the journal's phase says of every component (`JournalInv`)
  and what the loop's place adds: in an apply those behind are replaced and
  those ahead prepared (`ApplyInv`), in an undo those it has passed are as they
  were (`UndoInv`), in a confirmation their originals are gone (`FinishInv`).
  That an undo can be interrupted and begun anew from the last component rests
  on `UndoStep` deciding from what it finds and not from how far its predecessor
  came: a component that is undone already looks like one that was never moved.
  `WholeInv` is the point of it: what a boot would find, and what a failed boot
  would go back to, are whole.
- `ServerInv`: a server that nothing crossed has the settings of what stands.
- `FateInv`, `OwnInv`: the receipt agrees with what became of the transaction it
  names, and a command that works on the journal works on its own or is misled.
- From these, `RestoresAreAtomic`: every step of files, journal and recovery is
  a step of `AtomicRestore` or a stutter. `ServersOpenWholeInstances` and
  `CommandsTellTheTruth` are conjuncts.

`SubshellLifecycleProofs`, for any number of tasks, keys and drops

- `TypeCorrect`, in three parts: the tasks and the lease, the host, the database.
- `KeysDie`: no excuse is needed. `KeyIsOwed` says that while a terminated row
  links to an enabled key some task owes the revoke, `LinkedWasMinted` that the
  next key minted is not one a row already links to. Each task's step either
  keeps its debt or pays it (`KeepsDebt`).
- `StopsKill`, `PanesKeepTheirKeys` and `DeathsAreTrue` are three readings of one
  invariant, `LifeInv`. Unless an exposed meeting took place, one task at a time
  may spawn a pane (`OneLauncher`: the lease, and the claim a death handler makes
  on the row); so the evidence a task carries is of the pane that is there
  (`FreshKeys`, `Evidence`), and a handler that found none still finds none when it
  stamps (`DeathFinds`). A live pane in reach that nobody has just found is under a
  row that runs, or has a task that will kill it, and no restart takes it for gone
  (`StrayInv`). `StopsLast`, `StaysDead` and `RowOver` say where an ending stands
  relative to its write, and `Linked` and `Accepted` follow the key: a live pane's
  is the row's and enabled, unless a delete or a rotation is under way.

`InputPathProofs`, for any finite set of pages, any sockets and owners, any quotas
and faults, and any in-flight, queue, budget and window sizes

- `TypeCorrect` and `ChargesAreExact` share an induction: a hold being drained
  has exactly one call of kind `drain`, for its head, and no other does
  (`Drains`). With it each of the ways a charge moves (`Kick`, `DropHold`,
  `HoldFailed`, a reclaim, a settlement, the re-fire of every hold at once) is a
  lemma about two cardinalities.
- `PathKeepsPromise`: a refinement mapping. `Belongs` says that whatever is on
  the wire, in a call, in a hold, in the window or in the pane was typed by its
  page, and that what the window holds or a call has written is in the pane. So
  an ack, which follows one of the two, retires only what landed.
- `UnackedIsOnItsWay`: `OnWay` adds that a call or a hold entry charged to a live
  socket names the socket it came on; each way a frame can leave the path either
  closes its socket, strands it by name, or is an ack.
- `OneCopyWithoutDoubt`: `Single` says of an id that is not in `doubted` that one
  write of it at most is under way, that it is held once at most and then is what
  the drain writes, and that once it landed it is in the window or asked for no
  more. Each way a second copy can start names the id in `doubted`.
- `HealthyOrder`: `Steady` follows, until the first fault, a page that kept its
  socket. Its frames are in one line (`Route`): the pane, the calls still due on
  the chain, the wire and what has not been sent, each place ahead of the next,
  and what is in none of them the page's own cap forgot. A frame only ever moves
  from the head of one place to the end of the next. Behind a refused socket the
  line is cut short and nothing in what is left of it is skipped (`Whole`). That
  no hold, reclaim or re-fire can happen before the first fault is `QuietSteps`.

`LiveFeedProofs`, for any users and grants

- `TopicsReachViewers`: topics and access, computed in two files from the same
  grants, agree, and each viewer hears a broadcast once.
- `NeverLeaks`: the inductive part is `Unseen`, that nothing the tab is fed from
  (the grants the publisher read, the rows the socket listed, the frames under
  way) holds the row while its viewer never had access.
- `RowsAreCurrent` and `VisibleRowsShow` share `RowTold`: once no event is left
  that would read the row again, what the publisher has read is the row as it
  is, and then either the last copy in the channel is that one, with no "gone"
  behind it, or the tab is `Shown`: it holds the row as it is, and no snapshot
  or read under way can set it back. Beside it, a question that was asked has an
  answer on its way (`QuestionsAnswered`).
- `LostRowsLeave` and `AccessesAreCurrent` are one invariant, `EndTold(T)`, of a
  set `T` of accesses the viewer does not have. The event that ended one waits,
  or is being resolved and has read no grant that gives one, or a "gone" or a
  recheck is on its way, or nothing of `T` will be shown for good. `T` is every
  access for the first and the one on screen for the second. That each loss and
  each change of level reaches its viewer as a "gone" or a recheck, whichever
  topic carried it, is `EndIsSaid`.

Only model-checked: all liveness (`HandshakeSettles`, `DisableTakesHold`,
`MarkerSettles`, `ServesAgain`, `NodeReturns`, the fairness half of
`CallersPromise`), which the prover cannot treat. Every safety invariant and
action property of a passing run has a theorem.

## Divergences found

One has a run whose counterexample shows it:

- `FailedRestartLeavesNoPane` (`lifecycle_zombie`).
  `subshell-manager.service.ts:1077` says of the restart's rollback that it
  leaves a truthful dead state and no zombie. A launch on a node can take effect
  while its answer is lost (`:1076`); the catch marks the row dead and kills
  nothing, so the pane runs on under a terminated row, which no sweep visits. No
  race is needed.

The models reach the others too. They are why a property carries an excuse, and
anyone who changes the code there can turn the excuse off and watch.

Node link and commands

- `node-registry.ts:521` says the two maps hold at most one record for a node.
  The hold of a proposed protocol (`node-ws-handler.ts:776`) runs after an await
  and does not ask whether its socket still owns the node: superseded meanwhile,
  it enters `held` beside the live replacement and writes the row offline.
- The same hold can land after the close event, leaving a dead record in `held`
  until its ten-minute timer, where `node-ws-handler.ts:1355` says releasing on
  close prevents that.
- `node-rpc.ts:116` says a held socket is used for `update` alone. The re-check
  in the chain (`:172`) accepts a connection that is live or held, so a command
  queued while it was live is sent after it was held.

Updates

- `update-transaction.ts:184` says the kept copy makes a crash mid-swap bootable
  on every surface. A server that boots between a terminal's marker and its
  rename reads a marker for another version, records a failure and removes it;
  the rename then lands with no marker, and if that release cannot migrate
  nothing reverts it.
- `cli/commands/update.ts:565` says to stop the server first. Under launchd a
  respawn that is being delayed reads as stopped, so nothing is stopped and the
  server may come up under the restore.
- `cli/commands/update.ts:516` says binary and database go back together. The
  marker is read before the operator is asked, and by the time of the answer the
  copy may belong to another update. It reads `failed.json` when no marker
  stands: the record of another update's failure, if the last one found it
  before that failure was written, or could not move it aside. The backup it
  then restores can be newer than the binary (three releases are needed).
- `beginUpdate` tests for the marker and writes it in two steps, so the job and a
  terminal can both pass (`update-transaction.ts:162`). And a terminal that dies
  between its marker and its copy leaves a marker that `--rollback` refuses to
  clear for want of a copy (`cli/commands/update.ts:532`); the next boot clears
  it.
- On a node, `agent/update.ts:30` says every install is a transaction the new
  binary completes at boot. `completeUpdate` (`:930`) deletes whatever marker and
  copy it finds and does not ask which version they are of: a process of the old
  version that a plane accepts after a terminal swapped the file (an update
  without a restart, or a reconnect before it) completes the update of a version
  that has not run.
- A command sent to a connection the plane is about to hold, which the handler's
  comment (`node-ws-handler.ts:771`) takes for benign, makes the refused binary delete its copy; its node
  then has nothing to go back to. And the marker such a daemon was to turn into
  a recorded failure (`agent/update.ts:718`) is settled as accepted instead.
- A failed swap takes its own marker back; where an unsettled one stood before,
  that one is gone too, and the host does not stand where it started (`agent/update.ts:796`). A copy
  that fails during a rescue has already removed the one proven copy.

Restore

- `restore.ts:496` prints that the previous instance was restored when it found
  no journal to undo: the boot finalized between the look (`:477`) and the lock,
  the new instance stands, and the service was stopped on the way.
- The undo there does not compare transactions, so a command whose wait ran out
  can undo one that another command has put in since.
- A server takes its settings before it takes the instance lock. A restore, or
  the recovery of one, between the two leaves it with the settings of the other
  instance, or, when it finds the lock free at the wrong moment, with files that
  are not whole until the boot itself undoes them.

Lifecycle

- `subshell-manager.service.ts:1365` says it schedules the next run before the spawn so
  that a sweep cannot double-spawn; the lease is what keeps a manual restart and
  the sweep's apart, and the sweep's auto-restart takes none.
- `#applyDeath` asks for the lease once and then awaits; `parkForRestart` compares
  a row's fields, which a stop and a restart in between bring back; a sweep may
  fold a row whose create has yet to spawn; a stop kills before a launch under
  way spawns; a plain delete of a row on an offline node leaves the pane to
  nobody.

Input

- `input-queue.ts:11` says an unacked id still means "not yet". A re-sent id is
  absorbed into the entry of the page's previous socket and is released with it
  when that socket's late close event arrives; it is on no way any more until the
  page reconnects.
- `input-hold.ts:84` says a hold is in id order by construction. Writes fail in
  the order they are answered, and a re-send joins behind them.
- `input-hold.ts:33` says the only double write possible is the one whose result
  frame never came back. A re-send that arrives while its first write is in
  flight and other frames are held joins the hold; the first write lands and is
  answered, and the drain writes the frame again: it does not ask the window.
  (`input-window.ts` and `subshell-ws.ts:531` accept this race for a re-send
  that is written directly.) It takes a budget of three to show.

Live feed

- `live-publisher.ts:97` says the earliest `before` is the true "used to". A user
  added and removed again within one window is in neither the first `before` nor
  the grants as they are, and keeps the row they were sent in between
  (`merged`). A revocation that finds its row deleted says nothing (`:166`), and
  the deletion's own audience is the one of after the revocation (`overtaken`).
- `use-live-subshells-feed.tsx:202` says the snapshot that lands answers every
  question asked before it. A snapshot that was read before a question can arrive
  after it (`crossed`), and a question whose answer failed is not asked again
  (`unanswered`).
- `subshells.service.ts:770` says "none" is impossible there. Rows and grants are
  read in two queries, and a revocation between them shows the row as viewable
  (`torn`).

## Not modelled

`PROJECT.json` names every component and why. In short: the clients' user
interfaces, the release index, service-manager files and the authentication
library are I/O or third-party; their verdicts are nondeterministic inputs where
a model needs them.

Within the components that are modelled in part:

- node link: event frames that touch neither link nor status; re-registration
  and node deletion, which evict as a rotation does.
- `AgentUpdate`: two jobs in one daemon that share a temporary path, removals
  that fail, power loss, what is downloaded, how the binary's path is found.
- `RestoreJournal`: capturing a backup, archives, encryption, staging and its
  jobs, sqlite's sidecar files, the legacy backup of a database alone, a detached
  server, panes and consent, the capture's lock, the check that a server's paths
  are the journal's.
- `SubshellLifecycle`: views, previews, renames, presets, adopted panes, the
  retirement of finished helpers.
- `InputPath`: frames without ids, the buffer before the queue engages, revoked
  access, limits in bytes, the eviction of idle sessions, panes of the local
  node.
- `LiveFeed`: previews, the account's disable, the caches of detail pages.

## Plan

In order of what a failure would cost:

1. `Maintenance` (the newest stamp wins on both sides, the reconcile's write may
   be older than a route's) composed with parked panes.
2. `RelayBroker` (a pairing's grace timer against both opens).
