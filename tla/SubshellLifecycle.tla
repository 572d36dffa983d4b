------------------------- MODULE SubshellLifecycle -------------------------
(***************************************************************************)
(* The life of one subshell: its row, its tmux pane, the keys minted for   *)
(* its panes and the restart lease, worked on by the operations of         *)
(* modules/subshells/subshell-manager.service.ts.  Each operation is an    *)
(* async method; a task runs one of them, and a step of a task is what the *)
(* method does between two awaits.  Between two steps every other task may *)
(* run: a stop beside a restart, the minute sweep beside a pane's own      *)
(* death report.                                                           *)
(*                                                                         *)
(* The pane lives on the server itself ("local") or on a node ("agent"),   *)
(* where every command can meet a closed link or lose its answer.          *)
(***************************************************************************)
EXTENDS Naturals, FiniteSets

CONSTANTS
  Tasks,         \* operations that can be in flight together
  Places,        \* where the subshell may live: a subset of {"local", "agent"}
  MaxKeys,       \* keys the run may mint, one per launch; bounds the run
  MaxDrops,      \* times the node's link may drop; bounds the run
  BackoffLimit,  \* consecutive auto-restarts before the sweep gives up (5 in the code)
  None           \* no task

ASSUME TasksAssumption   == Tasks # {} /\ IsFiniteSet(Tasks)
ASSUME PlacesAssumption  == Places \subseteq {"local", "agent"}
ASSUME BoundsAssumption  == MaxKeys \in Nat /\ MaxDrops \in Nat /\ BackoffLimit \in Nat \ {0}
ASSUME NoneAssumption    == None \notin Tasks

Keys == 1..MaxKeys
NoKey == 0

VARIABLES
  place,    \* the row's nodeId: local or agent, fixed at creation
  optIn,    \* the row's restartOnExit, fixed at creation
  row,      \* the row's status, alive, backoff, retry schedule and key link
  pane,     \* the tmux session under the row's name, and the key last baked into one
  minted,   \* how many keys were created
  enabled,  \* the keys not disabled since
  lease,    \* the task restartInFlight holds for this row, or None
  online,   \* whether the node's socket is live
  drops,    \* times it dropped so far
  hooks,    \* keys of the panes whose pane-died hook has yet to report
  task,     \* what each task runs and how far it is
  exposed   \* history: one of the meetings the code does not keep apart took place (Exposes)

dbVars == <<row, minted, enabled>>
hostVars == <<pane, hooks, online, drops>>
fixed == <<place, optIn>>
vars == <<place, optIn, row, pane, minted, enabled, lease, online, drops, hooks, task, exposed>>

Idle == [op |-> "idle", pc |-> "end", status |-> "none", alive |-> FALSE,
         backoff |-> 0, next |-> 0, key |-> NoKey]

NoRow == [status |-> "none", alive |-> FALSE, backoff |-> 0, waiting |-> FALSE, link |-> NoKey]

Statuses == {"none", "running", "terminated", "gone"}
Ops == {"idle", "create", "restart", "stop", "delete", "sweep", "death", "census"}
Pcs == {"end", "mint", "link", "look", "launch", "settle", "revive", "orphan", "mark",
        "retire", "unwind", "kill", "park", "revoke", "claim", "row", "probe", "patch",
        "fold", "unlink", "drop", "check", "fresh", "schedule", "gates", "settled", "reap", "bestKill"}

Reviving == {"revoke", "mint", "link", "look", "launch", "revive", "orphan", "unwind", "retire"}

\* Where each operation can be.
InItsProgram(r) ==
  \/ r.op = "idle" /\ r.pc = "end"
  \/ r.op = "create" /\ r.pc \in {"mint", "link", "launch", "settle", "orphan", "unwind", "mark", "retire"}
  \/ r.op = "restart" /\ r.pc \in Reviving \cup {"kill", "park", "mark"}
  \/ r.op = "stop" /\ r.pc \in {"kill", "claim", "mark", "retire"}
  \/ r.op = "delete" /\ r.pc \in {"kill", "unlink", "drop"}
  \/ r.op = "sweep" /\ r.pc \in {"row", "probe", "patch", "fold", "bestKill"}
  \/ r.op = "census" /\ r.pc \in {"fold", "bestKill"}
  \/ r.op = "death" /\ r.pc \in Reviving \cup {"check", "fresh", "claim", "schedule", "gates", "settled", "reap"}

TypeOK ==
  /\ place \in Places
  /\ optIn \in BOOLEAN
  /\ row \in [status: Statuses, alive: BOOLEAN, backoff: Nat,
              waiting: BOOLEAN, link: Keys \cup {NoKey}]
  /\ pane \in [is: {"none", "live", "dead"}, key: Keys \cup {NoKey}]
  /\ minted \in 0..MaxKeys
  /\ enabled \subseteq 1..minted
  /\ lease \in Tasks \cup {None}
  /\ online \in BOOLEAN
  /\ drops \in 0..MaxDrops
  /\ hooks \subseteq Keys \cup {NoKey}
  /\ task \in [Tasks -> [op: Ops, pc: Pcs, status: Statuses, alive: BOOLEAN,
                         backoff: Nat, next: Nat, key: Keys \cup {NoKey}]]
  /\ \A t \in Tasks : InItsProgram(task[t]) /\ (lease = t <=> task[t].op = "restart")
  /\ exposed \in BOOLEAN

-----------------------------------------------------------------------------
(* The row, the pane and the keys                                          *)

Exists == row.status \in {"running", "terminated"}
Running == row.status = "running"
Reachable == place = "local" \/ online

\* The guard accepts a key while it is enabled and its row links to it.
Accepts(k) == Exists /\ k # NoKey /\ row.link = k /\ k \in enabled

\* A write by id: it changes nothing once the row is deleted.
RowBecomes(r) == row' = IF Exists THEN r ELSE row

\* revokeSubshellToken: the row is read and the key it links to disabled.
Revoked == IF Exists THEN enabled \ {row.link} ELSE enabled

NoPane == [pane EXCEPT !.is = "none"]

-----------------------------------------------------------------------------
(* Tasks                                                                   *)

At(t, pc) == task[t].pc = pc
AtAs(t, pc, ops) == task[t].pc = pc /\ task[t].op \in ops
Goto(t, pc) == task' = [task EXCEPT ![t].pc = pc]
Ends(t) == task' = [task EXCEPT ![t] = Idle]
Free(t) == task[t].op = "idle"

Begins(t, op, pc) == task' = [task EXCEPT ![t] = [Idle EXCEPT !.op = op, !.pc = pc]]

\* The end of an operation; a restart's `finally` gives up its lease.
Finishes(t) ==
  /\ Ends(t)
  /\ lease' = IF lease = t THEN None ELSE lease

\* Past the death handler's only lease check.
InDeathHandler(t) == task[t].op = "death" /\ task[t].pc # "check"

\* A stop or a delete that has killed and has not yet written the row, or a
\* rollback about to.
MidStop(t) == task[t].pc \in {"unlink", "drop", "mark"} \/ AtAs(t, "claim", {"stop"})

\* A restart meets an operation that holds no lease and looks at none again.
MeetsUnleased ==
  \E u \in Tasks : \/ InDeathHandler(u)
                   \/ task[u].op = "create"
                   \/ task[u].op = "stop" /\ row.status = "terminated"

\* The step takes part in a meeting `met` that nothing in the code keeps apart.
Exposes(met) == exposed' = (exposed \/ met)

-----------------------------------------------------------------------------
(* Creating                                                                *)

\* createSubshell writes the row, alive, before anything is spawned.
Create(t) ==
  /\ Free(t)
  /\ row.status = "none"
  /\ row' = [row EXCEPT !.status = "running", !.alive = TRUE]
  /\ Begins(t, "create", "mint")
  /\ UNCHANGED <<pane, minted, enabled, lease, online, drops, hooks, exposed, fixed>>

\* issueSubshellToken creates the key, and in a second statement links the row to it.
Mint(t) ==
  /\ At(t, "mint")
  /\ minted < MaxKeys
  /\ minted' = minted + 1
  /\ enabled' = enabled \cup {minted + 1}
  /\ task' = [task EXCEPT ![t].key = minted + 1, ![t].pc = "link"]
  /\ UNCHANGED <<row, hostVars, lease, exposed, fixed>>

Link(t) ==
  /\ At(t, "link")
  /\ RowBecomes([row EXCEPT !.link = task[t].key])
  /\ Goto(t, IF task[t].op = "create" THEN "launch" ELSE "look")
  /\ UNCHANGED <<minted, enabled, hostVars, lease, exposed, fixed>>

\* A stop that killed before this pane existed, and has yet to write the row,
\* never looks again.
Spawns(t) ==
  /\ Reachable
  /\ pane.is = "none"
  /\ pane' = [is |-> "live", key |-> task[t].key]

\* The pane is spawned with the key in its environment.
LaunchSucceeds(t) ==
  /\ At(t, "launch")
  /\ Spawns(t)
  /\ Goto(t, IF task[t].op = "create" THEN "settle" ELSE "revive")
  /\ Exposes(\E u \in Tasks : MidStop(u))
  /\ UNCHANGED <<dbVars, hooks, online, drops, lease, fixed>>

\* Nothing is spawned: tmux refuses, the name is still taken by another session,
\* alive or lingering dead, or the node is not there.
LaunchRefused(t) ==
  /\ At(t, "launch")
  /\ Goto(t, "unwind")
  /\ UNCHANGED <<dbVars, hostVars, lease, exposed, fixed>>

\* The pane is spawned and the call throws all the same: the log could not be
\* attached, which only a create insists on, or the node's answer was lost.
\* A revival's catch does not kill it.
LaunchBreaks(t) ==
  /\ At(t, "launch")
  /\ task[t].op = "create" \/ place = "agent"
  /\ Spawns(t)
  /\ Goto(t, "unwind")
  /\ Exposes(task[t].op # "create" \/ \E u \in Tasks : MidStop(u))
  /\ UNCHANGED <<dbVars, hooks, online, drops, lease, fixed>>

\* The create's last look: a row retired during the launch costs the pane.
Settle(t) ==
  /\ At(t, "settle")
  /\ IF Running
     THEN Finishes(t)
     ELSE Goto(t, "orphan") /\ UNCHANGED lease
  /\ UNCHANGED <<dbVars, hostVars, exposed, fixed>>

\* The create's rollback kills first, whatever became of the spawn.
UnwindCreate(t) ==
  /\ AtAs(t, "unwind", {"create"})
  /\ pane' = IF Reachable THEN NoPane ELSE pane
  /\ Goto(t, "mark")
  /\ UNCHANGED <<dbVars, hooks, online, drops, lease, exposed, fixed>>

\* markTerminated leaves `alive` as it is.
Mark(t) ==
  /\ At(t, "mark")
  /\ RowBecomes([row EXCEPT !.status = "terminated"])
  /\ Goto(t, "retire")
  /\ UNCHANGED <<minted, enabled, hostVars, lease, exposed, fixed>>

\* The last statement of every path that gave up on its pane.
Retire(t) ==
  /\ At(t, "retire")
  /\ enabled' = Revoked
  /\ IF task[t].op = "death"
     THEN Goto(t, "settled") /\ UNCHANGED lease
     ELSE Finishes(t)
  /\ UNCHANGED <<row, minted, hostVars, exposed, fixed>>

-----------------------------------------------------------------------------
(* Restarting in place                                                     *)

\* restartSubshell reads the row and takes the lease; a second one joins the first.
Restart(t) ==
  /\ Free(t)
  /\ Exists
  /\ lease = None
  /\ lease' = t
  /\ task' = [task EXCEPT ![t] = [Idle EXCEPT !.op = "restart", !.pc = "kill",
                                             !.status = row.status, !.alive = row.alive]]
  /\ Exposes(MeetsUnleased)
  /\ UNCHANGED <<dbVars, hostVars, fixed>>

\* The old pane is stopped only if the row was read alive; an offline node refuses.
KillOld(t) ==
  /\ AtAs(t, "kill", {"restart"})
  /\ IF task[t].alive /\ ~Reachable
     THEN Finishes(t) /\ UNCHANGED pane
     ELSE /\ pane' = IF task[t].alive THEN NoPane ELSE pane
          /\ Goto(t, "park")
          /\ UNCHANGED lease
  /\ UNCHANGED <<dbVars, hooks, online, drops, exposed, fixed>>

\* parkForRestart: only while the row is where the restart read it.
AsRead(t) == row.status = task[t].status /\ row.alive = task[t].alive

Park(t) ==
  /\ At(t, "park")
  /\ IF AsRead(t)
     THEN /\ row' = [row EXCEPT !.status = "running", !.alive = FALSE]
          /\ Begins(t, "restart", "revoke")
          /\ UNCHANGED lease
     ELSE Finishes(t) /\ UNCHANGED row
  /\ UNCHANGED <<minted, enabled, hostVars, exposed, fixed>>

\* The restart's catch does not kill: it marks the row and revokes.
UnwindRestart(t) ==
  /\ AtAs(t, "unwind", {"restart"})
  /\ Goto(t, "mark")
  /\ UNCHANGED <<dbVars, hostVars, lease, exposed, fixed>>

-----------------------------------------------------------------------------
(* #reviveRow, shared by the restart and the automatic one                 *)

\* The launch cannot be composed: preset, harness, binary or directory is gone.
CannotCompose(t) ==
  /\ At(t, "revoke")
  /\ Goto(t, "unwind")
  /\ UNCHANGED <<dbVars, hostVars, lease, exposed, fixed>>

RotateKey(t) ==
  /\ At(t, "revoke")
  /\ enabled' = Revoked
  /\ Goto(t, "mint")
  /\ UNCHANGED <<row, minted, hostVars, lease, exposed, fixed>>

\* A slip: the row died before the spawn, and the new key is forgotten.
LookForgetsKey(t) ==
  /\ At(t, "look")
  /\ IF Running /\ ~row.alive THEN Goto(t, "launch") /\ UNCHANGED lease ELSE Finishes(t)
  /\ UNCHANGED <<dbVars, hostVars, exposed, fixed>>

\* The last look before the spawn.
Look(t) ==
  /\ At(t, "look")
  /\ Goto(t, IF Running /\ ~row.alive THEN "launch" ELSE "retire")
  /\ UNCHANGED <<dbVars, hostVars, lease, exposed, fixed>>

\* A slip: the revival writes the row by id alone.
ReviveAnyway(t) ==
  /\ At(t, "revive")
  /\ RowBecomes([row EXCEPT !.alive = TRUE, !.waiting = FALSE, !.backoff = task[t].next])
  /\ Finishes(t)
  /\ UNCHANGED <<minted, enabled, hostVars, exposed, fixed>>

\* updateIfRunning: a row stopped since the last look stays stopped.
Revive(t) ==
  /\ At(t, "revive")
  /\ IF Running
     THEN /\ row' = [row EXCEPT !.alive = TRUE, !.waiting = FALSE,
                                !.backoff = task[t].next]
          /\ Finishes(t)
     ELSE Goto(t, "orphan") /\ UNCHANGED <<row, lease>>
  /\ UNCHANGED <<minted, enabled, hostVars, exposed, fixed>>

\* The pane nobody wants is killed; a create goes on when the node is gone, a revival throws.
KillOrphan(t) ==
  /\ At(t, "orphan")
  /\ pane' = IF Reachable THEN NoPane ELSE pane
  /\ Goto(t, IF Reachable \/ task[t].op = "create" THEN "retire" ELSE "unwind")
  /\ UNCHANGED <<dbVars, hooks, online, drops, lease, exposed, fixed>>

-----------------------------------------------------------------------------
(* Stopping and deleting                                                   *)

Stop(t) ==
  /\ Free(t)
  /\ Exists
  /\ Begins(t, "stop", "kill")
  /\ Exposes(row.status = "terminated" /\ lease # None)
  /\ UNCHANGED <<dbVars, hostVars, lease, fixed>>

\* The kill; an offline node's is left unverified.
StopKills(t) ==
  /\ AtAs(t, "kill", {"stop"})
  /\ pane' = IF Reachable THEN NoPane ELSE pane
  /\ Goto(t, "claim")
  /\ UNCHANGED <<dbVars, hooks, online, drops, lease, exposed, fixed>>

\* Any other failure of the kill ends the act with the row untouched, whatever
\* the node did.
KillFails(t) ==
  /\ AtAs(t, "kill", {"stop", "restart"})
  /\ place = "agent" /\ online
  /\ task[t].op = "restart" => task[t].alive
  /\ pane' \in {pane, NoPane}
  /\ Finishes(t)
  /\ UNCHANGED <<dbVars, hooks, online, drops, exposed, fixed>>

StopClaims(t) ==
  /\ AtAs(t, "claim", {"stop"})
  /\ RowBecomes([row EXCEPT !.alive = FALSE])
  /\ Goto(t, "mark")
  /\ UNCHANGED <<minted, enabled, hostVars, lease, exposed, fixed>>

Delete(t) ==
  /\ Free(t)
  /\ Exists
  /\ Begins(t, "delete", "kill")
  /\ UNCHANGED <<dbVars, hostVars, lease, exposed, fixed>>

DeleteKills(t) ==
  /\ AtAs(t, "kill", {"delete"})
  /\ pane' = IF Reachable THEN NoPane ELSE pane
  /\ Goto(t, "unlink")
  /\ UNCHANGED <<dbVars, hooks, online, drops, lease, exposed, fixed>>

DeleteRevokes(t) ==
  /\ At(t, "unlink")
  /\ enabled' = Revoked
  /\ Goto(t, "drop")
  /\ UNCHANGED <<row, minted, hostVars, lease, exposed, fixed>>

DeleteRow(t) ==
  /\ At(t, "drop")
  /\ row' = [NoRow EXCEPT !.status = "gone"]
  /\ Ends(t)
  /\ UNCHANGED <<minted, enabled, hostVars, lease, exposed, fixed>>

-----------------------------------------------------------------------------
(* The sweep                                                               *)

\* listRunning: the snapshot the whole pass works from.
Sweep(t) ==
  /\ Free(t)
  /\ Running
  /\ task' = [task EXCEPT ![t] = [Idle EXCEPT !.op = "sweep", !.pc = "row",
                                             !.alive = row.alive, !.backoff = row.backoff]]
  /\ UNCHANGED <<dbVars, hostVars, lease, exposed, fixed>>

\* A row a restart owns, or whose node is not there, is skipped.
SweepRow(t) ==
  /\ At(t, "row")
  /\ IF lease = None /\ Reachable THEN Goto(t, "probe") ELSE Ends(t)
  /\ UNCHANGED <<dbVars, hostVars, lease, exposed, fixed>>

\* A slip: a tmux that does not answer is taken for a dead pane.
ProbeOrPresumeDead(t) ==
  /\ At(t, "probe")
  /\ IF Reachable /\ pane.is = "live"
     THEN \/ IF place = "local" THEN Goto(t, "patch") ELSE Begins(t, "sweep", "fold")
          \/ task' = [task EXCEPT ![t] = [Idle EXCEPT !.op = "death", !.pc = "check", !.key = pane.key]]
     ELSE task' = [task EXCEPT ![t] = [Idle EXCEPT !.op = "death", !.pc = "check", !.key = pane.key]]
  /\ UNCHANGED <<dbVars, hostVars, lease, exposed, fixed>>

\* Only a pane that is not there is dead; no answer ends the pass for this row.
Probe(t) ==
  /\ At(t, "probe")
  /\ \/ /\ Reachable
        /\ pane.is = "live"
        /\ IF place = "local" THEN Goto(t, "patch") ELSE Begins(t, "sweep", "fold")
     \/ /\ Reachable
        /\ pane.is # "live"
        /\ task' = [task EXCEPT ![t] = [Idle EXCEPT !.op = "death", !.pc = "check", !.key = pane.key]]
     \/ Ends(t)
  /\ UNCHANGED <<dbVars, hostVars, lease, exposed, fixed>>

\* The local loop writes what its snapshot was missing, by id alone.
PatchAlive(t) ==
  /\ At(t, "patch")
  /\ RowBecomes([row EXCEPT !.alive = row.alive \/ ~task[t].alive,
                            !.backoff = IF task[t].alive /\ task[t].backoff > 0 THEN 0 ELSE row.backoff])
  /\ Ends(t)
  /\ UNCHANGED <<minted, enabled, hostVars, lease, exposed, fixed>>

\* #applyAgentAlive and the census' alive branch read the row again, and write
\* it only while it runs (updateIfRunning).
FoldAlive(t) ==
  /\ At(t, "fold")
  /\ \/ /\ ~Exists \/ lease # None
        /\ Ends(t)
        /\ UNCHANGED row
     \/ /\ row.status = "terminated" /\ lease = None
        /\ Goto(t, "bestKill")
        /\ UNCHANGED row
     \/ /\ Running /\ lease = None
        /\ row' = [row EXCEPT !.alive = TRUE,
                              !.backoff = IF row.alive /\ task[t].op = "sweep" THEN 0 ELSE row.backoff]
        /\ Ends(t)
  /\ Exposes(lease # None \/ \E u \in Tasks : MidStop(u))
  /\ UNCHANGED <<minted, enabled, hostVars, lease, fixed>>

\* #bestEffortKill: a pane the operator stopped while its node was away.
BestEffortKill(t) ==
  /\ At(t, "bestKill")
  /\ pane' = IF Reachable THEN NoPane ELSE pane
  /\ Ends(t)
  /\ UNCHANGED <<dbVars, hooks, online, drops, lease, exposed, fixed>>

-----------------------------------------------------------------------------
(* #applyDeath, which the sweep, the pane's report and the node's share    *)

\* Whether the evidence the handler acts on is about an earlier pane, a pane a
\* create has yet to spawn, or one another handler is already burying.
StaleEvidence(t) ==
  \/ task[t].key # pane.key
  \/ \E u \in Tasks \ {t} : InDeathHandler(u) \/ task[u].op = "create"

\* A slip: the handler trusts the caller's check of the lease.
CheckNoLease(t) ==
  /\ AtAs(t, "check", {"death"})
  /\ Goto(t, "fresh")
  /\ Exposes(lease = None /\ StaleEvidence(t))
  /\ UNCHANGED <<dbVars, hostVars, lease, fixed>>

\* The lease is consulted once, at the door.
CheckLease(t) ==
  /\ AtAs(t, "check", {"death"})
  /\ IF lease # None THEN Ends(t) ELSE Goto(t, "fresh")
  /\ Exposes(lease = None /\ StaleEvidence(t))
  /\ UNCHANGED <<dbVars, hostVars, lease, fixed>>

MayRestart == optIn /\ ~row.waiting /\ row.backoff < BackoffLimit

FreshRow(t) ==
  /\ AtAs(t, "fresh", {"death"})
  /\ IF Running
     THEN task' = [task EXCEPT ![t] = [Idle EXCEPT !.op = "death", !.backoff = row.backoff,
                       !.pc = IF row.alive THEN "claim" ELSE IF MayRestart THEN "schedule" ELSE "settled"]]
     ELSE Ends(t)
  /\ UNCHANGED <<dbVars, hostVars, lease, exposed, fixed>>

\* updateIfAlive: whoever clears `alive` tells the owner.
ClaimDeath(t) ==
  /\ AtAs(t, "claim", {"death"})
  /\ IF Exists /\ row.alive
     THEN row' = [row EXCEPT !.alive = FALSE]
     ELSE UNCHANGED row
  /\ Goto(t, "settled")
  /\ UNCHANGED <<minted, enabled, hostVars, lease, exposed, fixed>>

\* maybeAutoRestart puts the next attempt off before it makes this one.
Schedule(t) ==
  /\ At(t, "schedule")
  /\ RowBecomes([row EXCEPT !.waiting = TRUE])
  /\ Goto(t, "gates")
  /\ UNCHANGED <<minted, enabled, hostVars, lease, exposed, fixed>>

\* The row is read again; an offline node, a lockdown, a maintenance window or a
\* disabled harness defers.
Defer(t) ==
  /\ At(t, "gates")
  /\ Goto(t, "settled")
  /\ UNCHANGED <<dbVars, hostVars, lease, exposed, fixed>>

AutoRestart(t) ==
  /\ At(t, "gates")
  /\ Running /\ ~row.alive /\ Reachable
  /\ task' = [task EXCEPT ![t].pc = "revoke", ![t].next = row.backoff + 1]
  /\ UNCHANGED <<dbVars, hostVars, lease, exposed, fixed>>

\* A failed attempt counts, and is not put off.
UnwindAuto(t) ==
  /\ AtAs(t, "unwind", {"death"})
  /\ RowBecomes([row EXCEPT !.waiting = FALSE, !.backoff = task[t].backoff + 1])
  /\ Goto(t, "settled")
  /\ UNCHANGED <<minted, enabled, hostVars, lease, exposed, fixed>>

\* A row that will never come back loses its key.
NeverReturns(t) == ~optIn \/ task[t].backoff >= BackoffLimit

Bury(t) ==
  /\ At(t, "settled")
  /\ enabled' = IF NeverReturns(t) THEN Revoked ELSE enabled
  /\ IF place = "local" THEN Goto(t, "reap") ELSE Ends(t)
  /\ UNCHANGED <<row, minted, hostVars, lease, exposed, fixed>>

\* remain-on-exit keeps a dead pane's server; the local one is killed by name.
Reap(t) ==
  /\ At(t, "reap")
  /\ pane' = NoPane
  /\ Ends(t)
  /\ UNCHANGED <<dbVars, hooks, online, drops, lease, exposed, fixed>>

-----------------------------------------------------------------------------
(* The pane, its report and the node                                       *)

PaneDies ==
  /\ pane.is = "live"
  /\ pane' = [pane EXCEPT !.is = "dead"]
  /\ hooks' = hooks \cup {pane.key}
  /\ UNCHANGED <<dbVars, online, drops, lease, task, exposed, fixed>>

\* The pane-died hook reports with the pane's own key; the guard may refuse it.
Report(t) ==
  /\ Free(t)
  /\ \E k \in hooks :
       /\ hooks' = hooks \ {k}
       /\ IF Accepts(k) /\ Running
          THEN task' = [task EXCEPT ![t] = [Idle EXCEPT !.op = "death", !.pc = "check", !.key = k]]
          ELSE UNCHANGED task
  /\ UNCHANGED <<dbVars, pane, online, drops, lease, exposed, fixed>>

ReportIsLost ==
  /\ hooks # {}
  /\ hooks' \in {hooks \ {k} : k \in hooks}
  /\ UNCHANGED <<dbVars, pane, online, drops, lease, task, exposed, fixed>>

\* The node's exit watcher reports the death, if it can, and reaps the session itself.
NodeReports(t) ==
  /\ Free(t)
  /\ place = "agent"
  /\ pane.is = "dead"
  /\ pane' = NoPane
  /\ task' = IF online /\ Running
             THEN [task EXCEPT ![t] = [Idle EXCEPT !.op = "death", !.pc = "check", !.key = pane.key]]
             ELSE task
  /\ UNCHANGED <<dbVars, hooks, online, drops, lease, exposed, fixed>>

LinkDrops ==
  /\ place = "agent"
  /\ online
  /\ drops < MaxDrops
  /\ online' = FALSE
  /\ drops' = drops + 1
  /\ UNCHANGED <<dbVars, pane, hooks, lease, task, exposed, fixed>>

\* A node that comes back reports the panes it still supervises.
LinkReturns(t) ==
  /\ Free(t)
  /\ ~online
  /\ online' = TRUE
  /\ task' = CASE pane.is = "live" -> [task EXCEPT ![t] = [Idle EXCEPT !.op = "census", !.pc = "fold"]]
              [] pane.is = "dead" -> [task EXCEPT ![t] = [Idle EXCEPT !.op = "death", !.pc = "check", !.key = pane.key]]
              [] OTHER -> task
  /\ UNCHANGED <<dbVars, pane, hooks, drops, lease, exposed, fixed>>

\* nextRestartAt passes.
RetryFallsDue ==
  /\ row.waiting
  /\ row' = [row EXCEPT !.waiting = FALSE]
  /\ UNCHANGED <<minted, enabled, hostVars, lease, task, exposed, fixed>>

-----------------------------------------------------------------------------
Init ==
  /\ place \in Places
  /\ optIn \in BOOLEAN
  /\ row = NoRow
  /\ pane = [is |-> "none", key |-> NoKey]
  /\ minted = 0
  /\ enabled = {}
  /\ lease = None
  /\ online = TRUE
  /\ drops = 0
  /\ hooks = {}
  /\ task = [t \in Tasks |-> Idle]
  /\ exposed = FALSE

Operation(t) ==
  \/ Create(t) \/ Restart(t) \/ Stop(t) \/ Delete(t) \/ Sweep(t)
  \/ Report(t) \/ NodeReports(t) \/ LinkReturns(t)

Launching(t) ==
  \/ Mint(t) \/ Link(t) \/ LaunchSucceeds(t) \/ LaunchRefused(t) \/ LaunchBreaks(t)
  \/ Settle(t) \/ UnwindCreate(t) \/ Mark(t) \/ Retire(t)

Restarting(t) ==
  \/ KillOld(t) \/ Park(t) \/ UnwindRestart(t) \/ CannotCompose(t) \/ RotateKey(t)
  \/ Look(t) \/ Revive(t) \/ KillOrphan(t)

Stopping(t) ==
  \/ StopKills(t) \/ KillFails(t) \/ StopClaims(t)
  \/ DeleteKills(t) \/ DeleteRevokes(t) \/ DeleteRow(t)

Sweeping(t) ==
  \/ SweepRow(t) \/ Probe(t) \/ PatchAlive(t) \/ FoldAlive(t) \/ BestEffortKill(t)

Burying(t) ==
  \/ CheckLease(t) \/ FreshRow(t) \/ ClaimDeath(t) \/ Schedule(t) \/ Defer(t)
  \/ AutoRestart(t) \/ UnwindAuto(t) \/ Bury(t) \/ Reap(t)

Continue(t) == Launching(t) \/ Restarting(t) \/ Stopping(t) \/ Sweeping(t) \/ Burying(t)

Next ==
  \/ \E t \in Tasks : Operation(t) \/ Continue(t)
  \/ PaneDies \/ ReportIsLost \/ LinkDrops \/ RetryFallsDue

Spec == Init /\ [][Next]_vars

-----------------------------------------------------------------------------
(* What the operations promise                                             *)

Quiet == \A t \in Tasks : Free(t)

\* Once every operation has ended, no key opens the door of a subshell that is
\* not running: whichever of stop, delete, failed create and abandoned restart
\* wrote the row last, some revoke came after the last link.  It holds with no
\* exception.
NoKeyOutlivesItsRow == Quiet /\ ~Running => \A k \in Keys : ~Accepts(k)

\* Once every operation has ended, a stopped or deleted subshell has no live
\* pane, for the sweep walks running rows only and would never find it.  A pane
\* on an offline node waits for the census, and one whose row was deleted
\* meanwhile is out of everybody's reach.
StoppedPaneIsGone ==
  /\ Quiet /\ Reachable /\ ~exposed
  /\ \/ row.status = "terminated"
     \/ row.status = "gone" /\ place = "local"
  => pane.is # "live"

\* Once every operation has ended, a running pane can still speak for itself:
\* the key baked into it is the one the row links to, and is enabled.
LivePaneHoldsItsKey ==
  Quiet /\ Running /\ row.alive /\ pane.is = "live" /\ ~exposed => Accepts(pane.key)

\* The death of a pane is stamped, and its owner told, only when it is dead.
NoFalseDeath ==
  [][\A t \in Tasks :
       ClaimDeath(t) /\ row'.alive # row.alive => pane.is # "live" \/ exposed]_vars

\* What the restart's rollback says of itself: a restart that failed leaves a
\* truthful dead state, as a failed create does.
FailedRestartLeavesNoPane ==
  Quiet /\ Reachable /\ row.status = "terminated" => pane.is # "live"
=============================================================================
